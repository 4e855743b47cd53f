SPECIFICATION HFairSpec
CONSTANTS
  ka = ka
  kb = kb
  kc = kc
  kd = kd
  v0 = v0
  va = va
  vb = vb
  vLong = vLong
  w = w
  r = r
  NoKey = NoKey
  NoValue = NoValue
  Keys <- MCKeys
  Values <- MCValues
  LongKeys <- MCLongKeys
  LongValues <- MCLongValues
  Hash <- MCHash
  NumSlots = 2
  Clients = {w, r}
  Commands <- GetAndSet
  AskedKeys = {ka, kb}
  AskedValues = {va}
  FailingClients = {w}
  MaxCommands = 2
  InitialTables <- MCCrowded
CHECK_DEADLOCK FALSE
INVARIANTS ProbeReachable
PROPERTIES PresentKeysAreFound SlotsNeverEmptied CommandsReturn
