SPECIFICATION HSpec
CONSTANTS
  ka = ka
  kb = kb
  kc = kc
  kd = kd
  v0 = v0
  va = va
  vb = vb
  vLong = vLong
  w = w
  r = r
  NoKey = NoKey
  NoValue = NoValue
  Keys <- MCKeys
  Values <- MCValues
  LongKeys <- MCLongKeys
  LongValues <- MCLongValues
  Hash <- MCHash
  NumSlots = 4
  Clients = {w, r}
  Commands <- WriterAndReader
  AskedKeys = {ka, kb}
  AskedValues = {va, vb, vLong}
  FailingClients = {w, r}
  MaxCommands = 2
  InitialTables <- MCPreloaded
CHECK_DEADLOCK FALSE
INVARIANTS TypeOK UniqueKeys AcknowledgedSetSticks CountsAddUp
PROPERTIES GetIsAtomic
