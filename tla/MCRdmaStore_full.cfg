SPECIFICATION Spec
CONSTANTS
  ka = ka
  kb = kb
  kc = kc
  kd = kd
  kLong = kLong
  va = va
  vb = vb
  vLong = vLong
  NoKey = NoKey
  NoValue = NoValue
  NumSlots = 4
  Keys <- MCKeys
  Values <- MCValues
  LongKeys <- MCLongKeys
  LongValues <- MCLongValues
  Hash <- MCHash
INVARIANT RefusedOnlyWithoutRoom
SYMMETRY MCSymmetry
