SPECIFICATION FairSpec
CONSTANTS
  t1 = t1  t2 = t2  t3 = t3  ka = ka  kb = kb  va = va  vb = vb
  Threads = {t1, t2, t3}
  Keys = {ka, kb}
  Values = {va, vb}
  NoValue = NoValue
  NoThread = NoThread
INVARIANTS SizeIsExact
PROPERTIES Linearizable CallsGetThrough
