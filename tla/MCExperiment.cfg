SPECIFICATION Spec
CONSTANTS
  ka = ka  kb = kb  s1 = s1  s2 = s2
  Drivers <- MCDrivers
  Clients = 2
  Ops = 3
  Warmup = 1
  Keys = {ka, kb}
  Preloaded = {ka}
  Scripts = {s1, s2}
  Measured = s1
  MaxSamples = 1
  MaxWork = 1
  MaxStops = 2
  Control = Control
  NoRun = NoRun
  NoRequest = NoRequest
INVARIANTS EveryOperationCounted SuccessMeansComplete RowsCoverRuns SamplesAgree
CHECK_DEADLOCK FALSE
