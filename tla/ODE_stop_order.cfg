\* Two stops, and a client that goes back.
CONSTANTS
  NCache = 2
  CacheStep <- Unsaved
  NeverStop = FALSE
  MaxStep = 2
  Tmin <- Before5
  Tmax = 8
  Zeros = {3, 5}
  BadStops = {}
  FailLate = FALSE
  MaxSteps = 12
  T0 = 0
  Dts = {0}
  Requests <- Around
  Ops = {"Integrate"}
  Inf = 99
  MaxStops = 4
SPECIFICATION Spec
INVARIANT StopAtFirstZero
