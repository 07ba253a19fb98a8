\* One stop, and a request exactly at the limit of F's domain.
CONSTANTS
  NCache = 2
  CacheStep <- Unsaved
  NeverStop = FALSE
  MaxStep = 20
  Tmin <- Before5
  Tmax = 8
  Zeros = {3}
  BadStops = {}
  FailLate = FALSE
  MaxSteps = 12
  T0 = 0
  Dts = {0}
  Requests <- Around
  Ops = {"Integrate", "Forward", "Backward", "Find"}
  Inf = 99
  MaxStops = 4
SPECIFICATION Spec
INVARIANT StopsHeeded
