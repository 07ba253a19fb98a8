\* The default ring of two entries, one stop, a stop condition that is not
\* finite, requests on and beyond the limits of F's domain.
CONSTANTS
  NCache = 2
  CacheStep <- Unsaved
  NeverStop = FALSE
  MaxStep = 20
  Tmin <- Before5
  Tmax = 8
  Zeros = {3}
  BadStops <- NotFinite3
  FailLate = FALSE
  MaxSteps = 12
  T0 = 0
  Dts <- Back
  Requests <- Around
  Ops = {"Integrate", "Forward", "Backward", "Find", "IgnoreStop"}
  Inf = 99
  MaxStops = 4
SPECIFICATION Spec
INVARIANTS
  TypeOK
  NaturalStop
  NoMissedStop
PROPERTY
  CallReturns
