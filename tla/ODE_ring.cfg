\* Eight entries, an outer state every three steps, trial steps; the ring is
\* carried over into the next outer interval, over a retrace of the last one;
\* F fails behind accepted steps.
CONSTANTS
  NCache = 8
  CacheStep = 3
  NeverStop = TRUE
  MaxStep = 4
  Tmin <- Before11
  Tmax = 11
  Zeros = {}
  BadStops = {}
  FailLate = TRUE
  MaxSteps = 16
  T0 = 0
  Dts <- Both
  Requests <- Wide
  Ops = {"Integrate", "Forward", "Backward", "Find"}
  Inf = 99
  MaxStops = 4
SPECIFICATION Spec
INVARIANTS
  RingContiguous
  AnswerOnStep
  OuterSorted
  NoBug
