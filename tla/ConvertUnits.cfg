SPECIFICATION Spec
CONSTANTS
  Registry <- AllClasses
  MaxOmitted = 1
  Lackable <- AllLackable
  Excused <- Known
INVARIANTS
  SetBeforeUse
  Covariant
  DerivedAgree
  FailUnchanged
  CurveStatus
  CurveWave
CHECK_DEADLOCK FALSE
