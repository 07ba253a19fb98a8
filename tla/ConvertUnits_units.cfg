SPECIFICATION Spec
CONSTANTS
  Registry <- JustDavisProducts
  MaxOmitted = 1
  Lackable <- AllLackable
  Excused <- Nothing
INVARIANT
  Covariant
CHECK_DEADLOCK FALSE
