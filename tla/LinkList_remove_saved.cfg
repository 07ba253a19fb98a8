CONSTANTS
  Lists = {A}
  Links = {p1, p2, p3}
  Objects = {x}
  Null = Null
  MaxSave = 2
  SaveTwice = TRUE
SPECIFICATION Spec
INVARIANT SavedAlive
