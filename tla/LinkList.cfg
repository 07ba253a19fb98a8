\* Two lists over one heap, three links, two objects, save stacks of depth two: enough for
\* every place of the cursor and of the saved cursor in lists of up to three
\* links, and for every split of three links over the two lists.
CONSTANTS
  Lists = {A, B}
  Links = {p1, p2, p3}
  Objects = {x, y}
  Null = Null
  MaxSave = 2
  SaveTwice = FALSE
SPECIFICATION Spec
SYMMETRY Symmetric
INVARIANTS
  TypeOK
  SavedAlive
  RingInv
  HeaderInv
  ObjectsAlive
PROPERTY
  ImplementsCursorList
