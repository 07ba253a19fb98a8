\* Brackets of up to 17 points, so that Newton steps are tried twice.
CONSTANTS
  Xlo <- Lowest
  Xhi = 12
  Functions <- SomeFunctions
  Failing <- SomeFailing
  Goals = {0, 2}
  Ends <- SomeEnds
  Guesses <- SomeGuesses
SPECIFICATION Spec
INVARIANTS
  TypeOK
  Refined
  CyclesBounded
PROPERTIES
  Narrowing
  SearchEnds
