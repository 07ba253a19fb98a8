CONSTANTS
  Bases = {"", "E"}
  Names = {"a", "b", "c", "d", "e"}
  Params = {"p", "q"}
  UnitNames = {"", "g", "h"}
  Levels = 2
  Dirs = {"w", "l"}
  FileNames = {"m", "s", "u"}
  DataPath = "l"
  NoPath = ""
  NoUnits = ""
  NULL = NULL
  MaxCalls = 3
  Disks <- MCDisks
  Lists <- MCLists
SPECIFICATION Spec
INVARIANTS TypeOK OpenOnce IncludeScope ReadComplete UseAnswer NeverIntoItself MeaningKept
PROPERTIES StaleByStore CallsEnd
CHECK_DEADLOCK FALSE
