SPECIFICATION ArtSpec
CONSTANTS
  Driver = {d1, d2}
  Kind = {"native", "vm"}
  MaxClock = 2
  MaxEdits = 1
SYMMETRY DriverPermutations
INVARIANTS
  FreshIsCurrent
PROPERTIES
  ProceedsWithCurrent
CHECK_DEADLOCK FALSE
