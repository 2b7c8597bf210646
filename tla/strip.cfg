SPECIFICATION StripSpec
CONSTANTS
  one = one
  two = two
  Command = {c1, c2}
  File = {one, two}
  Edited = {one, two}
  Text <- AllTexts
  Request <- AllRequests
  Toml <- TheToml
SYMMETRY Symmetry
INVARIANTS
  UnprovenStaysChecked
  VerdictIsAboutTheFile
CHECK_DEADLOCK FALSE
