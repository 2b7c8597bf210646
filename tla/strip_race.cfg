SPECIFICATION StripSpec
CONSTANTS
  one = one
  two = two
  Command = {c1, c2}
  File = {one, two}
  Edited = {}
  Text <- OneClauseALine
  Request <- TwoCompilations
  Toml <- TheToml
SYMMETRY Symmetry
INVARIANTS
  OnlyProvenIsStripped
CHECK_DEADLOCK FALSE
