SPECIFICATION CacheSpec
CONSTANTS
  silent = silent
  failing = failing
  printing = printing
  instrumented = instrumented
  Worker = {w1, w2}
  Program <- SomePrograms
  Behaviour <- TheirBehaviour
  Instrumented = {instrumented}
  Faults = {"prune", "kill", "store_error", "cc_error"}
SYMMETRY Symmetry
INVARIANTS
  VerdictsAreTrueUntilPruned
  EntriesAreTrue
CHECK_DEADLOCK FALSE
