SPECIFICATION NativeSpec
CONSTANTS
  b1 = b1
  b2 = b2
  p1 = p1
  p2 = p2
  Builder <- TwoBuilds
  Pid = {p1, p2}
  PidOf <- OwnProcess
  NoOwner = NoOwner
  Prior = Prior
  NoFile = NoFile
  Request <- Requests
  Faults = {"age", "exit", "crash", "write_error"}
INVARIANTS
  ExitCodeTellsPublication
  FailureLeavesOrder
PROPERTIES
  SoloBuildIsConsistent
  ImplementsStore
CHECK_DEADLOCK FALSE
