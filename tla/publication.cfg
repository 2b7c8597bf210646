SPECIFICATION FairPubSpec
CONSTANTS
  b1 = b1
  b2 = b2
  p1 = p1
  p2 = p2
  Builder <- TwoBuilds
  Pid = {p1, p2}
  PidOf <- OwnProcess
  NoOwner = NoOwner
  Prior = Prior
  Faults = {"age", "exit", "crash", "crash_in_create", "write_error"}
PROPERTIES
  EveryBuildIsDecided
CHECK_DEADLOCK FALSE
