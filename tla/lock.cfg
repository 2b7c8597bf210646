SPECIFICATION FairLockSpec
CONSTANTS
  b1 = b1
  b2 = b2
  b3 = b3
  p1 = p1
  p2 = p2
  Builder <- ThreeBuilders
  Pid = {p1, p2}
  PidOf <- TwoThreads
  NoOwner = NoOwner
  Faults = {"age", "exit", "crash", "crash_in_create", "write_error"}
INVARIANTS
  ExclusiveUntilReclaim
  NoOrphanedLock
PROPERTIES
  LockNotStolen
  EveryAcquireEndsUnlessWedged
CHECK_DEADLOCK FALSE
