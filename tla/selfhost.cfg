SPECIFICATION FairLoopSpec
CONSTANTS
  w1 = w1
  w2 = w2
  Worker = {w1, w2}
  Loop = {"l1", "l2"}
  Version = {1, 2}
  Layout <- SomeLayouts
  Miscompiled <- SomeMiscompiled
  Begin <- SomeBeginnings
  Jobs = 2
  MaxEvents = 2
INVARIANTS
  PassIsTrue
  EntryIsWhatItsKeySays
  OkMeansEveryFilePassed
PROPERTIES
  EveryLoopEnds
CHECK_DEADLOCK FALSE
