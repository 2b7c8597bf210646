SPECIFICATION FairHookSpec
CONSTANTS
  Guards = 3
  Jobs = 2
  Heavy = {3}
  Nature <- SomeNatures
  Push <- SomePushes
  Commit <- SomeCommits
  Setting <- SomeSettings
  Failing <- SomeFailures
INVARIANTS
  GuardsTellTheTruth
  LetThroughIsChecked
  RefusalHasAReason
PROPERTIES
  EveryHookDecides
CHECK_DEADLOCK FALSE
