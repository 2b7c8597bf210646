SPECIFICATION ToolSpec
CONSTANTS
  Tool = {"native-exe", "task_rmd_tracking", "fmt_sv0", "milestones", "guards"}
  Case <- SomeCase
  Split <- SomeSplit
  Path <- SomePath
  File <- SomeFile
  Batch <- SomeBatch
  Client = {"c1", "c2"}
  TaskFile = {"t1", "t2"}
  TTL = 1
  BuildTime = 1
  MaxClock = 3
  MaxEdit = 1
  MaxBuild = 2
  Revision = {"r1", "r2", "r3", "r4"}
  Facts <- SomeFacts
  Fetched = {"r1", "r2", "r3"}
  Policy <- SomePolicy
  Earlier <- SomeEarlier
  MaxChange = 3
  Survey <- SomeSurvey
  VmStem = {"a", "b"}
  Jobs = 2
  Sha = {"s1", "s2"}
  Modules <- SomeModules
  MaxWork = 3
  Catalogue <- SomeCatalogue
  Needle <- SomeNeedle
  Exhibit <- SomeExhibit
  MaxSpan = 5
  MaxTouch = 3
  Content <- SomeContent
  Size <- SomeSize
  WarningPolicy <- SomeWarningPolicy
  Frail = {"largest"}
  MaxVersion = 1
INVARIANTS
  ParseMeansGrammar
  EntryIsTheOneMain
  BuildsWhatWasAsked
  DigestIsTheFile
  FormatIsSafe
  GreenCatalogueAnswers
  GuardsReadTheText
CHECK_DEADLOCK FALSE
