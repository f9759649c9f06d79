SPECIFICATION Spec
CONSTANTS
  Workers = {w1, w2}
  Watchers = {}
  NumIds = 2
  DateOf <- SharedDates
  Known = {}
  Outcomes <- Mixed
  Incremental = FALSE
  Reconciles = TRUE
  PageSize = 1
  PagesPerStep = 1
  WindowPages = 80
  BatchSize = 2
  MaxAttempts = 2
  MaxPages = 0
  AiOn = FALSE
  AiSample <- NoSample
  Redelivery = {TRUE}
  MaxShards = 6
  MaxCrashes = 1
  MaxAborts = 0
  MaxControls = 1
  MaxResumes = 3
INVARIANTS CompletedMeansDone CountersNeverOverstate
PROPERTIES FinishedWorkKept ComesToRest
CHECK_DEADLOCK FALSE
