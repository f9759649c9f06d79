SPECIFICATION Safety
CONSTANTS
  Workers = {w1}
  Watchers = {v1}
  NumIds = 3
  DateOf <- SharedDates
  Known = {3, 9}
  Outcomes <- AllOk
  Incremental = FALSE
  Reconciles = TRUE
  PageSize = 2
  PagesPerStep = 1
  WindowPages = 80
  BatchSize = 2
  MaxAttempts = 2
  MaxPages = 1
  AiOn = TRUE
  AiSample <- SampleOne
  Redelivery = {TRUE}
  MaxShards = 1
  MaxCrashes = 0
  MaxAborts = 0
  MaxControls = 1
  MaxResumes = 0
INVARIANTS WorkersExclusive AiAtMostOnce
PROPERTIES StoppedForGood MissingOnlyIfUnlisted
CHECK_DEADLOCK FALSE
