SPECIFICATION Safety
CONSTANTS
  Workers = {w1, w2}
  Watchers = {}
  NumIds = 4
  DateOf <- SharedDates
  Known = {}
  Outcomes <- AllOk
  Incremental = TRUE
  Reconciles = TRUE
  PageSize = 1
  PagesPerStep = 2
  WindowPages = 1
  BatchSize = 2
  MaxAttempts = 2
  MaxPages = 0
  AiOn = TRUE
  AiSample <- SampleOne
  Redelivery = {TRUE}
  MaxShards = 8
  MaxCrashes = 1
  MaxAborts = 1
  MaxControls = 1
  MaxResumes = 1
INVARIANTS AiNotSkipped WatermarkCovered
SYMMETRY WorkerSymmetry
CHECK_DEADLOCK FALSE
