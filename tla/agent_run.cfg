SPECIFICATION RunSpec
CONSTANTS
  MaxSteps = 2
  MaxCalls = 2
  MaxRuns = 2
  MaxDeaths = 2
INVARIANTS RequestsWellFormed ResultIsLastStep
PROPERTY DriverReturns
CHECK_DEADLOCK FALSE
