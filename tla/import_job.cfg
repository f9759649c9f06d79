SPECIFICATION Spec
CONSTANTS
  Runners = {r1, r2}
  Task = task
  NoOwner = no_owner
  Redelivery = {TRUE, FALSE}
  MaxCopies = 1
  MaxTrouble = 2
INVARIANT SucceededIsCounted
PROPERTY JobKeepsPromise
CHECK_DEADLOCK FALSE
