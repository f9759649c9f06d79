SPECIFICATION Spec
CONSTANTS
  Workers = {w1, w2}
  NumMembers = 4
  Flaky = {2}
  BatchSize = 3
  MaxErrors = 2
  MaxTrouble = 1
  MaxChanges = 1
INVARIANTS OneBatchAtATime PrefixAttempted
PROPERTY DayFinishes
CHECK_DEADLOCK FALSE
