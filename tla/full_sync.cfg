SPECIFICATION Spec
CONSTANTS
  Workers = {t1, t2}
  Shards <- MCShards
  Bad = {2, 3}
  MaxFailures = 1
  Interval = 2
  LockTtl = 3
  MaxStalls = 2
INVARIANTS NoBurst NothingForgotten
PROPERTY PhaseEnds
CHECK_DEADLOCK FALSE
