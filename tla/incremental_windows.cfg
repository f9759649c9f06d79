SPECIFICATION Spec
CONSTANTS
  Workers = {w1, w2}
  Shells = {}
  Scanners = {s1}
  MaxId = 4
  Gaps = {3}
  Flaky = {1}
  BatchSize = 3
  MaxSkips = 2
  MaxErrors = 2
  Every = 2
  MaxTrouble = 1
INVARIANTS CursorCovered WindowExclusive
PROPERTIES CursorForward CatchesUp
CHECK_DEADLOCK FALSE
