SPECIFICATION Spec
CONSTANTS
  Workers = {w1, w2}
  Users = {1, 2}
  Author = 1
  MaxComments = 3
  MaxCalls = 4
  MaxSocial = 2
INVARIANTS RepliesCounted HiddenOutOfFeed BlockStopsFollow
PROPERTIES NoReplyUnderHidden CallsReturn
CHECK_DEADLOCK FALSE
