SPECIFICATION BoardSpec
CONSTANTS
  Subjects = {"subject", "other"}
  Payloads <- MCPayloads
  Titles = {"title"}
  SameWork <- MCSameWork
  LastQuarter = 2
  MaxRuns = 2
  MaxFailing = 1
PROPERTIES CalendarNeverEmptied BoardRecovers
