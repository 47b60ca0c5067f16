SPECIFICATION ReadingSpec
CONSTANTS
  Capacity = 2
  NoValue = 0
  NoLimit = 0
  Trimmed <- MCTrimmed
  MAX_SCRIPT_DEPTH = 4
  Trees <- MCTrees
  Requests <- MCRequests
  none = none
  NoTime = none
  NotGiven = notGiven
  Blank = blank
  Value <- MCValue
  HistoryCapacity = 3
  PollCapacity = 2
  Counts <- MCCounts
  Times <- MCTimes
INVARIANTS
  AnswerAsSpecified
