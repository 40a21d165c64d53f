SPECIFICATION FairSpec
CONSTANTS
  Messages = {m1}
  Handlers = {h1, h2}
  NoMessage = NoMessage
  OutboxHandlers = {h1}
  MaxAllocations = 2
  MaxFaults = 2
  MaxRepeats = 1
INVARIANT SecondWorkHasACause
INVARIANT HistoryOnlyAfterSuccess
INVARIANT OpenRunsAccounted
PROPERTY EventuallySettled
CHECK_DEADLOCK FALSE
