SPECIFICATION Spec
CONSTANTS
  Messages = {m1}
  Handlers = {h1}
  NoMessage = NoMessage
  OutboxHandlers = {}
  MaxAllocations = 1
  MaxFaults = 1
  MaxRepeats = 0
INVARIANT PaidOnce
CHECK_DEADLOCK FALSE
