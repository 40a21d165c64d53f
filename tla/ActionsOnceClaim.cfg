SPECIFICATION Spec
CONSTANTS
  Users = {u1}
  Requests = {q1, q2}
  Nobody = Nobody
  MaxActions = 1
  MaxWords = 2
  MaxFaults = 0
INVARIANT ExecutedOnce
CHECK_DEADLOCK FALSE
