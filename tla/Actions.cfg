SPECIFICATION FairSpec
CONSTANTS
  Users = {u1, u2}
  Requests = {q1, q2}
  Nobody = Nobody
  MaxActions = 2
  MaxWords = 2
  MaxFaults = 1
INVARIANT StatusTellsTheTruth
INVARIANT AuditBracketsEffects
INVARIANT ContractOnce
INVARIANT NoExecutionWithoutConsent
PROPERTY EventuallyClosed
CHECK_DEADLOCK FALSE
