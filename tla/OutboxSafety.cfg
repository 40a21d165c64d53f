SPECIFICATION Spec
CONSTANTS
  Rows = {m1, m2}
  Replicas = {w1, w2}
  Admins = {a1}
  NoRow = NoRow
  NoReplica = NoReplica
  MaxRetries = 2
  BatchSize = 2
  SendRetries = 1
  LockMayDrop = FALSE
  Punctual = TRUE
  MaxFaults = 2
  MaxRequeues = 1
SYMMETRY Symmetry
INVARIANT DeliveredByOne
INVARIANT DuplicatesHaveACause
INVARIANT RetryBudget
PROPERTY NoQueueJumping
PROPERTY KeepsPromise
