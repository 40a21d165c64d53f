SPECIFICATION FairSpec
CONSTANTS
  Rows = {m1}
  Replicas = {w1, w2}
  Admins = {a1}
  NoRow = NoRow
  NoReplica = NoReplica
  MaxRetries = 2
  BatchSize = 1
  SendRetries = 0
  LockMayDrop = TRUE
  Punctual = FALSE
  MaxFaults = 1
  MaxRequeues = 1
PROPERTY EventuallySettled
PROPERTY LockFreedAgain
