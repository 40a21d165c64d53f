SPECIFICATION Spec
CONSTANTS
  Contracts = {c1, c2}
  Schedulers = {s1, s2}
  Manuals = {u1}
  NoContract = NoContract
  NoRunner = NoRunner
  Modes = {FALSE, TRUE}
  MaxFaults = 2
  MaxRunners = 2
  MaxPayments = 1
SYMMETRY Symmetry
INVARIANT LogTellsTheTruth
INVARIANT NobodyForgotten
INVARIANT LockWhileRunning
PROPERTY PaidIsLeftAlone
CHECK_DEADLOCK FALSE
