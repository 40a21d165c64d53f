SPECIFICATION Spec
CONSTANTS
  Contracts = {c1}
  Schedulers = {s1}
  Manuals = {u1}
  NoContract = NoContract
  NoRunner = NoRunner
  Modes = {TRUE}
  MaxFaults = 0
  MaxRunners = 2
  MaxPayments = 0
INVARIANT RemindedOnce
CHECK_DEADLOCK FALSE
