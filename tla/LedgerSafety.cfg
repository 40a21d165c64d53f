SPECIFICATION Spec
CONSTANTS
  c1 = c1
  c2 = c2
  Order <- TwoContracts
  Total <- Totals
  Daily <- Dailies
  NoRef = NoRef
  NoAmount = NoAmount
  Amounts = {3, 4}
  Runs = {r1, r2}
  Reviewers = {v1, v2}
  MaxReviews = 2
  MaxFaults = 1
SYMMETRY Symmetry
CHECK_DEADLOCK FALSE
INVARIANT FlagsAgree
INVARIANT NoUnreviewedMoney
INVARIANT EachRunPaysItsAmount
INVARIANT CompletedIsEarned
INVARIANT ReceiptsAddUp
INVARIANT RepliesAreTrue
