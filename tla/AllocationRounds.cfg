SPECIFICATION Spec
CONSTANTS
  c1 = c1
  c2 = c2
  c3 = c3
  NoRef = NoRef
  Order <- ThreeContracts
  Amounts <- SmallAmounts
  Owed = {0, 4}
  Entered <- WholeCents
INVARIANT NoCentLost
INVARIANT ComputesTheRule
PROPERTY Returns
