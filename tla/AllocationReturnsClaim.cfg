SPECIFICATION Spec
CONSTANTS
  c1 = c1
  c2 = c2
  c3 = c3
  NoRef = NoRef
  Order <- TwoContracts
  Amounts <- SmallAmounts
  Owed = {0, 4}
  Entered <- FractionsToo
PROPERTY Returns
