SPECIFICATION Spec
CONSTANTS
  Sizes <- MCSizes
  Totals <- MCTotals
  MaxRead = 3
  ZeroReads = TRUE
INVARIANT ExactSize
