SPECIFICATION ImageSpec
CONSTANTS
  Sizes <- MCSizes
  Totals <- MCTotals
  MaxRead = 3
  ZeroReads = FALSE
  Images <- MCImages
INVARIANTS ExactSize NoFalseAlarm ImageWhole
