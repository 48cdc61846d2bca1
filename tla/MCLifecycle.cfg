SPECIFICATION FairSpec
CONSTANTS
  MaxGen = 2
  MaxFaults = 2
  StaleBase = FALSE
INVARIANTS CompletionIsMine NoTailingMessage
PROPERTY ReportsSettle
