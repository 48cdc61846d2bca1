SPECIFICATION Spec
CONSTANTS
  MiB = 2
  IntMax = 64
  maxChunkSizeMiB = 4
  defaultPushMemoryBudgetMiB = 12
  defaultPullPrefetchBudget = 16
  maxBufferedChunkBytes = 8
  defaultTransferConcurrency = 2
  Options <- ZstdOptions
  MaxOverhead = 1
  AppendSlack = 1
INVARIANT PoolsWithinBudget
