SPECIFICATION Spec
CONSTANTS
  MiB = 2
  IntMax = 1000
  maxChunkSizeMiB = 4
  defaultPushMemoryBudgetMiB = 12
  defaultPullPrefetchBudget = 20
  maxBufferedChunkBytes = 5
  defaultTransferConcurrency = 4
  Exports <- MCExports
  PushModes <- MCPushModes
  PullModes <- MCPullModes
  maxSnapshotConfigSize = 8
  VMTypes <- MCVMTypes
  Qcow2Names = {"vda.qcow2"}
  RawNames = {"data.raw"}
INVARIANTS PushedIsPullable NeverMisassembled V1ReadersUnharmed PrefetchFits
