SPECIFICATION FairSpec
CONSTANTS
  Word <- MCWord
  Atoi <- MCAtoi
  Itoa <- MCItoa
  Pods <- MCPods
  Policies = {"", "always", "main-only", "never"}
  Layers <- MCLayers
  MaxFaults = 2
INVARIANTS TagsComplete NoStateLost PolicyHonoured
PROPERTIES CleanupConverges PushFailsOnlyByFault
