SPECIFICATION FairSpec
CONSTANTS
  Blobs = {"a", "b", "c", "d"}
  Plans <- LivePlans
  MaxChunks = 3
  Window = 2
  InBufs = {i1, i2}
  OutBufs = {o1, o2, o3}
  NoBuf = NoBuf
PROPERTIES CancelReturns DrainReturns HealthyReturns ImplementsImportStream
