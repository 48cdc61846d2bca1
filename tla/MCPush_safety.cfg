SPECIFICATION Spec
CONSTANTS
  Exports <- SafetyExports
  Existing <- SomeExisting
  Units = {"a", "b"}
  MaxEntries = 3
  MaxChunks = 3
  Workers = 2
  Options <- AllOptions
  RawBufs = {r1, r2, r3}
  OutBufs = {o1, o2, o3}
  NoBuf = NoBuf
SYMMETRY BufSymmetry
INVARIANTS BlobsIntact PublishedComplete ExclusiveBuffers
  NothingInFlight TakesNeverBlock CanceledOnlyByCaller
PROPERTY ImplementsPushPublish
