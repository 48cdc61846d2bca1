SPECIFICATION FairSpec
CONSTANTS
  Exports <- LiveExports
  Existing <- NoneExisting
  Units = {"a", "b"}
  MaxEntries = 3
  MaxChunks = 3
  Workers = 2
  Options <- RawChunks
  RawBufs = {r1, r2, r3}
  OutBufs = {o1, o2, o3}
  NoBuf = NoBuf
PROPERTIES CancelReturns TaskErrReturns
