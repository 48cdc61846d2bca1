SPECIFICATION Spec
CONSTANTS
  Blobs = {"a", "b", "c", "d"}
  Plans <- SafetyPlans
  MaxChunks = 4
  Window = 3
  InBufs = {i1, i2, i3}
  OutBufs = {o1, o2, o3, o4}
  NoBuf = NoBuf
SYMMETRY BufSymmetry
INVARIANTS TarFaithful ExclusiveBuffers NothingInFlight
  DecoderOutlivesFetches TakesNeverBlock
