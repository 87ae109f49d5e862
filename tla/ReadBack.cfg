SPECIFICATION FairStorageSpec
CONSTANTS
  k1 = k1  k2 = k2  k3 = k3  k4 = k4  other = other
  Key = {k1, k2, k3, k4}
  Val = {v}
  HashOf <- MCHashOf
  PolicyNew <- MCPolicyNew
  PolicyNext <- MCPolicyNext
  UsizeMax <- MCUsizeMax
  InitCounts = {0}
  Counts = {}
  Spans = {}
  Loads = {1, 8}
  Ops = {"remove", "insert", "set_max_load_factor"}
  HasherMayPanic = TRUE
  Bits = 4
  DefaultLoad = 5
  ForeignFiles <- MCForeignFiles
  Empty = Empty  Deleted = Deleted  LengthError = LengthError
  Panicked = Panicked  None = None
INVARIANTS ReadBackWhole 
PROPERTIES Persists ReadWithoutGrowth ReadReturns
