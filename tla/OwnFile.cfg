SPECIFICATION StorageSpec
CONSTANTS
  k1 = k1  k2 = k2  k3 = k3  k4 = k4  other = other
  Key = {k1, k2, k3, k4, other}
  Val = {v}
  HashOf <- MCHashOf
  PolicyNew <- MCPolicyNew
  PolicyNext <- MCPolicyNext
  UsizeMax <- MCUsizeMax
  InitCounts = {9}
  Counts = {}
  Spans = {}
  Loads = {5}
  Ops = {"insert", "remove"}
  HasherMayPanic = FALSE
  Bits = 4
  DefaultLoad = 5
  ForeignFiles = {}
  Empty = Empty  Deleted = Deleted  LengthError = LengthError
  Panicked = Panicked  None = None
INVARIANT OwnFileAccepted
