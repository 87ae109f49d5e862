SPECIFICATION Spec
CONSTANTS
  k1 = k1  k2 = k2  k3 = k3  k4 = k4
  Key = {k1, k2, k3, k4}
  Val = {v}
  HashOf <- MCHashOf
  PolicyNew <- MCPolicyNew
  PolicyNext <- MCPolicyNext
  UsizeMax <- MCUsizeMax
  InitCounts = {0, 3}
  Counts = {0, 3, 8}
  Spans = {0, 1, 2}
  Loads = {2, 5, 9}
  Ops = {"get", "remove", "insert", "try_emplace", "clear", "erase_all",
         "pop_front", "retain", "erase_range", "rehash", "reserve",
         "set_max_load_factor"}
  HasherMayPanic = TRUE
  Empty = Empty  Deleted = Deleted  LengthError = LengthError
  Panicked = Panicked  None = None
INVARIANTS
  TypeOK EveryValueFindable UniqueKeys CountersAgree RoomLeft ThresholdsFresh
  ProbeTrail ResizeKeepsPromise NeverNests
PROPERTY OnlyResizeShrinks
SYMMETRY MCSymmetry
