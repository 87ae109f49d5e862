SPECIFICATION FairApiSpec
CONSTANTS
  k1 = k1  k2 = k2  k3 = k3  v = v  w = w
  Key = {k1, k2, k3}
  Val = {v, w}
  HashOf <- MCHashOf
  PolicyNew <- MCPolicyNew
  PolicyNext <- MCPolicyNext
  UsizeMax <- MCUsizeMax
  InitCounts = {0}
  Counts = {0, 8}
  Spans = {0, 1}
  Loads = {2, 9}
  Ops = {"get", "remove", "insert", "try_emplace", "insert_or_assign", "get_mut",
         "clear", "erase_all",
         "pop_front", "retain", "erase_range", "rehash", "reserve",
         "set_max_load_factor"}
  Batches <- MCBatches
  OtherMaps <- MCOtherMaps
  HasherMayPanic = TRUE
  Empty = Empty  Deleted = Deleted  LengthError = LengthError
  Panicked = Panicked  None = None
INVARIANTS ExtendKeepsFirst EqualityIsContents
PROPERTIES IsMapThroughout ExtendWithoutGrowth ApiReturns
