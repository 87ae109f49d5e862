SPECIFICATION FairSpec
CONSTANTS
  k1 = k1  k2 = k2  k3 = k3  k4 = k4
  Key = {k1, k2, k3, k4}
  Val = {v}
  HashOf <- MCHashOf
  PolicyNew <- MCPolicyNew
  PolicyNext <- MCPolicyNext
  UsizeMax <- MCUsizeMax
  InitCounts = {0, 3}
  Counts = {0, 5, 6}
  Spans = {0, 1, 2}
  Loads = {5, 8}
  Ops = {"get", "remove", "insert", "try_emplace", "insert_or_assign",
         "clear", "erase_all",
         "pop_front", "retain", "erase_range", "rehash", "reserve",
         "set_max_load_factor"}
  HasherMayPanic = TRUE
  Empty = Empty  Deleted = Deleted  LengthError = LengthError
  Panicked = Panicked  None = None
PROPERTIES IsMap InsertReturns
