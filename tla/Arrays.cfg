SPECIFICATION FairSpec
CONSTANTS
  v1 = v1  v2 = v2
  Bits = 2
  BucketCount = 5
  Value = {v1, v2}
  Spans = {0, 1, 2, 6}
  Edits <- MCEdits
  MayPanic = TRUE
  Empty = Empty  Deleted = Deleted  Panicked = Panicked  None = None
INVARIANTS TypeOK Packed CountersAgree CursorOnValue
PROPERTIES IsFlatTable WalkReturns
