SPECIFICATION Spec
CONSTANTS
  W = 8
  Levels = {"High", "Low"}
INVARIANTS OffsetsInvert FallbackAgrees WordHelpersAgree BlockBounded
PROPERTY IsSparseArray
