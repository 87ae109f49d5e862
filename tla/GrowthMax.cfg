SPECIFICATION Spec
CONSTANTS
  Kinds = {"PowerOfTwo"}
  WordBits = 7
  Precision = 5
  Factor = 2
  Num = 3
  Den = 2
  PrimesTable <- MCPrimesTable
  LengthError = LengthError
INVARIANT MaxReachable
