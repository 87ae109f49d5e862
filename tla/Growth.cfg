SPECIFICATION FairSpec
CONSTANTS
  Kinds = {"PowerOfTwo", "Mod", "Prime"}
  WordBits = 7
  Precision = 5
  Factor = 2
  Num = 3
  Den = 2
  PrimesTable <- MCPrimesTable
  LengthError = LengthError
INVARIANTS TypeOK MeetsContract Rebuildable ProbesCover ThresholdsLeaveRoom
PROPERTIES GrowsGeometrically GrowthEnds
