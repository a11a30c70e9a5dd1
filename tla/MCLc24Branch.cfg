CONSTANTS
  MaxDepth = 3
  ISA <- McIsa
  Code <- McCode
  Cells <- McCells
  Disk = {}
  Images <- McImages
  Roms <- McRoms
  Drive = 0
  RegVals <- McRegVals
  Outside = {}
SPECIFICATION BranchSpec
INVARIANTS Aligned FlagsShowRelation
PROPERTIES  JumpsDecide
CHECK_DEADLOCK FALSE
