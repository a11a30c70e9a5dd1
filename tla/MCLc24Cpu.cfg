CONSTANTS
  ISA <- McIsa
  Code <- McCode
  Cells <- McCells
  Disk <- McDisk
  Images <- McImages
  Roms <- McRoms
  Drive = 1
  RegVals <- McRegVals
  Outside = {13}
SPECIFICATION Spec
INVARIANT TypeOK
CHECK_DEADLOCK FALSE
