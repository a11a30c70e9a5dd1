CONSTANTS
  ISA <- McIsa
  Code <- McCode
  Cells <- McCells
  Disk <- McDisk
  Images <- McImages
  Roms <- McRoms
  Drive = 1
  RegVals <- McRegVals
  Outside = {13}
  Args <- McArgs
  Names <- McNames
  Given <- McGiven
  Signed = {"os", "rom"}
SPECIFICATION MachineSpec
INVARIANT SavesTheDisk
CHECK_DEADLOCK FALSE
