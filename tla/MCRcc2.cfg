CONSTANTS
  Sources <- McSources
  Library <- McLibrary
  Data <- McData
  Programs <- McPrograms
  ISA <- McIsa
  Code <- McCode
  Cells <- McCells
  Disk = {}
  Images <- McImages
  Roms <- McRoms
  Drive = 0
  RegVals <- McRegVals
  Outside = {65}
SPECIFICATION ProgramSpec
INVARIANTS CompiledMeansSource ExecutedAsWritten
PROPERTY Terminates
CHECK_DEADLOCK FALSE
