CONSTANTS
  SECTOR_SIZE = 2
  SectorsPerCluster = 2
  MAX_FILE_HANDLES = 2
  Sectors <- McSectors
  Addressable = 13
  rootDirLba = 2
  g_DataSectionLba = 4
  g_Fat <- McFat
  Behind = {0, 9}
  ENDS = 9
  Extended <- McExtended
  Paths <- McPaths
  Counts = {3}
  MaxFailures = 1
SPECIFICATION Spec
INVARIANTS TypeOK HandlesHeld ReadsInOrder 
PROPERTY OpenReturns
CHECK_DEADLOCK FALSE
