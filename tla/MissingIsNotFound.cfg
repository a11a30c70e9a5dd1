CONSTANTS
  SECTOR_SIZE = 2
  SectorsPerCluster = 2
  MAX_FILE_HANDLES = 2
  Sectors <- McSectors
  Addressable = 13
  rootDirLba = 2
  g_DataSectionLba = 4
  g_Fat <- McFat
  Behind = {0, 9}
  ENDS = 9
  Extended <- McExtended
  Paths <- McAllPaths
  Counts = {3}
  MaxFailures = 0
SPECIFICATION Spec
PROPERTY MissingIsNotFound
CHECK_DEADLOCK FALSE
