CONSTANTS
  Clusters <- McClusters
  Inside <- McInside
  StrayCluster = 2
  Last = 3
  DirNames = {"d"}
  FileNames <- McFileNames
  Texts = {"p", "q"}
  Paths <- McPaths
  Contents <- McContents
SPECIFICATION Spec
INVARIANTS TypeOK 
PROPERTIES  WrittenIsRead
CHECK_DEADLOCK FALSE
