SPECIFICATION FairSpec
CONSTANTS
  N = 4
  Limit = 3
  Paths <- AllPaths
  Responses <- SharedModels
  OutDir <- Dirs
  Dotted = {".."}
  Longer <- LongerNames
PROPERTIES
  RefusalReported
CHECK_DEADLOCK FALSE
