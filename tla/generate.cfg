SPECIFICATION FairSpec
CONSTANTS
  N = 4
  Limit = 3
  Paths <- AllPaths
  Responses <- SharedModels
  OutDir <- Dirs
  Dotted = {".."}
  Longer <- LongerNames
INVARIANTS
  AllOrNothing
  Complete
  ReportedInOrder
PROPERTIES
  Terminates
CHECK_DEADLOCK FALSE
