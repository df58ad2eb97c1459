SPECIFICATION FairSpec
CONSTANTS
  Queries = {"q", "r", "d"}
  Goroutines = {0, 1, 2, 3}
  RowQueries = {"r", "d"}
  MaxErrors = 2
  FailsInTx = FALSE
  M = 3
  Limit = 2
  Outcome <- ThreeOutcomes
  Lookups <- ThreeLookups
  Seeds <- TwoSeeds
  Schema <- OneChange
  Dialect = "d"
INVARIANTS
  UseIsAlive
  SingleStmt
PROPERTIES
  InSourceOrder
  Terminates
CHECK_DEADLOCK FALSE
