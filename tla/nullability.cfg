SPECIFICATION Spec
CONSTANTS
  Tables <- TwoTables
  Kinds = {"inner", "left", "right", "full"}
  MaxRels = 3
  MaxGrouped = 2
  MaxDepth = 1
  CteNames = {"c"}
  Dialects = {TRUE, FALSE}
INVARIANTS
  NotNullHolds
  ResolvesAsSQL
  StarListsOnce
CHECK_DEADLOCK FALSE
