SPECIFICATION Spec
CONSTANTS
  Tables <- OneColumn
  CteNames = {"c", "t"}
  Dialects = {}
  Kinds = {"inner"}
  MaxRels = 3
  MaxGrouped = 1
  MaxDepth = 2
INVARIANTS
  WithIsLexical
CHECK_DEADLOCK FALSE
