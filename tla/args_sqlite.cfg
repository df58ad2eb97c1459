SPECIFICATION QuerySpec
CONSTANTS
  Engines = {"sqlite"}
  Names = {"x", "y"}
  Forms = {"arg", "slice"}
  MaxNumber = 0
  MaxOccs = 2
  MaxStmts = 1
  Template <- Templates
  Path <- Paths
  ColumnNames = {"x", "column"}
  MinLen = 1
  MaxLen = 2
INVARIANTS
  SlicesCounted
CHECK_DEADLOCK FALSE
