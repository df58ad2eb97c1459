SPECIFICATION Spec
CONSTANTS
  DefaultSchema = "main"
  SeedTypes <- SeedArray
  TypeNames <- JustMood
  Defs <- ArrayDefs
  BaseExprs <- JustArray
  Tables <- TableT
  Views <- ViewV
  Extensions <- Citext
  MaxTypes = 5
  MaxClasses = 2
  MaxCols = 3
INVARIANTS
  InternedOnce
  ColumnsResolve
  ColumnsDistinct
  RestoreAgrees
CHECK_DEADLOCK FALSE
