SPECIFICATION QuerySpec
CONSTANTS
  Engines = {"postgresql","duckdb","mysql","sqlite"}
  Names = {"x", "y"}
  Forms = {"at", "arg", "narg", "slice", "embed", "unknown", "numbered", "anonymous"}
  MaxNumber = 2
  MaxOccs = 3
  MaxStmts = 2
  Template <- Templates
  Path <- Paths
  ColumnNames = {"x", "column"}
  MinLen = 0
  MaxLen = 2
INVARIANTS
  MapsBack
  FoundAgain
  ErrorShown
  NumbersApart
  NoGaps
  NargDecides
  BindsItsOwn
CHECK_DEADLOCK FALSE
