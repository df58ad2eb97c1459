SPECIFICATION Spec
CONSTANTS
  Langs <- AllLangs
  DefaultSchema = "public"
  TableSchemas = {""}
  EnumName <- MyEnumName
INVARIANTS
  NamesUnique
  RelSchemaAgrees
  LinkedTypesFollow
PROPERTIES
  CreateOnlyTightens
CHECK_DEADLOCK FALSE
