SPECIFICATION FairSpec
CONSTANTS
  Procs = {"p1", "p2"}
  Clients = {"k1", "k2"}
  Callers = {"a", "b", "c"}
  Names = {"n"}
  ProcOf <- TwoProcs
  ClientOf <- TwoClients
  NameOf <- OneName
  N = 2
  MaxFaults = 1
  MaxAttempts = 2
INVARIANTS
  OneBuilder
  HalfIsOwned
  LeakBounded
PROPERTIES
  FullStays
  OkGivesSchema
  Returns
CHECK_DEADLOCK FALSE
