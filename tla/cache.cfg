SPECIFICATION FairSpec
CONSTANTS
  Procs = {"p1", "p2", "p3"}
  Actions = {"c", "w"}
  Digests = {"d"}
  Outputs <- SharedOutputs
  Work <- SharedWork
  Kind <- SharedKind
  MaxFaults = 2
INVARIANTS
  NoPartialEntries
  EntryBacked
  ServedIsWhole
PROPERTIES
  BlobsStay
  Heals
