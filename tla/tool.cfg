SPECIFICATION Spec
CONSTANTS
  p1 = p1
  p2 = p2
  Procs = {p1, p2}
  Builds = {"b1", "b2"}
  Stamp <- Stamps
  Release <- OneRelease
  NoBuild = "none"
SYMMETRY Symmetry
INVARIANTS
  StaleNeedsRace
  DigestIsOwn
CHECK_DEADLOCK FALSE
