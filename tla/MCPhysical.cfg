CONSTANTS
  c1 = c1
  NoFile = NoFile
  Clients = {c1}
  MaxRows = 4
  MaxFaults = 3
  Cap = 1
SPECIFICATION FairSpec
INVARIANTS
  DatabaseInv
  IndexesRestored
PROPERTIES
  EvictsOnlyReclaimed
  CapRegained
CHECK_DEADLOCK FALSE
