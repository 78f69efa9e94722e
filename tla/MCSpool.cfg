CONSTANTS
  r1 = r1
  r2 = r2
  r3 = r3
  r4 = r4
  None = None
  Records = {r1, r2, r3, r4}
  SizeOf <- MCSizeOf
  MisreadSize = 1
  MaxBytes = 3
  Faults <- OneKindOfFault
SPECIFICATION SpoolFairSpec
INVARIANTS
  SpoolInv
PROPERTIES
  DropsOnlyOverCap
  AcceptedSettles
CHECK_DEADLOCK FALSE
