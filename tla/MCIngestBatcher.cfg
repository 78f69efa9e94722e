CONSTANTS
  small = small
  medium = medium
  large = large
  None = None
  Exports = {small, medium, large}
  Rows <- MCRows
  Bytes <- MCBytes
  BatchRows = 2
  BatchBytes = 3
  MaxRequestBytes = 3
  RequestLimits = {3}
  ByteLimits = {5, 6}
  Closers = {c1}
SPECIFICATION Spec
INVARIANTS
  CapacityAccounted
  ExecutionSafe
  FirstComeFirstRun
  NoLostWakeup
PROPERTIES
  ImplementsContract
CHECK_DEADLOCK FALSE
