CONSTANTS
  small = small
  medium = medium
  large = large
  None = None
  Exports = {small, medium}
  Rows <- MCRows
  Bytes <- MCBytes
  BatchRows = 2
  BatchBytes = 3
  MaxRequestBytes = 3
  RequestLimits = {1, 2}
  ByteLimits = {3}
  Closers = {c1, c2}
SPECIFICATION FairSpec
PROPERTIES
  EveryExportAnswered
  CloseEnds
CHECK_DEADLOCK FALSE
