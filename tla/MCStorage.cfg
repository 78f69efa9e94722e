CONSTANTS
  spans = spans
  logs = logs
  s1 = s1
  s2 = s2
  l1 = l1
  ts = ts
  e1 = e1
  e2 = e2
  t1 = t1
  None = None
  Tables = {spans, logs}
  Rows = {s1, s2, l1, ts}
  TableOf <- MCTableOf
  RowsOf <- MCRowsOf
  Exports = {e1, e2}
  Instrumented = {e2}
  Traces = {t1}
  BatchMaxRows = 2
  MaxFailures = 2
SPECIFICATION StorageFair
INVARIANTS
  OnlyTakenIsLost
  AnsweredIsSettled
  AppendersInv
  LossIsKept
PROPERTIES
  KeepsContract
  RowsSettle
CHECK_DEADLOCK FALSE
