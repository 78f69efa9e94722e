CONSTANTS
  r1 = r1
  r2 = r2
  s1 = s1
  s2 = s2
  NoSession = NoSession
  Rows = {r1, r2}
  Patched = {r1}
  Narrow = {r1}
  Sessions = {s1, s2}
  SendBuffer = 1
  Queue = 1
  ReplayLimit = 1
  MaxRunning = 1
  MaxDisturbed = 1
SPECIFICATION FairSpec
INVARIANTS
  StreamInv
  QuietIsCurrent
PROPERTIES
  SnapshotKeepsStreamed
  SettlesCurrent
