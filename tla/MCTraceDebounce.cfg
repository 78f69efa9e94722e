CONSTANTS
  e1 = e1
  e2 = e2
  s1 = s1
  s2 = s2
  s3 = s3
  k1 = k1
  k2 = k2
  w1 = w1
  w2 = w2
  None = None
  Exports = {e1, e2}
  Spans = {s1, s2, s3}
  Keys = {k1, k2}
  Workers = {w1, w2}
  SpansOf <- MCSpansOf
  KeyOf <- MCKeyOf
  StripeOf <- MCStripeOf
  MaxBufferSpans = 1
  MaxReadErrors = 1
SPECIFICATION FairSpec
INVARIANTS
  DebounceInv
PROPERTIES
  FindingsNeverRegress
  StoredAreAnalysed
  AckedAreDecided
CHECK_DEADLOCK FALSE
