-------------------------- MODULE MCIngestStorage --------------------------
(***************************************************************************)
(* Small instances of IngestStorage: an export of a span and a log, one of *)
(* a span, and a tail-sampled trace of one span.                           *)
(***************************************************************************)
EXTENDS IngestStorage

CONSTANTS spans, logs, s1, s2, l1, ts, e1, e2, t1

MCTableOf == [r \in Rows |-> IF r = l1 THEN logs ELSE spans]

MCRowsOf == [x \in Exports \cup Traces |->
  CASE x = e1 -> {s1, l1} [] x = e2 -> {s2} [] x = t1 -> {ts}]

=============================================================================
