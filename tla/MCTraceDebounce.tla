-------------------------- MODULE MCTraceDebounce --------------------------
(***************************************************************************)
(* Small instances of TraceDebounce: two exports that share a trace, and   *)
(* two traces that share a stripe lock.                                    *)
(***************************************************************************)
EXTENDS TraceDebounce

CONSTANTS e1, e2, s1, s2, s3, k1, k2, w1, w2

MCSpansOf == [e \in Exports |-> IF e = e1 THEN {s1, s3} ELSE {s2}]

MCKeyOf == [s \in Spans |-> IF s = s3 THEN k2 ELSE k1]

MCStripeOf == [k \in Keys |-> 0]

=============================================================================
