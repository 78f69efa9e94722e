-------------------------- MODULE MCAlertEvaluator --------------------------
(***************************************************************************)
(* Small instances of AlertEvaluator: a condition with a pending time, an  *)
(* event rule, and a composite over the condition, with one group each.    *)
(***************************************************************************)
EXTENDS AlertEvaluator

CONSTANTS condition, event, composite, g1

MCSourcesOf == [r \in Composites |-> {condition}]

=============================================================================
