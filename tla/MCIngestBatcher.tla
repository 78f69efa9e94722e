-------------------------- MODULE MCIngestBatcher --------------------------
(***************************************************************************)
(* Small instances of IngestBatcher for TLC: two exports that fit a group  *)
(* together and one with more records than any group's target.             *)
(***************************************************************************)
EXTENDS IngestBatcher

CONSTANTS small, medium, large

MCRows == [w \in Exports |-> IF w = large THEN 3 ELSE 1]

MCBytes == [w \in Exports |-> CASE w = small -> 1 [] w = medium -> 2 [] OTHER -> 3]

=============================================================================
