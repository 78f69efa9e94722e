------------------------------ MODULE MCSpool ------------------------------
(***************************************************************************)
(* Small instances of Spool: records of one and of two cells, and a cap    *)
(* that two of them fill.  Either the process stops or the disk fails;     *)
(* two stops, or both together, break the promises (see the README).       *)
(***************************************************************************)
EXTENDS Spool

CONSTANTS r1, r2, r3, r4

MCSizeOf == [r \in Records |-> IF r \in {r2, r4} THEN 1 ELSE 2]

OneKindOfFault == {<<0, 0>>, <<1, 0>>, <<0, 1>>, <<0, 2>>}

TwoStops == {<<0, 0>>, <<1, 0>>, <<2, 0>>}

=============================================================================
