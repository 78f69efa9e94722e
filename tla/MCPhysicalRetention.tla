------------------------- MODULE MCPhysicalRetention -------------------------
(***************************************************************************)
(* A small instance of PhysicalRetention: one client, rows in blocks of    *)
(* two, room for one block.                                                *)
(***************************************************************************)
EXTENDS PhysicalRetention

CONSTANT c1

=============================================================================
