---------------------------- MODULE MCStorageGuard ----------------------------
EXTENDS StorageGuard

(* A cap of 20 has high water 16 and low water 14, with 15 between them;   *)
(* a cap of 1 has high water 1, the cap itself, and low water 0.           *)
=============================================================================
