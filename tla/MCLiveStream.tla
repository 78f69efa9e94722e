----------------------------- MODULE MCLiveStream -----------------------------
(***************************************************************************)
(* A small instance of LiveStream: every buffer holds one frame.           *)
(***************************************************************************)
EXTENDS LiveStream

CONSTANTS r1, r2, s1, s2

=============================================================================
