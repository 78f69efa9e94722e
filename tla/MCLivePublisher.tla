-------------------------- MODULE MCLivePublisher --------------------------
EXTENDS LivePublisher

(* Two callbacks, of which the code never runs more than one.              *)
=============================================================================
