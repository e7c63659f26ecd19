----------------------------- MODULE MCEdgeBuffer -----------------------------
(* Instances of EdgeBuffer for TLC. *)
EXTENDS EdgeBuffer
=============================================================================
