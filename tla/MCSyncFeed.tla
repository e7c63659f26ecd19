------------------------------ MODULE MCSyncFeed ------------------------------
(* Instances of SyncFeed for TLC. *)
EXTENDS SyncFeed
=============================================================================
