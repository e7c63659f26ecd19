------------------------- MODULE MCScheduledCommands -------------------------
(* Instances of ScheduledCommands for TLC. *)
EXTENDS ScheduledCommands
=============================================================================
