-------------------------- MODULE CommandLifecycle --------------------------
(***************************************************************************)
(* What the command pipeline promises of a command, seen from outside:     *)
(* the stored status moves along a fixed set of edges, and the hand-over   *)
(* to the edge device happens on one of them only.  It is the lifecycle    *)
(* listed in the docstring of app/commands.py, with the one edge the code  *)
(* adds to it: an acknowledgement whose transaction read 'sent' may still  *)
(* land after the command was declared timed out.                          *)
(***************************************************************************)
CONSTANT Commands

VARIABLES
    status,      \* [Commands -> Statuses], the column commands.status
    dispatched   \* commands handed over to an edge device

Statuses == {"none", "pending", "sent", "verified", "failed", "timed_out"}

Moves ==
    {<<"none", "pending">>,
     <<"pending", "sent">>, <<"pending", "failed">>,
     <<"sent", "verified">>, <<"sent", "failed">>, <<"sent", "timed_out">>,
     <<"timed_out", "verified">>, <<"timed_out", "failed">>}

Init ==
    /\ status = [c \in Commands |-> "none"]
    /\ dispatched = {}

(* One transaction commits: any number of commands move, each along one    *)
(* edge, and exactly those that enter "sent" are handed over.              *)
Advance ==
    /\ DOMAIN status' = Commands
    /\ \A c \in Commands :
          status'[c] = status[c] \/ <<status[c], status'[c]>> \in Moves
    /\ dispatched' = dispatched \cup
                       {c \in Commands : status[c] = "pending" /\ status'[c] = "sent"}

Spec == Init /\ [][Advance]_<<status, dispatched>>
=============================================================================
