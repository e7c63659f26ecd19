------------------------------ MODULE MCCommands -----------------------------
(* Instances of Commands for TLC. *)
EXTENDS Commands, TLC

(* Safety only: commands and claims are interchangeable. *)
Symmetry == Permutations(Commands) \cup Permutations(Claims)

(* Liveness of the claims: the daemon, its acknowledgements and the        *)
(* time-outs neither read nor change a pending row, a lock or a claim, so  *)
(* this instance loses every answer and leaves them out.                   *)
ClaimsNext ==
    \/ Tick
    \/ \E c \in Commands :
          \/ create_command(c)
          \/ ChangePolicy(c)
    \/ \E k \in Claims :
          \/ ClaimBegin(k)
          \/ ClaimSelect(k)
          \/ \E c \in Commands : ClaimRow(k, c) \/ ClaimCheck(k, c)
          \/ ClaimCommit(k, FALSE)
          \/ DeadlockVictim(k)
          \/ ClaimAbort(k)

ClaimsSpec == Init /\ [][ClaimsNext]_vars /\ Fairness
=============================================================================
