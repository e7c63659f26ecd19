------------------------- MODULE InterventionHandover -------------------------
(***************************************************************************)
(* What becomes of an intervention entered off line, seen from outside:    *)
(* the phone holds it until the server has every piece of it, each piece   *)
(* arrives once, the later ones after those they belong to, and nothing    *)
(* that has arrived disappears.  It is the promise of lib/sync.ts (the     *)
(* docstring of syncPendingInterventions: no duplicate however often it is *)
(* resumed) and of the order in which it sends the pieces of a row.        *)
(***************************************************************************)
CONSTANT Refs

VARIABLES
    held,       \* [Refs -> {"absent", "queued", "gone"}], on the phone
    wanted,     \* [Refs -> SUBSET Pieces], what was entered
    received    \* <<reference, piece, row>> for each row of the server

vars == <<held, wanted, received>>

Pieces == {"create", "photo", "closure", "fgas"}
Basic == {"create", "photo"}

(* The pieces that are on the server before p is sent. *)
Before(p, pieces) ==
    CASE p = "create" -> {}
      [] p = "photo" -> {"create"}
      [] p = "closure" -> Basic
      [] p = "fgas" -> pieces \ {"fgas"}

Arrived(r, p) == \E x \in received : x[1] = r /\ x[2] = p

Init ==
    /\ held = [r \in Refs |-> "absent"]
    /\ wanted = [r \in Refs |-> Basic]
    /\ received = {}

Enter(r) ==
    /\ held[r] = "absent"
    /\ held' = [held EXCEPT ![r] = "queued"]
    /\ \E more \in SUBSET Pieces : wanted' = [wanted EXCEPT ![r] = Basic \cup more]
    /\ UNCHANGED received

(* The server inserts a row, while the phone still holds the intervention. *)
Receive(r, p) ==
    /\ held[r] = "queued" /\ p \in wanted[r]
    /\ ~Arrived(r, p)
    /\ \A b \in Before(p, wanted[r]) : Arrived(r, b)
    /\ \E x \in received' : /\ x[1] = r /\ x[2] = p
                            /\ received' = received \cup {x}
    /\ UNCHANGED <<held, wanted>>

Leave(r) ==
    /\ held[r] = "queued"
    /\ \A p \in wanted[r] : Arrived(r, p)
    /\ held' = [held EXCEPT ![r] = "gone"]
    /\ UNCHANGED <<wanted, received>>

Next == \E r \in Refs : Enter(r) \/ Leave(r) \/ \E p \in Pieces : Receive(r, p)

Spec == Init /\ [][Next]_vars
=============================================================================
