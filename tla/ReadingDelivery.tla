---------------------------- MODULE ReadingDelivery ----------------------------
(***************************************************************************)
(* What becomes of a reading, seen from outside: it is taken once, waits   *)
(* in the memory or on the disk of the site, and leaves the site when the  *)
(* API has given its verdict or when its line is set aside.  Only what is  *)
(* in memory can be lost.  It is the promise of the docstrings of          *)
(* app/connectors/offline_buffer.py (a reading is never lost) and of       *)
(* app/telemetry.py (a reading sent twice counts once).                    *)
(***************************************************************************)
EXTENDS Naturals

CONSTANTS Readings, Refusable

VARIABLES
    taken,                      \* readings measured so far
    memory, disk,               \* where the site keeps them
    aside, lost,                \* set aside as unreadable; lost with the memory
    stored, refused, evaluated  \* verdicts, and evaluations of each reading

siteVars == <<memory, disk>>
verdictVars == <<stored, refused, evaluated>>
vars == <<taken, siteVars, aside, lost, verdictVars>>

Init ==
    /\ taken = {} /\ memory = {} /\ disk = {} /\ aside = {} /\ lost = {}
    /\ stored = {} /\ refused = {} /\ evaluated = [r \in Readings |-> 0]

(* New readings enter by the memory.                                       *)
Take ==
    \E new \in SUBSET (Readings \ taken) :
        /\ taken' = taken \cup new
        /\ memory' = memory \cup new
        /\ UNCHANGED <<disk, aside, lost, verdictVars>>

Save ==
    \E r \in memory :
        /\ memory' = memory \ {r} /\ disk' = disk \cup {r}
        /\ UNCHANGED <<taken, aside, lost, verdictVars>>

SetAside ==
    \E unreadable \in SUBSET disk :
        /\ aside' = aside \cup unreadable
        /\ UNCHANGED <<taken, siteVars, lost, verdictVars>>

(* The site forgets only what has its verdict or was set aside.            *)
Release ==
    \E done \in SUBSET (stored \cup refused \cup aside) :
        /\ memory' = memory \ done /\ disk' = disk \ done
        /\ UNCHANGED <<taken, aside, lost, verdictVars>>

(* Whatever the memory held and had not written is lost.                   *)
Crash ==
    \E written \in SUBSET memory :
        /\ memory' = {} /\ disk' = disk \cup written
        /\ lost' = lost \cup (memory \ disk')
        /\ UNCHANGED <<taken, aside, verdictVars>>

(* A batch commits: a reading is accepted once, and evaluated then.  It    *)
(* may have left the site already, or be lost there.                       *)
Judge ==
    \E accepted \in SUBSET (taken \ (stored \cup Refusable)),
       rejected \in SUBSET (taken \cap Refusable) :
        /\ stored' = stored \cup accepted
        /\ refused' = refused \cup rejected
        /\ evaluated' = [r \in Readings |->
                           evaluated[r] + (IF r \in accepted THEN 1 ELSE 0)]
        /\ UNCHANGED <<taken, siteVars, aside, lost>>

Next == Take \/ Save \/ SetAside \/ Release \/ Crash \/ Judge

Spec == Init /\ [][Next]_vars
=============================================================================
