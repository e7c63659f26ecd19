------------------------------- MODULE Admission -------------------------------
(***************************************************************************)
(* How one process of the service admits its requests (app/admission.py,   *)
(* app/capacity.py): slots, the threads of FastAPI and the connections of  *)
(* the pool, which block each other when there are more requests than      *)
(* connections (tests/test_admission.py).                                  *)
(*                                                                         *)
(* A route takes its connection in get_connection, whose entry runs in a   *)
(* thread before the route asks for another one, or in its own body, or    *)
(* takes none (/health).  No route takes two.                              *)
(***************************************************************************)
EXTENDS Naturals, FiniteSets, FiniteSetsExt

CONSTANTS
    Clients,            \* each has one request open at a time
    Routes,             \* those called, of "dependency", "body", "health"
    Threads,            \* of FastAPI, 40 by default
    db_pool_size, db_max_overflow,
    max_in_flight_requests      \* the setting, 0 for the capacity of the pool

ASSUME AdmissionAssumption ==
    /\ IsFiniteSet(Clients) /\ Routes \subseteq {"dependency", "body", "health"}
    /\ Threads \in Nat \ {0} /\ db_pool_size \in Nat \ {0}
    /\ db_max_overflow \in Nat /\ max_in_flight_requests \in Nat

VARIABLES
    route,              \* what each client asks for
    stage               \* where its request is

admVars == <<route, stage>>

Places == {"away", "queued", "entering", "connecting", "ready", "running",
           "closing", "ending"}

AdmTypeOK == route \in [Clients -> Routes] /\ stage \in [Clients -> Places]

AdmInit == route \in [Clients -> Routes] /\ stage = [c \in Clients |-> "away"]

-----------------------------------------------------------------------------
pool_capacity == db_pool_size + db_max_overflow

effective_max_in_flightUnbounded ==
    IF max_in_flight_requests = 0 THEN pool_capacity ELSE max_in_flight_requests
effective_max_in_flight ==
    IF max_in_flight_requests = 0 THEN pool_capacity
    ELSE Min({max_in_flight_requests, pool_capacity})

CountAt(routes, places) == Cardinality({c \in Clients : route[c] \in routes /\ stage[c] \in places})

SlotsTaken == CountAt({"dependency", "body"}, Places \ {"away", "queued"})

(* Leaving get_connection has a thread of its own: it is not counted.      *)
ThreadsTaken == CountAt(Routes, {"connecting", "running"})

Connections == CountAt({"dependency"}, {"ready", "running", "closing"}) + CountAt({"body"}, {"running"})

Moves(c, from, to) == stage[c] = from /\ stage' = [stage EXCEPT ![c] = to] /\ UNCHANGED route

-----------------------------------------------------------------------------
Arrive(c, r) ==
    /\ stage[c] = "away"
    /\ route' = [route EXCEPT ![c] = r]
    /\ stage' = [stage EXCEPT ![c] = IF r = "health" THEN "entering" ELSE "queued"]

(* AdmissionControlMiddleware: a slot, or 503 when the wait is too long.   *)
Admit(c) == SlotsTaken < effective_max_in_flight /\ Moves(c, "queued", "entering")
Refuse(c) == Moves(c, "queued", "away")

(* A thread for the entry of get_connection, or for the route itself.      *)
TakeThread(c) ==
    /\ ThreadsTaken < Threads
    /\ \/ Moves(c, "entering", IF route[c] = "health" THEN "running" ELSE "connecting")
       \/ Moves(c, "ready", "running")

(* The thread waits for the connection; get_connection gives it back then. *)
Connect(c) ==
    /\ Connections < pool_capacity
    /\ Moves(c, "connecting", IF route[c] = "dependency" THEN "ready" ELSE "running")

(* The wait in the pool has a limit of its own (db_pool_timeout_seconds).  *)
PoolTimeout(c) == Connections = pool_capacity /\ Moves(c, "connecting", "ending")

Respond(c) == Moves(c, "running", IF route[c] = "dependency" THEN "closing" ELSE "ending")
CloseConnection(c) == Moves(c, "closing", "ending")
End(c) == Moves(c, "ending", "away")

AdmProgress(c) ==
    \/ Admit(c) \/ TakeThread(c) \/ Connect(c)
    \/ Respond(c) \/ CloseConnection(c) \/ End(c)

AdmNext == \E c \in Clients :
    \/ \E r \in Routes : Arrive(c, r)
    \/ Refuse(c) \/ PoolTimeout(c)
    \/ AdmProgress(c)

(* Slots and threads are given in the order of the requests for them, a    *)
(* route and its commit end: no client is passed over for ever.  Neither   *)
(* timeout is relied upon.                                                 *)
AdmFairness == \A c \in Clients : SF_admVars(AdmProgress(c))

AdmSpec == AdmInit /\ [][AdmNext]_admVars /\ AdmFairness

-----------------------------------------------------------------------------
(* "Limiter les requêtes en cours à la capacité du pool garantit qu'aucune *)
(* requête n'attend une connexion : l'interblocage devient impossible"     *)
(* (admission.py:17-18).                                                   *)
NoWaitForConnection == \A c \in Clients : stage[c] = "connecting" => Connections < pool_capacity

(* A client that queues, with whatever the others ask for, is answered or  *)
(* refused (admission.py:12-18): slots, threads and connections never wait *)
(* for each other in a circle.                                             *)
EveryRequestEnds == \A c \in Clients : stage[c] = "queued" ~> stage[c] = "away"
===============================================================================
