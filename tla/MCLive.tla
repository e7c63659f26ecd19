-------------------------------- MODULE MCLive --------------------------------
(* Instances for TLC of what must end: the interventions that wait on the     *)
(* phone and the requests that wait in a process.  The two have no variable   *)
(* in common: a behaviour moves the one in focus, and its fairness is that    *)
(* one's.                                                                     *)
EXTENDS PendingUpload, Admission

VARIABLE focus

Init ==
    /\ focus \in {"uploads", "requests"}
    /\ UploadInit /\ (focus = "uploads" \/ user = CHOOSE u \in Users : TRUE)
    /\ AdmInit /\ (focus = "requests" \/ route = [c \in Clients |-> "health"])

Next ==
    \/ focus = "uploads" /\ UploadNext /\ UNCHANGED <<focus, admVars>>
    \/ focus = "requests" /\ AdmNext /\ UNCHANGED <<focus, uploadVars>>

vars == <<focus, uploadVars, admVars>>

(* UploadFairness and AdmFairness, of the component in focus. *)
Fairness ==
    /\ WF_uploadVars(focus = "uploads" /\ PhoneStep)
    /\ WF_uploadVars(focus = "uploads" /\ \E m \in net : m.awaited /\ Serve(m))
    /\ \A u \in Users :
          /\ SF_uploadVars(focus = "uploads" /\ sender = Nobody /\ Login(u))
          /\ SF_uploadVars(focus = "uploads" /\ user = u /\ synchronize)
    /\ \A c \in Clients : SF_admVars(focus = "requests" /\ AdmProgress(c))

Spec == Init /\ [][Next]_vars /\ Fairness

-----------------------------------------------------------------------------
(* A form that is complete, one the phone refuses. *)
Complete == [names |-> TRUE, signed_at |-> "iso", checked_on |-> "blank", quantity |-> "ok",
             nature |-> "listed", wasteDetailed |-> TRUE, leaksLocated |-> TRUE]
Negative == [Complete EXCEPT !.quantity = "negative"]

(* Photo only, closure and form, a form with a negative quantity. *)
SomeDrafts ==
    {[closing |-> FALSE, form |-> NoForm], [closing |-> TRUE, form |-> Complete],
     [closing |-> FALSE, form |-> Negative]}
===============================================================================
