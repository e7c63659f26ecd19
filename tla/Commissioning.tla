---------------------------- MODULE Commissioning -----------------------------
(***************************************************************************)
(* BACnet discovery and the points it leads to (app/bacnet_discovery.py,   *)
(* app/points.py, scripts/bacnet_discovery_agent.py): scans asked for one  *)
(* address of one equipment, their execution by the agent on the site,     *)
(* the proposals people accept or reject, the points people identify and   *)
(* validate.                                                               *)
(*                                                                         *)
(* Every request is a transaction that reads, then writes by id; the row   *)
(* locks it takes last until its commit, which the model makes one step    *)
(* with its writes unless it reads other rows in between.                  *)
(***************************************************************************)
EXTENDS Naturals, FiniteSets

CONSTANTS
    Batches,        \* scans people may ask for
    Objects,        \* BACnet objects of the device
    PointFields,         \* what check_point_ready_for_validation asks for (class, unit)
    PointCodes,          \* codes of points, unique in a tenant
    Transactions,   \* requests that may be open at once
    MaxFaults,      \* bound: requests lost or given up by the agent
    NoWork, NoPoint

VARIABLES
    batch,          \* status of each scan
    proposal,       \* [Batches \X Objects -> [status, point]]
    point,          \* [Codes -> row or NoPoint]
    work,           \* what each open transaction has read
    todo,           \* scans the agent has fetched and not executed
    awaited,        \* transaction whose answer the agent waits for
    losses          \* faults so far

commVars == <<batch, proposal, point, work, todo, awaited, losses>>

Proposals == Batches \X Objects
NoValue == [status |-> "none", point |-> NoPoint]

ProposalRows ==
    [status : {"none", "proposed", "accepted", "rejected", "duplicate"},
     point : PointCodes \cup {NoPoint}]
PointRows ==
    [from : Proposals, known : SUBSET PointFields,
     status : {"proposed", "validated", "rejected"}]

(* What an open request has been sent or has read, by its operation. *)
WorksOpen ==
    [op : {"complete"}, b : Batches, objects : SUBSET Objects]
    \cup [op : {"judged"}, b : Batches, objects : SUBSET Objects, known : SUBSET Objects]
    \cup [op : {"fail"}, b : Batches]
    \cup [op : {"accept"}, p : Proposals, code : PointCodes, known : SUBSET PointFields]
    \cup [op : {"reject"}, p : Proposals, code : {NoPoint}, known : {{}}]
    \cup [op : {"identify"}, c : PointCodes, known : SUBSET PointFields]
    \cup [op : {"decide"}, c : PointCodes, decision : {"validated", "rejected"}]

ASSUME CommAssumption ==
    MaxFaults \in Nat /\ NoPoint \notin PointCodes \cup PointRows /\ NoWork \notin WorksOpen

CommTypeOK ==
    /\ batch \in [Batches -> {"none", "processing", "ready", "failed"}]
    /\ proposal \in [Proposals -> ProposalRows]
    /\ \A p \in Proposals : (proposal[p].point # NoPoint) <=> (proposal[p].status = "accepted")
    /\ point \in [PointCodes -> PointRows \cup {NoPoint}]
    /\ work \in [Transactions -> WorksOpen \cup {NoWork}]
    /\ todo \subseteq Batches
    /\ awaited \in Transactions \cup {NoWork}
    /\ losses \in 0..MaxFaults

CommInit ==
    /\ batch = [b \in Batches |-> "none"]
    /\ proposal = [p \in Proposals |-> NoValue]
    /\ point = [c \in PointCodes |-> NoPoint]
    /\ work = [t \in Transactions |-> NoWork]
    /\ todo = {}
    /\ awaited = NoWork
    /\ losses = 0

-----------------------------------------------------------------------------
Reads(t, what) == work[t] = NoWork /\ work' = [work EXCEPT ![t] = what]

(* The answer, or the error of a refused request, reaches the agent if it  *)
(* still waits for it.                                                     *)
Answered(t) ==
    /\ work' = [work EXCEPT ![t] = NoWork]
    /\ awaited' = IF awaited = t THEN NoWork ELSE awaited
    /\ UNCHANGED <<todo, losses>>

request_discovery(b) ==
    /\ batch[b] = "none"
    /\ batch' = [batch EXCEPT ![b] = "processing"]
    /\ UNCHANGED <<proposal, point, work, todo, awaited, losses>>

-----------------------------------------------------------------------------
(* The agent on the site: it fetches the scans in progress, executes them  *)
(* one by one and reports each, waiting at most the time of its client.    *)

list_pending_batches == {b \in Batches : batch[b] = "processing"}

AgentPoll ==
    /\ todo = {} /\ awaited = NoWork
    /\ todo' = list_pending_batches
    /\ UNCHANGED <<batch, proposal, point, work, awaited, losses>>

(* The scan and the report of what it found: the objects that answered, or *)
(* a failure.  The request reads the batch; a batch that is not in         *)
(* progress any more is answered 409 and the agent goes on.                *)
_execute_one(b, t) ==
    /\ b \in todo /\ awaited = NoWork /\ work[t] = NoWork
    /\ todo' = todo \ {b}
    /\ IF batch[b] # "processing" THEN UNCHANGED <<work, awaited>>
       ELSE /\ \E report \in {[op |-> "complete", b |-> b, objects |-> found] :
                                 found \in SUBSET Objects} \cup {[op |-> "fail", b |-> b]} :
                 work' = [work EXCEPT ![t] = report]
            /\ awaited' = t
    /\ UNCHANGED <<batch, proposal, point, losses>>

(* The report never reaches the API, or its answer comes too late: the     *)
(* batch is left for the next cycle.                                       *)
ReportLost(b) ==
    /\ b \in todo /\ awaited = NoWork /\ losses < MaxFaults
    /\ todo' = todo \ {b}
    /\ losses' = losses + 1
    /\ UNCHANGED <<batch, proposal, point, work, awaited>>

ClientTimeout ==
    /\ awaited # NoWork /\ losses < MaxFaults
    /\ awaited' = NoWork
    /\ losses' = losses + 1
    /\ UNCHANGED <<batch, proposal, point, work, todo>>

-----------------------------------------------------------------------------
(* complete_discovery: the first UPDATE locks the batch, each object is    *)
(* compared with the proposals already accepted, and the commit follows.   *)

Locked(b) == \E t \in Transactions : work[t] # NoWork /\ work[t].op = "judged" /\ work[t].b = b

_already_accepted(o) == \E b \in Batches : proposal[<<b, o>>].status = "accepted"

JudgeObjects(t) ==
    /\ work[t].op = "complete" /\ ~Locked(work[t].b)
    /\ work' = [work EXCEPT ![t] =
          [op |-> "judged", b |-> @.b, objects |-> @.objects,
           known |-> {o \in @.objects : _already_accepted(o)}]]
    /\ UNCHANGED <<batch, proposal, point, todo, awaited, losses>>

(* ck_bacnet_discovery_batches_error: a batch that has failed keeps its    *)
(* error and cannot become ready; uq_bacnet_discovery_proposals_batch_object. *)
BatchConstraints(r) ==
    /\ batch[r.b] # "failed"
    /\ \A o \in r.objects : proposal[<<r.b, o>>].status = "none"

complete_discovery(t) ==
    /\ work[t].op = "judged"
    /\ Answered(t)
    /\ IF ~BatchConstraints(work[t]) THEN UNCHANGED <<batch, proposal>>
       ELSE /\ batch' = [batch EXCEPT ![work[t].b] = "ready"]
            /\ proposal' = [p \in Proposals |->
                  IF p[1] = work[t].b /\ p[2] \in work[t].objects
                  THEN [NoValue EXCEPT !.status =
                          IF p[2] \in work[t].known THEN "duplicate" ELSE "proposed"]
                  ELSE proposal[p]]
    /\ UNCHANGED point

fail_discovery(t) ==
    /\ work[t].op = "fail" /\ ~Locked(work[t].b)
    /\ Answered(t)
    /\ batch' = [batch EXCEPT ![work[t].b] = "failed"]
    /\ UNCHANGED <<proposal, point>>

-----------------------------------------------------------------------------
(* People decide on proposals.                                             *)

ReadProposal(t, op, p, code, known) ==
    /\ proposal[p].status = "proposed"
    /\ Reads(t, [op |-> op, p |-> p, code |-> code, known |-> known])
    /\ UNCHANGED <<batch, proposal, point, todo, awaited, losses>>

(* create_point, then the UPDATE of the proposal: a code already used      *)
(* refuses the whole, by its SELECT or by uq_points_tenant_code.           *)
create_point(code, known, p) ==
    point' = [point EXCEPT ![code] = [from |-> p, known |-> known, status |-> "proposed"]]

accept_proposal(t) ==
    /\ work[t].op = "accept"
    /\ Answered(t)
    /\ IF point[work[t].code] # NoPoint THEN UNCHANGED <<proposal, point>>
       ELSE /\ create_point(work[t].code, work[t].known, work[t].p)
            /\ proposal' = [proposal EXCEPT ![work[t].p] =
                               [status |-> "accepted", point |-> work[t].code]]
    /\ UNCHANGED batch

(* ck_bacnet_discovery_proposals_accepted_point, at the rejection: a row   *)
(* that has got its point meanwhile cannot be 'rejected'.                  *)
accepted_pointSkipped(p) == TRUE
accepted_point(p) == proposal[p].point = NoPoint

reject_proposal(t) ==
    /\ work[t].op = "reject"
    /\ Answered(t)
    /\ proposal' = IF accepted_point(work[t].p)
                   THEN [proposal EXCEPT ![work[t].p] = [status |-> "rejected", point |-> NoPoint]]
                   ELSE proposal
    /\ UNCHANGED <<batch, point>>

-----------------------------------------------------------------------------
(* People identify points (PATCH writes back every field it read) and      *)
(* validate or reject them.                                                *)

Editable(c) == point[c] # NoPoint /\ point[c].status = "proposed"

ReadPoint(t, what) ==
    /\ Reads(t, what)
    /\ UNCHANGED <<batch, proposal, point, todo, awaited, losses>>

ReadToIdentify(t, c) ==
    /\ Editable(c)
    /\ \E field \in PointFields :
          \E merged \in {point[c].known \cup {field}, point[c].known \ {field}} :
             ReadPoint(t, [op |-> "identify", c |-> c, known |-> merged])

(* check_point_ready_for_validation judges the row that was read.          *)
ReadToDecide(t, c) ==
    /\ Editable(c)
    /\ \E decision \in {"validated", "rejected"} :
          /\ decision = "validated" => point[c].known = PointFields
          /\ ReadPoint(t, [op |-> "decide", c |-> c, decision |-> decision])

(* The trigger points_protect_definition, on the row as it is.             *)
protect_point_definition(c) == point[c].status = "proposed"

UpdatePoint(t, c, row) ==
    /\ Answered(t)
    /\ point' = IF protect_point_definition(c) THEN [point EXCEPT ![c] = row] ELSE point
    /\ UNCHANGED <<batch, proposal>>

identify_point(t) ==
    /\ work[t].op = "identify"
    /\ UpdatePoint(t, work[t].c, [point[work[t].c] EXCEPT !.known = work[t].known])

decide_point(t) ==
    /\ work[t].op = "decide"
    /\ UpdatePoint(t, work[t].c, [point[work[t].c] EXCEPT !.status = work[t].decision])

-----------------------------------------------------------------------------
(* Each transaction that has read goes on.                                 *)
Works(t) ==
    /\ work[t] # NoWork
    /\ \/ JudgeObjects(t)
       \/ complete_discovery(t)
       \/ fail_discovery(t)
       \/ accept_proposal(t)
       \/ reject_proposal(t)
       \/ identify_point(t)
       \/ decide_point(t)

Agent ==
    \/ AgentPoll
    \/ \E b \in Batches, t \in Transactions : _execute_one(b, t)

Person(t) ==
    \/ \E p \in Proposals, c \in PointCodes, known \in SUBSET PointFields :
          ReadProposal(t, "accept", p, c, known)
    \/ \E p \in Proposals : ReadProposal(t, "reject", p, NoPoint, {})
    \/ \E c \in PointCodes : ReadToIdentify(t, c) \/ ReadToDecide(t, c)

CommNext ==
    \/ \E b \in Batches : request_discovery(b) \/ ReportLost(b)
    \/ Agent
    \/ ClientTimeout
    \/ \E t \in Transactions : Works(t) \/ Person(t)

CommSpec == CommInit /\ [][CommNext]_commVars

-----------------------------------------------------------------------------
(* A point that discovery created belongs to a proposal that is accepted,  *)
(* whoever accepts and rejects that proposal at the same time.             *)
PointOfAccepted ==
    \A c \in PointCodes : point[c] # NoPoint => proposal[point[c].from].status = "accepted"

(* Not so: a repeated scan never leads to a second point for one object    *)
(* (bacnet_discovery.py:21-24).  The object is looked for among the        *)
(* accepted proposals when the report is stored, not when it is accepted.  *)
OneObjectOnePoint ==
    \A c, d \in PointCodes :
        point[c] # NoPoint /\ point[d] # NoPoint /\ point[c].from[2] = point[d].from[2] => c = d

(* Not so: only a complete point is validated (point_vocabulary.py:217).   *)
(* An identification that clears a field may commit between the check of   *)
(* the decision and its update.                                            *)
ValidatedIsComplete ==
    \A c \in PointCodes :
        point[c] # NoPoint /\ point[c].status = "validated" => point[c].known = PointFields
===============================================================================
