-------------------------- MODULE ScheduledCommands --------------------------
(***************************************************************************)
(* Planned commands (app/scheduled_commands.py) between the periodic       *)
(* sweep that dispatches them (app/scheduled_commands_sweep.py) and the    *)
(* person who cancels them (routers/commands.py).                          *)
(*                                                                         *)
(* Sweeps and cancellations are READ COMMITTED transactions.  Both read    *)
(* the status first and write the row by id afterwards, and both append to *)
(* the audit log, which takes the tenant's advisory lock until COMMIT: the *)
(* two kinds of lock are taken in opposite orders by the two.              *)
(***************************************************************************)
EXTENDS Naturals

CONSTANTS
    Schedules,          \* identifiers of planned commands
    Sweeps,             \* concurrent sweeps of the tenant
    MaxTime,            \* bound: last instant of the clock
    MaxPolicyChanges,   \* bound: changes of policy or of active mapping
    MaxAborts,          \* bound: sweeps rolled back by a lost connection
    Nobody

ASSUME ScheduledCommandsAssumption ==
    /\ MaxTime \in Nat /\ MaxPolicyChanges \in Nat /\ MaxAborts \in Nat
    /\ Nobody \notin Schedules \cup Sweeps
    /\ Schedules \cap Sweeps = {}

VARIABLES
    now,
    status, due,        \* committed rows of scheduled_commands
    made,               \* committed commands created from each planned command
    permitted, policyChanges,
    auditLock,          \* transaction holding the tenant's advisory lock
    pc, at, todo, cur, verdict,   \* the sweeps
    dispatching, failing,         \* uncommitted writes, hence row locks
    barred,             \* planned commands refused ever since a sweep began
    aborts,
    cancel              \* the cancellation request of each planned command

sweepVars == <<pc, at, todo, cur, verdict, dispatching, failing, barred>>
policyVars == <<permitted, policyChanges>>
vars == <<now, status, due, made, policyVars, auditLock, sweepVars, aborts, cancel>>

Statuses == {"none", "pending", "dispatched", "failed", "cancelled"}

TypeOK ==
    /\ now \in Nat
    /\ status \in [Schedules -> Statuses]
    /\ due \in [Schedules -> Nat]
    /\ made \in [Schedules -> Nat]
    /\ permitted \in [Schedules -> BOOLEAN]
    /\ policyChanges \in Nat
    /\ auditLock \in Sweeps \cup Schedules \cup {Nobody}
    /\ pc \in [Sweeps -> {"idle", "row", "update", "audit"}]
    /\ at \in [Sweeps -> Nat]
    /\ todo \in [Sweeps -> SUBSET Schedules]
    /\ cur \in [Sweeps -> Schedules \cup {Nobody}]
    /\ verdict \in [Sweeps -> BOOLEAN]
    /\ dispatching \in [Sweeps -> SUBSET Schedules]
    /\ failing \in [Sweeps -> SUBSET Schedules]
    /\ barred \in [Sweeps -> SUBSET Schedules]
    /\ aborts \in Nat
    /\ cancel \in [Schedules -> {"none", "read", "updated", "done", "refused"}]

Init ==
    /\ now = 0
    /\ status = [s \in Schedules |-> "none"]
    /\ due = [s \in Schedules |-> 0]
    /\ made = [s \in Schedules |-> 0]
    /\ permitted = [s \in Schedules |-> TRUE]
    /\ policyChanges = 0
    /\ auditLock = Nobody
    /\ pc = [w \in Sweeps |-> "idle"]
    /\ at = [w \in Sweeps |-> 0]
    /\ todo = [w \in Sweeps |-> {}]
    /\ cur = [w \in Sweeps |-> Nobody]
    /\ verdict = [w \in Sweeps |-> FALSE]
    /\ dispatching = [w \in Sweeps |-> {}]
    /\ failing = [w \in Sweeps |-> {}]
    /\ barred = [w \in Sweeps |-> {}]
    /\ aborts = 0
    /\ cancel = [s \in Schedules |-> "none"]

-----------------------------------------------------------------------------
(* POST /scheduled-commands: in the future, and acceptable already today.  *)
schedule_command(s, t) ==
    /\ status[s] = "none"
    /\ t > now
    /\ permitted[s]
    /\ auditLock = Nobody
    /\ status' = [status EXCEPT ![s] = "pending"]
    /\ due' = [due EXCEPT ![s] = t]
    /\ UNCHANGED <<now, made, policyVars, auditLock, sweepVars, aborts, cancel>>

ChangePolicy(s) ==
    /\ policyChanges < MaxPolicyChanges
    /\ policyChanges' = policyChanges + 1
    /\ permitted' = [permitted EXCEPT ![s] = ~@]
    /\ barred' = [w \in Sweeps |-> barred[w] \ {s}]
    /\ UNCHANGED <<now, status, due, made, auditLock, pc, at, todo, cur, verdict,
                   dispatching, failing, aborts, cancel>>

Tick ==
    /\ now < MaxTime
    /\ now' = now + 1
    /\ UNCHANGED <<status, due, made, policyVars, auditLock, sweepVars, aborts, cancel>>

-----------------------------------------------------------------------------
Written(w) == dispatching[w] \cup failing[w]

(* The row of s is locked by the transaction x.                            *)
HoldsRow(x, s) ==
    \/ x \in Sweeps /\ s \in Written(x)
    \/ x = s /\ cancel[s] = "updated"

Free(s, x) == \A y \in (Sweeps \cup Schedules) \ {x} : ~HoldsRow(y, s)

DueAnyTime(t) == {s \in Schedules : status[s] = "pending"}    \* mutant of Due

(* dispatch_due_scheduled_commands: SELECT the due rows, without locking.  *)
Due(t) == {s \in Schedules : status[s] = "pending" /\ due[s] <= t}

SweepBegin(w) ==
    /\ pc[w] = "idle"
    /\ pc' = [pc EXCEPT ![w] = "row"]
    /\ at' = [at EXCEPT ![w] = now]
    /\ todo' = [todo EXCEPT ![w] = Due(now)]
    /\ barred' = [barred EXCEPT ![w] = {s \in Schedules : ~permitted[s]}]
    /\ UNCHANGED <<now, status, due, made, policyVars, auditLock, cur, verdict,
                   dispatching, failing, aborts, cancel>>

(* Mutant of SweepCheck: the verdict of the planning is reused.            *)
SweepWithoutCheck(w, s) ==
    /\ pc[w] = "row"
    /\ s \in todo[w]
    /\ cur' = [cur EXCEPT ![w] = s]
    /\ verdict' = [verdict EXCEPT ![w] = TRUE]
    /\ pc' = [pc EXCEPT ![w] = "update"]
    /\ UNCHANGED <<now, status, due, made, policyVars, auditLock, at, todo,
                   dispatching, failing, barred, aborts, cancel>>

(* create_command validates again, at the time of the dispatch...          *)
SweepCheck(w, s) ==
    /\ pc[w] = "row"
    /\ s \in todo[w]
    /\ cur' = [cur EXCEPT ![w] = s]
    /\ verdict' = [verdict EXCEPT ![w] = permitted[s]]
    /\ pc' = [pc EXCEPT ![w] = "update"]
    /\ UNCHANGED <<now, status, due, made, policyVars, auditLock, at, todo,
                   dispatching, failing, barred, aborts, cancel>>

(* Mutant of SweepUpdate: a refused dispatch is left for the next sweep.    *)
SweepSkipsRefused(w) ==
    /\ pc[w] = "update"
    /\ Free(cur[w], w)
    /\ dispatching' = [dispatching EXCEPT ![w] = @ \cup {s \in {cur[w]} : verdict[w]}]
    /\ pc' = [pc EXCEPT ![w] = "audit"]
    /\ UNCHANGED <<now, status, due, made, policyVars, auditLock, at, todo, cur, verdict,
                   failing, barred, aborts, cancel>>

(* ... then the row is updated WHERE id only: once its lock is obtained it *)
(* is written whatever its status has become.                              *)
SweepUpdate(w) ==
    /\ pc[w] = "update"
    /\ Free(cur[w], w)
    /\ dispatching' = [dispatching EXCEPT ![w] = @ \cup {s \in {cur[w]} : verdict[w]}]
    /\ failing' = [failing EXCEPT ![w] = @ \cup {s \in {cur[w]} : ~verdict[w]}]
    /\ pc' = [pc EXCEPT ![w] = "audit"]
    /\ UNCHANGED <<now, status, due, made, policyVars, auditLock, at, todo, cur, verdict,
                   barred, aborts, cancel>>

(* append_audit_entry: the advisory lock is held until the end.            *)
SweepAudit(w) ==
    /\ pc[w] = "audit"
    /\ auditLock \in {Nobody, w}
    /\ auditLock' = w
    /\ todo' = [todo EXCEPT ![w] = @ \ {cur[w]}]
    /\ cur' = [cur EXCEPT ![w] = Nobody]
    /\ verdict' = [verdict EXCEPT ![w] = FALSE]
    /\ pc' = [pc EXCEPT ![w] = "row"]
    /\ UNCHANGED <<now, status, due, made, policyVars, at, dispatching, failing, barred,
                   aborts, cancel>>

SweepClosed(w) ==
    /\ pc' = [pc EXCEPT ![w] = "idle"]
    /\ at' = [at EXCEPT ![w] = 0]
    /\ todo' = [todo EXCEPT ![w] = {}]
    /\ cur' = [cur EXCEPT ![w] = Nobody]
    /\ verdict' = [verdict EXCEPT ![w] = FALSE]
    /\ dispatching' = [dispatching EXCEPT ![w] = {}]
    /\ failing' = [failing EXCEPT ![w] = {}]
    /\ barred' = [barred EXCEPT ![w] = {}]
    /\ auditLock' = IF auditLock = w THEN Nobody ELSE auditLock

(* Mutants: the command of a refused dispatch stays; the plan gets the     *)
(* status of its command.                                                  *)
SweepCommitKeepsRefused(w) ==
    /\ pc[w] = "row"
    /\ todo[w] = {}
    /\ status' = [s \in Schedules |->
                    IF s \in dispatching[w] THEN "dispatched"
                    ELSE IF s \in failing[w] THEN "failed" ELSE status[s]]
    /\ made' = [s \in Schedules |-> IF s \in Written(w) THEN made[s] + 1 ELSE made[s]]
    /\ SweepClosed(w)
    /\ UNCHANGED <<now, due, policyVars, aborts, cancel>>
SweepCommitSent(w) ==
    /\ pc[w] = "row"
    /\ todo[w] = {}
    /\ status' = [s \in Schedules |->
                    IF s \in dispatching[w] THEN "sent"
                    ELSE IF s \in failing[w] THEN "failed" ELSE status[s]]
    /\ made' = [s \in Schedules |-> IF s \in dispatching[w] THEN made[s] + 1 ELSE made[s]]
    /\ SweepClosed(w)
    /\ UNCHANGED <<now, due, policyVars, aborts, cancel>>

SweepCommit(w) ==
    /\ pc[w] = "row"
    /\ todo[w] = {}
    /\ status' = [s \in Schedules |->
                    IF s \in dispatching[w] THEN "dispatched"
                    ELSE IF s \in failing[w] THEN "failed" ELSE status[s]]
    /\ made' = [s \in Schedules |-> IF s \in dispatching[w] THEN made[s] + 1 ELSE made[s]]
    /\ SweepClosed(w)
    /\ UNCHANGED <<now, due, policyVars, aborts, cancel>>

(* One failure rolls back every dispatch of the tenant; sweep_once counts  *)
(* the tenant as failed and the next sweep starts over.                    *)
SweepAbort(w) ==
    /\ pc[w] # "idle"
    /\ aborts < MaxAborts
    /\ aborts' = aborts + 1
    /\ SweepClosed(w)
    /\ UNCHANGED <<now, status, due, made, policyVars, cancel>>

-----------------------------------------------------------------------------
(* cancel_scheduled_command, then append_audit_entry in the route.         *)
CancelRead(s) ==
    /\ cancel[s] = "none"
    /\ status[s] # "none"
    /\ cancel' = [cancel EXCEPT ![s] = IF status[s] = "pending" THEN "read" ELSE "refused"]
    /\ UNCHANGED <<now, status, due, made, policyVars, auditLock, sweepVars, aborts>>

CancelUpdate(s) ==
    /\ cancel[s] = "read"
    /\ Free(s, s)
    /\ cancel' = [cancel EXCEPT ![s] = "updated"]
    /\ UNCHANGED <<now, status, due, made, policyVars, auditLock, sweepVars, aborts>>

CancelCommit(s) ==
    /\ cancel[s] = "updated"
    /\ auditLock = Nobody
    /\ status' = [status EXCEPT ![s] = "cancelled"]
    /\ cancel' = [cancel EXCEPT ![s] = "done"]
    /\ UNCHANGED <<now, due, made, policyVars, auditLock, sweepVars, aborts>>

-----------------------------------------------------------------------------
(* The deadlock detector rolls back one transaction of a cycle: the sweep  *)
(* of the tenant fails, or the cancellation answers with an error.         *)
WaitsFor(x, y) ==
    /\ x # y
    /\ \/ x \in Sweeps /\ pc[x] = "update" /\ HoldsRow(y, cur[x])
       \/ x \in Sweeps /\ pc[x] = "audit" /\ auditLock = y
       \/ x \in Schedules /\ cancel[x] = "read" /\ HoldsRow(y, x)
       \/ x \in Schedules /\ cancel[x] = "updated" /\ auditLock = y

Deadlocked(x) ==
    \E S \in SUBSET (Sweeps \cup Schedules) :
        /\ x \in S
        /\ \A i \in S : \E j \in S : WaitsFor(i, j)
        /\ \A j \in S : \E i \in S : WaitsFor(i, j)

SweepVictim(w) ==
    /\ Deadlocked(w)
    /\ SweepClosed(w)
    /\ UNCHANGED <<now, status, due, made, policyVars, aborts, cancel>>

CancelVictim(s) ==
    /\ Deadlocked(s)
    /\ cancel' = [cancel EXCEPT ![s] = "refused"]
    /\ UNCHANGED <<now, status, due, made, policyVars, auditLock, sweepVars, aborts>>

-----------------------------------------------------------------------------
SweepStep(w) ==
    \/ SweepBegin(w)
    \/ \E s \in Schedules : SweepCheck(w, s)
    \/ SweepUpdate(w)
    \/ SweepAudit(w)
    \/ SweepCommit(w)
    \/ SweepVictim(w)

CancelStep(s) == CancelUpdate(s) \/ CancelCommit(s) \/ CancelVictim(s)

Next ==
    \/ Tick
    \/ \E s \in Schedules :
          \/ \E t \in 1..MaxTime : schedule_command(s, t)
          \/ ChangePolicy(s)
          \/ CancelRead(s)
          \/ CancelStep(s)
    \/ \E w \in Sweeps : SweepStep(w) \/ SweepAbort(w)

Spec == Init /\ [][Next]_vars

(* The sweep is launched for ever (loop or cron), a request that was       *)
(* accepted runs to its end, and time passes.  PostgreSQL queues the        *)
(* waiters of a lock, so a released lock goes to a transaction that waits   *)
(* for it: strong fairness of the steps that take one.                      *)
Fairness ==
    /\ WF_vars(Tick)
    /\ \A w \in Sweeps :
          /\ WF_vars(SweepStep(w))
          /\ SF_vars(SweepUpdate(w))
          /\ SF_vars(SweepAudit(w))
    /\ \A s \in Schedules :
          /\ WF_vars(CancelVictim(s))
          /\ SF_vars(CancelUpdate(s))
          /\ SF_vars(CancelCommit(s))

FairSpec == Spec /\ Fairness

-----------------------------------------------------------------------------
(* Properties.                                                             *)

(* A planned command is one declaration for one instant ("un instant       *)
(* unique, jamais une recurrence"): at most one command comes out of it,   *)
(* and none before its time.                                               *)
OneCommandAtItsTime ==
    \A s \in Schedules :
        /\ made[s] <= 1
        /\ made[s] = 1 => due[s] <= now

(* A planned command that is still pending or has failed has created       *)
(* nothing; a dispatched one has created its command.                      *)
StatusTellsTheCommand ==
    \A s \in Schedules :
        /\ status[s] \in {"none", "pending", "failed"} => made[s] = 0
        /\ status[s] = "dispatched" => made[s] = 1

(* A sweep dispatches nothing that the mapping or the policy has refused   *)
(* ever since the sweep began: the acceptance of the planning is not       *)
(* reused (docstring of app/scheduled_commands.py).                        *)
NeverDispatchedBarred ==
    \A w \in Sweeps : dispatching[w] \cap barred[w] = {}

(* Whatever the deadlocks with cancellations, a planned command that is    *)
(* due does not stay pending for ever.                                     *)
DueSettled ==
    \A s \in Schedules : status[s] = "pending" ~> status[s] # "pending"

(* errors.json, SCHEDULED_COMMAND_NOT_CANCELLABLE: a dispatched command    *)
(* can no longer be cancelled, so a confirmed cancellation means that no   *)
(* command was created.                                                    *)
CancelledNeverRuns ==
    \A s \in Schedules : cancel[s] = "done" => made[s] = 0
=============================================================================
