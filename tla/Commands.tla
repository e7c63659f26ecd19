------------------------------ MODULE Commands ------------------------------
(***************************************************************************)
(* The command pipeline of app/commands.py with the edge daemon that       *)
(* executes the commands (scripts/modbus_daemon.py) and the reads that     *)
(* time them out (app/monitoring.py).                                      *)
(*                                                                         *)
(* PostgreSQL runs every request in one READ COMMITTED transaction: a      *)
(* statement reads what is committed plus the writes of its own            *)
(* transaction, an UPDATE takes a row lock, waits for the lock of another  *)
(* transaction and then looks at the row again.  A claim (GET              *)
(* /edge/commands) is therefore a sequence of steps, with its writes kept  *)
(* in toSend and toFail, which are also its row locks, until it commits.   *)
(***************************************************************************)
EXTENDS Naturals

CONSTANTS
    Commands,           \* command identifiers
    Claims,             \* concurrent transactions serving GET /edge/commands
    PENDING_EXPIRY,     \* age at which a claim that begins fails a pending command
    UNCONFIRMED_AFTER,  \* age at which a sent command is timed out
    MaxTime,            \* bound: last instant of the clock
    MaxPolicyChanges,   \* bound: changes of policy or of active mapping
    MaxAborts,          \* bound: claims rolled back by a lost connection
    NoCommand           \* "no candidate under examination"

ASSUME CommandsAssumption ==
    /\ PENDING_EXPIRY \in Nat \ {0}
    /\ UNCONFIRMED_AFTER \in Nat \ {0}
    /\ MaxTime \in Nat
    /\ MaxPolicyChanges \in Nat
    /\ MaxAborts \in Nat
    /\ NoCommand \notin Commands

VARIABLES
    now,            \* the clock
    status,         \* committed rows of the table commands, by column
    created,
    sent,
    events,         \* committed rows of the table events, counted by type
    permitted,      \* does the active mapping and policy accept the command?
    policyChanges,
    pc, at, cands, cur, verdict,   \* the claims: step, clock read, candidates,
                                   \* candidate examined, its verdict
    toSend, toFail, \* uncommitted writes, hence row locks, of each claim
    barred,         \* commands refused by the policy ever since a claim began
    aborts,
    edge,           \* the daemon's progress with each command
    outcome,        \* what the daemon observed when it executed it
    wrote,          \* writes of the command that reached the equipment
    ack             \* progress of POST /edge/commands/{id}/ack

claimVars == <<pc, at, cands, cur, verdict, toSend, toFail, barred, aborts>>
edgeVars == <<edge, outcome, wrote>>
policyVars == <<permitted, policyChanges>>
rowVars == <<status, created, sent>>
vars == <<now, rowVars, events, policyVars, claimVars, edgeVars, ack>>

Statuses == {"none", "pending", "sent", "verified", "failed", "timed_out"}
EventTypes == {"COMMAND_REQUESTED", "COMMAND_DISPATCHED", "COMMAND_VERIFIED",
               "COMMAND_FAILED", "COMMAND_TIMED_OUT"}
Outcomes == {"none", "match", "other"}

TypeOK ==
    /\ now \in Nat
    /\ status \in [Commands -> Statuses]
    /\ created \in [Commands -> Nat]
    /\ sent \in [Commands -> Nat]
    /\ events \in [Commands -> [EventTypes -> Nat]]
    /\ permitted \in [Commands -> BOOLEAN]
    /\ policyChanges \in Nat
    /\ pc \in [Claims -> {"idle", "expire", "row", "update"}]
    /\ at \in [Claims -> Nat]
    /\ cands \in [Claims -> SUBSET Commands]
    /\ cur \in [Claims -> Commands \cup {NoCommand}]
    /\ verdict \in [Claims -> BOOLEAN]
    /\ toSend \in [Claims -> SUBSET Commands]
    /\ toFail \in [Claims -> SUBSET Commands]
    /\ barred \in [Claims -> SUBSET Commands]
    /\ aborts \in Nat
    /\ edge \in [Commands -> {"none", "received", "executed", "answered", "lost"}]
    /\ outcome \in [Commands -> Outcomes]
    /\ wrote \in [Commands -> Nat]
    /\ ack \in [Commands -> {"none", "posted", "read", "done", "refused"}]

Init ==
    /\ now = 0
    /\ status = [c \in Commands |-> "none"]
    /\ created = [c \in Commands |-> 0]
    /\ sent = [c \in Commands |-> 0]
    /\ events = [c \in Commands |-> [e \in EventTypes |-> 0]]
    /\ permitted = [c \in Commands |-> TRUE]
    /\ policyChanges = 0
    /\ pc = [k \in Claims |-> "idle"]
    /\ at = [k \in Claims |-> 0]
    /\ cands = [k \in Claims |-> {}]
    /\ cur = [k \in Claims |-> NoCommand]
    /\ verdict = [k \in Claims |-> FALSE]
    /\ toSend = [k \in Claims |-> {}]
    /\ toFail = [k \in Claims |-> {}]
    /\ barred = [k \in Claims |-> {}]
    /\ aborts = 0
    /\ edge = [c \in Commands |-> "none"]
    /\ outcome = [c \in Commands |-> "none"]
    /\ wrote = [c \in Commands |-> 0]
    /\ ack = [c \in Commands |-> "none"]

record_event(c, e) == events' = [events EXCEPT ![c][e] = @ + 1]

-----------------------------------------------------------------------------
(* A person, a schedule or a rule creates a command: refused unless the    *)
(* point is commandable and its active policy accepts the value.           *)
create_command(c) ==
    /\ status[c] = "none"
    /\ permitted[c]
    /\ status' = [status EXCEPT ![c] = "pending"]
    /\ created' = [created EXCEPT ![c] = now]
    /\ record_event(c, "COMMAND_REQUESTED")
    /\ UNCHANGED <<now, sent, policyVars, claimVars, edgeVars, ack>>

(* The mapping of the equipment or the policy of the point is replaced.    *)
ChangePolicy(c) ==
    /\ policyChanges < MaxPolicyChanges
    /\ policyChanges' = policyChanges + 1
    /\ permitted' = [permitted EXCEPT ![c] = ~@]
    /\ barred' = [k \in Claims |-> barred[k] \ {c}]
    /\ UNCHANGED <<now, rowVars, events, pc, at, cands, cur, verdict, toSend, toFail,
                   aborts, edgeVars, ack>>

Tick ==
    /\ now < MaxTime
    /\ now' = now + 1
    /\ UNCHANGED <<rowVars, events, policyVars, claimVars, edgeVars, ack>>

-----------------------------------------------------------------------------
(* claim_pending_commands, one statement at a time.                        *)

Written(k) == toSend[k] \cup toFail[k]
LockedByOther(k, c) == \E j \in Claims \ {k} : c \in Written(j)

ClaimBegin(k) ==
    /\ pc[k] = "idle"
    /\ pc' = [pc EXCEPT ![k] = "expire"]
    /\ at' = [at EXCEPT ![k] = now]
    /\ barred' = [barred EXCEPT ![k] = {c \in Commands : ~permitted[c]}]
    /\ UNCHANGED <<now, rowVars, events, policyVars, cands, cur, verdict, toSend, toFail,
                   aborts, edgeVars, ack>>

(* Mutants of Stale: one instant late; the status is not tested.           *)
StaleOneLate(k) ==
    {c \in Commands \ Written(k) :
        status[c] = "pending" /\ created[c] + PENDING_EXPIRY < at[k]}
StaleWhateverStatus(k) ==
    {c \in Commands \ Written(k) :
        status[c] # "none" /\ created[c] + PENDING_EXPIRY <= at[k]}

(* Rows the UPDATE of _expire_stale_pending_commands still has to visit.   *)
Stale(k) ==
    {c \in Commands \ Written(k) :
        status[c] = "pending" /\ created[c] + PENDING_EXPIRY <= at[k]}

expire_stale_pending_command(k, c) ==
    /\ pc[k] = "expire"
    /\ c \in Stale(k)
    /\ ~LockedByOther(k, c)
    /\ toFail' = [toFail EXCEPT ![k] = @ \cup {c}]
    /\ UNCHANGED <<now, rowVars, events, policyVars, pc, at, cands, cur, verdict, toSend,
                   barred, aborts, edgeVars, ack>>

(* SELECT ... WHERE status = 'pending': rows locked by another claim are   *)
(* still pending for this statement.                                       *)
ClaimSelect(k) ==
    /\ pc[k] = "expire"
    /\ Stale(k) = {}
    /\ cands' = [cands EXCEPT
                   ![k] = {c \in Commands : status[c] = "pending"} \ Written(k)]
    /\ pc' = [pc EXCEPT ![k] = "row"]
    /\ UNCHANGED <<now, rowVars, events, policyVars, at, cur, verdict, toSend, toFail,
                   barred, aborts, edgeVars, ack>>

(* Mutant of ClaimCheck: the verdict of the creation is reused.            *)
ClaimWithoutCheck(k, c) ==
    /\ pc[k] = "row"
    /\ c \in cands[k]
    /\ cur' = [cur EXCEPT ![k] = c]
    /\ verdict' = [verdict EXCEPT ![k] = TRUE]
    /\ pc' = [pc EXCEPT ![k] = "update"]
    /\ UNCHANGED <<now, rowVars, events, policyVars, at, cands, toSend, toFail, barred,
                   aborts, edgeVars, ack>>

(* The candidate's commandability and policy are read again...             *)
ClaimCheck(k, c) ==
    /\ pc[k] = "row"
    /\ c \in cands[k]
    /\ cur' = [cur EXCEPT ![k] = c]
    /\ verdict' = [verdict EXCEPT ![k] = permitted[c]]
    /\ pc' = [pc EXCEPT ![k] = "update"]
    /\ UNCHANGED <<now, rowVars, events, policyVars, at, cands, toSend, toFail, barred,
                   aborts, edgeVars, ack>>

(* ... then UPDATE ... WHERE id AND status = 'pending' RETURNING: no row    *)
(* comes back when another claim has moved it meanwhile.                   *)
GuardedRowById(c) == TRUE      \* mutant: UPDATE ... WHERE id only
GuardedRow(c) == status[c] = "pending"

(* Mutant: a refused candidate is skipped.                                 *)
ClaimSkipsRefused(k) ==
    /\ pc[k] = "update"
    /\ ~LockedByOther(k, cur[k])
    /\ toSend' = [toSend EXCEPT
                    ![k] = @ \cup {c \in {cur[k]} : GuardedRow(c) /\ verdict[k]}]
    /\ cands' = [cands EXCEPT ![k] = @ \ {cur[k]}]
    /\ pc' = [pc EXCEPT ![k] = "row"]
    /\ cur' = [cur EXCEPT ![k] = NoCommand]
    /\ verdict' = [verdict EXCEPT ![k] = FALSE]
    /\ UNCHANGED <<now, rowVars, events, policyVars, at, toFail, barred, aborts, edgeVars, ack>>

ClaimUpdate(k) ==
    /\ pc[k] = "update"
    /\ ~LockedByOther(k, cur[k])
    /\ toSend' = [toSend EXCEPT
                    ![k] = @ \cup {c \in {cur[k]} : GuardedRow(c) /\ verdict[k]}]
    /\ toFail' = [toFail EXCEPT
                    ![k] = @ \cup {c \in {cur[k]} : GuardedRow(c) /\ ~verdict[k]}]
    /\ cands' = [cands EXCEPT ![k] = @ \ {cur[k]}]
    /\ pc' = [pc EXCEPT ![k] = "row"]
    /\ cur' = [cur EXCEPT ![k] = NoCommand]
    /\ verdict' = [verdict EXCEPT ![k] = FALSE]
    /\ UNCHANGED <<now, rowVars, events, policyVars, at, barred, aborts, edgeVars, ack>>

ClaimClosed(k) ==
    /\ pc' = [pc EXCEPT ![k] = "idle"]
    /\ at' = [at EXCEPT ![k] = 0]
    /\ cands' = [cands EXCEPT ![k] = {}]
    /\ cur' = [cur EXCEPT ![k] = NoCommand]
    /\ verdict' = [verdict EXCEPT ![k] = FALSE]
    /\ toSend' = [toSend EXCEPT ![k] = {}]
    /\ toFail' = [toFail EXCEPT ![k] = {}]
    /\ barred' = [barred EXCEPT ![k] = {}]

(* COMMIT, then the answer: it reaches the daemon, or is lost with the     *)
(* commands it carries, which stay 'sent' although nobody holds them.      *)
ClaimCommit(k, delivered) ==
    /\ pc[k] = "row"
    /\ cands[k] = {}
    /\ status' = [c \in Commands |->
                    IF c \in toSend[k] THEN "sent"
                    ELSE IF c \in toFail[k] THEN "failed" ELSE status[c]]
    /\ sent' = [c \in Commands |-> IF c \in toSend[k] THEN at[k] ELSE sent[c]]
    /\ events' = [c \in Commands |->
                    [e \in EventTypes |->
                       IF \/ c \in toSend[k] /\ e = "COMMAND_DISPATCHED"
                          \/ c \in toFail[k] /\ e = "COMMAND_FAILED"
                       THEN events[c][e] + 1
                       ELSE events[c][e]]]
    /\ edge' = [c \in Commands |->
                  IF c \in toSend[k]
                  THEN IF delivered THEN "received" ELSE "lost"
                  ELSE edge[c]]
    /\ ClaimClosed(k)
    /\ UNCHANGED <<now, created, policyVars, aborts, outcome, wrote, ack>>

(* The connection is lost before COMMIT: PostgreSQL rolls back.            *)
ClaimAbort(k) ==
    /\ pc[k] # "idle"
    /\ aborts < MaxAborts
    /\ aborts' = aborts + 1
    /\ ClaimClosed(k)
    /\ UNCHANGED <<now, rowVars, events, policyVars, edgeVars, ack>>

(* Two claims visit the same rows in different orders (no ORDER BY): the   *)
(* deadlock detector rolls back one claim of the cycle.                    *)
WaitsFor(k, j) ==
    /\ k # j
    /\ \/ pc[k] = "update" /\ cur[k] \in Written(j)
       \/ /\ pc[k] = "expire"
          /\ Stale(k) \cap Written(j) # {}
          /\ \A c \in Stale(k) : LockedByOther(k, c)

DeadlockVictim(k) ==
    /\ \E S \in SUBSET Claims :
          /\ k \in S
          /\ \A i \in S : \E j \in S : WaitsFor(i, j)
          /\ \A j \in S : \E i \in S : WaitsFor(i, j)
    /\ ClaimClosed(k)
    /\ UNCHANGED <<now, rowVars, events, policyVars, aborts, edgeVars, ack>>

-----------------------------------------------------------------------------
(* The daemon: one command after another, write, read back, acknowledge.   *)

(* Read back equal, or not: the write failed, or the read back did, or it   *)
(* gave another value, so that the equipment may or may not be written.    *)
ExecuteCommand(c, o, n) ==
    /\ edge[c] = "received"
    /\ \A d \in Commands : edge[d] # "executed"
    /\ o = "match" => n = 1
    /\ edge' = [edge EXCEPT ![c] = "executed"]
    /\ outcome' = [outcome EXCEPT ![c] = o]
    /\ wrote' = [wrote EXCEPT ![c] = @ + n]
    /\ UNCHANGED <<now, rowVars, events, policyVars, claimVars, ack>>

(* Mutant of PostAck: an acknowledgement that fails is answered by         *)
(* executing the command again.                                            *)
PostAckOrReplay(c, arrives) ==
    /\ edge[c] = "executed"
    /\ edge' = [edge EXCEPT ![c] = IF arrives THEN "answered" ELSE "received"]
    /\ ack' = [ack EXCEPT ![c] = IF arrives THEN "posted" ELSE "none"]
    /\ UNCHANGED <<now, rowVars, events, policyVars, claimVars, outcome, wrote>>

(* The acknowledgement is posted; when it cannot be, the daemon logs it    *)
(* and goes on with the next command.                                      *)
PostAck(c, arrives) ==
    /\ edge[c] = "executed"
    /\ edge' = [edge EXCEPT ![c] = IF arrives THEN "answered" ELSE "lost"]
    /\ ack' = [ack EXCEPT ![c] = IF arrives THEN "posted" ELSE "none"]
    /\ UNCHANGED <<now, rowVars, events, policyVars, claimVars, outcome, wrote>>

(* The daemon stops: what it held is in memory only.                       *)
EdgeCrash ==
    /\ \E c \in Commands : edge[c] \in {"received", "executed"}
    /\ edge' = [c \in Commands |->
                  IF edge[c] \in {"received", "executed"} THEN "lost" ELSE edge[c]]
    /\ UNCHANGED <<now, rowVars, events, policyVars, claimVars, outcome, wrote, ack>>

-----------------------------------------------------------------------------
(* acknowledge_command: the status is read, then the row is updated by id  *)
(* only.                                                                   *)
AckRead(c) ==
    /\ ack[c] = "posted"
    /\ ack' = [ack EXCEPT ![c] = IF status[c] = "sent" THEN "read" ELSE "refused"]
    /\ UNCHANGED <<now, rowVars, events, policyVars, claimVars, edgeVars>>

AckUpdate(c) ==
    /\ ack[c] = "read"
    /\ ack' = [ack EXCEPT ![c] = "done"]
    /\ \/ /\ outcome[c] = "match"
          /\ status' = [status EXCEPT ![c] = "verified"]
          /\ record_event(c, "COMMAND_VERIFIED")
       \/ /\ outcome[c] # "match"
          /\ status' = [status EXCEPT ![c] = "failed"]
          /\ record_event(c, "COMMAND_FAILED")
    /\ UNCHANGED <<now, created, sent, policyVars, claimVars, edgeVars>>

(* Mutants of mark_command_timed_out: the status is not tested again; the  *)
(* row gets the name it had before 'timed_out' was stored.                 *)
TimeOutWhateverStatus(c) ==
    /\ status[c] # "none"
    /\ sent[c] + UNCONFIRMED_AFTER <= now
    /\ status' = [status EXCEPT ![c] = "timed_out"]
    /\ record_event(c, "COMMAND_TIMED_OUT")
    /\ UNCHANGED <<now, created, sent, policyVars, claimVars, edgeVars, ack>>
MarkUnconfirmed(c) ==
    /\ status[c] = "sent"
    /\ sent[c] + UNCONFIRMED_AFTER <= now
    /\ status' = [status EXCEPT ![c] = "unconfirmed"]
    /\ record_event(c, "COMMAND_TIMED_OUT")
    /\ UNCHANGED <<now, created, sent, policyVars, claimVars, edgeVars, ack>>

(* mark_command_timed_out, called by the reads of GET /commands: guarded.  *)
mark_command_timed_out(c) ==
    /\ status[c] = "sent"
    /\ sent[c] + UNCONFIRMED_AFTER <= now
    /\ status' = [status EXCEPT ![c] = "timed_out"]
    /\ record_event(c, "COMMAND_TIMED_OUT")
    /\ UNCHANGED <<now, created, sent, policyVars, claimVars, edgeVars, ack>>

-----------------------------------------------------------------------------
ClaimRow(k, c) ==
    \/ cur[k] = c /\ ClaimUpdate(k)
    \/ expire_stale_pending_command(k, c)

ClaimStep(k) ==
    \/ ClaimBegin(k)
    \/ ClaimSelect(k)
    \/ \E c \in Commands : ClaimCheck(k, c)
    \/ \E delivered \in BOOLEAN : ClaimCommit(k, delivered)
    \/ DeadlockVictim(k)

Next ==
    \/ Tick
    \/ \E c \in Commands :
          \/ create_command(c)
          \/ ChangePolicy(c)
          \/ \E o \in {"match", "other"}, n \in {0, 1} : ExecuteCommand(c, o, n)
          \/ \E arrives \in BOOLEAN : PostAck(c, arrives)
          \/ AckRead(c)
          \/ AckUpdate(c)
          \/ mark_command_timed_out(c)
    \/ \E k \in Claims :
          \/ \E c \in Commands : ClaimRow(k, c)
          \/ ClaimStep(k)
          \/ ClaimAbort(k)
    \/ EdgeCrash

Spec == Init /\ [][Next]_vars

(* The daemon polls for ever (its main loop), and PostgreSQL hands a       *)
(* released row lock to the transaction that waits for it.                 *)
Fairness ==
    \A k \in Claims :
        /\ WF_vars(ClaimStep(k))
        /\ \A c \in Commands : SF_vars(ClaimRow(k, c))

FairSpec == Spec /\ Fairness
-----------------------------------------------------------------------------
(* Properties.                                                             *)

(* "Aucune commande ne peut etre recuperee, ni echouee, deux fois"         *)
(* (claim_pending_commands): whatever the concurrent claims, their         *)
(* rollbacks and the late acknowledgements, the journal holds at most one  *)
(* hand-over and at most one failure of a command.                         *)
ClaimedOrFailedOnce ==
    \A c \in Commands :
        /\ events[c]["COMMAND_DISPATCHED"] <= 1
        /\ events[c]["COMMAND_FAILED"] <= 1

(* The equipment is written at most once per command, and only for a       *)
(* command whose hand-over is in the journal: a lost answer, a lost        *)
(* acknowledgement or a daemon restart never replays the write.            *)
WrittenAtMostOnce ==
    \A c \in Commands :
        /\ wrote[c] <= 1
        /\ wrote[c] = 1 => events[c]["COMMAND_DISPATCHED"] = 1

(* No claim hands over a command that had waited PENDING_EXPIRY when the   *)
(* claim began, whatever it waits for and whatever another claim commits   *)
(* or rolls back between its statements: all of them judge by the one      *)
(* instant it read, which is also sent_at (claim_pending_commands,         *)
(* _expire_stale_pending_commands).  It says nothing of the age at the     *)
(* hand-over itself: see ExpiredNeverSent.                                 *)
NeverClaimedStale ==
    \A c \in Commands :
        events[c]["COMMAND_DISPATCHED"] > 0
            => sent[c] < created[c] + PENDING_EXPIRY

(* A claim hands over no command that the active mapping or policy has     *)
(* refused ever since the claim began: the verdict of the creation is not  *)
(* reused (claim_pending_commands checks again).                           *)
NeverSentBarred ==
    \A k \in Claims : toSend[k] \cap barred[k] = {}

(* The journal tells the story of the row: a verified command was handed   *)
(* over, written and read back equal; a stored status has its event.       *)
JournalMatchesRow ==
    \A c \in Commands :
        /\ status[c] = "verified" =>
              /\ events[c]["COMMAND_VERIFIED"] = 1
              /\ wrote[c] = 1
              /\ outcome[c] = "match"
        /\ status[c] = "failed" => events[c]["COMMAND_FAILED"] = 1
        /\ status[c] = "timed_out" => events[c]["COMMAND_TIMED_OUT"] = 1
        /\ events[c]["COMMAND_VERIFIED"] + events[c]["COMMAND_FAILED"] <= 1

(* The pipeline implements the abstract lifecycle.                         *)
Lifecycle == INSTANCE CommandLifecycle WITH
    status <- status,
    dispatched <- {c \in Commands : events[c]["COMMAND_DISPATCHED"] > 0}

ImplementsLifecycle == Lifecycle!Spec

(* Every pending command is eventually handed over or failed, deadlocks    *)
(* and rollbacks of the claims notwithstanding.                            *)
PendingResolved ==
    \A c \in Commands : status[c] = "pending" ~> status[c] # "pending"

(* Not so: "une commande expiree n'est jamais envoyee a l'appareil"        *)
(* (commands.py:222-223), the age being that of the command when the       *)
(* hand-over is committed.  A claim that lasts, for instance because it    *)
(* waits for a row that another one releases, sends what expired           *)
(* meanwhile.                                                              *)
ExpiredNeverSent ==
    [][\A c \in Commands :
         status[c] = "pending" /\ status'[c] = "sent" =>
            now < created[c] + PENDING_EXPIRY]_vars

(* Migration 0ecd01c9754c: 'timed_out' is "un etat terminal persiste".     *)
TimedOutIsTerminal ==
    [][\A c \in Commands :
         status[c] = "timed_out" => status'[c] = "timed_out"]_vars
=============================================================================
