------------------------ MODULE ScheduledCommandsProofs ------------------------
(***************************************************************************)
(* Proofs about planned commands, for any schedules, any bounds and any    *)
(* cancellations.  What counts the commands created holds for the sweeps   *)
(* of the deployment, which follow one another: OneSweep is a hypothesis   *)
(* of those theorems, the code itself does not exclude two.                *)
(***************************************************************************)
EXTENDS ScheduledCommands, TLAPS

OneSweep == \A v, w \in Sweeps : v = w

(* What a sweep has selected or written was planned and is due, and the    *)
(* verdict it acts upon was given since the sweep began.                   *)
Handled(w) == todo[w] \cup Written(w)
SweepInv ==
    \A w \in Sweeps :
        /\ pc[w] = "idle" => Handled(w) = {}
        /\ pc[w] \in {"update", "audit"} => cur[w] \in todo[w]
        /\ barred[w] \subseteq {s \in Schedules : ~permitted[s]}
        /\ pc[w] = "update" /\ verdict[w] => cur[w] \notin barred[w]
        /\ \A s \in Handled(w) : status[s] # "none" /\ due[s] <= now

(* What has a command was planned and its time has come.                   *)
MadeInTime == \A s \in Schedules : made[s] # 0 => status[s] # "none" /\ due[s] <= now

(* Nothing that the sweep handles has a command yet.                       *)
HandledOnce ==
    /\ StatusTellsTheCommand
    /\ \A s \in Schedules : made[s] <= 1
    /\ \A w \in Sweeps : \A s \in Handled(w) : made[s] = 0

Inv == TypeOK /\ SweepInv /\ MadeInTime /\ NeverDispatchedBarred

-----------------------------------------------------------------------------
LEMMA InitInv == Init => Inv /\ HandledOnce
  <1> SUFFICES ASSUME Init PROVE Inv /\ HandledOnce
    OBVIOUS
  <1> USE DEF Init
  <1>1. TypeOK
    BY DEF TypeOK, Statuses
  <1>2. SweepInv
    BY DEF SweepInv, Handled, Written
  <1>3. MadeInTime /\ NeverDispatchedBarred
    BY DEF MadeInTime, NeverDispatchedBarred
  <1>4. HandledOnce
    BY DEF HandledOnce, StatusTellsTheCommand, Handled, Written
  <1>5. QED
    BY <1>1, <1>2, <1>3, <1>4 DEF Inv

LEMMA TypeStep == TypeOK /\ SweepInv /\ [Next]_vars => TypeOK'
  <1> SUFFICES ASSUME TypeOK, SweepInv, [Next]_vars PROVE TypeOK'
    OBVIOUS
  <1> USE DEF TypeOK, vars, sweepVars, policyVars
  <1>1. CASE Tick
    BY <1>1 DEF Tick
  <1>2. ASSUME NEW s \in Schedules, NEW t \in 1..MaxTime, schedule_command(s, t)
        PROVE  TypeOK'
    BY <1>2, ScheduledCommandsAssumption DEF schedule_command, Statuses
  <1>3. ASSUME NEW s \in Schedules, ChangePolicy(s)
        PROVE  TypeOK'
    BY <1>3 DEF ChangePolicy
  <1>4. ASSUME NEW s \in Schedules, CancelRead(s) \/ CancelStep(s)
        PROVE  TypeOK'
    BY <1>4 DEF CancelRead, CancelStep, CancelUpdate, CancelCommit, CancelVictim, Statuses
  <1>5. ASSUME NEW w \in Sweeps, SweepBegin(w)
        PROVE  TypeOK'
    BY <1>5 DEF SweepBegin, Due
  <1>6. ASSUME NEW w \in Sweeps, NEW s \in Schedules, SweepCheck(w, s)
        PROVE  TypeOK'
    BY <1>6 DEF SweepCheck
  <1>7. ASSUME NEW w \in Sweeps, SweepUpdate(w)
        PROVE  TypeOK'
    <2>1. cur[w] \in Schedules
      BY <1>7 DEF SweepUpdate, SweepInv
    <2>2. QED
      BY <1>7, <2>1 DEF SweepUpdate
  <1>8. ASSUME NEW w \in Sweeps, SweepAudit(w)
        PROVE  TypeOK'
    BY <1>8 DEF SweepAudit
  <1>9. ASSUME NEW w \in Sweeps, SweepClosed(w)
        PROVE  /\ pc' \in [Sweeps -> {"idle", "row", "update", "audit"}]
               /\ at' \in [Sweeps -> Nat]
               /\ todo' \in [Sweeps -> SUBSET Schedules]
               /\ cur' \in [Sweeps -> Schedules \cup {Nobody}]
               /\ verdict' \in [Sweeps -> BOOLEAN]
               /\ dispatching' \in [Sweeps -> SUBSET Schedules]
               /\ failing' \in [Sweeps -> SUBSET Schedules]
               /\ barred' \in [Sweeps -> SUBSET Schedules]
               /\ auditLock' \in Sweeps \cup Schedules \cup {Nobody}
    BY <1>9 DEF SweepClosed
  <1>10. ASSUME NEW w \in Sweeps, SweepCommit(w)
         PROVE  TypeOK'
    <2>1. SweepClosed(w)
      BY <1>10 DEF SweepCommit
    <2>2. status' \in [Schedules -> Statuses] /\ made' \in [Schedules -> Nat]
      BY <1>10 DEF SweepCommit, Statuses
    <2>3. UNCHANGED <<now, due, permitted, policyChanges, aborts, cancel>>
      BY <1>10 DEF SweepCommit
    <2>4. QED
      BY <1>9, <2>1, <2>2, <2>3
  <1>11. ASSUME NEW w \in Sweeps, SweepVictim(w) \/ SweepAbort(w)
         PROVE  TypeOK'
    <2>1. SweepClosed(w)
      BY <1>11 DEF SweepVictim, SweepAbort
    <2>2. aborts' \in Nat
      BY <1>11 DEF SweepVictim, SweepAbort
    <2>3. UNCHANGED <<now, status, due, made, permitted, policyChanges, cancel>>
      BY <1>11 DEF SweepVictim, SweepAbort
    <2>4. QED
      BY <1>9, <2>1, <2>2, <2>3
  <1>12. CASE UNCHANGED vars
    BY <1>12
  <1>13. QED
    BY <1>1, <1>2, <1>3, <1>4, <1>5, <1>6, <1>7, <1>8, <1>10, <1>11, <1>12
    DEF Next, SweepStep

(* A sweep that ends handles nothing any more, whatever became of it.      *)
LEMMA ClosedHandlesNothing ==
  ASSUME TypeOK, NEW w \in Sweeps, SweepClosed(w)
  PROVE  /\ pc'[w] = "idle" /\ todo'[w] = {} /\ dispatching'[w] = {} /\ failing'[w] = {}
         /\ barred'[w] = {}
         /\ \A v \in Sweeps \ {w} :
               /\ pc'[v] = pc[v] /\ todo'[v] = todo[v] /\ cur'[v] = cur[v]
               /\ verdict'[v] = verdict[v] /\ barred'[v] = barred[v]
               /\ dispatching'[v] = dispatching[v] /\ failing'[v] = failing[v]
  BY DEF TypeOK, SweepClosed

LEMMA SweepStepInv == Inv /\ [Next]_vars => SweepInv' /\ MadeInTime' /\ NeverDispatchedBarred'
  <1> DEFINE Goal == SweepInv' /\ MadeInTime' /\ NeverDispatchedBarred'
  <1> SUFFICES ASSUME Inv, [Next]_vars PROVE Goal
    OBVIOUS
  <1> USE DEF vars, sweepVars, policyVars
  <1> USE DEF Inv, TypeOK, SweepInv, MadeInTime, NeverDispatchedBarred, Handled, Written
  <1>1. CASE Tick
    BY <1>1 DEF Tick
  <1>2. ASSUME NEW s \in Schedules, NEW t \in 1..MaxTime, schedule_command(s, t)
        PROVE  Goal
    BY <1>2, ScheduledCommandsAssumption DEF schedule_command
  <1>3. ASSUME NEW s \in Schedules, ChangePolicy(s)
        PROVE  Goal
    BY <1>3 DEF ChangePolicy
  <1>4. ASSUME NEW s \in Schedules, CancelRead(s) \/ CancelStep(s)
        PROVE  Goal
    BY <1>4 DEF CancelRead, CancelStep, CancelUpdate, CancelCommit, CancelVictim
  <1>5. ASSUME NEW w \in Sweeps, SweepBegin(w)
        PROVE  Goal
    BY <1>5 DEF SweepBegin, Due
  <1>6. ASSUME NEW w \in Sweeps, NEW s \in Schedules, SweepCheck(w, s)
        PROVE  Goal
    BY <1>6 DEF SweepCheck
  <1>7. ASSUME NEW w \in Sweeps, SweepUpdate(w)
        PROVE  Goal
    BY <1>7 DEF SweepUpdate
  <1>8. ASSUME NEW w \in Sweeps, SweepAudit(w)
        PROVE  Goal
    BY <1>8 DEF SweepAudit
  <1>9. ASSUME NEW w \in Sweeps, SweepCommit(w)
        PROVE  Goal
    <2>1. SweepClosed(w) /\ UNCHANGED <<now, due, permitted>>
      BY <1>9 DEF SweepCommit
    <2>2. \A s \in Schedules :
            /\ status[s] # "none" => status'[s] # "none"
            /\ s \notin Handled(w) => made'[s] = made[s]
      BY <1>9 DEF SweepCommit
    <2>3. MadeInTime'
      BY <2>1, <2>2
    <2>4. SweepInv' /\ NeverDispatchedBarred'
      BY <2>1, <2>2, ClosedHandlesNothing
    <2>5. QED
      BY <2>3, <2>4
  <1>10. ASSUME NEW w \in Sweeps, SweepVictim(w) \/ SweepAbort(w)
         PROVE  Goal
    <2>1. SweepClosed(w)
      BY <1>10 DEF SweepVictim, SweepAbort
    <2>2. UNCHANGED <<now, status, due, made, permitted>>
      BY <1>10 DEF SweepVictim, SweepAbort
    <2>3. QED
      BY <2>1, <2>2, ClosedHandlesNothing
  <1>11. CASE UNCHANGED vars
    BY <1>11
  <1>12. QED
    BY <1>1, <1>2, <1>3, <1>4, <1>5, <1>6, <1>7, <1>8, <1>9, <1>10, <1>11
    DEF Next, SweepStep

(* With sweeps that follow one another: a commit creates the first command *)
(* of what it dispatches, and nothing else is being handled then.          *)
LEMMA HandledStep ==
  ASSUME OneSweep
  PROVE  Inv /\ HandledOnce /\ [Next]_vars => HandledOnce'
  <1> SUFFICES ASSUME Inv, HandledOnce, [Next]_vars PROVE HandledOnce'
    OBVIOUS
  <1> USE DEF vars, sweepVars, policyVars
  <1> USE DEF Inv, TypeOK, SweepInv, HandledOnce, StatusTellsTheCommand, Handled, Written
  <1>1. CASE Tick
    BY <1>1 DEF Tick
  <1>2. ASSUME NEW s \in Schedules, NEW t \in 1..MaxTime, schedule_command(s, t)
        PROVE  HandledOnce'
    BY <1>2 DEF schedule_command
  <1>3. ASSUME NEW s \in Schedules, ChangePolicy(s)
        PROVE  HandledOnce'
    BY <1>3 DEF ChangePolicy
  <1>4. ASSUME NEW s \in Schedules, CancelRead(s) \/ CancelStep(s)
        PROVE  HandledOnce'
    BY <1>4 DEF CancelRead, CancelStep, CancelUpdate, CancelCommit, CancelVictim
  <1>5. ASSUME NEW w \in Sweeps, SweepBegin(w)
        PROVE  HandledOnce'
    BY <1>5 DEF SweepBegin, Due
  <1>6. ASSUME NEW w \in Sweeps, NEW s \in Schedules, SweepCheck(w, s)
        PROVE  HandledOnce'
    BY <1>6 DEF SweepCheck
  <1>7. ASSUME NEW w \in Sweeps, SweepUpdate(w)
        PROVE  HandledOnce'
    BY <1>7 DEF SweepUpdate
  <1>8. ASSUME NEW w \in Sweeps, SweepAudit(w)
        PROVE  HandledOnce'
    BY <1>8 DEF SweepAudit
  <1>9. ASSUME NEW w \in Sweeps, SweepCommit(w)
        PROVE  HandledOnce'
    <2>1. \A v \in Sweeps : Handled(v)' = {}
      BY <1>9, ClosedHandlesNothing DEF SweepCommit, OneSweep
    <2>2. \A s \in Schedules :
            /\ status'[s] = IF s \in dispatching[w] THEN "dispatched"
                            ELSE IF s \in failing[w] THEN "failed" ELSE status[s]
            /\ made'[s] = IF s \in dispatching[w] THEN made[s] + 1 ELSE made[s]
            /\ s \in dispatching[w] \cup failing[w] => made[s] = 0
      BY <1>9 DEF SweepCommit
    <2>3. QED
      BY <2>1, <2>2
  <1>10. ASSUME NEW w \in Sweeps, SweepVictim(w) \/ SweepAbort(w)
         PROVE  HandledOnce'
    <2>1. SweepClosed(w)
      BY <1>10 DEF SweepVictim, SweepAbort
    <2>2. UNCHANGED <<status, made>>
      BY <1>10 DEF SweepVictim, SweepAbort
    <2>3. QED
      BY <2>1, <2>2, ClosedHandlesNothing
  <1>11. CASE UNCHANGED vars
    BY <1>11
  <1>12. QED
    BY <1>1, <1>2, <1>3, <1>4, <1>5, <1>6, <1>7, <1>8, <1>9, <1>10, <1>11
    DEF Next, SweepStep

LEMMA Invariant == Spec => []Inv
  <1>1. Inv /\ [Next]_vars => Inv'
    BY TypeStep, SweepStepInv DEF Inv
  <1>2. QED
    BY <1>1, InitInv, PTL DEF Spec

LEMMA OneSweepInvariant == ASSUME OneSweep PROVE Spec => [](Inv /\ HandledOnce)
  <1>1. Inv /\ HandledOnce /\ [Next]_vars => (Inv /\ HandledOnce)'
    BY TypeStep, SweepStepInv, HandledStep DEF Inv
  <1>2. QED
    BY <1>1, InitInv, PTL DEF Spec

-----------------------------------------------------------------------------
(* Statuses, verdicts and locks keep their types: a sweep only ever writes *)
(* the planned commands it has selected.                                   *)
THEOREM TypeCorrect == Spec => []TypeOK
  <1>1. Inv => TypeOK
    BY DEF Inv
  <1>2. QED
    BY <1>1, Invariant, PTL

(* Even with sweeps that overlap, nothing is dispatched that the policy    *)
(* has refused ever since the sweep began: create_command's validation is  *)
(* made anew (dispatch_due_scheduled_commands).                            *)
THEOREM NeverDispatchedBarredHolds == Spec => []NeverDispatchedBarred
  <1>1. Inv => NeverDispatchedBarred
    BY DEF Inv
  <1>2. QED
    BY <1>1, Invariant, PTL

(* With sweeps that follow one another, a planned command gives one        *)
(* command at most, and none before its instant.                           *)
THEOREM OneCommandAtItsTimeHolds == ASSUME OneSweep PROVE Spec => []OneCommandAtItsTime
  <1>1. Inv /\ HandledOnce => OneCommandAtItsTime
    <2>1. HandledOnce => \A s \in Schedules : made[s] <= 1
      BY DEF HandledOnce
    <2>2. Inv => MadeInTime
      BY DEF Inv
    <2>3. ASSUME MadeInTime, NEW s \in Schedules, made[s] = 1
          PROVE  due[s] <= now
      <3>1. made[s] # 0
        BY <2>3
      <3>2. QED
        BY <2>3, <3>1 DEF MadeInTime
    <2>4. QED
      BY <2>1, <2>2, <2>3 DEF OneCommandAtItsTime
  <1>2. QED
    BY <1>1, OneSweepInvariant, PTL

(* With sweeps that follow one another, a plan that is pending or failed   *)
(* has created nothing, a dispatched one has created its command, whatever *)
(* the cancellations and the deadlocks with them.                          *)
THEOREM StatusTellsTheCommandHolds == ASSUME OneSweep PROVE Spec => []StatusTellsTheCommand
  <1>1. Inv /\ HandledOnce => StatusTellsTheCommand
    BY DEF HandledOnce
  <1>2. QED
    BY <1>1, OneSweepInvariant, PTL
===============================================================================
