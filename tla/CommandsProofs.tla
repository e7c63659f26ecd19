---------------------------- MODULE CommandsProofs ----------------------------
(***************************************************************************)
(* Proofs about the command pipeline for any set of commands, any number   *)
(* of concurrent claims and any bounds.                                    *)
(*                                                                         *)
(* The safety properties are not inductive by themselves: that a command   *)
(* is handed over once rests on the row locks (a row written by one claim  *)
(* is written by no other and stays pending until that claim ends), and    *)
(* that it is written once rests on the daemon receiving it only with that *)
(* one hand-over.  IInv states both.                                       *)
(***************************************************************************)
EXTENDS Commands, TLAPS

(* A row lock has one holder; a locked row is pending, and an uncommitted  *)
(* hand-over is younger than PENDING_EXPIRY for the clock its claim read.  *)
LockInv ==
    /\ \A j, k \in Claims : j # k => Written(j) \cap Written(k) = {}
    /\ \A k \in Claims :
          /\ toSend[k] \cap toFail[k] = {}
          /\ \A c \in Written(k) : status[c] = "pending"
          /\ \A c \in toSend[k] : at[k] < created[c] + PENDING_EXPIRY

(* Where a claim stands: candidates were young and created when it         *)
(* selected them, and it has not written those it still has to visit.      *)
ClaimInv ==
    \A k \in Claims :
        /\ pc[k] = "idle" => Written(k) = {} /\ cands[k] = {}
        /\ pc[k] = "expire" => toSend[k] = {} /\ cands[k] = {}
        /\ pc[k] = "update" => cur[k] \in cands[k]
        /\ cands[k] \cap Written(k) = {}
        /\ \A c \in cands[k] :
              /\ status[c] # "none"
              /\ at[k] < created[c] + PENDING_EXPIRY

(* What the journal and the daemon know of a command for each stored       *)
(* status.                                                                 *)
Unsent(c) ==
    /\ events[c]["COMMAND_DISPATCHED"] = 0
    /\ edge[c] = "none"
    /\ ack[c] = "none"

HandedOver(c) ==
    /\ events[c]["COMMAND_DISPATCHED"] = 1
    /\ sent[c] < created[c] + PENDING_EXPIRY

Unsettled(c) ==
    /\ events[c]["COMMAND_VERIFIED"] = 0
    /\ events[c]["COMMAND_FAILED"] = 0
    /\ ack[c] # "done"

JournalInv ==
    \A c \in Commands :
        /\ status[c] \in {"none", "pending"} =>
              Unsent(c) /\ Unsettled(c) /\ events[c]["COMMAND_TIMED_OUT"] = 0
        /\ status[c] = "sent" =>
              HandedOver(c) /\ Unsettled(c) /\ events[c]["COMMAND_TIMED_OUT"] = 0
        /\ status[c] = "timed_out" =>
              HandedOver(c) /\ Unsettled(c) /\ events[c]["COMMAND_TIMED_OUT"] = 1
        /\ status[c] = "verified" =>
              /\ HandedOver(c)
              /\ events[c]["COMMAND_VERIFIED"] = 1
              /\ events[c]["COMMAND_FAILED"] = 0
              /\ ack[c] = "done"
              /\ outcome[c] = "match"
        /\ status[c] = "failed" =>
              /\ events[c]["COMMAND_FAILED"] = 1
              /\ events[c]["COMMAND_VERIFIED"] = 0
              /\ Unsent(c) \/ (HandedOver(c) /\ ack[c] = "done")

(* The daemon holds only handed-over commands, and writes on the way from  *)
(* "received" to "executed" only.                                          *)
EdgeInv ==
    \A c \in Commands :
        /\ edge[c] \in {"none", "received"} => wrote[c] = 0
        /\ wrote[c] <= 1
        /\ edge[c] # "none" => HandedOver(c)
        /\ ack[c] # "none" => edge[c] = "answered"
        /\ ack[c] = "read" => status[c] \in {"sent", "timed_out"}
        /\ edge[c] \in {"executed", "answered"} /\ outcome[c] = "match" => wrote[c] = 1

IInv == TypeOK /\ LockInv /\ ClaimInv /\ JournalInv /\ EdgeInv

-----------------------------------------------------------------------------
(* The invariant holds initially.                                          *)
LEMMA InitInv == Init => IInv
  BY CommandsAssumption
  DEF Init, IInv, TypeOK, LockInv, ClaimInv, JournalInv, EdgeInv, Written,
      Statuses, EventTypes, Outcomes, Unsent, Unsettled, HandedOver

(* The steps of Next, one case each: the shape every lemma below reuses.   *)
LEMMA TypeStep == TypeOK /\ [Next]_vars => TypeOK'
  <1> SUFFICES ASSUME TypeOK, [Next]_vars PROVE TypeOK'
    OBVIOUS
  <1> USE DEF TypeOK, claimVars, edgeVars, policyVars, rowVars
  <1>1. CASE Tick
    BY <1>1 DEF Tick
  <1>2. ASSUME NEW c \in Commands, create_command(c) PROVE TypeOK'
    BY <1>2 DEF create_command, record_event, Statuses, EventTypes
  <1>3. ASSUME NEW c \in Commands, ChangePolicy(c) PROVE TypeOK'
    BY <1>3 DEF ChangePolicy
  <1>4. ASSUME NEW c \in Commands, NEW o \in {"match", "other"}, NEW n \in {0, 1},
               ExecuteCommand(c, o, n)
        PROVE  TypeOK'
    BY <1>4 DEF ExecuteCommand, Outcomes
  <1>5. ASSUME NEW c \in Commands, NEW arrives \in BOOLEAN, PostAck(c, arrives)
        PROVE  TypeOK'
    BY <1>5 DEF PostAck
  <1>6. ASSUME NEW c \in Commands, AckRead(c) PROVE TypeOK'
    BY <1>6 DEF AckRead
  <1>7. ASSUME NEW c \in Commands, AckUpdate(c) PROVE TypeOK'
    <2>1. status' \in [Commands -> Statuses]
      BY <1>7 DEF AckUpdate, Statuses
    <2>2. events' \in [Commands -> [EventTypes -> Nat]]
      <3>1. PICK e \in EventTypes : record_event(c, e)
        BY <1>7 DEF AckUpdate, EventTypes
      <3>2. QED
        BY <3>1 DEF record_event
    <2>3. QED
      BY <2>1, <2>2, <1>7 DEF AckUpdate
  <1>8. ASSUME NEW c \in Commands, mark_command_timed_out(c) PROVE TypeOK'
    BY <1>8 DEF mark_command_timed_out, record_event, Statuses, EventTypes
  <1>9. ASSUME NEW k \in Claims, ClaimUpdate(k), cur[k] \in Commands PROVE TypeOK'
    BY <1>9 DEF ClaimUpdate
  <1>10. ASSUME NEW k \in Claims, NEW c \in Commands, expire_stale_pending_command(k, c)
         PROVE  TypeOK'
    BY <1>10 DEF expire_stale_pending_command
  <1>11. ASSUME NEW k \in Claims, ClaimBegin(k) PROVE TypeOK'
    BY <1>11 DEF ClaimBegin
  <1>12. ASSUME NEW k \in Claims, ClaimSelect(k) PROVE TypeOK'
    BY <1>12 DEF ClaimSelect
  <1>13. ASSUME NEW k \in Claims, NEW c \in Commands, ClaimCheck(k, c) PROVE TypeOK'
    BY <1>13 DEF ClaimCheck
  <1>14. ASSUME NEW k \in Claims, NEW delivered \in BOOLEAN, ClaimCommit(k, delivered)
         PROVE  TypeOK'
    <2>1. status' \in [Commands -> Statuses] /\ sent' \in [Commands -> Nat]
      BY <1>14 DEF ClaimCommit, Statuses
    <2>2. events' \in [Commands -> [EventTypes -> Nat]]
      BY <1>14 DEF ClaimCommit
    <2>3. edge' \in [Commands -> {"none", "received", "executed", "answered", "lost"}]
      BY <1>14 DEF ClaimCommit
    <2>4. QED
      BY <2>1, <2>2, <2>3, <1>14 DEF ClaimCommit, ClaimClosed
  <1>15. ASSUME NEW k \in Claims, DeadlockVictim(k) PROVE TypeOK'
    BY <1>15 DEF DeadlockVictim, ClaimClosed
  <1>16. ASSUME NEW k \in Claims, ClaimAbort(k) PROVE TypeOK'
    BY <1>16 DEF ClaimAbort, ClaimClosed
  <1>17. CASE EdgeCrash
    BY <1>17 DEF EdgeCrash
  <1>18. CASE UNCHANGED vars
    BY <1>18 DEF vars
  <1>19. QED
    BY <1>1, <1>2, <1>3, <1>4, <1>5, <1>6, <1>7, <1>8, <1>9, <1>10, <1>11, <1>12,
       <1>13, <1>14, <1>15, <1>16, <1>17, <1>18 DEF Next, ClaimRow, ClaimStep

(* Every reachable state of the command pipeline is well typed.            *)
THEOREM TypeCorrect == Spec => []TypeOK
  <1>1. Init => TypeOK
    BY InitInv DEF IInv
  <1>2. QED
    BY <1>1, TypeStep, PTL DEF Spec

-----------------------------------------------------------------------------
(* Row locks are exclusive and protect a pending row, along every step.    *)
LEMMA LockStep == IInv /\ [Next]_vars => LockInv'
  <1> SUFFICES ASSUME IInv, [Next]_vars PROVE LockInv'
    OBVIOUS
  <1> USE DEF IInv, TypeOK, LockInv, Written, claimVars, rowVars, edgeVars, policyVars
  <1>1. CASE Tick
    BY <1>1 DEF Tick
  <1>2. ASSUME NEW c \in Commands, create_command(c) PROVE LockInv'
    BY <1>2 DEF create_command
  <1>3. ASSUME NEW c \in Commands, ChangePolicy(c) PROVE LockInv'
    BY <1>3 DEF ChangePolicy
  <1>4. ASSUME NEW c \in Commands, NEW o \in {"match", "other"}, NEW n \in {0, 1},
               ExecuteCommand(c, o, n)
        PROVE  LockInv'
    BY <1>4 DEF ExecuteCommand
  <1>5. ASSUME NEW c \in Commands, NEW arrives \in BOOLEAN, PostAck(c, arrives)
        PROVE  LockInv'
    BY <1>5 DEF PostAck
  <1>6. ASSUME NEW c \in Commands, AckRead(c) PROVE LockInv'
    BY <1>6 DEF AckRead
  <1>7. ASSUME NEW c \in Commands, AckUpdate(c) PROVE LockInv'
    <2>1. status[c] \in {"sent", "timed_out"}
      BY <1>7 DEF AckUpdate, EdgeInv
    <2>2. PICK v \in {"verified", "failed"} : status' = [status EXCEPT ![c] = v]
      BY <1>7 DEF AckUpdate
    <2>3. QED
      BY <2>1, <2>2, <1>7 DEF AckUpdate
  <1>8. ASSUME NEW c \in Commands, mark_command_timed_out(c) PROVE LockInv'
    BY <1>8 DEF mark_command_timed_out
  <1>9. ASSUME NEW k \in Claims, ClaimUpdate(k) PROVE LockInv'
    BY <1>9 DEF ClaimUpdate, ClaimInv, LockedByOther, GuardedRow
  <1>10. ASSUME NEW k \in Claims, NEW c \in Commands, expire_stale_pending_command(k, c)
         PROVE  LockInv'
    BY <1>10 DEF expire_stale_pending_command, Stale, LockedByOther
  <1>11. ASSUME NEW k \in Claims, ClaimBegin(k) PROVE LockInv'
    BY <1>11 DEF ClaimBegin, ClaimInv
  <1>12. ASSUME NEW k \in Claims, ClaimSelect(k) PROVE LockInv'
    BY <1>12 DEF ClaimSelect
  <1>13. ASSUME NEW k \in Claims, NEW c \in Commands, ClaimCheck(k, c) PROVE LockInv'
    BY <1>13 DEF ClaimCheck
  <1>14. ASSUME NEW k \in Claims, NEW delivered \in BOOLEAN, ClaimCommit(k, delivered)
         PROVE  LockInv'
    BY <1>14 DEF ClaimCommit, ClaimClosed
  <1>15. ASSUME NEW k \in Claims, DeadlockVictim(k) PROVE LockInv'
    BY <1>15, ZenonT(40) DEF DeadlockVictim, ClaimClosed
  <1>16. ASSUME NEW k \in Claims, ClaimAbort(k) PROVE LockInv'
    BY <1>16 DEF ClaimAbort, ClaimClosed
  <1>17. CASE EdgeCrash
    BY <1>17 DEF EdgeCrash
  <1>18. CASE UNCHANGED vars
    BY <1>18 DEF vars
  <1>19. QED
    BY <1>1, <1>2, <1>3, <1>4, <1>5, <1>6, <1>7, <1>8, <1>9, <1>10, <1>11, <1>12,
       <1>13, <1>14, <1>15, <1>16, <1>17, <1>18 DEF Next, ClaimRow, ClaimStep

(* Candidates stay young, created and unwritten while a claim visits them. *)
LEMMA ClaimInvStep == IInv /\ [Next]_vars => ClaimInv'
  <1> SUFFICES ASSUME IInv, [Next]_vars PROVE ClaimInv'
    OBVIOUS
  <1> USE DEF IInv, TypeOK, ClaimInv, Written, claimVars, rowVars, edgeVars, policyVars
  <1>1. CASE Tick
    BY <1>1 DEF Tick
  <1>2. ASSUME NEW c \in Commands, create_command(c) PROVE  ClaimInv'
    BY <1>2 DEF create_command
  <1>3. ASSUME NEW c \in Commands, ChangePolicy(c) PROVE  ClaimInv'
    BY <1>3 DEF ChangePolicy
  <1>4. ASSUME NEW c \in Commands, NEW o \in {"match", "other"}, NEW n \in {0, 1},
               ExecuteCommand(c, o, n)
        PROVE  ClaimInv'
    BY <1>4 DEF ExecuteCommand
  <1>5. ASSUME NEW c \in Commands, NEW arrives \in BOOLEAN, PostAck(c, arrives)
        PROVE  ClaimInv'
    BY <1>5 DEF PostAck
  <1>6. ASSUME NEW c \in Commands, AckRead(c) PROVE  ClaimInv'
    BY <1>6 DEF AckRead
  <1>7. ASSUME NEW c \in Commands, AckUpdate(c) PROVE  ClaimInv'
    BY <1>7 DEF AckUpdate
  <1>8. ASSUME NEW c \in Commands, mark_command_timed_out(c) PROVE  ClaimInv'
    BY <1>8 DEF mark_command_timed_out
  <1>9. ASSUME NEW k \in Claims, ClaimUpdate(k) PROVE  ClaimInv'
    BY <1>9 DEF ClaimUpdate
  <1>10. ASSUME NEW k \in Claims, NEW c \in Commands, expire_stale_pending_command(k, c)
         PROVE  ClaimInv'
    BY <1>10 DEF expire_stale_pending_command
  <1>11. ASSUME NEW k \in Claims, ClaimBegin(k) PROVE  ClaimInv'
    BY <1>11 DEF ClaimBegin
  <1>12. ASSUME NEW k \in Claims, ClaimSelect(k) PROVE  ClaimInv'
    <2>1. ASSUME NEW c \in cands'[k]
          PROVE  status[c] = "pending" /\ c \notin Written(k) /\ c \in Commands
      BY <1>12, <2>1 DEF ClaimSelect
    <2>2. ASSUME NEW c \in cands'[k]
          PROVE  at[k] < created[c] + PENDING_EXPIRY
      BY <1>12, <2>1, CommandsAssumption DEF ClaimSelect, Stale
    <2>3. QED
      BY <1>12, <2>1, <2>2 DEF ClaimSelect
  <1>13. ASSUME NEW k \in Claims, NEW c \in Commands, ClaimCheck(k, c) PROVE  ClaimInv'
    BY <1>13 DEF ClaimCheck
  <1>14. ASSUME NEW k \in Claims, NEW delivered \in BOOLEAN, ClaimCommit(k, delivered)
         PROVE  ClaimInv'
    BY <1>14 DEF ClaimCommit, ClaimClosed
  <1>15. ASSUME NEW k \in Claims, DeadlockVictim(k) PROVE  ClaimInv'
    BY <1>15 DEF DeadlockVictim, ClaimClosed
  <1>16. ASSUME NEW k \in Claims, ClaimAbort(k) PROVE  ClaimInv'
    BY <1>16 DEF ClaimAbort, ClaimClosed
  <1>17. CASE EdgeCrash
    BY <1>17 DEF EdgeCrash
  <1>18. CASE UNCHANGED vars
    BY <1>18 DEF vars
  <1>19. QED
    BY <1>1, <1>2, <1>3, <1>4, <1>5, <1>6, <1>7, <1>8, <1>9, <1>10, <1>11, <1>12,
       <1>13, <1>14, <1>15, <1>16, <1>17, <1>18 DEF Next, ClaimRow, ClaimStep

(* The journal follows the row, along every step.                          *)
LEMMA JournalInvStep == IInv /\ [Next]_vars => JournalInv'
  <1> SUFFICES ASSUME IInv, [Next]_vars PROVE JournalInv'
    OBVIOUS
  <1> USE DEF IInv, TypeOK, JournalInv, Unsent, Unsettled, HandedOver, claimVars, rowVars, edgeVars, policyVars
  <1>1. CASE Tick
    BY <1>1 DEF Tick
  <1>2. ASSUME NEW c \in Commands, create_command(c) PROVE  JournalInv'
    BY <1>2 DEF create_command, record_event, EventTypes, EdgeInv
  <1>3. ASSUME NEW c \in Commands, ChangePolicy(c) PROVE  JournalInv'
    BY <1>3 DEF ChangePolicy
  <1>4. ASSUME NEW c \in Commands, NEW o \in {"match", "other"}, NEW n \in {0, 1},
               ExecuteCommand(c, o, n)
        PROVE  JournalInv'
    BY <1>4 DEF ExecuteCommand, EdgeInv
  <1>5. ASSUME NEW c \in Commands, NEW arrives \in BOOLEAN, PostAck(c, arrives)
        PROVE  JournalInv'
    BY <1>5 DEF PostAck, EdgeInv
  <1>6. ASSUME NEW c \in Commands, AckRead(c) PROVE  JournalInv'
    BY <1>6 DEF AckRead, EdgeInv
  <1>7. ASSUME NEW c \in Commands, AckUpdate(c) PROVE  JournalInv'
    <2> USE <1>7 DEF AckUpdate, EdgeInv, record_event, EventTypes
    <2>1. CASE outcome[c] = "match"
      BY <2>1
    <2>2. CASE outcome[c] # "match"
      BY <2>2
    <2>3. QED
      BY <2>1, <2>2
  <1>8. ASSUME NEW c \in Commands, mark_command_timed_out(c) PROVE  JournalInv'
    BY <1>8 DEF mark_command_timed_out, record_event, EventTypes
  <1>9. ASSUME NEW k \in Claims, ClaimUpdate(k) PROVE  JournalInv'
    BY <1>9 DEF ClaimUpdate
  <1>10. ASSUME NEW k \in Claims, NEW c \in Commands, expire_stale_pending_command(k, c)
         PROVE  JournalInv'
    BY <1>10 DEF expire_stale_pending_command
  <1>11. ASSUME NEW k \in Claims, ClaimBegin(k) PROVE  JournalInv'
    BY <1>11 DEF ClaimBegin
  <1>12. ASSUME NEW k \in Claims, ClaimSelect(k) PROVE  JournalInv'
    BY <1>12 DEF ClaimSelect
  <1>13. ASSUME NEW k \in Claims, NEW c \in Commands, ClaimCheck(k, c) PROVE  JournalInv'
    BY <1>13 DEF ClaimCheck
  <1>14. ASSUME NEW k \in Claims, NEW delivered \in BOOLEAN, ClaimCommit(k, delivered)
         PROVE  JournalInv'
    BY <1>14 DEF ClaimCommit, ClaimClosed, LockInv, Written, EventTypes
  <1>15. ASSUME NEW k \in Claims, DeadlockVictim(k) PROVE  JournalInv'
    BY <1>15 DEF DeadlockVictim, ClaimClosed
  <1>16. ASSUME NEW k \in Claims, ClaimAbort(k) PROVE  JournalInv'
    BY <1>16 DEF ClaimAbort, ClaimClosed
  <1>17. CASE EdgeCrash
    BY <1>17 DEF EdgeCrash, EdgeInv
  <1>18. CASE UNCHANGED vars
    BY <1>18 DEF vars
  <1>19. QED
    BY SMTT(30), <1>1, <1>2, <1>3, <1>4, <1>5, <1>6, <1>7, <1>8, <1>9, <1>10, <1>11, <1>12,
       <1>13, <1>14, <1>15, <1>16, <1>17, <1>18 DEF Next, ClaimRow, ClaimStep

(* The daemon writes a command on its way from received to executed only.  *)
LEMMA EdgeInvStep == IInv /\ [Next]_vars => EdgeInv'
  <1> SUFFICES ASSUME IInv, [Next]_vars PROVE EdgeInv'
    OBVIOUS
  <1> USE DEF IInv, TypeOK, EdgeInv, HandedOver, claimVars, rowVars, edgeVars, policyVars
  <1>1. CASE Tick
    BY <1>1 DEF Tick
  <1>2. ASSUME NEW c \in Commands, create_command(c) PROVE  EdgeInv'
    BY <1>2 DEF create_command, JournalInv, Unsent, record_event, EventTypes
  <1>3. ASSUME NEW c \in Commands, ChangePolicy(c) PROVE  EdgeInv'
    BY <1>3 DEF ChangePolicy
  <1>4. ASSUME NEW c \in Commands, NEW o \in {"match", "other"}, NEW n \in {0, 1},
               ExecuteCommand(c, o, n)
        PROVE  EdgeInv'
    BY <1>4 DEF ExecuteCommand
  <1>5. ASSUME NEW c \in Commands, NEW arrives \in BOOLEAN, PostAck(c, arrives)
        PROVE  EdgeInv'
    BY <1>5 DEF PostAck
  <1>6. ASSUME NEW c \in Commands, AckRead(c) PROVE  EdgeInv'
    BY <1>6 DEF AckRead
  <1>7. ASSUME NEW c \in Commands, AckUpdate(c) PROVE  EdgeInv'
    <2> USE <1>7 DEF AckUpdate, JournalInv, record_event, EventTypes
    <2>1. CASE outcome[c] = "match"
      BY <2>1
    <2>2. CASE outcome[c] # "match"
      BY <2>2
    <2>3. QED
      BY <2>1, <2>2
  <1>8. ASSUME NEW c \in Commands, mark_command_timed_out(c) PROVE  EdgeInv'
    BY <1>8 DEF mark_command_timed_out, record_event, EventTypes
  <1>9. ASSUME NEW k \in Claims, ClaimUpdate(k) PROVE  EdgeInv'
    BY <1>9 DEF ClaimUpdate
  <1>10. ASSUME NEW k \in Claims, NEW c \in Commands, expire_stale_pending_command(k, c)
         PROVE  EdgeInv'
    BY <1>10 DEF expire_stale_pending_command
  <1>11. ASSUME NEW k \in Claims, ClaimBegin(k) PROVE  EdgeInv'
    BY <1>11 DEF ClaimBegin
  <1>12. ASSUME NEW k \in Claims, ClaimSelect(k) PROVE  EdgeInv'
    BY <1>12 DEF ClaimSelect
  <1>13. ASSUME NEW k \in Claims, NEW c \in Commands, ClaimCheck(k, c) PROVE  EdgeInv'
    BY <1>13 DEF ClaimCheck
  <1>14. ASSUME NEW k \in Claims, NEW delivered \in BOOLEAN, ClaimCommit(k, delivered)
         PROVE  EdgeInv'
    BY <1>14 DEF ClaimCommit, ClaimClosed, LockInv, JournalInv, Unsent, Written, EventTypes
  <1>15. ASSUME NEW k \in Claims, DeadlockVictim(k) PROVE  EdgeInv'
    BY <1>15 DEF DeadlockVictim, ClaimClosed
  <1>16. ASSUME NEW k \in Claims, ClaimAbort(k) PROVE  EdgeInv'
    BY <1>16 DEF ClaimAbort, ClaimClosed
  <1>17. CASE EdgeCrash
    BY <1>17 DEF EdgeCrash
  <1>18. CASE UNCHANGED vars
    BY <1>18 DEF vars
  <1>19. QED
    BY <1>1, <1>2, <1>3, <1>4, <1>5, <1>6, <1>7, <1>8, <1>9, <1>10, <1>11, <1>12,
       <1>13, <1>14, <1>15, <1>16, <1>17, <1>18 DEF Next, ClaimRow, ClaimStep

-----------------------------------------------------------------------------
(* The conjunction is inductive: InitInv and the five step lemmas.         *)
LEMMA InductiveInvariant == Spec => []IInv
  <1>1. IInv /\ [Next]_vars => IInv'
    BY TypeStep, LockStep, ClaimInvStep, JournalInvStep, EdgeInvStep DEF IInv
  <1>2. QED
    BY InitInv, <1>1, PTL DEF Spec

(* What the invariant says of the counts, whatever the status.             *)
LEMMA JournalCounts ==
  ASSUME IInv, NEW c \in Commands
  PROVE  /\ events[c]["COMMAND_DISPATCHED"] \in {0, 1}
         /\ events[c]["COMMAND_VERIFIED"] \in {0, 1}
         /\ events[c]["COMMAND_FAILED"] \in {0, 1}
         /\ events[c]["COMMAND_VERIFIED"] = 0 \/ events[c]["COMMAND_FAILED"] = 0
         /\ events[c]["COMMAND_DISPATCHED"] # 0 => HandedOver(c)
  <1>1. status[c] \in Statuses
    BY DEF IInv, TypeOK
  <1>2. CASE status[c] \in {"none", "pending"}
    BY <1>2 DEF IInv, JournalInv, Unsent, Unsettled
  <1>3. CASE status[c] \in {"sent", "timed_out"}
    BY <1>3 DEF IInv, JournalInv, HandedOver, Unsettled
  <1>4. CASE status[c] = "verified"
    BY <1>4 DEF IInv, JournalInv, HandedOver
  <1>5. CASE status[c] = "failed"
    BY <1>5 DEF IInv, JournalInv, HandedOver, Unsent
  <1>6. QED
    BY <1>1, <1>2, <1>3, <1>4, <1>5 DEF Statuses

(* No command is claimed twice, nor failed twice, whatever the number of   *)
(* concurrent claims.                                                      *)
THEOREM ClaimedOrFailedOnceHolds == Spec => []ClaimedOrFailedOnce
  <1>1. IInv => ClaimedOrFailedOnce
    <2> SUFFICES ASSUME IInv, NEW c \in Commands
                 PROVE  /\ events[c]["COMMAND_DISPATCHED"] <= 1
                        /\ events[c]["COMMAND_FAILED"] <= 1
      BY DEF ClaimedOrFailedOnce
    <2>1. QED
      BY JournalCounts
  <1>2. QED
    BY <1>1, InductiveInvariant, PTL

(* A command is written at most once, and only after its hand-over.        *)
THEOREM WrittenAtMostOnceHolds == Spec => []WrittenAtMostOnce
  <1>1. IInv => WrittenAtMostOnce
    <2> SUFFICES ASSUME IInv, NEW c \in Commands
                 PROVE  /\ wrote[c] <= 1
                        /\ wrote[c] = 1 => events[c]["COMMAND_DISPATCHED"] = 1
      BY DEF WrittenAtMostOnce
    <2>1. wrote[c] = 1 => edge[c] # "none"
      BY DEF IInv, EdgeInv
    <2>2. QED
      BY <2>1 DEF IInv, EdgeInv, HandedOver
  <1>2. QED
    BY <1>1, InductiveInvariant, PTL

(* No claim hands over a command that had waited PENDING_EXPIRY when the   *)
(* claim began, for any commands, claims, expiry and interleaving of their *)
(* statements (commands.py, claim_pending_commands).                       *)
THEOREM NeverClaimedStaleHolds == Spec => []NeverClaimedStale
  <1>1. IInv => NeverClaimedStale
    <2> SUFFICES ASSUME IInv, NEW c \in Commands, events[c]["COMMAND_DISPATCHED"] > 0
                 PROVE  sent[c] < created[c] + PENDING_EXPIRY
      BY DEF NeverClaimedStale
    <2>1. QED
      BY JournalCounts DEF HandedOver
  <1>2. QED
    BY <1>1, InductiveInvariant, PTL

(* The stored status has its event, and "verified" means written and read  *)
(* back equal.                                                             *)
THEOREM JournalMatchesRowHolds == Spec => []JournalMatchesRow
  <1>1. IInv => JournalMatchesRow
    <2> SUFFICES ASSUME IInv, NEW c \in Commands
                 PROVE  /\ status[c] = "verified" =>
                              /\ events[c]["COMMAND_VERIFIED"] = 1
                              /\ wrote[c] = 1
                              /\ outcome[c] = "match"
                        /\ status[c] = "failed" => events[c]["COMMAND_FAILED"] = 1
                        /\ status[c] = "timed_out" => events[c]["COMMAND_TIMED_OUT"] = 1
                        /\ events[c]["COMMAND_VERIFIED"] + events[c]["COMMAND_FAILED"] <= 1
      BY DEF JournalMatchesRow
    <2>1. status[c] = "verified" => wrote[c] = 1
      BY DEF IInv, JournalInv, EdgeInv
    <2>2. events[c]["COMMAND_VERIFIED"] + events[c]["COMMAND_FAILED"] <= 1
      BY JournalCounts
    <2>3. QED
      BY <2>1, <2>2 DEF IInv, JournalInv
  <1>2. QED
    BY <1>1, InductiveInvariant, PTL

-----------------------------------------------------------------------------
(* What a claim knows to be barred is still refused, and the verdict it    *)
(* holds for its current candidate was read after it began.                *)
BarInv ==
    \A k \in Claims :
        /\ toSend[k] \cap barred[k] = {}
        /\ \A c \in barred[k] : ~permitted[c]
        /\ verdict[k] => pc[k] = "update" /\ cur[k] \notin barred[k]

(* A change of policy clears the command it touches, so BarInv is kept.    *)
LEMMA BarInvStep == TypeOK /\ ClaimInv /\ BarInv /\ [Next]_vars => BarInv'
  <1> SUFFICES ASSUME TypeOK, ClaimInv, BarInv, [Next]_vars PROVE BarInv'
    OBVIOUS
  <1> USE DEF TypeOK, BarInv, claimVars, rowVars, edgeVars, policyVars
  <1>1. CASE Tick
    BY <1>1 DEF Tick
  <1>2. ASSUME NEW c \in Commands, create_command(c) PROVE  BarInv'
    BY <1>2 DEF create_command
  <1>3. ASSUME NEW c \in Commands, ChangePolicy(c) PROVE  BarInv'
    BY <1>3 DEF ChangePolicy
  <1>4. ASSUME NEW c \in Commands, NEW o \in {"match", "other"}, NEW n \in {0, 1},
               ExecuteCommand(c, o, n)
        PROVE  BarInv'
    BY <1>4 DEF ExecuteCommand
  <1>5. ASSUME NEW c \in Commands, NEW arrives \in BOOLEAN, PostAck(c, arrives)
        PROVE  BarInv'
    BY <1>5 DEF PostAck
  <1>6. ASSUME NEW c \in Commands, AckRead(c) PROVE  BarInv'
    BY <1>6 DEF AckRead
  <1>7. ASSUME NEW c \in Commands, AckUpdate(c) PROVE  BarInv'
    BY <1>7 DEF AckUpdate
  <1>8. ASSUME NEW c \in Commands, mark_command_timed_out(c) PROVE  BarInv'
    BY <1>8 DEF mark_command_timed_out
  <1>9. ASSUME NEW k \in Claims, ClaimUpdate(k) PROVE  BarInv'
    BY <1>9 DEF ClaimUpdate
  <1>10. ASSUME NEW k \in Claims, NEW c \in Commands, expire_stale_pending_command(k, c)
         PROVE  BarInv'
    BY <1>10 DEF expire_stale_pending_command
  <1>11. ASSUME NEW k \in Claims, ClaimBegin(k) PROVE  BarInv'
    BY <1>11 DEF ClaimBegin, ClaimInv, Written
  <1>12. ASSUME NEW k \in Claims, ClaimSelect(k) PROVE  BarInv'
    BY <1>12 DEF ClaimSelect
  <1>13. ASSUME NEW k \in Claims, NEW c \in Commands, ClaimCheck(k, c) PROVE  BarInv'
    BY <1>13 DEF ClaimCheck
  <1>14. ASSUME NEW k \in Claims, NEW delivered \in BOOLEAN, ClaimCommit(k, delivered)
         PROVE  BarInv'
    BY <1>14 DEF ClaimCommit, ClaimClosed
  <1>15. ASSUME NEW k \in Claims, DeadlockVictim(k) PROVE  BarInv'
    BY <1>15 DEF DeadlockVictim, ClaimClosed
  <1>16. ASSUME NEW k \in Claims, ClaimAbort(k) PROVE  BarInv'
    BY <1>16 DEF ClaimAbort, ClaimClosed
  <1>17. CASE EdgeCrash
    BY <1>17 DEF EdgeCrash
  <1>18. CASE UNCHANGED vars
    BY <1>18 DEF vars
  <1>19. QED
    BY <1>1, <1>2, <1>3, <1>4, <1>5, <1>6, <1>7, <1>8, <1>9, <1>10, <1>11, <1>12,
       <1>13, <1>14, <1>15, <1>16, <1>17, <1>18 DEF Next, ClaimRow, ClaimStep

(* A claim hands over nothing that has been refused ever since it began.   *)
THEOREM NeverSentBarredHolds == Spec => []NeverSentBarred
  <1>1. Init => BarInv
    BY DEF Init, BarInv
  <1>2. IInv /\ BarInv /\ [Next]_vars => BarInv'
    BY BarInvStep DEF IInv
  <1>3. BarInv => NeverSentBarred
    BY DEF BarInv, NeverSentBarred
  <1>4. QED
    BY <1>1, <1>2, <1>3, InductiveInvariant, PTL DEF Spec

-----------------------------------------------------------------------------

(* Every step of the pipeline is a step of the abstract lifecycle.         *)
LEMMA AdvanceStep == IInv /\ [Next]_vars => Lifecycle!Advance
  <1> SUFFICES ASSUME IInv, [Next]_vars PROVE Lifecycle!Advance
    OBVIOUS
  <1> USE DEF TypeOK, Lifecycle!Advance, Lifecycle!Moves, IInv, JournalInv, claimVars, rowVars, edgeVars, policyVars
  <1>1. CASE Tick
    BY <1>1 DEF Tick
  <1>2. ASSUME NEW c \in Commands, create_command(c) PROVE  Lifecycle!Advance
    BY <1>2 DEF create_command, record_event, EventTypes
  <1>3. ASSUME NEW c \in Commands, ChangePolicy(c) PROVE  Lifecycle!Advance
    BY <1>3 DEF ChangePolicy
  <1>4. ASSUME NEW c \in Commands, NEW o \in {"match", "other"}, NEW n \in {0, 1},
               ExecuteCommand(c, o, n)
        PROVE  Lifecycle!Advance
    BY <1>4 DEF ExecuteCommand
  <1>5. ASSUME NEW c \in Commands, NEW arrives \in BOOLEAN, PostAck(c, arrives)
        PROVE  Lifecycle!Advance
    BY <1>5 DEF PostAck
  <1>6. ASSUME NEW c \in Commands, AckRead(c) PROVE  Lifecycle!Advance
    BY <1>6 DEF AckRead
  <1>7. ASSUME NEW c \in Commands, AckUpdate(c) PROVE  Lifecycle!Advance
    <2>1. status[c] \in {"sent", "timed_out"}
      BY <1>7 DEF AckUpdate, EdgeInv
    <2>2. PICK v \in {"verified", "failed"} : status' = [status EXCEPT ![c] = v]
      BY <1>7 DEF AckUpdate
    <2>3. PICK e \in {"COMMAND_VERIFIED", "COMMAND_FAILED"} : record_event(c, e)
      BY <1>7 DEF AckUpdate
    <2>4. \A d \in Commands : events'[d]["COMMAND_DISPATCHED"] = events[d]["COMMAND_DISPATCHED"]
      BY <2>3 DEF record_event, EventTypes
    <2>5. \A d \in Commands :
            status'[d] = status[d] \/ <<status[d], status'[d]>> \in Lifecycle!Moves
      BY <2>1, <2>2
    <2>6. {d \in Commands : status[d] = "pending" /\ status'[d] = "sent"} = {}
      BY <2>2
    <2>7. DOMAIN status' = Commands
      BY <2>2
    <2>8. QED
      BY <2>4, <2>5, <2>6, <2>7
  <1>8. ASSUME NEW c \in Commands, mark_command_timed_out(c) PROVE  Lifecycle!Advance
    BY <1>8 DEF mark_command_timed_out, record_event, EventTypes
  <1>9. ASSUME NEW k \in Claims, ClaimUpdate(k) PROVE  Lifecycle!Advance
    BY <1>9 DEF ClaimUpdate
  <1>10. ASSUME NEW k \in Claims, NEW c \in Commands, expire_stale_pending_command(k, c)
         PROVE  Lifecycle!Advance
    BY <1>10 DEF expire_stale_pending_command
  <1>11. ASSUME NEW k \in Claims, ClaimBegin(k) PROVE  Lifecycle!Advance
    BY <1>11 DEF ClaimBegin
  <1>12. ASSUME NEW k \in Claims, ClaimSelect(k) PROVE  Lifecycle!Advance
    BY <1>12 DEF ClaimSelect
  <1>13. ASSUME NEW k \in Claims, NEW c \in Commands, ClaimCheck(k, c) PROVE  Lifecycle!Advance
    BY <1>13 DEF ClaimCheck
  <1>14. ASSUME NEW k \in Claims, NEW delivered \in BOOLEAN, ClaimCommit(k, delivered)
         PROVE  Lifecycle!Advance
    BY <1>14 DEF ClaimCommit, ClaimClosed, LockInv, Written, EventTypes
  <1>15. ASSUME NEW k \in Claims, DeadlockVictim(k) PROVE  Lifecycle!Advance
    BY <1>15 DEF DeadlockVictim, ClaimClosed
  <1>16. ASSUME NEW k \in Claims, ClaimAbort(k) PROVE  Lifecycle!Advance
    BY <1>16 DEF ClaimAbort, ClaimClosed
  <1>17. CASE EdgeCrash
    BY <1>17 DEF EdgeCrash
  <1>18. CASE UNCHANGED vars
    BY <1>18 DEF vars
  <1>19. QED
    BY <1>1, <1>2, <1>3, <1>4, <1>5, <1>6, <1>7, <1>8, <1>9, <1>10, <1>11, <1>12,
       <1>13, <1>14, <1>15, <1>16, <1>17, <1>18 DEF Next, ClaimRow, ClaimStep

(* The pipeline implements the abstract lifecycle.                         *)
THEOREM Refinement == Spec => ImplementsLifecycle
  <1>1. Init => Lifecycle!Init
    BY DEF Init, Lifecycle!Init, EventTypes
  <1>2. IInv /\ [Next]_vars => Lifecycle!Advance
    BY AdvanceStep
  <1>3. QED
    BY <1>1, <1>2, InductiveInvariant, PTL DEF Spec, ImplementsLifecycle, Lifecycle!Spec
=============================================================================
