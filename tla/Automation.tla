------------------------------ MODULE Automation ------------------------------
(***************************************************************************)
(* Automation rules and their sweep (app/automation_rules.py,              *)
(* app/automation_rules_sweep.py).                                         *)
(*                                                                         *)
(* A sweep takes its instant once, then evaluates the active rules of the  *)
(* tenant one after the other in one transaction; its events and its       *)
(* commands are visible when it commits.  One sweep runs at a time: the    *)
(* loop of scripts/automation_rules_sweep.py is sequential.                *)
(***************************************************************************)
EXTENDS Integers, Sequences, FiniteSets, SequencesExt

CONSTANTS
    AutoRules,      \* active versions of automation_rule
    Interval,       \* _MIN_INTERVAL_BETWEEN_FIRINGS
    EventLimit,     \* events read by _last_fired_at
    MaxTime,        \* bound: instants of the clock
    MaxEvents,      \* bound: events of a rule
    NoSweep

ASSUME AutomationAssumption ==
    Interval \in Nat \ {0} /\ EventLimit \in Nat \ {0} /\ MaxTime \in Nat

VARIABLES
    time,           \* the clock the sweeps read
    events,         \* of each rule: FIRED and BLOCKED, oldest first
    automated,      \* of each rule: instants of the commands it created
    sweep           \* the open sweep

autoVars == <<time, events, automated, sweep>>

RuleEvents == [type : {"FIRED", "BLOCKED"}, at : 0..MaxTime]
EventsOfRules == [AutoRules -> Seq(RuleEvents)]
CommandsOfRules == [AutoRules -> Seq(0..MaxTime)]

AutoTypeOK ==
    /\ time \in 0..MaxTime
    /\ events \in EventsOfRules
    /\ automated \in CommandsOfRules
    /\ sweep # NoSweep =>
          /\ sweep \in [at : 0..MaxTime, todo : SUBSET AutoRules, events : EventsOfRules,
                        automated : CommandsOfRules]
          /\ sweep.at <= time

AutoInit ==
    /\ time = 0
    /\ events = [r \in AutoRules |-> <<>>]
    /\ automated = [r \in AutoRules |-> <<>>]
    /\ sweep = NoSweep

-----------------------------------------------------------------------------
(* ORDER BY occurred_at DESC, created_at DESC LIMIT: the last ones that    *)
(* were recorded, a sweep never being older than the one before.           *)
list_events_for_subject(log) ==
    SubSeq(log, IF Len(log) > EventLimit THEN Len(log) - EventLimit + 1 ELSE 1, Len(log))

FiringsOf(log) == {e.at : e \in {e \in ToSet(log) : e.type = "FIRED"}}

(* Newest first, the search stops at the first firing.                     *)
last_fired_at(log) ==
    LET fired == FiringsOf(list_events_for_subject(log))
    IN  IF fired = {} THEN {} ELSE {Max(fired)}

(* Mutant: the brake ends an instant too early. *)
CoolsDownShort(log, at) == \E t \in last_fired_at(log) : at - t < Interval - 1
CoolsDown(log, at) == \E t \in last_fired_at(log) : at - t < Interval

(* What stops an evaluation first, in the order of _evaluate_one: the      *)
(* points, their measurements, the mode and the policy change at any time, *)
(* so each evaluation finds one of these.                                  *)
Obstacles == {"trigger_point_missing", "no_data", "untrusted_data", "condition_not_met",
              "manual_mode", "refused", "none"}

Status(log, at, obstacle) == IF CoolsDown(log, at) THEN "cooldown" ELSE obstacle

-----------------------------------------------------------------------------
Tick ==
    /\ time < MaxTime
    /\ time' = time + 1
    /\ UNCHANGED <<events, automated, sweep>>

sweep_once ==
    /\ sweep = NoSweep
    /\ \A r \in AutoRules : Len(events[r]) < MaxEvents
    /\ sweep' = [at |-> time, todo |-> AutoRules, events |-> events, automated |-> automated]
    /\ UNCHANGED <<time, events, automated>>

Records(r, type) == Append(sweep.events[r], [type |-> type, at |-> sweep.at])

(* An evaluation that leaves no trace, a refusal that is recorded, a       *)
(* firing: the command and the event, in the transaction of the sweep.     *)
Evaluate(r) ==
    /\ sweep # NoSweep /\ r \in sweep.todo
    /\ \E obstacle \in Obstacles :
          LET status == Status(sweep.events[r], sweep.at, obstacle) IN
          sweep' = [sweep EXCEPT
              !.todo = @ \ {r},
              !.events[r] = CASE status = "none" -> Records(r, "FIRED")
                              [] status = "refused" -> Records(r, "BLOCKED")
                              [] OTHER -> @,
              !.automated[r] = IF status = "none" THEN Append(@, sweep.at) ELSE @]
    /\ UNCHANGED <<time, events, automated>>

(* The end of the tenant's transaction.                                    *)
SweepDone ==
    /\ sweep # NoSweep /\ sweep.todo = {}
    /\ events' = sweep.events /\ automated' = sweep.automated
    /\ sweep' = NoSweep
    /\ UNCHANGED time

(* create_command refuses what validate_command had accepted (the policy   *)
(* changed in between), or the connection is lost: everything the sweep    *)
(* did for this tenant is rolled back, and the next tenant is swept.       *)
SweepRolledBack ==
    /\ sweep # NoSweep
    /\ sweep' = NoSweep
    /\ UNCHANGED <<time, events, automated>>

AutoNext ==
    \/ Tick \/ sweep_once \/ SweepDone \/ SweepRolledBack
    \/ \E r \in AutoRules : Evaluate(r)

AutoSpec == AutoInit /\ [][AutoNext]_autoVars

-----------------------------------------------------------------------------
(* The brake of the automation (docstring of automation_rules.py, 5): the  *)
(* commands of one version of a rule are at least Interval apart, and each *)
(* has its FIRED event, however many refusals fill the journal and however *)
(* many sweeps were rolled back in between.                                *)
FiredApart == \A r \in AutoRules :
    /\ \A i, j \in 1..Len(automated[r]) :
          i < j => automated[r][j] - automated[r][i] >= Interval
    /\ FiringsOf(events[r]) = ToSet(automated[r])
=============================================================================
