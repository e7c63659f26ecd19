----------------------------- MODULE Supervision ------------------------------
(***************************************************************************)
(* Findings, their alarms and their work orders (app/findings.py,          *)
(* app/signals.py, the end of app/rules.py, app/monitoring.py and the      *)
(* routes over them), for the problems of one deduplication key.           *)
(*                                                                         *)
(* Measurements, status reads and the sweep are transactions that watch    *)
(* the same condition; people handle what they raised.  Each of them reads *)
(* first and writes afterwards, in READ COMMITTED: what it read may be     *)
(* stale by then.  The writes of a transaction hold their row locks until  *)
(* it commits, so the model makes them, with the commit, one step.         *)
(***************************************************************************)
EXTENDS Naturals, FiniteSets

CONSTANTS
    Watchers,       \* measurements, status reads, sweeps evaluating the key
    Operators,      \* people
    Handlings,      \* values of handling_status a person may ask for
    MaxFindings,    \* bound: findings ever raised for the key
    MaxLooks,       \* bound: transactions begun
    NoLook

(* A transaction either evaluates the key or serves a person. *)
ASSUME SuperAssumption ==
    Watchers \cap Operators = {} /\ MaxFindings \in Nat /\ MaxLooks \in Nat

VARIABLES
    key,            \* what the key is about: "rule" raises an alarm, "status" events
    axes,           \* findings and alarms: the axes of each row
    orders,         \* work orders linked to each finding
    looked,         \* what each open transaction has read
    event,          \* last transition event of the key
    looks           \* transactions begun

superVars == <<key, axes, orders, looked, event, looks>>

Numbers == 1..MaxFindings
Signals == ({"finding", "alarm"} \X Numbers) \cup {<<"alarm", 0>>}  \* 0: by hand
Fields == {"condition_state", "ack_state", "handling_status", "certainty"}
Absent == [f \in Fields |-> "absent"]
(* The defaults of a new row; certainty stays "detected" on an alarm. *)
Raised == [condition_state |-> "active", ack_state |-> "unacknowledged",
           handling_status |-> "open", certainty |-> "detected"]
HANDLING_OPEN == {"open", "in_progress"}
Rows ==
    [condition_state : {"active", "cleared"}, ack_state : {"unacknowledged", "acknowledged"},
     handling_status : Handlings \cup {"open"}, certainty : {"detected", "confirmed"}]

Exists(s) == axes[s] # Absent
Open(n) == axes[<<"finding", n>>].handling_status \in HANDLING_OPEN

SuperTypeOK ==
    /\ key \in {"rule", "status"}
    /\ axes \in [Signals -> Rows \cup {Absent}]
    /\ orders \in [Numbers -> SUBSET (Operators \cup {"system"})]
    /\ \A n \in Numbers : Exists(<<"alarm", n>>) <=> key = "rule" /\ Exists(<<"finding", n>>)
    /\ event \in {"none", "WENT_OFFLINE", "CAME_ONLINE"}
    /\ looks \in 0..MaxLooks

SuperInit ==
    /\ key \in {"rule", "status"}
    /\ axes = [s \in Signals |-> Absent]
    /\ orders = [n \in Numbers |-> {}]
    /\ looked = [p \in Watchers \cup Operators |-> NoLook]
    /\ event = "none"
    /\ looks = 0

-----------------------------------------------------------------------------
(* Reading, committing, failing.                                           *)

Look(p, what) ==
    /\ looked[p] = NoLook /\ looks < MaxLooks
    /\ looked' = [looked EXCEPT ![p] = what]
    /\ looks' = looks + 1
    /\ UNCHANGED <<key, axes, orders, event>>

(* The exception of a trigger, of an index or of a guard rolls back.       *)
Fail(p) ==
    /\ looked' = [looked EXCEPT ![p] = NoLook]
    /\ UNCHANGED <<key, axes, orders, event, looks>>

Done(p) == looked' = [looked EXCEPT ![p] = NoLook] /\ UNCHANGED <<key, looks>>

(* set_axis, for a set of <<signal, field, value>>; the line of history    *)
(* that each change adds is left out.                                      *)
set_axis(changes) ==
    axes' = [s \in Signals |-> [f \in Fields |->
          IF \E c \in changes : c[1] = s /\ c[2] = f
          THEN (CHOOSE c \in changes : c[1] = s /\ c[2] = f)[3]
          ELSE axes[s][f]]]

reactivate(s) ==
    {<<s, "condition_state", "active">>, <<s, "ack_state", "unacknowledged">>}

(* A finding and, if it has one, its alarm. *)
Both(n) == {s \in Signals : s[2] = n /\ Exists(s)}

(* uq_findings_one_open. *)
uq_findings_one_openSkipped(n) == TRUE
uq_findings_one_open(n) == \A m \in Numbers \ {n} : ~Open(m)

-----------------------------------------------------------------------------
(* Watchers.                                                               *)

(* The SELECT of raise_or_repeat_finding (breach) or of                    *)
(* clear_finding_by_key.                                                   *)
WatchLook(w, breach) ==
    LET found == {n \in Numbers : Open(n) /\
                     (breach \/ axes[<<"finding", n>>].condition_state = "active")}
    IN  IF found = {}
        THEN breach /\ Look(w, [op |-> "raise"])
        ELSE \E n \in found : Look(w,
                [op |-> IF breach THEN "repeat" ELSE "clear", n |-> n,
                 cleared |-> axes[<<"finding", n>>].condition_state = "cleared"])

(* A value that is flagged or of low trust, a status that is unknown:      *)
(* nothing is looked at, for this key.                                     *)
evaluate_after_measurement(w) == key = "rule" /\ \E breach \in BOOLEAN : WatchLook(w, breach)
evaluate_communication_status(w) == key = "status" /\ \E breach \in BOOLEAN : WatchLook(w, breach)

(* _escalate: an alarm, and a work order if the rule asks for one.         *)
Escalated(n) == IF key = "rule" THEN {<<"finding", n>>, <<"alarm", n>>} ELSE {<<"finding", n>>}
OrderedWith(n) == IF key = "rule" THEN {{}, {"system"}} ELSE {{}}

raise_finding(w) ==
    /\ looked[w].op = "raise"
    /\ \E n \in Numbers :
          /\ ~Exists(<<"finding", n>>)
          /\ \A m \in 1..(n - 1) : Exists(<<"finding", m>>)
          /\ IF uq_findings_one_open(n)
             THEN /\ Done(w)
                  /\ axes' = [s \in Signals |-> IF s \in Escalated(n) THEN Raised ELSE axes[s]]
                  /\ \E order \in OrderedWith(n) : orders' = [orders EXCEPT ![n] = order]
                  /\ event' = IF key = "status" THEN "WENT_OFFLINE" ELSE event
             ELSE Fail(w)

repeat_finding(w) ==
    /\ looked[w].op = "repeat"
    /\ Done(w)
    /\ set_axis(IF looked[w].cleared
                THEN UNION {reactivate(s) : s \in Both(looked[w].n)} ELSE {})
    /\ UNCHANGED <<orders, event>>

clear_finding_by_key(w) ==
    /\ looked[w].op = "clear"
    /\ Done(w)
    /\ set_axis({<<s, "condition_state", "cleared">> : s \in Both(looked[w].n)})
    /\ event' = IF key = "status" THEN "CAME_ONLINE" ELSE event
    /\ UNCHANGED orders

-----------------------------------------------------------------------------
(* People.                                                                 *)

raise_alarm ==
    /\ ~Exists(<<"alarm", 0>>) /\ looks < MaxLooks
    /\ axes' = [axes EXCEPT ![<<"alarm", 0>>] = Raised]
    /\ looks' = looks + 1
    /\ UNCHANGED <<key, orders, looked, event>>

acknowledge(o, s) == Exists(s) /\ Look(o, [op |-> "acknowledge", s |-> s])

set_handling(o, s, value) ==
    /\ Exists(s)
    /\ value = "closed" => axes[s].condition_state # "active"
    /\ Look(o, [op |-> "handle", s |-> s, value |-> value])

clear_condition(o, s) ==
    /\ Exists(s) /\ axes[s].condition_state = "active"
    /\ Look(o, [op |-> "normal", s |-> s])

confirm_finding(o, n) ==
    /\ Exists(<<"finding", n>>)
    /\ axes[<<"finding", n>>].certainty # "confirmed"
    /\ Look(o, [op |-> "confirm", s |-> <<"finding", n>>])

create_work_order_from_finding(o, n) ==
    /\ Exists(<<"finding", n>>) /\ orders[n] = {}
    /\ Look(o, [op |-> "order", s |-> <<"finding", n>>])

(* What the request writes once it has read.                               *)
Wanted(look) ==
    CASE look.op = "acknowledge" -> {<<look.s, "ack_state", "acknowledged">>}
      [] look.op = "normal" -> {<<look.s, "condition_state", "cleared">>}
      [] look.op = "confirm" -> {<<look.s, "certainty", "confirmed">>}
      [] look.op = "handle" ->
            {<<look.s, "handling_status", look.value>>} \cup
            IF look.value \in {"closed", "false_positive"}
            THEN {<<look.s, "ack_state", "acknowledged">>} ELSE {}

(* protect_finding and the index, on the rows as they are now.             *)
protect_finding(look) ==
    LET n == look.s[2] IN
    /\ look.op = "confirm" => axes[look.s].certainty # "confirmed"
    /\ look.op = "order" => orders[n] = {}
    /\ look.op = "handle" /\ look.s[1] = "finding" /\ look.value \in HANDLING_OPEN
          => uq_findings_one_open(n)

PersonWrites(o) ==
    /\ looked[o] # NoLook
    /\ IF ~protect_finding(looked[o]) THEN Fail(o)
       ELSE /\ Done(o) /\ UNCHANGED event
            /\ IF looked[o].op = "order"
               THEN /\ orders' = [orders EXCEPT ![looked[o].s[2]] = @ \cup {o}]
                    /\ UNCHANGED axes
               ELSE set_axis(Wanted(looked[o])) /\ UNCHANGED orders

-----------------------------------------------------------------------------
SignalRoutes(o, kind) ==
    \E s \in Signals :
        /\ s[1] = kind
        /\ \/ acknowledge(o, s)
           \/ clear_condition(o, s) /\ kind = "alarm"
           \/ \E h \in Handlings : set_handling(o, s, h)
FindingRoutes(o) == SignalRoutes(o, "finding") \/ \E n \in Numbers : confirm_finding(o, n)
AlarmRoutes(o) == SignalRoutes(o, "alarm")

SuperNext ==
    \/ \E w \in Watchers :
          \/ evaluate_after_measurement(w)
          \/ evaluate_communication_status(w)
          \/ looked[w] # NoLook /\
                (raise_finding(w) \/ repeat_finding(w) \/ clear_finding_by_key(w))
    \/ raise_alarm
    \/ \E o \in Operators :
          \/ FindingRoutes(o)
          \/ AlarmRoutes(o)
          \/ \E n \in Numbers : create_work_order_from_finding(o, n)
          \/ PersonWrites(o)

SuperSpec == SuperInit /\ [][SuperNext]_superVars

-----------------------------------------------------------------------------
(* A problem being handled has one finding and a finding one work order,   *)
(* whichever measurements, sweeps and planners evaluate it at once         *)
(* (findings.py:5-6, maintenance.py route 192-193).                        *)
OneFindingOneOrder ==
    /\ Cardinality({n \in Numbers : Open(n)}) <= 1
    /\ \A n \in Numbers : Cardinality(orders[n]) <= 1

(* Not so: a signal that is closed is back to normal (signals.py:9-10).    *)
(* A measurement that has read the finding open reactivates it, closed.    *)
ClosedIsNormal ==
    \A s \in Signals :
        axes[s].handling_status = "closed" => axes[s].condition_state = "cleared"

(* Not so: while an outage is going on, the journal of events says so      *)
(* (monitoring.py:48-51).  An outage that starts again before its finding  *)
(* is handled is a repetition, which records no event.                     *)
OutageIsJournaled ==
    key = "status" =>
        \A n \in Numbers :
            Open(n) /\ axes[<<"finding", n>>].condition_state = "active"
                => event = "WENT_OFFLINE"
===============================================================================
