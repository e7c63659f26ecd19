------------------------------ MODULE Placement ------------------------------
(***************************************************************************)
(* The life cycle of the physical units and their places                   *)
(* (app/lifecycle.py, assign_physical_unit in app/assets.py, and their     *)
(* routes).                                                                *)
(*                                                                         *)
(* Requests are transactions in READ COMMITTED: they read what has         *)
(* committed, then write; a written row, and the place of a new open       *)
(* assignment (unique index), stay locked until the end.                   *)
(***************************************************************************)
EXTENDS Naturals, FiniteSets

CONSTANTS
    Units, Places,
    PlaceCalls,     \* requests that may be open at once
    NoUnit, NoCall

VARIABLES
    lifecycle,      \* lifecycle_state of each unit
    assignments,    \* open rows of functional_location_assignments
    placing,        \* what each open request has read and written
    disturbed       \* history: units of two requests that overlapped

placeVars == <<lifecycle, assignments, placing, disturbed>>

TRANSITIONS ==
    [planned        |-> {"ordered", "in_stock"},
     ordered        |-> {"in_stock"},
     in_stock       |-> {"installed", "decommissioned", "disposed"},
     installed      |-> {"commissioned", "removed"},
     commissioned   |-> {"in_service", "removed"},
     in_service     |-> {"out_of_service", "removed"},
     out_of_service |-> {"in_service", "removed"},
     removed        |-> {"in_stock", "installed", "decommissioned"},
     decommissioned |-> {"disposed"},
     disposed       |-> {}]

STATES == DOMAIN TRANSITIONS
ASSIGNMENT_STATES == {"installed", "removed"}
INSTALLABLE_STATES == {"in_stock", "removed"}
MOUNTED_STATES == {"installed", "commissioned", "in_service", "out_of_service"}

Stages == {"looked", "checked", "changed", "removing", "removed", "writing", "written"}

ASSUME PlaceAssumption == NoUnit \notin Units

OpenAssignments == [place : Places, unit : Units]
PlaceRequests ==
    [op : {"assign"}, stage : Stages, place : Places, unit : Units,
     previous : Units \cup {NoUnit}, to : {"installed"}, wrote : SUBSET Units,
     changed : BOOLEAN, closes : SUBSET OpenAssignments]
    \cup [op : {"change"}, stage : Stages, unit : Units, previous : {NoUnit}, to : STATES,
          wrote : SUBSET Units]

PlaceTypeOK ==
    /\ lifecycle \in [Units -> STATES]
    /\ assignments \subseteq OpenAssignments
    /\ placing \in [PlaceCalls -> PlaceRequests \cup {NoCall}]
    /\ disturbed \subseteq Units

PlaceInit ==
    /\ lifecycle = [u \in Units |-> "planned"]
    /\ assignments = {}
    /\ placing = [c \in PlaceCalls |-> NoCall]
    /\ disturbed = {}

-----------------------------------------------------------------------------
AtPlace(p) == {r \in assignments : r.place = p}
get_current_occupant(p) == {r.unit : r \in AtPlace(p)}

Others(c) == {placing[d] : d \in {d \in PlaceCalls \ {c} : placing[d] # NoCall}}
Goes(c, what) == placing' = [placing EXCEPT ![c] = what]
                 /\ UNCHANGED <<lifecycle, assignments, disturbed>>
Refused(c) == Goes(c, NoCall)

UnitFree(c, u) == \A o \in Others(c) : u \notin o.wrote
PlaceFree(c, p) == \A o \in Others(c) : ~(o.op = "assign" /\ o.place = p /\ o.changed)

-----------------------------------------------------------------------------
(* assign_physical_unit reads the occupant, then the state of the unit.    *)
assign_physical_unit(c, p, u) ==
    /\ placing[c] = NoCall
    /\ u \notin get_current_occupant(p)                     \* UNIT_ALREADY_AT_LOCATION
    /\ \E previous \in Units \cup {NoUnit} :
          /\ IF get_current_occupant(p) = {} THEN previous = NoUnit
             ELSE previous \in get_current_occupant(p)
          /\ Goes(c, [op |-> "assign", stage |-> "looked", place |-> p, unit |-> u,
                      previous |-> previous, to |-> "installed", wrote |-> {},
                      changed |-> FALSE, closes |-> {}])

CheckInstallable(c) ==
    /\ placing[c] # NoCall /\ placing[c].stage = "looked"
    /\ IF lifecycle[placing[c].unit] \in INSTALLABLE_STATES
       THEN Goes(c, [placing[c] EXCEPT !.stage = "checked"])
       ELSE Refused(c)

(* The open assignment is closed and the new one inserted.  A request that *)
(* waited for the place finds the other one's row under the unique index.  *)
ChangeOccupant(c) ==
    /\ placing[c] # NoCall /\ placing[c].stage = "checked"
    /\ IF PlaceFree(c, placing[c].place)
       THEN Goes(c, [placing[c] EXCEPT !.stage = "changed", !.changed = TRUE,
                        !.closes = AtPlace(placing[c].place)])
       ELSE Refused(c)

(* The unit that was read at first is taken down, whoever is replaced.     *)
ReadOccupant(c) ==
    LET u == placing[c].previous IN
    /\ placing[c] # NoCall /\ placing[c].stage = "changed"
    /\ Goes(c, [placing[c] EXCEPT
          !.stage = IF u # NoUnit /\ lifecycle[u] \in MOUNTED_STATES THEN "removing"
                    ELSE "removed"])

RemovePrevious(c) ==
    /\ placing[c] # NoCall /\ placing[c].stage = "removing"
    /\ UnitFree(c, placing[c].previous)
    /\ Goes(c, [placing[c] EXCEPT !.stage = "removed", !.wrote = {placing[c].previous}])

(* change_state: the state it leaves is read, then overwritten by id.      *)
DeclarableAny == STATES
Declarable == STATES \ ASSIGNMENT_STATES

ReadState(c) ==
    /\ placing[c] # NoCall /\ placing[c].stage = "removed"
    /\ IF placing[c].to \in TRANSITIONS[lifecycle[placing[c].unit]]
       THEN Goes(c, [placing[c] EXCEPT !.stage = "writing"])
       ELSE Refused(c)

change_state(c, u, to) ==
    /\ placing[c] = NoCall
    /\ to \in Declarable \cap TRANSITIONS[lifecycle[u]]
    /\ Goes(c, [op |-> "change", stage |-> "writing", unit |-> u, previous |-> NoUnit,
                to |-> to, wrote |-> {}])

WriteState(c) ==
    /\ placing[c] # NoCall /\ placing[c].stage = "writing"
    /\ UnitFree(c, placing[c].unit)
    /\ Goes(c, [placing[c] EXCEPT !.stage = "written", !.wrote = @ \cup {placing[c].unit}])

-----------------------------------------------------------------------------
UnitsOf(t) == {t.unit, t.previous} \ {NoUnit}
Meets(t, o) == \/ UnitsOf(t) \cap UnitsOf(o) # {}
               \/ t.op = "assign" /\ o.op = "assign" /\ t.place = o.place

PlaceCommit(c) ==
    LET t == placing[c]
        met == {o \in Others(c) : Meets(t, o)}
    IN
    /\ t # NoCall /\ t.stage = "written"
    /\ lifecycle' = [u \in Units |-> IF u = t.unit THEN t.to
                                     ELSE IF u \in t.wrote THEN "removed" ELSE lifecycle[u]]
    /\ assignments' =
         IF t.op = "change" THEN assignments
         ELSE (assignments \ t.closes) \cup {[place |-> t.place, unit |-> t.unit]}
    /\ disturbed' = disturbed \cup IF met = {} THEN {}
                                   ELSE UnitsOf(t) \cup UNION {UnitsOf(o) : o \in met}
    /\ placing' = [placing EXCEPT ![c] = NoCall]

(* A lost connection, or the victim of a deadlock.                         *)
PlaceRollback(c) == placing[c] # NoCall /\ Refused(c)

PlaceNext == \E c \in PlaceCalls :
    \/ \E p \in Places, u \in Units : assign_physical_unit(c, p, u)
    \/ \E u \in Units, to \in STATES : change_state(c, u, to)
    \/ CheckInstallable(c) \/ ChangeOccupant(c) \/ ReadOccupant(c) \/ RemovePrevious(c)
    \/ ReadState(c) \/ WriteState(c) \/ PlaceCommit(c) \/ PlaceRollback(c)

PlaceSpec == PlaceInit /\ [][PlaceNext]_placeVars

-----------------------------------------------------------------------------
(* The life cycle and the occupation tell the same (lifecycle.py: "pour    *)
(* que cycle de vie et historique d'occupation ne se contredisent          *)
(* jamais"): a place has one unit at most, whatever requests overlap on    *)
(* it, and a unit is mounted exactly when it has one place; the latter for *)
(* the units that no two overlapping requests ever shared.                 *)
UndisturbedConsistent ==
    /\ \A p \in Places : Cardinality(AtPlace(p)) <= 1
    /\ \A u \in Units \ disturbed :
          Cardinality({r \in assignments : r.unit = u})
              = IF lifecycle[u] \in MOUNTED_STATES THEN 1 ELSE 0
=============================================================================
