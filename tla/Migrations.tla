------------------------------ MODULE Migrations ------------------------------
(***************************************************************************)
(* Three series of migrations (migrations/versions/): telemetry points,    *)
(* life cycle of physical units, axes of findings and alarms, each in      *)
(* three steps (expand, migrate, contract), with the creation of the       *)
(* findings between them.  Other revisions rewrite rows too (graph nodes,  *)
(* nomenclature, equipment of archived sites) and are not modelled.        *)
(* A revision is one transaction, upwards or downwards; one that raises    *)
(* changes nothing, which is the absence of a step.  The application runs  *)
(* at the last revision only (its container upgrades before it starts).    *)
(***************************************************************************)
EXTENDS Naturals, FiniteSets

CONSTANTS
    MeasureIds,     \* rows of measurements
    MeasureDates,   \* their dates
    SignalIds,      \* rows of findings and alarms
    NotThere,         \* a row, or a column, that is not there
    MaxWrites       \* bound: writes of the application

VARIABLES
    revision,       \* how many of Revisions are applied
    measures,       \* [MeasureIds -> row or NotThere]
    pointRows,      \* rows of points
    unitRow,        \* a physical unit: does it occupy a location, its state, its events
    signals,        \* [SignalIds -> row or NotThere]
    otherRows,      \* asset_tags, intervention_closures or node_properties hold rows
    family,         \* bound: the rows that a behaviour is about
    appWrites       \* bound

migrationVars ==
    <<revision, measures, pointRows, unitRow, signals, otherRows, family, appWrites>>

Revisions == <<"points expand", "points migrate", "points contract", "findings created",
               "life cycle expand", "life cycle migrate", "life cycle contract",
               "axes expand", "axes migrate", "axes contract">>
PositionOf(name) == CHOOSE i \in DOMAIN Revisions : Revisions[i] = name
LastRevision == Cardinality(DOMAIN Revisions)

SignalAxes ==
    [condition : {"active", "cleared"}, ack : {"unacknowledged", "acknowledged"},
     handling : {"open", "in_progress", "closed", "false_positive"}]
AxesFrom(condition, ack, handling) ==
    [condition |-> condition, ack |-> ack, handling |-> handling]
OldStatuses(kind) ==
    {"open", "acknowledged", "resolved"}
    \cup (IF kind = "finding" THEN {"false_positive"} ELSE {})

SignalRow(kind, status, axes) ==
    [kind |-> kind, status |-> status, axes |-> axes, major |-> FALSE, titled |-> TRUE,
     confirmed |-> FALSE, traced |-> FALSE]
OldSignals ==
    {SignalRow("finding", status, NotThere) : status \in OldStatuses("finding")}
    \cup {SignalRow("alarm", status, NotThere) : status \in OldStatuses("alarm")}

(* The position of a measure goes with its name, into the point and back;  *)
(* its exemplar is the physical unit that took it; a column that is not    *)
(* there tells as its default does.                                        *)
Celsius == "°C"
OldMeasures ==
    [at : MeasureDates, name : {"temp"}, unit : {Celsius, "Cel"}, point : {NotThere},
     exemplar : {"unit", NotThere}, source : {"simulator"}, origin : {NotThere},
     flags : {"none"}]
UnitAtRest == [occupies |-> FALSE, state |-> "in_stock", traced |-> FALSE]
NoMeasures == [m \in MeasureIds |-> NotThere]
NoSignals == [s \in SignalIds |-> NotThere]

(* The rows that an earlier application left at its revision.              *)
MigrationInit ==
    /\ pointRows = {} /\ otherRows = FALSE /\ appWrites = 0
    /\ \/ /\ family = "points" /\ revision = 0
          /\ measures \in [MeasureIds -> OldMeasures \cup {NotThere}]
          /\ unitRow = [UnitAtRest EXCEPT !.state = NotThere] /\ signals = NoSignals
       \/ /\ family = "life cycle" /\ revision = PositionOf("findings created")
          /\ unitRow \in [occupies : BOOLEAN, state : {NotThere}, traced : {FALSE}]
          /\ measures = NoMeasures /\ signals = NoSignals
       \/ /\ family = "signals" /\ revision = PositionOf("life cycle contract")
          /\ signals \in [SignalIds -> OldSignals \cup {NotThere}]
          /\ measures = NoMeasures /\ unitRow = UnitAtRest

-----------------------------------------------------------------------------
(* Points (fa9d56ea8263, 5c9ace67b099, f688f24c2cd4).                      *)

KeptMeasures == {m \in MeasureIds : measures[m] # NotThere}
OriginFrom(source) == IF source = "simulator" THEN "simulated" ELSE "measured"
Ucum(u) == IF u = Celsius THEN "Cel" ELSE u
LegacyCode(m) == <<measures[m].name, measures[m].unit>>
RowOfPoint(code) == CHOOSE p \in pointRows : p.code = code

(* 5c9ace67b099: a point for each name and unit of the measures that have  *)
(* none, unless its code is taken.                                         *)
Orphans == {m \in KeptMeasures : measures[m].point = NotThere}
WithLegacyPoints ==
    pointRows \cup
    {[code |-> LegacyCode(m), name |-> measures[m].name, unit |-> Ucum(measures[m].unit),
      by |-> "migration-f3", status |-> "proposed"] :
        m \in {n \in Orphans : \A p \in pointRows : p.code # LegacyCode(n)}}
CodeAfter(m) == IF m \in Orphans THEN LegacyCode(m) ELSE measures[m].point

(* Two measures of one point at one date: the migration raises.            *)
Duplicates ==
    \E m, n \in KeptMeasures :
        m # n /\ measures[m].at = measures[n].at /\ CodeAfter(m) = CodeAfter(n)

AttachMeasurements ==
    /\ ~ Duplicates
    /\ pointRows' = WithLegacyPoints
    /\ measures' = [m \in MeasureIds |->
          IF m \in Orphans
          THEN [measures[m] EXCEPT !.point = LegacyCode(m),
                                   !.origin = OriginFrom(measures[m].source)]
          ELSE measures[m]]

DetachMeasurements ==
    LET ours == {p \in pointRows : p.by = "migration-f3"} IN
    /\ pointRows' = pointRows \ ours
    /\ measures' = [m \in MeasureIds |->
          IF m \in KeptMeasures /\ \E p \in ours : p.code = measures[m].point
          THEN [measures[m] EXCEPT !.point = NotThere, !.origin = NotThere] ELSE measures[m]]

(* fa9d56ea8263, downwards: the columns that it added go.                  *)
DropNewColumns ==
    measures' = [m \in MeasureIds |->
        IF m \in KeptMeasures
        THEN [measures[m] EXCEPT !.point = NotThere, !.origin = NotThere, !.flags = "none"]
        ELSE NotThere]

(* f688f24c2cd4: the column is required, the date and the point are the    *)
(* key; the old columns go, and are rebuilt from the points, which do not  *)
(* know the exemplar.                                                      *)
PointsRequired ==
    /\ \A m \in KeptMeasures : measures[m].point # NotThere
    /\ \A m, n \in KeptMeasures :
          measures[m].at = measures[n].at /\ measures[m].point = measures[n].point => m = n

DropLegacyColumns ==
    measures' = [m \in MeasureIds |->
        IF m \in KeptMeasures
        THEN [measures[m] EXCEPT !.name = NotThere, !.unit = NotThere, !.exemplar = NotThere]
        ELSE NotThere]
RebuildLegacyColumns ==
    measures' = [m \in MeasureIds |->
        IF m \in KeptMeasures
        THEN [measures[m] EXCEPT !.name = RowOfPoint(measures[m].point).name,
                                 !.unit = RowOfPoint(measures[m].point).unit]
        ELSE NotThere]

-----------------------------------------------------------------------------
(* Life cycle (120f0277be56): what the assignments tell.                   *)
StateTold == IF unitRow.occupies THEN "installed" ELSE "in_stock"
BackfillLifecycle ==
    unitRow' = [unitRow EXCEPT !.state = IF @ = NotThere THEN StateTold ELSE @]

-----------------------------------------------------------------------------
(* Axes (411cfe7c1b9a, b0125567ecd2, ddbfca2ccdde).                        *)

KeptSignals == {s \in SignalIds : signals[s] # NotThere}

AxesOf(row) ==
    AxesFrom(IF row.status \in {"resolved", "false_positive"} THEN "cleared" ELSE "active",
             IF row.status = "open" THEN "unacknowledged" ELSE "acknowledged",
             CASE row.status = "resolved" -> "closed"
               [] row.status = "false_positive" -> "false_positive"
               [] OTHER -> "open")

StatusOf(row) ==
    CASE row.axes.handling = "false_positive" /\ row.kind = "finding" -> "false_positive"
      [] row.axes.handling = "closed"
         \/ (row.axes.handling = "false_positive" /\ row.kind = "alarm") -> "resolved"
      [] row.axes.handling \in {"open", "in_progress"} ->
            IF row.axes.ack = "acknowledged" THEN "acknowledged" ELSE "open"

FillAxes ==
    signals' = [s \in SignalIds |->
        IF s \in KeptSignals /\ signals[s].axes = NotThere
        THEN [signals[s] EXCEPT !.axes = AxesOf(signals[s])] ELSE signals[s]]
AxesRequired == \A s \in KeptSignals : signals[s].axes # NotThere
DropStatus ==
    signals' = [s \in SignalIds |->
        IF s \in KeptSignals THEN [signals[s] EXCEPT !.status = NotThere] ELSE NotThere]
RestoreStatus ==
    /\ \A s \in KeptSignals : signals[s].kind = "finding" => signals[s].titled
    /\ signals' = [s \in SignalIds |->
          IF s \in KeptSignals THEN [signals[s] EXCEPT !.status = StatusOf(signals[s])]
          ELSE NotThere]

(* 411cfe7c1b9a, downwards: raises when a row has no equivalent before it. *)
NothingNew ==
    \A s \in KeptSignals : ~ (signals[s].major \/ signals[s].confirmed \/ signals[s].traced)
DropAxes ==
    /\ NothingNew
    /\ signals' = [s \in SignalIds |->
          IF s \in KeptSignals THEN [signals[s] EXCEPT !.axes = NotThere] ELSE NotThere]

-----------------------------------------------------------------------------
Going(name) == revision < LastRevision /\ Revisions[revision + 1] = name
Undoing(name) == revision > 0 /\ Revisions[revision] = name

Upgrade ==
    /\ revision' = revision + 1
    /\ UNCHANGED <<otherRows, family, appWrites>>
    /\ \/ /\ Going("points migrate") /\ AttachMeasurements
          /\ UNCHANGED <<unitRow, signals>>
       \/ /\ Going("points contract") /\ PointsRequired /\ DropLegacyColumns
          /\ UNCHANGED <<pointRows, unitRow, signals>>
       \/ /\ Going("life cycle migrate") /\ BackfillLifecycle
          /\ UNCHANGED <<measures, pointRows, signals>>
       \/ /\ Going("life cycle contract") /\ unitRow.state # NotThere
          /\ UNCHANGED <<measures, pointRows, unitRow, signals>>
       \/ /\ Going("axes migrate") /\ FillAxes
          /\ UNCHANGED <<measures, pointRows, unitRow>>
       \/ /\ Going("axes contract") /\ AxesRequired /\ DropStatus
          /\ UNCHANGED <<measures, pointRows, unitRow>>
       \/ /\ \E name \in {"points expand", "findings created", "life cycle expand",
                          "axes expand"} : Going(name)
          /\ UNCHANGED <<measures, pointRows, unitRow, signals>>

Downgrade ==
    /\ revision' = revision - 1
    /\ UNCHANGED <<otherRows, family, appWrites>>
    /\ \/ /\ Undoing("points expand") /\ pointRows = {} /\ DropNewColumns
          /\ UNCHANGED <<pointRows, unitRow, signals>>
       \/ /\ Undoing("points migrate") /\ DetachMeasurements
          /\ UNCHANGED <<unitRow, signals>>
       \/ /\ Undoing("points contract") /\ RebuildLegacyColumns
          /\ UNCHANGED <<pointRows, unitRow, signals>>
       \/ /\ Undoing("findings created")
          /\ \A s \in KeptSignals : signals[s].kind # "finding"
          /\ UNCHANGED <<measures, pointRows, unitRow, signals>>
       \/ /\ Undoing("life cycle expand") /\ ~ unitRow.traced /\ ~ otherRows
          /\ unitRow' = [unitRow EXCEPT !.state = NotThere]
          /\ UNCHANGED <<measures, pointRows, signals>>
       \/ /\ Undoing("axes expand") /\ DropAxes
          /\ UNCHANGED <<measures, pointRows, unitRow>>
       \/ /\ Undoing("axes contract") /\ RestoreStatus
          /\ UNCHANGED <<measures, pointRows, unitRow>>
       \/ /\ \E name \in {"life cycle migrate", "life cycle contract", "axes migrate"} :
                Undoing(name)
          /\ UNCHANGED <<measures, pointRows, unitRow, signals>>

-----------------------------------------------------------------------------
(* The application, at the last revision.                                  *)
Writing(rows) ==
    /\ revision = LastRevision /\ family = rows
    /\ appWrites < MaxWrites /\ appWrites' = appWrites + 1
    /\ UNCHANGED <<revision, family>>

(* A point is entered, or identified and then validated.                   *)
PointWritten ==
    /\ Writing("points")
    /\ \/ \E p \in {q \in pointRows : q.status = "proposed"} :
             \E u \in {"Cel", "K"}, s \in {"proposed", "validated"} :
                pointRows' = (pointRows \ {p}) \cup {[p EXCEPT !.unit = u, !.status = s]}
       \/ /\ \A p \in pointRows : p.by # "person"
          /\ pointRows' = pointRows \cup
               {[code |-> <<"entered", "K">>, name |-> "temp", unit |-> "K", by |-> "person",
                 status |-> "proposed"]}
    /\ UNCHANGED <<measures, unitRow, signals, otherRows>>

MeasureArrives(m) ==
    /\ Writing("points") /\ measures[m] = NotThere
    /\ \E p \in pointRows, t \in MeasureDates,
          o \in {"measured", "manual"}, f \in {"none", "out_of_range"} :
          /\ \A n \in KeptMeasures : measures[n].at = t => measures[n].point # p.code
          /\ measures' = [measures EXCEPT ![m] =
                [at |-> t, name |-> NotThere, unit |-> NotThere, point |-> p.code,
                 exemplar |-> NotThere, source |-> "edge", origin |-> o, flags |-> f]]
    /\ UNCHANGED <<pointRows, unitRow, signals, otherRows>>

(* A unit is installed or removed, with an event of its life cycle.        *)
UnitMoves ==
    /\ Writing("life cycle")
    /\ \E installed \in BOOLEAN :
          unitRow' = [occupies |-> installed, traced |-> TRUE,
                      state |-> IF installed THEN "installed" ELSE "removed"]
    /\ UNCHANGED <<measures, pointRows, signals, otherRows>>

(* A tag, a closure or a property is recorded.                             *)
OtherRecorded ==
    /\ Writing("life cycle") /\ otherRows' = TRUE
    /\ UNCHANGED <<measures, pointRows, unitRow, signals>>

(* A signal is raised, one of its axes is changed, a finding is confirmed: *)
(* each with a line of the history that names the field.                   *)
SignalChanges(s) ==
    /\ Writing("signals")
    /\ \/ /\ signals[s] = NotThere
          /\ \E kind \in {"finding", "alarm"}, major, titled \in BOOLEAN :
                signals' = [signals EXCEPT ![s] =
                    [SignalRow(kind, NotThere, AxesFrom("active", "unacknowledged", "open"))
                     EXCEPT !.major = major, !.titled = titled, !.traced = TRUE]]
       \/ /\ signals[s] # NotThere
          /\ \E axes \in SignalAxes :
                signals' = [signals EXCEPT ![s].axes = axes, ![s].traced = TRUE]
       \/ /\ signals[s] # NotThere /\ signals[s].kind = "finding"
          /\ signals' = [signals EXCEPT ![s].confirmed = TRUE, ![s].traced = TRUE]
    /\ UNCHANGED <<measures, pointRows, unitRow, otherRows>>

MigrationNext ==
    \/ Upgrade
    \/ Downgrade
    \/ PointWritten
    \/ UnitMoves
    \/ OtherRecorded
    \/ \E m \in MeasureIds : MeasureArrives(m)
    \/ \E s \in SignalIds : SignalChanges(s)

MigrationSpec == MigrationInit /\ [][MigrationNext]_migrationVars

-----------------------------------------------------------------------------
(* The rows, with the columns of any revision.                             *)
LegacyUnits == {Celsius, "Cel", "K"}
LegacyCodes == ({"temp"} \X LegacyUnits) \cup {<<"entered", "K">>}
MeasureRows ==
    [at : MeasureDates, name : {"temp", NotThere}, unit : LegacyUnits \cup {NotThere},
     point : LegacyCodes \cup {NotThere}, exemplar : {"unit", NotThere},
     source : {"simulator", "edge"}, origin : {"simulated", "measured", "manual", NotThere},
     flags : {"none", "out_of_range"}]
RegisteredRows ==
    [code : LegacyCodes, name : {"temp"}, unit : {"Cel", "K"}, by : {"migration-f3", "person"},
     status : {"proposed", "validated"}]
UnitStates == {"in_stock", "installed", "removed"}
SignalRows ==
    [kind : {"finding", "alarm"}, status : OldStatuses("finding") \cup {NotThere},
     axes : SignalAxes \cup {NotThere}, major : BOOLEAN, titled : BOOLEAN,
     confirmed : BOOLEAN, traced : BOOLEAN]

ASSUME MigrationAssumption ==
    /\ MaxWrites \in Nat
    /\ NotThere \notin {"temp", "unit", "simulated", "measured", "manual"} \cup LegacyUnits \cup LegacyCodes \cup MeasureRows
    /\ NotThere \notin UnitStates
    /\ NotThere \notin OldStatuses("finding") \cup SignalAxes \cup SignalRows

(* The columns that hold rows are those of the revision.                   *)
MigrationTypeOK ==
    /\ revision \in 0..LastRevision /\ appWrites \in 0..MaxWrites
    /\ measures \in [MeasureIds -> MeasureRows \cup {NotThere}]
    /\ pointRows \subseteq RegisteredRows
    /\ unitRow \in [occupies : BOOLEAN, state : UnitStates \cup {NotThere}, traced : BOOLEAN]
    /\ signals \in [SignalIds -> SignalRows \cup {NotThere}]
    /\ \A m \in KeptMeasures :
          /\ measures[m].point = NotThere => revision <= 1
          /\ measures[m].point = NotThere <=> measures[m].origin = NotThere
          /\ measures[m].exemplar # NotThere => revision <= 2
          /\ measures[m].flags # "none" => revision >= 1
    /\ \A s \in KeptSignals :
          /\ signals[s].axes \in SignalAxes \/ (signals[s].axes = NotThere /\ revision < 9)
          /\ signals[s].status \in OldStatuses(signals[s].kind)
             \/ (signals[s].status = NotThere /\ revision = LastRevision)

(* What a row tells, whichever columns hold it.                            *)
MeasureTells(m) ==
    IF measures[m] = NotThere THEN NotThere
    ELSE IF measures[m].point = NotThere
    THEN <<measures[m].at, measures[m].name, Ucum(measures[m].unit)>>
    ELSE LET p == RowOfPoint(measures[m].point) IN <<measures[m].at, p.name, p.unit>>
UnitTells == IF unitRow.state = NotThere THEN StateTold ELSE unitRow.state
SignalTells(s) ==
    IF signals[s] = NotThere THEN NotThere
    ELSE <<IF signals[s].axes = NotThere THEN AxesOf(signals[s]) ELSE signals[s].axes,
           signals[s].major, signals[s].confirmed>>

(* What the migrations lose of a measure, each at one revision and with no *)
(* refusal: its exemplar, where the old columns go; its flags, where the   *)
(* new ones go; its origin, where it leaves its point, to be told again    *)
(* from its source where it joins one.                                     *)
Applied(name) == Going(name) /\ revision' = revision + 1
Undone(name) == Undoing(name) /\ revision' = revision - 1
LosesOnly(m) ==
    measures[m] # NotThere =>
        /\ measures'[m].exemplar # measures[m].exemplar =>
              Applied("points contract") /\ measures'[m].exemplar = NotThere
        /\ measures'[m].flags # measures[m].flags =>
              Undone("points expand") /\ measures'[m].flags = "none"
        /\ measures'[m].origin # measures[m].origin =>
              \/ Undone("points migrate") /\ measures'[m].origin = NotThere
              \/ /\ Applied("points migrate") /\ measures[m].origin = NotThere
                 /\ measures'[m].origin = OriginFrom(measures[m].source)

(* No migration of these series, upwards or downwards, changes the date,   *)
(* the quantity or the unit of a measure, the state of a unit, the axes,   *)
(* the major severity or the confirmation of a signal: the one that could  *)
(* not keep them is refused ("retour arrière refusé").  The exemplar, the  *)
(* flags and the origin of a measure are lost at the revisions named above *)
(* and at no other (f688f24c2cd4:10 owns to the first).                    *)
MeaningKept ==
    revision' # revision =>
        /\ \A m \in MeasureIds : MeasureTells(m)' = MeasureTells(m) /\ LosesOnly(m)
        /\ \A s \in SignalIds : SignalTells(s)' = SignalTells(s)
        /\ UnitTells' = UnitTells

(* Once the rows are migrated the contract step is never refused, and the  *)
(* former status, where it is back, tells the open signals as the axes do: *)
(* the unique index on open findings can be rebuilt either way.            *)
ContractReady ==
    /\ revision = PositionOf("points migrate") => PointsRequired
    /\ revision = PositionOf("life cycle migrate") => unitRow.state # NotThere
    /\ revision = PositionOf("axes migrate") =>
          /\ AxesRequired
          /\ \A s \in KeptSignals :
                signals[s].status \in {"open", "acknowledged"}
                    <=> signals[s].axes.handling \in {"open", "in_progress"}
===============================================================================
