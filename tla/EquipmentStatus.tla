---------------------------- MODULE EquipmentStatus ----------------------------
(***************************************************************************)
(* What the screens tell of an equipment from the same measures, computed  *)
(* when read: its status, alone (app/equipment_status.py) or with the      *)
(* whole portfolio, the latest values (app/telemetry_overview.py), those   *)
(* of its passport (app/passport.py), and the position of a point among    *)
(* its peers (app/comparison.py).                                          *)
(***************************************************************************)
EXTENDS Integers, FiniteSets, FiniteSetsExt

CONSTANTS
    Equipments,     \* functional locations
    StatusTable,    \* of each point: [location, class, interval, order, validated]
    Samples,        \* measures that may arrive: [point, at, value, doubtful]
    StatusInstants, \* instants of the readers
    MaxSamples,     \* bound
    NoSample

VARIABLES
    samples,        \* measurements: [point, at, value, doubtful]
    retired         \* functional locations archived

statusVars == <<samples, retired>>

PointsTold == DOMAIN StatusTable

ASSUME StatusAssumption ==
    /\ \A s \in Samples : s.point \in PointsTold /\ s.at \in Nat /\ s.doubtful \in BOOLEAN
                         /\ s.value \in Int
    /\ IsFiniteSet(PointsTold)
    /\ \A p \in PointsTold : StatusTable[p].interval \in Nat /\ StatusTable[p].order \in Nat
    /\ StatusInstants \subseteq Nat /\ MaxSamples \in Nat
    /\ NoSample \notin Samples

STALE_AFTER == 3    \* STALE_AFTER_INTERVALS

StatusTypeOK ==
    /\ samples \subseteq Samples /\ Cardinality(samples) <= MaxSamples
    /\ \A s \in samples : s.point \in PointsTold
    /\ retired \subseteq Equipments

StatusInit == samples = {} /\ retired = {}

-----------------------------------------------------------------------------
(* A measure arrives, late or not, flagged or not; one per instant of a    *)
(* point.                                                                  *)
RecordSample(new) ==
    /\ Cardinality(samples) < MaxSamples
    /\ \A s \in samples : <<s.point, s.at>> # <<new.point, new.at>>
    /\ samples' = samples \cup {new}
    /\ UNCHANGED retired

Withdraw(e) ==
    /\ e \notin retired
    /\ retired' = retired \cup {e}
    /\ UNCHANGED samples

StatusNext ==
    \/ \E new \in Samples : RecordSample(new)
    \/ \E e \in Equipments : Withdraw(e)

StatusSpec == StatusInit /\ [][StatusNext]_statusVars

-----------------------------------------------------------------------------
LatestSample(from) ==
    IF from = {} THEN NoSample ELSE CHOOSE s \in from : \A t \in from : t.at <= s.at

(* DISTINCT ON (point_id): the latest measure that is not doubtful, of all *)
(* the points asked for.                                                   *)
latest_usable_bulk(ids, at) ==
    [p \in ids |-> LatestSample({s \in samples : s.point = p /\ s.at <= at /\ ~ s.doubtful})]

Fresh(p, s, at) == at - s.at <= STALE_AFTER * StatusTable[p].interval

(* Of the points of one class that have a value, the last by code counts.  *)
ClassValue(ps, latest, class) ==
    LET told == {p \in ps : StatusTable[p].class = class /\ latest[p] # NoSample}
    IN IF told = {} THEN -1
       ELSE latest[CHOOSE p \in told : \A q \in told : StatusTable[q].order <= StatusTable[p].order].value

_operational(ps, latest) ==
    LET Value(class) == ClassValue(ps, latest, class)
    IN CASE Value("fault_status") = 1 -> "fault"
         [] Value("fault_status") # 1 /\ Value("enable_status") = 0 -> "disabled"
         [] OTHER -> IF Value("run_status") = -1 THEN "unknown"
                     ELSE IF Value("run_status") = 1 THEN "running" ELSE "stopped"

_status_from_points(ps, latest, at) ==
    LET told == {p \in ps : latest[p] # NoSample}
        dated == {p \in told : StatusTable[p].interval > 0}
        communication ==
            IF \E p \in dated : Fresh(p, latest[p], at) THEN "online"
            ELSE IF dated # {} THEN "offline" ELSE "unknown"
    IN IF told = {}
       THEN [operational |-> "unknown", communication |-> "unknown", current |-> FALSE,
             as_of |-> -1]
       ELSE [operational |-> _operational(ps, latest), communication |-> communication,
             current |-> communication = "online",
             as_of |-> Max({latest[p].at : p \in told})]

STATUS_CLASSES == {"run_status", "fault_status", "enable_status"}
Validated == {p \in PointsTold : StatusTable[p].validated}
StatusPoints == {p \in Validated : StatusTable[p].class \in STATUS_CLASSES}

compute_equipment_status(e, at) ==
    LET ps == {p \in StatusPoints : StatusTable[p].location = e}
    IN _status_from_points(ps, latest_usable_bulk(ps, at), at)

compute_portfolio_equipment_status(at) ==
    LET latest == latest_usable_bulk(StatusPoints, at)
    IN [e \in Equipments \ retired |->
           _status_from_points({p \in StatusPoints : StatusTable[p].location = e}, latest, at)]

portfolio_telemetry(at) ==
    LET latest == latest_usable_bulk(Validated, at)
    IN [p \in Validated |->
           [shown |-> latest[p],
            stale |-> IF latest[p] = NoSample \/ StatusTable[p].interval = 0 THEN "unknown"
                      ELSE IF Fresh(p, latest[p], at) THEN "fresh" ELSE "stale"]]

(* The passport shows the latest measure, with its flags. *)
_points(p) == LatestSample({s \in samples : s.point = p})

-----------------------------------------------------------------------------
(* The position of a point among the validated points of its class: the    *)
(* mean and the deviation are those of the peers, its own value excluded.  *)
MIN_PEERS_FOR_COMPARISON == 2
Peers(p) == {q \in Validated : StatusTable[q].class = StatusTable[p].class /\ q # p}

compare_point_to_peers(p, at) ==
    LET latest == latest_usable_bulk(Peers(p) \cup {p}, at)
        told == {q \in Peers(p) : latest[q] # NoSample}
        n == Cardinality(told)
        total == FoldSet(LAMBDA q, s : s + latest[q].value, 0, told)
        squares == FoldSet(LAMBDA q, s : s + latest[q].value * latest[q].value, 0, told)
        spread == n * squares - total * total     \* n (n - 1) times the variance
        apart == latest[p].value * n - total      \* n times the distance to the mean
    IN IF latest[p] = NoSample \/ n < MIN_PEERS_FOR_COMPARISON
       THEN [comparable |-> FALSE, outlier |-> FALSE]
       ELSE [comparable |-> TRUE,
             outlier |-> spread > 0 /\ (n - 1) * apart * apart > 4 * n * spread]

-----------------------------------------------------------------------------
(* An equipment has one status, whichever screen asks: alone or with the   *)
(* portfolio, where no archived equipment appears.                         *)
OneStatus ==
    \A at \in StatusInstants :
      LET all == compute_portfolio_equipment_status(at)
      IN /\ DOMAIN all \cap retired = {}
         /\ \A e \in Equipments \ retired : all[e] = compute_equipment_status(e, at)

(* The page of the latest values agrees with the status: on line when and  *)
(* only when one of its values is fresh, off line only when those that     *)
(* should come are all old, and never on line by supposition, without an   *)
(* expected interval.                                                      *)
StatusAgreesWithValues ==
    \A at \in StatusInstants, e \in Equipments :
      LET status == compute_equipment_status(e, at)
          page == portfolio_telemetry(at)
          told == {page[p].stale : p \in {q \in StatusPoints : StatusTable[q].location = e}}
      IN /\ status.current <=> "fresh" \in told
         /\ status.communication = "offline" <=> "stale" \in told /\ "fresh" \notin told
         /\ status.communication = "unknown" => status.operational = "unknown" \/ told = {"unknown"}

(* What the passport shows without a flag is what every page shows.        *)
PassportAgrees ==
    \A p \in Validated :
      LET shown == _points(p)
      IN shown # NoSample /\ ~ shown.doubtful =>
            \A at \in {t \in StatusInstants : t >= shown.at} :
               portfolio_telemetry(at)[p].shown = shown

(* Of the points of a class that have a value, all can be compared or none.*)
ComparedAlike ==
    \A at \in StatusInstants :
      LET latest == latest_usable_bulk(Validated, at)
          told == {p \in Validated : latest[p] # NoSample}
      IN \A p, q \in told : StatusTable[p].class = StatusTable[q].class =>
            compare_point_to_peers(p, at).comparable = compare_point_to_peers(q, at).comparable

(* A point that is called apart of few peers is beyond every one of them.  *)
(* Of six, it may be called apart although one of them has the same value. *)
FEW_PEERS == 5
ApartOfAll ==
    \A at \in StatusInstants :
      LET latest == latest_usable_bulk(Validated, at)
          told == {p \in Validated : latest[p] # NoSample}
      IN \A p \in told :
            LET peers == Peers(p) \cap told
            IN Cardinality(peers) <= FEW_PEERS /\ compare_point_to_peers(p, at).outlier =>
                  \/ \A q \in peers : latest[p].value < latest[q].value
                  \/ \A q \in peers : latest[p].value > latest[q].value

ScreensAgree ==
    OneStatus /\ StatusAgreesWithValues /\ PassportAgrees /\ ComparedAlike /\ ApartOfAll
===============================================================================
