----------------------------- MODULE Diagnostics -----------------------------
(***************************************************************************)
(* The judgement of a measurement: trust of the point (app/trust.py), the  *)
(* deterministic rules (app/rules.py) and the desired state they compare   *)
(* with (app/desired_states.py).                                           *)
(*                                                                         *)
(* Arithmetic is exact: means and deviations are compared as fractions, a  *)
(* ratio rounded to three digits is an integer of thousandths.  A reading  *)
(* may arrive late (offline buffer, replayed import): it is judged at its  *)
(* own instant, with what is recorded by then.                             *)
(***************************************************************************)
EXTENDS Integers, FiniteSets, FiniteSetsExt

CONSTANTS
    Points,         \* type, kind, validated, expected interval, and (bound) values
    Rules,          \* contents of the active alarm_rule versions
    DesiredStates,  \* declared expectations
    Day,            \* instants of a day, for the daily windows
    FrozenWindow, FlagWindow, CompletenessWindow,
    HistoryLimit,   \* rows of a history that a rule reads at most: 1000
    Instants, Flags,
    MaxReadings,    \* bound: readings of each point
    Together        \* bound: sets of points that are measured in one behaviour

ASSUME DiagAssumption ==
    /\ Instants \subseteq Nat /\ HistoryLimit \in Nat \ {0}
    /\ \A p \in DOMAIN Points : Points[p].values \subseteq Int
    /\ \A k \in DOMAIN Rules :
          /\ Rules[k].kind = "short_cycling" => {Rules[k].window, Rules[k].max_starts} \subseteq Nat
          /\ Rules[k].kind = "trend_projection" =>
                Rules[k].window \in Nat /\ {Rules[k].threshold, Rules[k].horizon} \subseteq Int

STALE_AFTER_INTERVALS == 3
MIN_TRUST_FOR_RULES == 50
BLOCKING_FLAGS == {"out_of_range", "clock_suspect"}

VARIABLES
    readings,       \* measurements: point, at, value, flag
    open,           \* findings that are open, by key
    judged          \* history: the reading evaluated last

diagVars == <<readings, open, judged>>

PointIds == DOMAIN Points
RuleIds == DOMAIN Rules
Readings == UNION {[point : {p}, at : Instants, value : Points[p].values, flag : Flags \cup {"none"}]
                      : p \in PointIds}
Keys == (PointIds \X (BLOCKING_FLAGS \cup {"low_trust"})) \cup ({"rule"} \X RuleIds)

DiagTypeOK ==
    /\ readings \subseteq Readings
    /\ \A r, q \in readings : r.point = q.point /\ r.at = q.at => r = q
    /\ open \subseteq Keys
    /\ judged \subseteq readings /\ Cardinality(judged) <= 1

DiagInit == readings = {} /\ open = {} /\ judged = {}

-----------------------------------------------------------------------------
(* What the queries read.                                                  *)
Between(rs, from, to) == {r \in rs : from <= r.at /\ r.at < to}
Since(rs, from) == {r \in rs : r.at >= from}
Until(rs, at) == {r \in rs : r.at <= at}
Newest(rs) == CHOOSE r \in rs : \A q \in rs : q.at <= r.at
Oldest(rs) == CHOOSE r \in rs : \A q \in rs : q.at >= r.at
NewestFew(rs, n) == {r \in rs : Cardinality({q \in rs : q.at > r.at}) < n}

(* What a rule reads of its window: every reading, doubtful or not, later  *)
(* than the one judged or not, but the latest ones only.                   *)
list_measurements(rs, since) == NewestFew(Since(rs, since), HistoryLimit)

Total(rs) == FoldSet(LAMBDA r, s : s + r.value, 0, rs)
Squares(rs) == FoldSet(LAMBDA r, s : s + r.value * r.value, 0, rs)
Abs(n) == IF n < 0 THEN -n ELSE n

Thousandths(a, b) == (2000 * a + b) \div (2 * b)

-----------------------------------------------------------------------------
(* compute_trust at an instant, from what was measured until then.         *)
Frozen(p, rs) ==
    LET last == NewestFew(rs, FrozenWindow) IN
    /\ Points[p].type = "number" /\ Points[p].kind = "sensor"
    /\ Cardinality(last) = FrozenWindow
    /\ Cardinality({r.value : r \in last}) = 1

Stale(p, rs, at) ==
    /\ Points[p].interval # 0 /\ rs # {}
    /\ at - Newest(rs).at > STALE_AFTER_INTERVALS * Points[p].interval

Completeness(p, rs, all, at) ==
    IF Points[p].interval = 0 \/ rs = {} THEN 1000
    ELSE LET start == Max({at - CompletenessWindow, Oldest(all).at})
             expected == (at - start) \div Points[p].interval + 1
         IN  Min({1000, Thousandths(Cardinality(Since(rs, start)), expected)})

Flagged(rs) ==
    LET recent == NewestFew(rs, FlagWindow) IN
    IF recent = {} THEN 0
    ELSE Thousandths(Cardinality({r \in recent : r.flag # "none"}), Cardinality(recent))

(* `all' starts with the first measurement of the point, even a later one. *)
compute_trust(p, all, at) ==
    LET rs == Until(all, at)
        base == 100 - (IF Frozen(p, rs) THEN 60 ELSE 0) - (IF Stale(p, rs, at) THEN 40 ELSE 0)
        scaled == base * (1000 + Completeness(p, rs, all, at)) * (1000 - Flagged(rs))
    IN  IF ~Points[p].validated THEN 0 ELSE Max({0, Min({100, (scaled + 1000000) \div 2000000})})

-----------------------------------------------------------------------------
(* The rules.  `rs' holds the readings of the point, the one that is       *)
(* judged included; `v' and `at' are its value and its instant.            *)
Beyond(operator, v, threshold) == IF operator = ">" THEN v > threshold ELSE v < threshold

(* Starts in what is read of the window; the reading before the window     *)
(* tells whether it began on.                                              *)
SeedUnknown(rs, start) == FALSE
Seed(rs, start) == LET before == {r \in rs : r.at < start}
                   IN  before # {} /\ Newest(before).value = 1

Starts(rs, start) ==
    LET history == list_measurements(rs, start) IN
    {r \in history :
        LET earlier == {q \in history : q.at < r.at} IN
        /\ r.value = 1
        /\ IF earlier = {} THEN ~Seed(rs, start) ELSE Newest(earlier).value # 1}

short_cycling(rule, rs, at) == Cardinality(Starts(rs, at - rule.window)) > rule.max_starts

(* The secant from the first reading of the history to the one judged.     *)
trend_projection(rule, rs, v, at) ==
    LET first == Oldest(list_measurements(rs, at - rule.window))
        rise == IF rule.operator = ">" THEN v - first.value ELSE first.value - v
        left == IF rule.operator = ">" THEN rule.threshold - v ELSE v - rule.threshold
    IN  /\ ~Beyond(rule.operator, v, rule.threshold)
        /\ first.at < at
        /\ rise > 0
        /\ 0 <= left /\ left * (at - first.at) <= rule.horizon * rise

(* |mean of n readings - mean of the baseline| > k standard deviations of  *)
(* the baseline, squared and multiplied out.                               *)
Deviates(total, n, baseline, k) ==
    LET b == Cardinality(baseline)
        spread == b * Squares(baseline) - Total(baseline) * Total(baseline)
        gap == total * b - Total(baseline) * n
    IN  spread # 0 /\ gap * gap * (b - 1) > k * k * n * n * b * spread

statistical_anomaly(rule, rs, v, at) ==
    LET baseline == Between(list_measurements(rs, at - rule.window), at - rule.window, at) IN
    /\ Cardinality(baseline) >= rule.min_samples
    /\ Deviates(v, 1, baseline, rule.deviation)

(* One history for both windows: the reference is what the recent one      *)
(* leaves of it.                                                           *)
baseline_drift(rule, rs, v, at) ==
    LET start == at - rule.recent
        history == list_measurements(rs, start - rule.reference)
        reference == Between(history, start - rule.reference, start)
        recent == Between(history, start, at)
        n == Cardinality(recent) + 1
    IN  /\ Cardinality(reference) >= rule.min_samples /\ n >= rule.min_samples
        /\ Deviates(Total(recent) + v, n, reference, rule.deviation)

(* The expectation that holds at an instant: the latest by the date it     *)
(* holds from, then by the instant it was recorded.                        *)
in_daily_window(at, d) ==
    IF d.start < d.end THEN d.start <= at % Day /\ at % Day < d.end
    ELSE at % Day >= d.start \/ at % Day < d.end

desired_state_at(p, at) ==
    LET holds == {d \in DesiredStates :
                    /\ d.point = p /\ d.from <= at /\ at < d.to
                    /\ d.daily => in_daily_window(at, d)}
        Before(e, d) == e.from < d.from \/ (e.from = d.from /\ e.recorded <= d.recorded)
    IN  {d \in holds : \A e \in holds : Before(e, d)}

(* The other point of a correlation: its last usable value, if recent.     *)
counterpart_value_now(p, all, at) ==
    LET usable == {r \in Until(all, at) : r.point = p /\ r.flag \notin BLOCKING_FLAGS}
    IN  IF usable = {} \/ Stale(p, usable, at) THEN {} ELSE {Newest(usable).value}

simultaneous_heating_cooling(rule, p, all, v, at) ==
    \E w \in counterpart_value_now(IF p = rule.heating THEN rule.cooling ELSE rule.heating,
                                   all, at) :
        /\ (IF p = rule.heating THEN v ELSE w) > rule.heating_threshold
        /\ (IF p = rule.heating THEN w ELSE v) > rule.cooling_threshold

(* _evaluate: does the reading break the rule?                             *)
Of(all, p) == {r \in all : r.point = p}

evaluate(rule, p, all, v, at) ==
    CASE rule.kind = "threshold"           -> Beyond(rule.operator, v, rule.threshold)
      [] rule.kind = "short_cycling"       -> short_cycling(rule, Of(all, p), at)
      [] rule.kind = "trend_projection"    -> trend_projection(rule, Of(all, p), v, at)
      [] rule.kind = "statistical_anomaly" -> statistical_anomaly(rule, Of(all, p), v, at)
      [] rule.kind = "baseline_drift"      -> baseline_drift(rule, Of(all, p), v, at)
      [] rule.kind = "simultaneous_heating_cooling" ->
            simultaneous_heating_cooling(rule, p, all, v, at)
      [] OTHER -> \E d \in desired_state_at(p, at) : Abs(v - d.value) > rule.tolerance

-----------------------------------------------------------------------------
PointsOf(rule) == IF rule.kind = "simultaneous_heating_cooling" THEN {rule.heating, rule.cooling}
                  ELSE {rule.point}
RulesOf(p) == {k \in RuleIds : p \in PointsOf(Rules[k])}

(* evaluate_after_measurement: the findings that are open after a reading. *)
(* A doubtful reading, or a point that is not trusted, opens a finding of  *)
(* quality and leaves those of the rules as they are.                      *)
TrustedEnough(score) == score >= MIN_TRUST_FOR_RULES

AfterMeasurement(all, r) ==
    LET p == r.point
        quality == {<<p, f>> : f \in BLOCKING_FLAGS}
        here == (open \ quality) \cup ({<<p, r.flag>>} \cap quality)
        rules == {"rule"} \X RulesOf(p)
        broken == {<<"rule", k>> : k \in {k \in RulesOf(p) : evaluate(Rules[k], p, all, r.value, r.at)}}
    IN  IF r.flag \in BLOCKING_FLAGS \/ RulesOf(p) = {} THEN here
        ELSE IF ~TrustedEnough(compute_trust(p, Of(all, p), r.at))
             THEN here \cup {<<p, "low_trust">>}
             ELSE (here \ ({<<p, "low_trust">>} \cup rules)) \cup broken

(* record_measurement and the evaluation it calls; a second reading of the *)
(* same point and instant is not recorded, hence not judged.               *)
record_measurement(r) ==
    /\ Cardinality(Of(readings, r.point)) < MaxReadings[r.point]
    /\ \A q \in Of(readings, r.point) : q.at # r.at
    /\ \E ps \in Together : {q.point : q \in readings} \cup {r.point} \subseteq ps
    /\ readings' = readings \cup {r}
    /\ open' = AfterMeasurement(readings', r)
    /\ judged' = {r}

DiagNext == \E r \in Readings : record_measurement(r)

DiagSpec == DiagInit /\ [][DiagNext]_diagVars

(* simulate_rule: the past readings of a point, each judged now; they are  *)
(* the 200 latest, more than MaxReadings.                                  *)
simulate_rule(k, p) == {r \in Of(readings, p) : evaluate(Rules[k], p, readings, r.value, r.at)}

-----------------------------------------------------------------------------
(* What the rules mean, from the readings and not from the queries.  A     *)
(* start is a reading "on" after none or one that is not.                  *)
StartsBetween(rs, from, to) ==
    {r \in rs : /\ from <= r.at /\ r.at <= to /\ r.value = 1
                /\ \A q \in rs : /\ q.at < r.at
                                 /\ \A s \in rs : s.at <= q.at \/ s.at >= r.at
                                 => q.value # 1}

(* The line through two readings is at the threshold, or beyond, when the  *)
(* horizon ends, and before it now.                                        *)
Reaches(rule, first, v, at) ==
    LET ahead == v * (at - first.at) + (v - first.value) * rule.horizon
        limit == rule.threshold * (at - first.at)
    IN  IF rule.operator = ">" THEN v <= rule.threshold /\ v > first.value /\ ahead >= limit
        ELSE v >= rule.threshold /\ v < first.value /\ ahead <= limit

(* The definitions: the starts of the window, the line from its first      *)
(* reading.  A doubtful reading of the window counts as any other.         *)
Means(rule, rs, r) ==
    CASE rule.kind = "short_cycling" ->
            Cardinality(StartsBetween(rs, r.at - rule.window, r.at)) > rule.max_starts
      [] rule.kind = "trend_projection" ->
            \E f \in Between(rs, r.at - rule.window, r.at) :
                /\ \A q \in Between(rs, r.at - rule.window, r.at) : q.at >= f.at
                /\ Reaches(rule, f, r.value, r.at)
      [] OTHER -> TRUE

(* What is left of them when the window holds more than is read of it.     *)
Supported(rule, rs, r) ==
    IF rule.kind = "trend_projection"
    THEN \E f \in Between(rs, r.at - rule.window, r.at) : Reaches(rule, f, r.value, r.at)
    ELSE Means(rule, rs, r)

Defined == {k \in RuleIds : Rules[k].kind \in {"short_cycling", "trend_projection"}}

(* A reading that no later one preceded, of a point that is trusted.       *)
JudgedLast(r) ==
    /\ \A q \in Of(readings, r.point) : q.at <= r.at
    /\ r.flag \notin BLOCKING_FLAGS
    /\ <<r.point, "low_trust">> \notin open

ReadWhole(rule, rs, r) == Cardinality(Since(rs, r.at - rule.window)) <= HistoryLimit

(* Once such a reading has been judged: a finding of cycling that is open  *)
(* has more starts than allowed in its window, and one of projection a     *)
(* reading of the window from which the line reaches the threshold, even   *)
(* when the window holds more readings than the rule reads of it: what is  *)
(* cut off never adds a start.  While the window holds no more than        *)
(* that, the finding is open exactly when the definition says so: no start *)
(* is invented for an equipment that was running before the window, none   *)
(* is missed, and nothing is projected for a threshold already passed.     *)
(* (app/rules.py, _evaluate_short_cycling, _evaluate_trend_projection.)    *)
DiagnosisAsDefined == \A r \in judged : JudgedLast(r) =>
    LET rs == Of(readings, r.point) IN
    \A k \in RulesOf(r.point) \cap Defined :
        /\ <<"rule", k>> \in open => Supported(Rules[k], rs, r)
        /\ ReadWhole(Rules[k], rs, r) => (<<"rule", k>> \in open <=> Means(Rules[k], rs, r))

(* Not so: a cycling counts the starts "sur la fenêtre glissante           *)
(* `window_minutes` qui se termine à `at`" (rules.py:387-388).  Of a       *)
(* window that holds more than HistoryLimit readings it counts those of    *)
(* the latest ones.                                                        *)
WindowCounted == \A r \in judged : JudgedLast(r) =>
    \A k \in RulesOf(r.point) : Rules[k].kind = "short_cycling" =>
        (<<"rule", k>> \in open <=> Means(Rules[k], Of(readings, r.point), r))

(* Not so: "une valeur marquée douteuse à la réception ouvre un constat de *)
(* qualité et n'est jamais évaluée par les règles" (rules.py:71-72).  It   *)
(* is not judged itself, but it is read with the window of those that are. *)
DoubtfulNeverEvaluated == \A r \in judged : JudgedLast(r) =>
    LET sound == {q \in readings : q.flag \notin BLOCKING_FLAGS} IN
    \A k \in RulesOf(r.point) :
        <<"rule", k>> \in open <=> evaluate(Rules[k], r.point, sound, r.value, r.at)

(* Not so: a simulation counts the starts "sur la fenêtre glissante qui se *)
(* termine à `at`" (rules.py, _evaluate_short_cycling).  It counts those   *)
(* that follow as well.                                                    *)
SimulatedAsDefined == \A k \in Defined : \A p \in PointsOf(Rules[k]) :
    simulate_rule(k, p) = {r \in Of(readings, p) : Means(Rules[k], Of(readings, p), r)}
=============================================================================
