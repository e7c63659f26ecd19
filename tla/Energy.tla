-------------------------------- MODULE Energy --------------------------------
(***************************************************************************)
(* Energy: what a meter has counted over a period (app/energy/             *)
(* aggregation.py), the weather entered day by day (weather.py), the       *)
(* performance normalised by degree days and stored (normalization.py,     *)
(* methods.py), its comparison and its cost (comparison.py, economics.py). *)
(*                                                                         *)
(* One meter, one site.  A register may be put back to zero by a           *)
(* replacement.  The statements of a computation see what other requests   *)
(* have committed in between: late readings, corrections of the weather.   *)
(***************************************************************************)
EXTENDS Integers, FiniteSets, FiniteSetsExt

CONSTANTS
    PerDay, Days,   \* instants of a day; the days are 0..Days-1
    Courses,        \* courses of a meter: [used, register], what was really
                    \* used and what the register showed, by instant
    Doubtful,       \* the value of a reading that is flagged
    Base, Kind,     \* frozen in the baseline: base temperature, degree days of
    ReferenceStart, ReferenceEnd,   \*   heating or cooling, reference period
    Periods,        \* periods computed, <<start, end>>
    ObservedDays,   \* days of which the weather is entered
    Temperatures, Clerks, Prices,
    MaxMeterRows, MaxObserved, MaxResults,   \* bounds
    NoRow, NoEntry, NoResult

ASSUME EnergyAssumption ==
    /\ PerDay \in Nat \ {0} /\ Days \in Nat \ {0}
    /\ Kind \in {"heating", "cooling"}
    /\ {ReferenceStart, ReferenceEnd} \subseteq 0..(Days - 1)
    /\ ReferenceStart < ReferenceEnd
    /\ \A p \in Periods : {p[1], p[2]} \subseteq 0..(Days - 1) /\ p[1] <= p[2]
    /\ ObservedDays \subseteq 0..(Days - 1) /\ MaxObserved \in Nat
    /\ Base \in Int /\ Temperatures \subseteq Int /\ Prices \subseteq Nat

(* A register shows what was used, but for being put back to zero.         *)
MeterInstants == 0..(PerDay * Days - 1)
ASSUME CourseAssumption ==
    \A c \in Courses :
      /\ {c.used, c.register} \subseteq [MeterInstants -> Nat]
      /\ \A i, j \in MeterInstants :
            i <= j => c.register[j] - c.register[i] <= c.used[j] - c.used[i]

VARIABLES
    course,
    meterRows,      \* measurements of the meter: [at, value, doubtful]
    weather,        \* weather_observations: [id, day, temperature]
    entering,       \* of each clerk, the request that has looked for the day
    result,         \* the computation under way
    results,        \* energy_normalized_results, in the order of their insertion
    observed        \* bound: entries of the weather begun

energyVars == <<course, meterRows, weather, entering, result, results, observed>>

None == -1          \* NULL, no answer: no quantity here is negative

EnergyTypeOK ==
    /\ course \in Courses
    /\ \A r \in meterRows : r.at \in MeterInstants /\ r.doubtful \in BOOLEAN
    /\ \A o \in weather :
          o.day \in 0..(Days - 1) /\ o.temperature \in Temperatures /\ o.id \in 1..MaxObserved
    /\ \A c \in Clerks : entering[c] = NoEntry \/ entering[c].day \in 0..(Days - 1)
    /\ observed \in 0..MaxObserved
    /\ \A r \in results : r.status \in {"ok", "no_weather_data", "zero_degree_days"}

EnergyInit ==
    /\ course \in Courses
    /\ meterRows = {} /\ weather = {} /\ results = {}
    /\ entering = [c \in Clerks |-> NoEntry]
    /\ result = NoResult /\ observed = 0

-----------------------------------------------------------------------------
(* A reading of the meter arrives, in any order: true, or flagged out of   *)
(* range or of a suspect clock.                                            *)
ReceiveMeterRow(at, doubtful) ==
    /\ Cardinality(meterRows) < MaxMeterRows
    /\ \A r \in meterRows : r.at # at
    /\ meterRows' = meterRows \cup
          {[at |-> at, value |-> IF doubtful THEN Doubtful ELSE course.register[at],
            doubtful |-> doubtful]}
    /\ UNCHANGED <<course, weather, entering, result, results, observed>>

StartOf(day) == PerDay * day

(* The latest reading before an instant that is not doubtful. *)
_latest_usable(limit) ==
    LET usable == {r \in meterRows : r.at < limit /\ ~ r.doubtful}
    IN IF usable = {} THEN NoRow ELSE CHOOSE r \in usable : \A s \in usable : s.at <= r.at

(* A cumulative register is not summed: closing minus opening, and no      *)
(* answer without both or when the register went back.                     *)
raw_consumption(opening, closing) ==
    IF opening = NoRow \/ closing = NoRow THEN None
    ELSE IF closing.value < opening.value THEN None
    ELSE closing.value - opening.value

Opening(start) == _latest_usable(StartOf(start))
Closing(end) == _latest_usable(StartOf(end + 1))
aggregate_energy_consumption(start, end) == raw_consumption(Opening(start), Closing(end))

aggregate_portfolio_daily_energy(date) ==
    [consumption |-> aggregate_energy_consumption(date, date),
     previous |-> aggregate_energy_consumption(date - 1, date - 1)]

-----------------------------------------------------------------------------
(* One observation per site and day.  Looked for, then updated by its id   *)
(* or inserted under uq_weather_observations_site_date.                    *)
FindObservation(c, day, temperature) ==
    /\ entering[c] = NoEntry /\ observed < MaxObserved
    /\ entering' = [entering EXCEPT ![c] =
          [day |-> day, temperature |-> temperature, id |-> observed + 1,
           existing |-> {o.id : o \in {w \in weather : w.day = day}}]]
    /\ observed' = observed + 1
    /\ UNCHANGED <<course, meterRows, weather, result, results>>

uq_weather_observations_site_date(day) == \A o \in weather : o.day # day

record_weather_observation(c) ==
    LET e == entering[c] IN
    /\ e # NoEntry
    /\ weather' =
          IF e.existing # {}
          THEN {IF o.id \in e.existing THEN [o EXCEPT !.temperature = e.temperature] ELSE o
                   : o \in weather}
          ELSE IF uq_weather_observations_site_date(e.day)
          THEN weather \cup {[id |-> e.id, day |-> e.day, temperature |-> e.temperature]}
          ELSE weather
    /\ entering' = [entering EXCEPT ![c] = NoEntry]
    /\ UNCHANGED <<course, meterRows, result, results, observed>>

DegreesOf(o) ==
    Max({0, IF Kind = "heating" THEN Base - o.temperature ELSE o.temperature - Base})

aggregate_degree_days(start, end) ==
    LET seenDays == {o \in weather : o.day \in start..end}
    IN [degrees |-> IF seenDays = {} THEN None
                    ELSE FoldSet(LAMBDA o, s : s + DegreesOf(o), 0, seenDays),
        missing |-> end - start + 1 - Cardinality(seenDays)]

-----------------------------------------------------------------------------
(* A computation, statement by statement.                                  *)
ReadOpening(start, end) ==
    /\ result = NoResult /\ Cardinality(results) < MaxResults
    /\ result' = [step |-> "closing", start |-> start, end |-> end, opening |-> Opening(start)]
    /\ UNCHANGED <<course, meterRows, weather, entering, results, observed>>

(* Refused when the data are insufficient or the register went back. *)
ReadClosing ==
    /\ result # NoResult /\ result.step = "closing"
    /\ LET closing == Closing(result.end)
           raw == raw_consumption(result.opening, closing)
       IN result' = IF raw = None THEN NoResult
                    ELSE [step |-> "weather", start |-> result.start, end |-> result.end,
                          opening |-> result.opening, closing |-> closing, raw |-> raw]
    /\ UNCHANGED <<course, meterRows, weather, entering, results, observed>>

(* data_completeness, in thousandths: one reading expected per instant. *)
Completed(start, end) ==
    LET expected == PerDay * (end - start + 1)
        count == Cardinality({r \in meterRows : r.at \in StartOf(start)..(StartOf(end + 1) - 1)})
    IN Min({1000, (1000 * count) \div expected})

ReadDegreeDays ==
    /\ result # NoResult /\ result.step = "weather"
    /\ LET days == aggregate_degree_days(result.start, result.end)
       IN result' = [step |-> "insert", start |-> result.start, end |-> result.end,
                     opening |-> result.opening, closing |-> result.closing, raw |-> result.raw,
                     completeness |-> Completed(result.start, result.end),
                     analyzed |-> days.degrees, missing |-> days.missing]
    /\ UNCHANGED <<course, meterRows, weather, entering, results, observed>>

(* raw / analyzed * reference, as a fraction: no result when the period    *)
(* has no degree day.                                                      *)
_degree_day_ratio_v1(raw, analyzed, reference) ==
    IF analyzed <= 0 THEN <<None, 1>> ELSE <<raw * reference, analyzed>>

normalization_status(analyzed, reference) ==
    IF None \in {analyzed, reference} THEN "no_weather_data"
    ELSE IF analyzed <= 0 THEN "zero_degree_days" ELSE "ok"

ResultOf(r, reference) ==
    [n |-> Cardinality(results) + 1, start |-> r.start, end |-> r.end,
     opening |-> r.opening, closing |-> r.closing, raw |-> r.raw,
     completeness |-> r.completeness, analyzed |-> r.analyzed, missing |-> r.missing,
     reference |-> reference,
     status |-> normalization_status(r.analyzed, reference),
     normalized |-> IF None \in {r.analyzed, reference} THEN <<None, 1>>
                    ELSE _degree_day_ratio_v1(r.raw, r.analyzed, reference)]

compute_normalized_performance ==
    /\ result # NoResult /\ result.step = "insert"
    /\ LET reference == aggregate_degree_days(ReferenceStart, ReferenceEnd)
       IN results' = results \cup {ResultOf(result, reference.degrees)}
    /\ result' = NoResult
    /\ UNCHANGED <<course, meterRows, weather, entering, observed>>

EnergyNext ==
    \/ \E at \in MeterInstants, doubtful \in BOOLEAN : ReceiveMeterRow(at, doubtful)
    \/ \E c \in Clerks, day \in ObservedDays, t \in Temperatures : FindObservation(c, day, t)
    \/ \E c \in Clerks : record_weather_observation(c)
    \/ \E p \in Periods : ReadOpening(p[1], p[2])
    \/ ReadClosing \/ ReadDegreeDays \/ compute_normalized_performance

EnergySpec == EnergyInit /\ [][EnergyNext]_energyVars

-----------------------------------------------------------------------------
Known(r) == r.normalized # <<None, 1>>
Less(a, b) == a.normalized[1] * b.normalized[2] < b.normalized[1] * a.normalized[2]

compare_results(reference, analyzed) ==
    IF ~ Known(reference) \/ ~ Known(analyzed) THEN [comparable |-> FALSE]
    ELSE [comparable |-> TRUE, reduced |-> Less(analyzed, reference)]

(* In hundredths, of the normalised consumption when there is one. *)
estimate_energy_cost(r, price) ==
    IF Known(r) THEN (r.normalized[1] * price) \div r.normalized[2] ELSE r.raw * price

-----------------------------------------------------------------------------
(* What is counted is never more than what was really used between the two *)
(* readings it names, and exactly that when the register was not put back  *)
(* to zero between them: readings that are late, doubtful or missing never *)
(* invent energy ("un compteur cumulatif ne se somme pas").                *)
UsedBetween(a, b) == course.used[b.at] - course.used[a.at]
NeverReset(a, b) ==
    course.register[b.at] - course.register[a.at] = UsedBetween(a, b)
CountsAtMost(opening, closing, raw) ==
    raw # None =>
      /\ raw <= UsedBetween(opening, closing)
      /\ NeverReset(opening, closing) => raw = UsedBetween(opening, closing)
NeverOverCounted ==
    /\ \A start \in 0..(Days - 1) : \A end \in start..(Days - 1) :
          CountsAtMost(Opening(start), Closing(end), aggregate_energy_consumption(start, end))
    /\ \A r \in results : CountsAtMost(r.opening, r.closing, r.raw)

(* The consumptions of two periods that follow one another add up to that  *)
(* of both, nothing counted twice at midnight and nothing dropped; the two *)
(* days of the dashboard too.                                              *)
PeriodsAddUp ==
    /\ \A start \in 0..(Days - 1) : \A mid \in start..(Days - 2) : \A end \in (mid + 1)..(Days - 1) :
          LET first == aggregate_energy_consumption(start, mid)
              second == aggregate_energy_consumption(mid + 1, end)
          IN None \notin {first, second} =>
                aggregate_energy_consumption(start, end) = first + second
    /\ \A date \in 1..(Days - 1) :
          LET day == aggregate_portfolio_daily_energy(date)
          IN None \notin {day.consumption, day.previous} =>
                aggregate_energy_consumption(date - 1, date) = day.consumption + day.previous

(* A stored result is explained by what it stores, whatever was corrected  *)
(* since or while it was computed: no day of the period has two            *)
(* observations, and a consumption is normalised when and only when there  *)
(* are degree days to divide by (ck_energy_results_normalized_consistent). *)
ResultsExplained ==
    \A r \in results :
      /\ r.missing >= 0
      /\ (r.analyzed = None) = (r.missing = r.end - r.start + 1)
      /\ (r.status = "ok") = Known(r)
      /\ Known(r) => r.normalized[1] * r.analyzed = r.raw * r.reference * r.normalized[2]

(* A period shown as reduced never costs more at the same price.           *)
ReducedCostsLess ==
    \A a, b \in results, price \in Prices :
      compare_results(a, b).comparable /\ compare_results(a, b).reduced =>
          estimate_energy_cost(b, price) <= estimate_energy_cost(a, price)

EnergyExplained == NeverOverCounted /\ PeriodsAddUp /\ ResultsExplained /\ ReducedCostsLess
===============================================================================
