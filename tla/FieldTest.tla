------------------------------- MODULE FieldTest -------------------------------
(***************************************************************************)
(* The verdict on a field test of a meter (app/sdm120_check.py) against    *)
(* what happened during the test: a daemon reads every interval, people    *)
(* cut the API, the gateway or the daemon and note when, and a fault may   *)
(* lose, double or spoil a reading.                                        *)
(***************************************************************************)
EXTENDS Integers, FiniteSets, FiniteSetsExt, Sequences, SequencesExt

CONSTANTS
    Every,          \* the interval between readings, in units of time
    Delays,         \* how late after its time a reading may be made
    Watts,          \* the power of the load, the energy of a unit of time
    MIN_COMPARABLE_ENERGY,
    MaxCycles, MaxCuts, MaxFaulty,     \* bounds
    NoCut

ASSUME FieldAssumption ==
    /\ Every \in Nat \ {0} /\ Every % 2 = 0 /\ Every > 4
    /\ \A d \in Delays : d \in Nat /\ 5 * d <= Every
    /\ MaxCycles \in Nat /\ MaxCuts \in Nat /\ MaxFaulty \in Nat

VARIABLES
    due,            \* when the next reading is due
    cycles,         \* readings made or missed
    power, energy,  \* series recorded: [at, value, flags]
    waiting,        \* readings made while the API is cut, in the buffer
    cut,            \* the cut under way: [kind, start]
    cuts,           \* cuts noted: [kind, start, end]
    faults          \* history: what went wrong, [kind, at]

fieldVars == <<due, cycles, power, energy, waiting, cut, cuts, faults>>

Half == Every \div 2
Silent == {"gateway", "daemon"}      \* cuts during which nothing is read

FieldTypeOK ==
    /\ due \in Nat /\ cycles \in 0..MaxCycles
    /\ \A s \in power \cup energy \cup waiting : s.at < due + Every
    /\ cut = NoCut \/ cut.kind \in {"api"} \cup Silent
    /\ \A w \in cuts : w.start < w.end
    /\ Cardinality(cuts) <= MaxCuts /\ Cardinality(faults) <= MaxFaulty

(* The test starts half an interval before the first reading. *)
FieldInit ==
    /\ due = Half /\ cycles = 0
    /\ power = {} /\ energy = {} /\ waiting = {}
    /\ cut = NoCut /\ cuts = {} /\ faults = {}

-----------------------------------------------------------------------------
Reading(at, value, late) ==
    [at |-> at, value |-> value, flags |-> IF late THEN {"late_arrival"} ELSE {}]
PowerAt(at, late) == Reading(at, Watts, late)
EnergyAt(at, late) == Reading(at, Watts * at, late)

Passes == cycles < MaxCycles /\ cycles' = cycles + 1 /\ due' = due + Every
Faulty(kind, at) ==
    /\ Cardinality(faults) < MaxFaulty
    /\ faults' = faults \cup {[kind |-> kind, at |-> at]}
Fed == cut = NoCut
Cut(kind) == cut # NoCut /\ cut.kind = kind

(* What is in the buffer goes with the reading. *)
Recorded(at) ==
    /\ power' = power \cup {PowerAt(w.at, TRUE) : w \in waiting} \cup {PowerAt(at, FALSE)}
    /\ energy' = energy \cup {EnergyAt(w.at, TRUE) : w \in waiting} \cup {EnergyAt(at, FALSE)}
    /\ waiting' = {}

ReadMeter(at) == Passes /\ Fed /\ Recorded(at) /\ UNCHANGED <<cut, cuts, faults>>

HoldReading(at) ==
    /\ Passes /\ Cut("api")
    /\ waiting' = waiting \cup {[at |-> at]}
    /\ UNCHANGED <<power, energy, cut, cuts, faults>>

NothingRead ==
    /\ Passes /\ cut # NoCut /\ cut.kind \in Silent
    /\ UNCHANGED <<power, energy, waiting, cut, cuts, faults>>

(* Faults: a reading lost, one made twice by another daemon, a register    *)
(* that went back, and a buffer lost with the cut of the API.              *)
LoseReading(at) ==
    /\ Passes /\ Fed /\ Faulty("lost", at)
    /\ UNCHANGED <<power, energy, waiting, cut, cuts>>

DoubleReading(at) ==
    /\ Passes /\ Fed /\ waiting = {} /\ Faulty("double", at)
    /\ power' = power \cup {PowerAt(at, FALSE), PowerAt(at + 2, FALSE)}
    /\ energy' = energy \cup {EnergyAt(at, FALSE), EnergyAt(at + 2, FALSE)}
    /\ UNCHANGED <<waiting, cut, cuts>>

GoBack(at) ==
    /\ Passes /\ Fed /\ waiting = {} /\ energy # {} /\ Faulty("back", at)
    /\ power' = power \cup {PowerAt(at, FALSE)}
    /\ energy' = energy \cup {Reading(at, 0, FALSE)}
    /\ UNCHANGED <<waiting, cut, cuts>>

LoseBuffer ==
    /\ Cut("api") /\ waiting # {} /\ Faulty("buffer", cut.start)
    /\ waiting' = {}
    /\ UNCHANGED <<due, cycles, power, energy, cut, cuts>>

(* Cuts begin and end between two readings, and things go back to normal   *)
(* between two of them (docs/terrain/test-terrain-sdm120.md:398): the      *)
(* meter has been read.  A daemon that restarts reads at once; a gateway   *)
(* may take an interval more to answer.                                    *)
BeginCut(kind) ==
    /\ cut = NoCut /\ Cardinality(cuts) < MaxCuts /\ waiting = {} /\ cycles > 0
    /\ \A w \in cuts : \E s \in power : s.at > w.end
    /\ cut' = [kind |-> kind, start |-> due - Half, since |-> cycles]
    /\ UNCHANGED <<due, cycles, power, energy, waiting, cuts, faults>>

EndCut ==
    /\ cut # NoCut /\ cycles > cut.since
    /\ cuts' = cuts \cup {[kind |-> cut.kind, start |-> cut.start, end |-> due - Half]}
    /\ due' \in CASE cut.kind = "daemon" -> {due - Half + 1}
                  [] cut.kind = "gateway" -> {due, due + Every}
                  [] cut.kind = "api" -> {due}
    /\ cut' = NoCut
    /\ UNCHANGED <<cycles, power, energy, waiting, faults>>

FieldNext ==
    \/ \E d \in Delays :
          \/ ReadMeter(due + d) \/ HoldReading(due + d)
          \/ LoseReading(due + d) \/ DoubleReading(due + d) \/ GoBack(due + d)
    \/ NothingRead \/ LoseBuffer
    \/ \E kind \in {"api"} \cup Silent : BeginCut(kind)
    \/ EndCut

FieldSpec == FieldInit /\ [][FieldNext]_fieldVars

-----------------------------------------------------------------------------
(* The checks, on series in the order of their instants; "pass", "fail" or *)
(* "not evaluated".                                                        *)
InOrder(series) ==
    [i \in 1..Cardinality(series) |->
        CHOOSE s \in series : Cardinality({t \in series : t.at <= s.at}) = i]
_check(ok) == IF ok THEN "pass" ELSE "fail"
Unevaluated == "not evaluated"
Larger(a, b) == IF a > b THEN a ELSE b
Smaller(a, b) == IF a < b THEN a ELSE b

(* Time of a span that silent cuts cover, overlapping ones counted once.   *)
_covered_seconds(from, to) ==
    Cardinality(UNION {Larger(w.start, from)..(Smaller(w.end, to) - 1) :
                          w \in {w \in cuts : w.kind \in Silent}})

Rounded(length) == (2 * length + Every) \div (2 * Every)

\* mutant of MissingBetween: no time is granted to what starts again
MissingBetweenStrict(from, to, atAnEnd) ==
    Rounded(to - from - (IF atAnEnd THEN Every ELSE 0) - _covered_seconds(from, to)) - 1

(* Readings missing between two neighbours, the two ends of the test being *)
(* noted by hand: one interval is granted there, three around a cut.       *)
MissingBetween(from, to, atAnEnd) ==
    LET length == to - from - (IF atAnEnd THEN Every ELSE 0)
        covered == _covered_seconds(from, to)
    IN IF covered > 0 THEN Rounded(length - covered) - 3 ELSE Rounded(length) - 1

_gaps(series, end) ==
    LET edges == <<0>> \o [i \in 1..Len(series) |-> series[i].at] \o <<end>>
        between == 1..(Len(edges) - 1)
        missing(i) == MissingBetween(edges[i], edges[i + 1], i \in {1, Len(edges) - 1})
    IN {[from |-> edges[i], to |-> edges[i + 1], missing |-> missing(i)] :
           i \in {j \in between : missing(j) > 0}}

Api == {w \in cuts : w.kind = "api"}
_overlaps(gap, w) == gap.from < w.end /\ gap.to > w.start
InApiCut(gap) == \E w \in Api : _overlaps(gap, w)
Spacings(series) == [i \in 1..(Len(series) - 1) |-> series[i + 1].at - series[i].at]

(* Twice the median. *)
TwiceMedian(values) ==
    LET sorted == SortSeq(values, <)
        n == Len(values)
    IN sorted[(n + 1) \div 2] + sorted[(n + 2) \div 2]

_energy_vs_power(ps, es) ==
    IF Len(ps) < 2 \/ Len(es) < 2 THEN Unevaluated
    ELSE LET span(series) == series[Len(series)].at - series[1].at
             areas == [i \in 1..(Len(ps) - 1) |->
                          (ps[i + 1].at - ps[i].at) * (ps[i].value + ps[i + 1].value)]
             expected == (FoldSeq(+, 0, areas) * span(es)) \div (2 * span(ps))
             measured == es[Len(es)].value - es[1].value
         IN IF Larger(expected, measured) < MIN_COMPARABLE_ENERGY THEN Unevaluated
            ELSE _check(/\ measured > 0 /\ expected > 0
                        /\ 10 * measured \in (9 * expected)..(11 * expected))

_api_outage(ps, gaps) ==
    IF Api = {} THEN Unevaluated
    ELSE LET replayed == \E i \in DOMAIN ps : \E w \in Api : ps[i].at \in w.start..w.end
             expected == FoldSet(LAMBDA w, n : n + (w.end - w.start) \div Every, 0, Api)
         IN _check((\A g \in gaps : ~ InApiCut(g)) /\ ~ (expected >= 2 /\ ~ replayed))

Resumed(w, ps) == \E i \in DOMAIN ps : ps[i].at \in (w.end - Every)..(w.end + 2 * Every)

_gateway_outage(ps) ==
    LET found == {w \in cuts : w.kind = "gateway"}
        invented == {i \in DOMAIN ps : \E w \in found :
                        w.start + Every < ps[i].at /\ ps[i].at < w.end - Every}
    IN IF found = {} THEN Unevaluated
       ELSE _check(invented = {} /\ \A w \in found : Resumed(w, ps))

Decreases(es) == {i \in 1..(Len(es) - 1) : es[i + 1].value < es[i].value}

_daemon_restart(ps, es) ==
    LET stops == {w \in cuts : w.kind = "daemon"}
        dropped == {i \in Decreases(es) : \E w \in stops : es[i].at \in w.start..(w.end + Every)}
    IN IF stops = {} THEN Unevaluated
       ELSE _check(dropped = {} /\ \A w \in stops : Resumed(w, ps))

UnexpectedFlags(series) ==
    {i \in DOMAIN series :
        series[i].flags # {} /\ ~ \E w \in Api :
            /\ series[i].flags = {"late_arrival"}
            /\ series[i].at \in (w.start - Every)..(w.end + Every)}

check_series(end) ==
    LET ps == InOrder(power)
        es == InOrder(energy)
        gaps == _gaps(ps, end) \cup _gaps(es, end)
        close(series) == \E i \in DOMAIN Spacings(series) : Spacings(series)[i] < Half
    IN IF power = {} \/ energy = {}
       THEN [NO_SAMPLES |-> "fail"]
       ELSE [NO_MISSING_SAMPLES |-> _check(\A g \in gaps : InApiCut(g)),
             NO_DOUBLE_SAMPLING |-> _check(~ close(ps) /\ ~ close(es)),
             INTERVAL_RESPECTED |->
                IF Len(ps) < 2 THEN Unevaluated
                ELSE _check(5 * TwiceMedian(Spacings(ps)) \in (8 * Every)..(12 * Every)),
             QUALITY_FLAGS_CLEAN |-> _check(UnexpectedFlags(ps) \cup UnexpectedFlags(es) = {}),
             ENERGY_NEVER_DECREASES |-> _check(Decreases(es) = {}),
             ENERGY_MATCHES_POWER |-> _energy_vs_power(ps, es),
             NO_LOSS_DURING_API_OUTAGE |-> _api_outage(ps, gaps),
             GATEWAY_OUTAGE_HANDLED |-> _gateway_outage(ps),
             RESTART_RESUMED |-> _daemon_restart(ps, es)]

verdict(checks) ==
    LET found == {checks[code] : code \in DOMAIN checks}
    IN IF "fail" \in found THEN "FAIL" ELSE IF found = {"pass"} THEN "PASS" ELSE "INCOMPLETE"

-----------------------------------------------------------------------------
(* The test ends with nothing cut, nothing waiting, and at least one       *)
(* reading since the last cut; the holes of cuts are the minority, as      *)
(* check_series takes them to be.                                          *)
MayEnd ==
    /\ cut = NoCut /\ waiting = {} /\ Cardinality(power) >= 4
    /\ 2 * Cardinality({w \in cuts : w.kind \in Silent}) < Cardinality(power) - 1
    /\ \A w \in cuts : \E s \in power : s.at > w.end
Judged == verdict(check_series(due - Half))

(* The hole that a loss leaves, between two neighbours: three intervals    *)
(* more are granted to one that holds a cut during which nothing is read.  *)
Hole(s, u) ==
    /\ {t \in power : s.at < t.at /\ t.at < u.at} = {}
    /\ \A w \in cuts : w.kind \in Silent => w.end <= s.at \/ u.at <= w.start

(* A loss can be seen between two readings.  A buffer that was lost held   *)
(* what was read from the beginning of the cut on.                         *)
Visible(f) ==
    \/ f.kind \in {"double", "back"}
    \/ \E s, u \in power : s.at < f.at /\ f.at < u.at /\ Hole(s, u)

(* A daemon without a fault is never failed, wherever the cuts fall and    *)
(* whatever waited in the buffer; and a test during which a reading was    *)
(* lost, doubled or went back never passes, where the fault can be seen.   *)
NoFalseAlarm == MayEnd /\ faults = {} => Judged # "FAIL"
FaultsSeen == MayEnd /\ (\E f \in faults : Visible(f)) => Judged = "FAIL"
VerdictFair == NoFalseAlarm /\ FaultsSeen
===============================================================================
