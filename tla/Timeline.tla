------------------------------- MODULE Timeline -------------------------------
(***************************************************************************)
(* The merged history of an equipment and the recent activity of all of    *)
(* them (app/timeline.py, app/routers/passport.py), and a person who walks *)
(* back through the first, page after page, while it grows.                *)
(***************************************************************************)
EXTENDS Naturals, FiniteSets, FiniteSetsExt

CONSTANTS
    Sources,        \* the histories merged, "event" among them
    Page,           \* entries of a page
    EventsShown,     \* events of an equipment that are looked at, 200
    MaxInstant, MaxRows     \* bounds

VARIABLES
    rows,           \* committed entries, [source, at, n]
    now,
    before,         \* the parameter of the next page, 0 for none
    known,          \* history: what there was when the walk began
    seen,           \* history: what the walk has shown
    ties            \* history: the instants its pages ended at

ASSUME TimelineAssumption ==
    /\ IsFiniteSet(Sources)
    /\ Page \in Nat \ {0} /\ EventsShown \in Nat /\ MaxRows \in Nat
    /\ MaxInstant \in Nat \ {0}

timeVars == <<rows, now, before, known, seen, ties>>

TimelineEntries == [source : Sources, at : 1..MaxInstant, n : 1..MaxRows]

TimelineTypeOK ==
    /\ rows \in SUBSET TimelineEntries /\ known \subseteq rows /\ seen \subseteq rows
    /\ now \in 1..MaxInstant /\ before \in 0..MaxInstant
    /\ ties \subseteq 1..MaxInstant

TimelineInit ==
    /\ rows = {} /\ now = 1
    /\ before = 0 /\ known = {} /\ seen = {} /\ ties = {}

-----------------------------------------------------------------------------
(* ORDER BY at DESC LIMIT n: which of the entries of one instant come      *)
(* first is not said.                                                      *)
Latest(s, n) ==
    {t \in kSubset(Min({n, Cardinality(s)}), s) : \A a \in t, b \in s \ t : b.at <= a.at}

From(source) == {r \in rows : r.source = source}

(* The five sources of an equipment; of its events, the latest.            *)
NodeEntries == {(rows \ From("event")) \cup e : e \in Latest(From("event"), EventsShown)}

node_timelineCutFirst(b) ==
    {{r \in p : b = 0 \/ r.at < b} : p \in UNION {Latest(s, Page) : s \in NodeEntries}}
node_timeline(b) ==
    UNION {Latest({r \in s : b = 0 \/ r.at < b}, Page) : s \in NodeEntries}

(* Each source is cut to the page, then what is left of all of them.       *)
PortfolioSources ==
    {cut \in SUBSET rows :
        \A s \in Sources : {r \in cut : r.source = s} \in Latest(From(s), Page)}

portfolio_timeline == UNION {Latest(s, Page) : s \in PortfolioSources}

-----------------------------------------------------------------------------
(* One request may write in several histories, with one instant; what a    *)
(* person declares (the start of an intervention) may be earlier.          *)
RecordEntries(sources, at) ==
    /\ sources # {}
    /\ Cardinality(rows) + Cardinality(sources) <= MaxRows
    /\ at < now => sources = {"intervention"}
    /\ rows' = rows \cup {[source |-> s, at |-> at, n |-> Cardinality(rows) + 1] : s \in sources}
    /\ UNCHANGED <<now, before, known, seen, ties>>

TimePasses ==
    /\ now < MaxInstant
    /\ now' = now + 1
    /\ UNCHANGED <<rows, before, known, seen, ties>>

(* The page opens, then its link asks for what is before its last entry.   *)
ReadPage ==
    /\ \E p \in node_timeline(before) :
          /\ p # {}
          /\ before' = Min({r.at : r \in p})
          /\ ties' = ties \cup {before'}
          /\ known' = IF before = 0 THEN rows ELSE known
          /\ seen' = seen \cup p
    /\ UNCHANGED <<rows, now>>

TimelineNext ==
    \/ \E sources \in SUBSET Sources, at \in 1..now : RecordEntries(sources, at)
    \/ TimePasses
    \/ ReadPage

TimelineSpec == TimelineInit /\ [][TimelineNext]_timeVars

-----------------------------------------------------------------------------
(* A walk that has reached its end has shown all there was when it began,  *)
(* but for entries of the very instant a page ended at and for events that *)
(* were no longer among the latest; and the recent activity is the latest  *)
(* entries of all ("remonter dans une longue histoire sans jamais tout     *)
(* charger d'un coup").                                                    *)
WalkMissesOnlyTies ==
    /\ before # 0 /\ node_timeline(before) = {{}} =>
          \A r \in known \ seen :
             \/ r.at \in ties
             \/ r.source = "event"
                /\ Cardinality({e \in From("event") : e.at >= r.at}) > EventsShown
    /\ portfolio_timeline \subseteq Latest(rows, Page)
===============================================================================
