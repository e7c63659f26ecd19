------------------------------ MODULE EdgeBuffer ------------------------------
(***************************************************************************)
(* From an equipment to the table measurements: a polling daemon           *)
(* (scripts/modbus_daemon.py, and its BACnet, OPC UA and MQTT siblings),   *)
(* its file of unsent readings (app/connectors/offline_buffer.py) and the  *)
(* transactions of POST /edge/measurements (app/telemetry.py).             *)
(*                                                                         *)
(* A reading is a number, in the order of its measurement.  The daemon     *)
(* keeps polling after the last numbered one: the readings it then takes   *)
(* are counted in the batches and otherwise not followed.                  *)
(***************************************************************************)
EXTENDS Naturals, FiniteSets, Sequences, SequencesExt

CONSTANTS
    MaxReadings,        \* bound: readings that are followed
    PerCycle,           \* mapped points, so readings taken in one cycle
    MAX_ITEMS,          \* items that EdgeMeasurementBatch accepts
    Refusable,          \* readings the API refuses (unit, type, unknown point)
    Slots,              \* bound: requests open at once on the server
    MaxFaults,          \* bound: cuts of the link, answers awaited too long while
                        \* it is up, crashes of the daemon, batches rolled back
    MaxConfigChanges,   \* bound: mappings retired or activated again
    NoSlot

Readings == 1..MaxReadings

ASSUME EdgeBufferAssumption ==
    /\ MaxReadings \in Nat /\ PerCycle \in Nat \ {0} /\ MAX_ITEMS \in Nat \ {0}
    /\ Refusable \subseteq Readings
    /\ MaxFaults \in Nat /\ MaxConfigChanges \in Nat
    /\ NoSlot \notin Slots

VARIABLES
    up,                 \* the link to the API
    configured, configChanges,   \* is a mapping active?
    pc,                 \* the daemon's step in its cycle
    known,              \* last_config is set
    next,               \* first reading not taken yet
    fresh,              \* new_readings still in memory
    pending,            \* what pending() returned
    file,               \* lines of the buffer file
    corrupt,            \* readings whose line is in the .corrupt file
    lost,               \* readings that were in memory when the daemon died
    slot,               \* the request it waits for
    faults, crashes,    \* faults so far, crashes among them
    phase, left, judged,       \* the requests: step, items to come, items judged
    stored, evaluated, refused   \* table measurements, evaluations, refusals

faultVars == <<faults, crashes>>
configVars == <<configured, configChanges>>
memoryVars == <<known, fresh, pending, slot>>
fileVars == <<file, corrupt>>
requestVars == <<phase, left, judged>>
tableVars == <<stored, evaluated, refused>>
vars == <<up, configVars, pc, memoryVars, next, fileVars, lost, faultVars, requestVars,
          tableVars>>

(* A line holds the readings written in it; it parses unless the write was *)
(* cut or two readings share it; its end may be missing.                   *)
Lines == [holds : SUBSET Readings, parses : BOOLEAN, ended : BOOLEAN]
Line(r) == [holds |-> {r}, parses |-> TRUE, ended |-> TRUE]

Held(lines) == UNION {lines[i].holds : i \in DOMAIN lines}

TypeOK ==
    /\ up \in BOOLEAN /\ configured \in BOOLEAN /\ known \in BOOLEAN
    /\ pc \in {"stopped", "config", "take", "pending", "replace", "post", "wait",
               "clear", "append"}
    /\ next \in 1..(MaxReadings + 1)
    /\ fresh \in Seq(Readings) /\ pending \in Seq(Readings)
    /\ file \in Seq(Lines)
    /\ corrupt \subseteq Readings /\ lost \subseteq Readings
    /\ slot \in Slots \cup {NoSlot}
    /\ phase \in [Slots -> {"free", "open", "done", "error"}]
    /\ left \in [Slots -> SUBSET Readings]
    /\ judged \in [Slots -> SUBSET Readings]
    /\ stored \subseteq Readings /\ refused \subseteq Readings
    /\ evaluated \in [Readings -> Nat]
    /\ {configChanges, faults, crashes} \subseteq Nat

Init ==
    /\ up = TRUE
    /\ configured = TRUE /\ configChanges = 0
    /\ pc = "stopped" /\ known = FALSE
    /\ next = 1 /\ fresh = <<>> /\ pending = <<>>
    /\ file = <<>> /\ corrupt = {} /\ lost = {}
    /\ slot = NoSlot /\ faults = 0 /\ crashes = 0
    /\ phase = [q \in Slots |-> "free"]
    /\ left = [q \in Slots |-> {}]
    /\ judged = [q \in Slots |-> {}]
    /\ stored = {} /\ refused = {} /\ evaluated = [r \in Readings |-> 0]

-----------------------------------------------------------------------------
(* The environment.                                                        *)
LinkDown ==
    /\ up /\ faults < MaxFaults
    /\ up' = FALSE /\ faults' = faults + 1
    /\ UNCHANGED <<configVars, pc, memoryVars, next, fileVars, lost, crashes,
                   requestVars, tableVars>>

LinkUp ==
    /\ ~up /\ up' = TRUE
    /\ UNCHANGED <<configVars, pc, memoryVars, next, fileVars, lost, faultVars,
                   requestVars, tableVars>>

ChangeConfig ==
    /\ configChanges < MaxConfigChanges
    /\ configured' = ~configured /\ configChanges' = configChanges + 1
    /\ UNCHANGED <<up, pc, memoryVars, next, fileVars, lost, faultVars, requestVars,
                   tableVars>>

-----------------------------------------------------------------------------
(* The daemon, run().                                                      *)

(* The start ends the program when the API answers "no configuration".     *)
Start ==
    /\ pc = "stopped"
    /\ up => configured
    /\ known' = up
    /\ pc' = "config"
    /\ UNCHANGED <<up, configVars, next, fresh, pending, slot, fileVars, lost,
                   faultVars, requestVars, tableVars>>

(* Each cycle asks again; the last answer serves while the API is away.    *)
LoadConfig ==
    /\ pc = "config"
    /\ known' = IF up THEN configured ELSE known
    /\ pc' = IF known' THEN "take" ELSE "config"
    /\ UNCHANGED <<up, configVars, next, fresh, pending, slot, fileVars, lost,
                   faultVars, requestVars, tableVars>>

(* The mapped points, while readings are followed.                         *)
TakenNow == IF next + PerCycle <= MaxReadings + 1 THEN PerCycle ELSE MaxReadings + 1 - next

(* Mutant of TakeReadings: counts readings it did not take.                *)
TakeAndMiscount ==
    /\ pc = "take"
    /\ fresh' = [i \in 1..TakenNow |-> next + i - 1]
    /\ next' = next + PerCycle
    /\ pc' = "pending"
    /\ UNCHANGED <<up, configVars, known, pending, slot, fileVars, lost, faultVars,
                   requestVars, tableVars>>

(* read_modbus_points; a failed read just skips to the next cycle.         *)
TakeReadings ==
    /\ pc = "take"
    /\ fresh' = [i \in 1..TakenNow |-> next + i - 1]
    /\ next' = next + TakenNow
    /\ pc' = "pending"
    /\ UNCHANGED <<up, configVars, known, pending, slot, fileVars, lost, faultVars,
                   requestVars, tableVars>>

ReadFails ==
    /\ pc = "take"
    /\ next <= MaxReadings      \* bound: only while readings are followed
    /\ pc' = "config"
    /\ UNCHANGED <<up, configVars, memoryVars, next, fileVars, lost, faultVars,
                   requestVars, tableVars>>

(* pending(): unreadable lines go to the side file first, then the buffer  *)
(* is replaced by its readable lines.                                      *)
Readable(lines) ==
    LET kept[i \in 0..Len(lines)] ==
            IF i = 0 THEN <<>>
            ELSE IF lines[i].parses THEN Append(kept[i - 1], lines[i]) ELSE kept[i - 1]
    IN  kept[Len(lines)]
Unreadable(lines) == {lines[i] : i \in {i \in DOMAIN lines : ~lines[i].parses}}
ReadingOf(l) == CHOOSE r \in l.holds : TRUE

(* Mutant: an unreadable line is dropped, not set aside.                   *)
ReadBufferAndDrop ==
    /\ pc = "pending"
    /\ pending' = [i \in DOMAIN Readable(file) |-> ReadingOf(Readable(file)[i])]
    /\ pc' = IF Unreadable(file) = {} THEN "post" ELSE "replace"
    /\ UNCHANGED <<up, configVars, known, next, fresh, slot, fileVars, lost, faultVars,
                   requestVars, tableVars>>

ReadBuffer ==
    /\ pc = "pending"
    /\ pending' = [i \in DOMAIN Readable(file) |-> ReadingOf(Readable(file)[i])]
    /\ corrupt' = corrupt \cup UNION {l.holds : l \in Unreadable(file)}
    /\ pc' = IF Unreadable(file) = {} THEN "post" ELSE "replace"
    /\ UNCHANGED <<up, configVars, known, next, fresh, slot, file, lost, faultVars,
                   requestVars, tableVars>>

ReplaceBuffer ==
    /\ pc = "replace"
    /\ file' = [i \in DOMAIN pending |-> Line(pending[i])]
    /\ pc' = "post"
    /\ UNCHANGED <<up, configVars, memoryVars, next, corrupt, lost, faultVars,
                   requestVars, tableVars>>

(* Mutant of Post: the readings kept in the buffer are not sent along.     *)
PostFreshOnly(q) ==
    /\ pc = "post" /\ up
    /\ phase[q] = "free"
    /\ slot' = q
    /\ phase' = [phase EXCEPT ![q] = "open"]
    /\ left' = [left EXCEPT ![q] = ToSet(fresh)]
    /\ pc' = "wait"
    /\ UNCHANGED <<up, configVars, known, next, fresh, pending, fileVars, lost,
                   faultVars, judged, tableVars>>

(* post_measurements: a batch above the limit of the schema is answered    *)
(* 422, without a transaction.                                             *)
Post(q) ==
    /\ pc = "post" /\ up
    /\ phase[q] = "free"
    /\ slot' = q
    /\ IF Len(pending) + PerCycle <= MAX_ITEMS
       THEN /\ phase' = [phase EXCEPT ![q] = "open"]
            /\ left' = [left EXCEPT ![q] = ToSet(pending) \cup ToSet(fresh)]
       ELSE /\ phase' = [phase EXCEPT ![q] = "error"]
            /\ UNCHANGED left
    /\ pc' = "wait"
    /\ UNCHANGED <<up, configVars, known, next, fresh, pending, fileVars, lost,
                   faultVars, judged, tableVars>>

Freed(q) == phase' = [phase EXCEPT ![q] = "free"]

PostFails ==
    /\ pc = "post" /\ ~up
    /\ pc' = "append"
    /\ UNCHANGED <<up, configVars, memoryVars, next, fileVars, lost, faultVars,
                   requestVars, tableVars>>

(* Mutant of Answer: an HTTP error counts as an answer.                    *)
AnswerOrError ==
    /\ pc = "wait" /\ up
    /\ phase[slot] \in {"done", "error"}
    /\ pc' = "clear"
    /\ Freed(slot)
    /\ slot' = NoSlot
    /\ UNCHANGED <<up, configVars, known, next, fresh, pending, fileVars, lost,
                   faultVars, left, judged, tableVars>>

(* The answer: a summary (whatever it refuses), or an HTTP error.          *)
Answer ==
    /\ pc = "wait" /\ up
    /\ phase[slot] \in {"done", "error"}
    /\ pc' = IF phase[slot] = "done" THEN "clear" ELSE "append"
    /\ Freed(slot)
    /\ slot' = NoSlot
    /\ UNCHANGED <<up, configVars, known, next, fresh, pending, fileVars, lost,
                   faultVars, left, judged, tableVars>>

(* No answer within the time limit: the server goes on with the request.   *)
GiveUp ==
    /\ pc = "wait"
    /\ IF up
       THEN faults < MaxFaults /\ faults' = faults + 1
       ELSE UNCHANGED faults
    /\ slot' = NoSlot
    /\ pc' = "append"
    /\ UNCHANGED <<up, configVars, known, next, fresh, pending, fileVars, lost,
                   crashes, requestVars, tableVars>>

ClearBuffer ==
    /\ pc = "clear"
    /\ file' = <<>>
    /\ fresh' = <<>> /\ pending' = <<>>
    /\ pc' = "config"
    /\ UNCHANGED <<up, configVars, known, slot, next, corrupt, lost, faultVars,
                   requestVars, tableVars>>

(* append(): written after an unended line, a reading joins that line.     *)
AtLineStart(lines) == \A i \in DOMAIN lines : i = Len(lines) => lines[i].ended

Joined(lines, rs, ended) ==
    Append(Front(lines), [holds |-> Last(lines).holds \cup rs, parses |-> FALSE,
                          ended |-> ended])

(* Mutant: the end of the line is forgotten.                               *)
AppendedUnended(lines, r) ==
    IF AtLineStart(lines)
    THEN Append(lines, [Line(r) EXCEPT !.ended = FALSE])
    ELSE Joined(lines, {r}, TRUE)

Appended(lines, r) ==
    IF AtLineStart(lines)
    THEN Append(lines, Line(r))
    ELSE Joined(lines, {r}, TRUE)

AppendReading ==
    /\ pc = "append"
    /\ IF fresh = <<>>
       THEN pc' = "config" /\ pending' = <<>> /\ UNCHANGED <<fresh, file>>
       ELSE /\ file' = Appended(file, Head(fresh))
            /\ fresh' = Tail(fresh)
            /\ UNCHANGED <<pc, pending>>
    /\ UNCHANGED <<up, configVars, known, slot, next, corrupt, lost, faultVars,
                   requestVars, tableVars>>

(* Power cut or kill.  A write under way leaves nothing, a cut line, or a  *)
(* whole line without its end; after an unended line it joins that one.    *)
Crash ==
    /\ pc # "stopped" /\ faults < MaxFaults
    /\ faults' = faults + 1 /\ crashes' = crashes + 1
    /\ pc' = "stopped"
    /\ known' = FALSE /\ fresh' = <<>> /\ pending' = <<>> /\ slot' = NoSlot
    /\ \/ UNCHANGED file
       \/ /\ pc = "append" /\ fresh # <<>>
          /\ \/ /\ AtLineStart(file)
                /\ \/ file' = Append(file, [holds |-> {}, parses |-> FALSE, ended |-> FALSE])
                   \/ file' = Append(file, [Line(Head(fresh)) EXCEPT !.ended = FALSE])
             \/ /\ ~AtLineStart(file)
                /\ \E written \in SUBSET {Head(fresh)} : file' = Joined(file, written, FALSE)
    /\ lost' = lost \cup (ToSet(fresh) \ Held(file'))
    /\ UNCHANGED <<up, configVars, next, corrupt, requestVars, tableVars>>

-----------------------------------------------------------------------------
(* POST /edge/measurements: ingest_measurements, one item at a time in the *)
(* order of the batch, in one transaction.                                 *)
IsNext(q, r) == r \in left[q] /\ \A x \in left[q] : r <= x

(* INSERT ... ON CONFLICT DO NOTHING waits for another batch that is       *)
(* inserting the same row, then finds it or takes its place.               *)
InsertedElsewhere(q, r) == \E p \in Slots \ {q} : r \in judged[p] \ Refusable

(* A reading already stored is a duplicate: nothing is left to do with it. *)
Judged(r) == {r} \ stored

record_measurement(q, r) ==
    /\ phase[q] = "open"
    /\ IsNext(q, r)
    /\ ~InsertedElsewhere(q, r)
    /\ left' = [left EXCEPT ![q] = @ \ {r}]
    /\ judged' = [judged EXCEPT ![q] = @ \cup Judged(r)]
    /\ UNCHANGED <<up, configVars, pc, memoryVars, next, fileVars, lost, faultVars,
                   phase, tableVars>>

Closed(q, ph) ==
    /\ phase' = [phase EXCEPT ![q] = IF slot = q THEN ph ELSE "free"]
    /\ left' = [left EXCEPT ![q] = {}]
    /\ judged' = [judged EXCEPT ![q] = {}]

(* Each row this transaction inserted has had its quality and rules        *)
(* evaluated in it (evaluate_after_measurement).                           *)
CommitBatch(q) ==
    /\ phase[q] = "open" /\ left[q] = {}
    /\ stored' = stored \cup (judged[q] \ Refusable)
    /\ refused' = refused \cup (judged[q] \cap Refusable)
    /\ evaluated' = [r \in Readings |->
                       evaluated[r] + (IF r \in judged[q] \ Refusable THEN 1 ELSE 0)]
    /\ Closed(q, "done")
    /\ UNCHANGED <<up, configVars, pc, memoryVars, next, fileVars, lost, faultVars>>

AbortBatch(q) ==
    /\ phase[q] = "open" /\ faults < MaxFaults
    /\ faults' = faults + 1
    /\ Closed(q, "error")
    /\ UNCHANGED <<up, configVars, pc, memoryVars, next, fileVars, lost, crashes,
                   tableVars>>

(* The answer to a request nobody waits for any more is dropped.           *)
DropAnswer(q) ==
    /\ phase[q] \in {"done", "error"} /\ slot # q
    /\ Freed(q)
    /\ UNCHANGED <<up, configVars, pc, memoryVars, next, fileVars, lost, faultVars,
                   left, judged, tableVars>>

-----------------------------------------------------------------------------
DaemonStep ==
    \/ LoadConfig \/ TakeReadings \/ ReadBuffer \/ ReplaceBuffer
    \/ \E q \in Slots : Post(q)
    \/ PostFails \/ Answer \/ ClearBuffer \/ AppendReading

ServerStep(q) ==
    \/ \E r \in Readings : record_measurement(q, r)
    \/ CommitBatch(q)
    \/ DropAnswer(q)

Next ==
    \/ LinkDown \/ LinkUp \/ ChangeConfig
    \/ Start \/ DaemonStep \/ ReadFails \/ GiveUp \/ Crash
    \/ \E q \in Slots : ServerStep(q) \/ AbortBatch(q)

Spec == Init /\ [][Next]_vars

(* The link comes back, the daemon is restarted and goes on polling, its   *)
(* request ends with an answer or the time limit of its HTTP client, the   *)
(* equipment is not unreachable for ever, and the server works.            *)
Fairness ==
    /\ WF_vars(LinkUp)
    /\ WF_vars(Start)
    /\ WF_vars(DaemonStep)
    /\ SF_vars(TakeReadings)
    /\ WF_vars(GiveUp)
    /\ \A q \in Slots : WF_vars(ServerStep(q))

FairSpec == Spec /\ Fairness

-----------------------------------------------------------------------------
(* Properties.                                                             *)

Taken == 1..(next - 1)
Settled == stored \cup refused

(* "Une mesure deja lue n'est jamais perdue" (offline_buffer.py): except   *)
(* what a crash found in memory, every reading taken is in the memory of   *)
(* the daemon, on disk (buffer or side file) or answered for by the API,   *)
(* through lost answers, late commits, rollbacks and restarts.             *)
ReadingNeverLost ==
    Taken \subseteq ToSet(fresh) \cup Held(file) \cup corrupt \cup Settled \cup lost

(* The buffer is deleted only when every reading in it is answered for.    *)
ClearedOnlyWhenSettled ==
    [][file # <<>> /\ file' = <<>> => Held(file) \subseteq Settled \cup corrupt]_vars

(* "Un releve renvoye deux fois (reprise apres coupure) est reconnu et     *)
(* ignore" (telemetry.py): two batches that carry the same reading, one    *)
(* of them late, evaluate its quality and rules once.                      *)
EvaluatedOnce ==
    \A r \in Readings : evaluated[r] = IF r \in stored THEN 1 ELSE 0

(* A power cut costs at most the readings of two lines: the line being     *)
(* written and the one that joins it.                                      *)
CrashQuarantinesLittle == Cardinality(corrupt) <= 2 * crashes

(* What the daemon, its file and the ingestion promise together of each    *)
(* reading (ReadingDelivery), the file being the disk of the site.         *)
Delivery == INSTANCE ReadingDelivery WITH
    taken <- Taken, memory <- ToSet(fresh), disk <- Held(file), aside <- corrupt

(* A reading leaves the site only with a verdict or set aside, never comes *)
(* back there, is lost only with the memory, and is accepted once          *)
(* (offline_buffer.py and telemetry.py, through modbus_daemon.py).         *)
ImplementsDelivery == Delivery!Spec

(* "Repart avec les suivantes des que la connexion revient" (docstring of  *)
(* modbus_daemon.py): once a mapping stays active, a reading kept in the   *)
(* buffer reaches the API's verdict or the side file.                      *)
BufferArrives ==
    <>[]configured =>
        \A r \in Readings :
            r \in Held(file) ~> r \in Settled \cup corrupt
=============================================================================
