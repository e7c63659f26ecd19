# A TLA+ model of the platform

This directory is a verification development of the repository: TLA+ modules
translated from its source, TLC configurations that check them on small
instances, and TLAPS proofs for every value of the constants.

Contents

1. The system: components, state, operations, interactions
2. Modules and conventions
3. Commands
4. ScheduledCommands
5. EdgeBuffer
6. SyncFeed
7. MCPlatform: the components that share nothing but the database
8. MCLive: what must end
9. What is proved
10. What is only model-checked, and what is not modelled
11. Disagreements found
12. Plan
13. Running the checks

Paths below are relative to `src/services/api/` unless they start with `src/`.

## 1. The system

A FastAPI service over PostgreSQL (one database, row-level security per
tenant) records the assets of buildings, receives measurements from daemons
installed on site ("Edge"), sends commands to equipment through these daemons,
and serves a web console and an offline-capable phone application.

Every request runs in one transaction, committed when the route ends
(`app/deps.py`, `get_connection`). The isolation level is PostgreSQL's default,
READ COMMITTED. Three kinds of process run beside the API: the Edge daemons,
the periodic sweeps (scripts launched by a schedule or looping), and the phones.
They interact only through HTTP requests and through the database.

| Component | State | Operations | Hard behaviour | What makes it correct |
|---|---|---|---|---|
| Command pipeline (`app/commands.py`, `app/routers/commands.py`, `app/monitoring.py`, `app/events.py`) | table `commands` (status, created_at, sent_at), table `events` | create, claim (expire, re-validate, send), acknowledge, time out on read | concurrent claims, lost answers, policy changed meanwhile, deadlocks, late acknowledgement | a command is handed over once, never by a claim that found it stale or refused; the journal matches the row |
| Edge execution (`scripts/modbus_daemon.py`, `app/connectors/executors.py`) | commands held in memory | claim, write, read back, acknowledge | crash between write and acknowledgement | the equipment is written at most once |
| Planned commands (`app/scheduled_commands.py`, `app/scheduled_commands_sweep.py`) | table `scheduled_commands`, the audit lock | plan, cancel, sweep | sweep against cancellation, two lock orders, one failure for the tenant | one command, at its time, or none |
| Offline buffer (`app/connectors/offline_buffer.py`, daemons) | buffer file, `.corrupt` file, readings in memory | append, pending, clear, send | crash in the middle of a write, lost answer, long outage | a reading taken is never lost; it arrives |
| Telemetry (`app/telemetry.py`, `app/routers/devices.py`) | table `measurements` | ingest a batch | the same reading in two open transactions | inserted and evaluated once |
| Sync feed (`app/sync_feed.py`, `app/routers/sync.py`; `src/apps/mobile/src/lib/syncFeed.ts`, `syncStore.ts`, `sync.ts`) | stamps of rows; on the phone, rows and a cursor | read a page, apply a page, restart | rows that become visible late, interruption, invalid cursor | no row is missed, the pull advances |
| Phone uploads (`src/apps/mobile/src/lib/sync.ts`, `db.ts`; `app/maintenance.py`, `closures.py`, `fgas.py`) | queue of pending interventions with their progress | create, photo, closure, refrigerant form, delete | every answer may be lost, requests served late, change of person | each piece held once, nothing deleted too early |
| Configuration versions (`app/config_versions.py`, `command_policies.py`, `point_control_mode.py`, `connectors/device_mapping.py`) | table `config_versions` | create, activate, retire, restore | activation against retirement and restoration | one active version per subject, approved by a second person |
| Findings, alarms, work orders (`app/findings.py`, `signals.py`, `monitoring.py`, `supervision_sweep.py`) | findings, alarms, their axes, orders | raise or repeat, clear, acknowledge, handle, order | detection against people, two detections of one problem | one open finding per problem, one order per finding |
| Rules and trust (`app/rules.py`, `trust.py`, `desired_states.py`) | series of measurements, open findings | judge a measurement, simulate a rule | late readings, windows, flagged values | a finding of cycling or projection is open when its definition over the readings that are read says so |
| Automation (`app/automation_rules.py`, `automation_rules_sweep.py`) | events of the rules | evaluate, fire | brake read from a limited list of events | firings are apart |
| Audit journal (`app/audit.py`, `audit_anchor.py`) | chained entries, anchors | append, verify, anchor | concurrent appends, rollbacks | one chain, in order; an anchor covers a prefix |
| Devices (`app/devices.py`) | devices, keys, last_seen | provision, set key, revoke, report | requests out of order, revocation meanwhile | the journal tells the key, the status what was heard |
| Discovery and points (`app/bacnet_discovery.py`, `points.py`, `point_vocabulary.py`) | batches, proposals, points | scan, report, accept, reject, identify, validate | retried report, two people on one proposal | a created point has its accepted proposal; units agree |
| Edge cycle (`scripts/*_daemon.py`, `app/connectors/`) | the last configuration known | ask, read, send, execute | configuration changed or unreachable in the middle of a round | nothing real is commanded, readings follow a configuration |
| Registry (`app/assets.py`, `lifecycle.py`, `spatial.py`, `ifc_import.py`, `graph.py`, `properties.py`, `tags.py`) | sites, equipment, units, spaces, relations, dated values | archive, install, move, close, import, relate | read-then-write by two requests | the records do not contradict each other |
| Files (`app/documents.py`, `floor_plans.py`, `plan_placements.py`, `storage.py`; `src/apps/web/src/app/documents/actions.ts`) | objects in the store, rows, placements | sign, put, record; propose, validate, erase | one of three calls is lost | a row leads to its file |
| Histories (`app/timeline.py`) | rows of a dozen tables | merge, page by date | rows arrive during the walk | nothing but ties is skipped |
| Energy and regulation (`app/energy/`, `economics.py`, `regulatory/operat.py`) | readings, weather, results, declarations | aggregate, normalize, compare, declare | meter reset, corrections between two statements | nothing counted twice; a result is explained by what it stores |
| Status and comparison (`app/equipment_status.py`, `telemetry_overview.py`, `passport.py`, `comparison.py`) | the same measurements | read | several screens compute from them | the screens agree |
| Field test (`app/sdm120_check.py`) | two series, the cuts noted by hand | judge | cuts, buffer, faults | no false alarm, no fault missed |
| Admission (`app/admission.py`, `capacity.py`) | slots, threads, connections | queue, admit, refuse | three queues at their limits | every request ends |
| Migrations (`migrations/versions/`) | the rows they rewrite | upgrade, downgrade | rows written between two steps | a quantity, a state, an axis is told alike before and after; what is lost is lost at a named revision |

The components that are not modelled, or in part only, are listed in
`PROJECT.json` with the reason, and in section 10.

How they interact: a command (section 3) is created by a person, by the sweep of
planned commands (4) or by the automation; it goes through the gates of
the configuration versions and is executed by the daemon whose cycle and buffer
are two more modules. The readings that the daemon sends are judged by the
rules, which raise findings; the sweeps and the pages read them. The phone reads
through the sync feed (6) and writes through its queue of uploads. Every
write of a person goes through the audit journal, whose lock orders them.
The interactions that can disturb each other are composed in one module (claims
with daemon and time-outs; sweep with cancellations and audit lock; buffer with
ingestion; import with the tree of spaces; the console with the object store and
the journal; configurations with the cycle of the daemons; phone with
routes); the others meet in a table that one writes and the other reads, and
the reader's module lets that table change at any time.

## 2. Modules and conventions

| Module | Models | Checked by |
|---|---|---|
| `CommandLifecycle` | the promise of the pipeline: the edges a stored status may follow | refinement of `Commands` |
| `ReadingDelivery` | what is promised of each reading: where it may be, and how it leaves | refinement of `EdgeBuffer` |
| `InterventionHandover` | what is promised of each intervention entered off line: who holds which pieces, in which order | refinement of `PendingUpload` |
| `Commands` | command pipeline, edge execution, time-outs | `MCCommands`, `CommandsProofs` |
| `ScheduledCommands` | planned commands, sweep, cancellation | `MCScheduledCommands`, `ScheduledCommandsProofs` |
| `EdgeBuffer` | polling cycle, buffer file, ingestion transactions | `MCEdgeBuffer`, `EdgeBufferProofs` |
| `SyncFeed` | both sides of an incremental feed | `MCSyncFeed`, `SyncProofs` |
| `Supervision`, `Automation`, `AuditChain`, `Timeline` | what watches: problems, automatic commands, journal, histories | `MCPlatform`; `WatchProofs` |
| `ConfigVersions`, `Commissioning`, `PointVocabulary`, `EdgeDevices`, `EdgeCycle` | what is set up, and the daemons that follow it | `MCPlatform`, `MCRestored`; `SetupProofs`; `EdgeDevices`: `RegistryProofs` |
| `Archiving`, `Placement`, `Spaces`, `IfcImport` (extends `Spaces`), `AssetGraph` | the registry | `MCPlatform`; `RegistryProofs` |
| `AssetRecords`, `Filing`, `Migrations` | what is recorded beside it, and how its rows are rewritten | `MCPlatform`; `RegistryProofs` |
| `Diagnostics`, `EquipmentStatus`, `Energy`, `FieldTest` | what is computed from measurements | `MCPlatform`; `WatchProofs` |
| `MCPlatform` | the components above together, one of them moving (section 7) | itself; `PlatformProofs` |
| `PendingUpload`, `Admission` | what must end | `MCLive`; `SyncProofs` |
| `CommandsProofs`, `ScheduledCommandsProofs`, `EdgeBufferProofs`, `SyncProofs`, `SetupProofs`, `WatchProofs`, `RegistryProofs`, `PlatformProofs` | theorems (section 9) | |

Conventions. A transaction is a process with a program counter; what it has
written and not committed stays in variables of its own, which are also its
row locks. An UPDATE of a locked row waits, then looks at the committed row
again; a SELECT sees committed rows and the writes of its own transaction.
A cycle of waiting transactions is broken by rolling one of them back, as
PostgreSQL's deadlock detector does. Clocks are natural numbers. Constants whose
name starts with `Max`, and `Slots`, are bounds of the model. Definitions marked
as mutants are not part of the specification: each is a plausible bug in the
definition that follows it, and shows that a property can fail.

## 3. Commands

| Model | Code |
|---|---|
| `create_command` | `create_command` with its validation; creation and commit are one step, nothing else touches the row before |
| `ChangePolicy` | activation or retirement of a policy or of a mapping: `permitted[c]` is the verdict of `_assert_point_is_commandable` and `enforce_policy` |
| `ClaimBegin`, `expire_stale_pending_command`, `ClaimSelect`, `ClaimCheck`, `ClaimUpdate`, `ClaimCommit` | the statements of `claim_pending_commands`, in their order; rows are visited in any order because the query has no ORDER BY |
| `ClaimAbort`, `DeadlockVictim` | a rollback, by a lost connection or by the deadlock detector |
| `ExecuteCommand`, `PostAck`, `EdgeCrash` | `_execute_pending_commands` of the daemon |
| `AckRead`, `AckUpdate` | the read and the unguarded update of `acknowledge_command` |
| `mark_command_timed_out` | the guarded update called when a command is read (`evaluate_command_timeout`) |

`barred[k]` is a history variable: the commands refused without interruption
since claim `k` began. It states what re-validation promises under READ
COMMITTED: a refusal that was in force before the claim is honoured, one that
arrives in the middle may or may not be.

Status `acknowledged` appears in the docstring of `commands.py` but no code
writes it, so the model does not have it. The route of the acknowledgement also
appends to the audit journal after its update; its lock is not modelled here
(it is in `ScheduledCommands`). The daemon executes one command at a time;
nothing in the server prevents a second claim from being open meanwhile, so
`Claims` are independent of the daemon.

Run `MCCommands` (2 commands, 2 claims, expiry and time-out of 1, one change of
policy; 1.3 million states) checks:

- `ClaimedOrFailedOnce`: at most one hand-over and one failure per command;
- `WrittenAtMostOnce`: a lost answer or acknowledgement, or a crash, never
  repeats a write;
- `NeverClaimedStale`: no claim hands over a command that had waited
  `PENDING_EXPIRY` at the instant this claim read when it began, whatever it waits
  for and whatever another one rolls back. The age at the hand-over itself is
  not bounded: `ExpiredNeverSent` is refuted by a claim that lasts (section 11);
- `NeverSentBarred`: the verdict of the creation is never reused;
- `JournalMatchesRow`: stored status, events, daemon and equipment agree;
- `ImplementsLifecycle`: refinement of `CommandLifecycle`.

Two commands and two claims are what a deadlock, a double claim and an expiry
during a claim need; a third of either adds no new pair of conflicting
statements. One instant is enough to make a command stale, or sent and timed
out. Rolled-back claims are exercised by the next run.

Run `MCCommandsLive` checks `PendingResolved`: a pending command is eventually
handed over or failed. Fairness: `ClaimStep` is weakly fair because the daemon
claims in every cycle for ever; `ClaimRow`, the statements that wait for a row,
is strongly fair because PostgreSQL queues the waiters of a lock and gives it to
one of them when it is released. Nothing is assumed of the daemon's execution
or of the acknowledgements. The instance loses every answer of a claim and has
no time-outs: these touch no pending row, no lock and no claim, so leaving them
out removes states and no behaviour of the claims. The run allows one
claim to be rolled back by a lost connection; endless rollbacks are not fair.

## 4. ScheduledCommands

| Model | Code |
|---|---|
| `schedule_command` | `POST /scheduled-commands`: in the future, accepted now; validation, insertion, audit entry and commit are one step |
| `SweepBegin`, `SweepCheck`, `SweepUpdate`, `SweepAudit`, `SweepCommit` | `dispatch_due_scheduled_commands`, one planned command after the other |
| `SweepAbort`, `SweepVictim` | `sweep_once` counting a tenant as failed |
| `CancelRead`, `CancelUpdate`, `CancelCommit`, `CancelVictim` | the cancellation route |
| `auditLock` | `pg_advisory_xact_lock` of `append_audit_entry`, held to the end of the transaction |

The sweep takes the audit lock with its first planned command and then goes on
locking rows; a cancellation locks its row and then asks for the audit lock.
This is the deadlock the model contains; `SweepVictim` rolls back every
dispatch of the tenant.

Run `MCScheduledCommands` (2 planned commands, one sweep process, 3 instants, one
change of policy, one rollback; 36 thousand states) checks
`OneCommandAtItsTime`, `StatusTellsTheCommand`, `NeverDispatchedBarred` and the
liveness property `DueSettled`. The single sweep is an assumption of the
deployment: `src/infra/README.md` launches one scheduled task, the script's loop
is sequential, and the due rows are selected without a lock, so the code does
not itself exclude two sweeps. Fairness: the sweep is launched for ever, time
passes, a lock that is released is given to a waiter, the deadlock detector acts.

## 5. EdgeBuffer

| Model | Code |
|---|---|
| `Start`, `LoadConfig`, `TakeReadings`, `ReadFails` | the beginning of `run` and of each cycle in `scripts/modbus_daemon.py` |
| `ReadBuffer`, `ReplaceBuffer` | the two halves of `OfflineBuffer.pending`: side file first, then `os.replace` |
| `Post`, `PostFails`, `Answer`, `GiveUp` | `post_measurements` with its outcome |
| `ClearBuffer`, `AppendReading` | after an answer; after an error, one reading at a time |
| `Crash` | the process stops anywhere; a write under way leaves nothing, a cut line, or a line without its end; after an unended line it joins that one |
| `record_measurement`, `CommitBatch`, `AbortBatch` | `ingest_measurements` in the transaction of `POST /edge/measurements` |
| `DropAnswer` | the server finishes a request nobody waits for |

A line of the file is a record: the readings written in it, whether it parses,
whether its end was written. A reading appended after an unended line joins it.
Readings are numbered in the order in which they are measured; after the last
numbered one the daemon goes on polling, and those further readings count in
the size of a batch only. A batch above `MAX_ITEMS` is refused before any
transaction, as the schema does (`app/schemas.py`, `max_length=1000`). A reading in
`Refusable` is one the API answers with a refusal; the daemon does not send
it again. Values that conflict with a stored value are not told apart from
refusals: the daemon treats the two alike.

Run `MCEdgeBuffer` (3 readings, two per cycle, two requests open at once, three
faults of any kind, two changes of the mapping; 138 thousand states) checks:

- `ReadingNeverLost`: a reading taken is in memory, on disk or answered for,
  except what a crash found in memory only (`lost`; the code does not protect it);
- `ImplementsDelivery`: refinement of `ReadingDelivery`, below; in particular, two
  batches with one reading evaluate it once (`EvaluatedOnce`, a theorem of section 9);
- `CrashQuarantinesLittle`: a crash costs at most two lines;
- `BufferArrives`: once a mapping stays active, what the buffer holds reaches a
  verdict or the side file.

`ReadingDelivery` states what is promised of a reading without cycle, lines,
requests or transactions: readings are taken, pass from the memory to the disk,
are set aside, leave the site (`Release`) only with a verdict or set aside, are lost
(`Crash`) only with the memory, and are accepted once, at any moment after they were
taken (`Judge`). In `EdgeBuffer` the memory is `fresh`, the disk is what the lines of
the buffer file hold, the side file is `corrupt`. Deleting the file and replacing it
are steps `Release`, so an answer that is no verdict on a line must not lead to
either (hazard at `scripts/modbus_daemon.py:232`); a refusal is a verdict.

Two open requests are the late one and its retry. Three faults are what a joined
line needs (a cut, a crash that leaves a line without its end, a second cut
before the next send), and they include a crash during the recovery of a
crash and a late answer followed by one; with them the two lines of
`CrashQuarantinesLittle` are reached. Two readings per cycle let a crash find one of
them appended and the other in memory. `MAX_ITEMS` is above what the instance can
accumulate, so the limit does not act there; it acts in `MCEdgeOutage`.
Fairness: the link comes back, the daemon is restarted, its cycle goes on, the
equipment answers again and again (strong fairness of `TakeReadings`), the
server finishes what it has begun, and the HTTP client has a time limit.

A returned `append` is taken as durable. The code does not call fsync, so a
power cut (unlike a killed process) may lose more than the model says.

## 6. SyncFeed

| Model | Code |
|---|---|
| `WriteBegin`, `WriteCommit` | a row is stamped while its transaction runs (`created_at` default, trigger on `updated_at`), and becomes visible at its commit |
| `FetchPage`, `next_cursor`, `AnswerPage` | `fetch_page`, `next_cursor` with `database_now`, the two routes of `app/routers/sync.py` |
| `StartPull`, `ApplyPage`, `Interrupt`, `RejectCursor` | `pullFeed`, `pull`, `applyPage`, a lost answer or a killed application, `CursorRejectedError` |

The trigger stamps every update, so a row may move forward in the order of the
feed while a walk is under way. `MAX_TX` bounds the time between the stamp and
the commit, `MAX_SCAN` the time between the first page of a walk and its last,
interruptions included; `Tick` enforces both. A page is read, answered and
applied within one instant: the phone abandons a request after 20 s, the
overlap is 5 minutes. The `since` parameter of the very first request of
interventions is not modelled: it selects which rows the phone wants at all.

Run `MCSyncFeed` (2 rows, 3 writes, pages of 1 row, at most 2 pages per
synchronization, 5 instants, `MAX_TX + MAX_SCAN = OVERLAP = 2`, one interruption,
one rejected cursor; 263 thousand states) checks:

- `NothingBehindCursor`: between two walks, a row whose content the phone does
  not have is ahead of the cursor;
- `PullAdvances`: the guard against an immobile cursor never fires;
- `CacheNeverGoesBack`: rows delivered again never bring back an older content;
- `PhoneCatchesUp`: every version reaches the phone.

A page of one row makes every pair of rows cross a page boundary; three writes
allow a late commit, an update of a row already passed, and both. Fairness: the
application is used again and again, and transactions end.

## 7. MCPlatform: the components that share nothing but the database

These components have no variable in common, so their product would multiply
states without adding a behaviour. `MCPlatform` extends them all; a variable
`focus` says which one moves, and a property of a component is evaluated where it
is in focus. Each instance is small and goes through every interleaving of two or
three requests of its component. The run has a million distinct states. Its
mutants are bugs of one component each.

In all of them a request is a transaction in READ COMMITTED whose first statements
read what has committed and whose last step writes by id, under the indexes and
triggers of the table, and commits. Where a request keeps row locks between two
statements (`Archiving`, `Placement`, `Filing`) the lock is in the model.

### What watches

`Supervision`: the findings and alarms of one deduplication key. `Watchers` are
measurements, status reads or the sweep: `evaluate_after_measurement` and
`evaluate_communication_status` look, then `raise_finding`, `repeat_finding` or
`clear_finding_by_key`; `Operators` acknowledge, set the handling, clear, confirm,
and order work. The unique index on open findings is `uq_findings_one_open`.
`OneFindingOneOrder` holds for two watchers and two operators, two findings in
succession and four transactions.

`Automation`: `sweep_once` takes its instant and evaluates every active rule;
`Obstacles` are what `_evaluate_one` may meet, in its order. `FiredApart`: the
commands of one version of a rule are at least the interval apart and each has its
event. `EventLimit` is 1 instead of 10: the search for the last firing looks at a
bounded number of events, and the property shows that it is enough, because
nothing is recorded between a firing and the end of the brake. Two overlapping
sweeps are outside (one loop, one scheduled task). A new version of a rule has its
own identifier, thus its own brake.

`AuditChain`: `append_audit_entry` with its advisory lock, the read of the
previous hash, the insertion with a sequence that rollbacks do not give back,
verification and anchors. `JournalVerifies`: no broken link, no content broken but
that of a payload JSONB does not give back as written (some floats), and the
entries that an anchor covers never change. Two writers, three entries.

`Timeline`: rows arrive in several histories while a person walks back by date.
`WalkMissesOnlyTies`: what was there when the walk began has been shown at its
end, but for rows at the very instant a page ended at, and events beyond the
number that is looked at (`EventsShown`). `RecordEntries` adds the rows of one
instant in one step: rows may carry the same date, which is the interesting case.

### What is set up

`ConfigVersions`: drafts, `activate_version`, `retire_version`, `restore_version`,
for a type that requires a second person, with the trigger and the two unique
indexes. `OneActiveApproved`; `TakesOver` in `HistoryKept`; `MCRestored` asks the
statement that fails (section 11).

`Commissioning`: a scan, its agent on the site
(`scripts/bacnet_discovery_agent.py`), reports lost or sent again, proposals
accepted or rejected, points identified and decided. `PointOfAccepted`, and the
constraints of the tables in `CommTypeOK`.

`PointVocabulary`: `guess_point_class` over every combination of object type, unit
and groups of words of a name, the acceptance of the guess, then corrections,
validation and readings that declare a unit, three requests. Words of a name are a
set, because the code looks for each anywhere in it. `UnitsAgree`: what is guessed
with confidence can be accepted and validated, and no reading that is not flagged
was declared in another unit than the point has now.

`EdgeDevices`: provisioning, key, revocation, reports and the status computed when
read; requests of staff read, then write by id. `JournalTellsIdentity`,
`StatusNeverClaims`, and `RevocationKept` in `HistoryKept`. Proof of identity is
an action that succeeds.

`EdgeCycle`: for one equipment, mappings and policies that change at any time, the
checks of `create_command` and of the claim, and the round of a daemon of each
protocol: configuration (or the last one known), commands for Modbus, a reading in
which one failure drops all (Modbus, BACnet, OPC UA) or part (MQTT), the batch.
`CommandsReachSimulated`: a coil is written once per command, on a simulated
device, after the API has found it simulated and permitted at the claim.
`ConfigurationFollowed`: every write and reading belongs to the last configuration
that the API gave before its round. Two changes, two commands, two points, two
rounds, one outage. Concurrent claims and crashes are in `Commands` and `EdgeBuffer`.

### The registry

`Archiving`: `archive_site` and `unarchive_site` update the site then its
equipment; the creation and the restoration of one equipment take the shared lock
(`ForShare`). `ActiveOnArchivedIsStray`: an active equipment on an archived site
was put back by a repeated unarchive (`stray`), which locks nothing.

`Placement`: `assign_physical_unit` statement by statement and `change_state` of
the life cycle. `UndisturbedConsistent`: one unit per place always; mounted if and
only if placed for the units that no two overlapping requests shared
(`disturbed`). Two units, one place. `RemovePrevious` makes one step of the two
reads of the state of the unit it takes away (`app/assets.py:304`, `app/lifecycle.py:92`): it never
fails where the second one would, so the model has more behaviours than the code, not fewer.

`Spaces` and `IfcImport`: the tree with its types, moves with their history,
closing, and the proposals of an import (a building, its floor, an equipment)
accepted in any order by two people while the rest of the registry changes.
`TreeConsistent` excludes exactly the spaces and equipment of requests that
overlapped (`raced`). Bounds: two spaces, one equipment, one typed code and type
besides those of the file.

`AssetGraph`: relations created and ended by two requests while `dependents`
walks, one node per statement. `WalkFaithful`: it ends, in a cycle too, and its
answer lies between what depended the whole time and what did at some time. Three
nodes with a cycle.

`AssetRecords`: a dated property, a label, the plans of a space, a declaration of
OPERAT. `OneValueAtATime` and `SettledKept` (in `HistoryKept`): triggers and
indexes stop what the stale reads would do.

`Filing`: the console asks for a signed address, puts the object, records the row;
each answer may be lost. Two people propose, validate and erase placements under
row locks, with their audit entries. `FilesReadable`, `PlacementsJournaled`. A
signed address can in fact be used again until it expires; the console puts one
object with each, and the model does so.

`Migrations`: the ten revisions of three series (telemetry points, life cycle of
units, axes of the signals), in order, each one transaction; those that raise
change nothing. Three other series rewrite rows and are not modelled: the nodes of
the graph (`2c1a247ca272`), the nomenclature of the equipment (`8124d4500034`,
`6c1d9fbc55fb`, `4daa35f4dcf1`), the equipment of archived sites (`d4b7e91a3c52`,
`b8e3a6d15f94`). Writes of the application happen at the last revision only,
since the container upgrades before it starts. `MeaningKept` (in `HistoryKept`):
whatever upgrades, downgrades and writes follow each other, a revision never
changes the date, the quantity or the unit of a measure, the state of a unit, the
axes, major severity or confirmation of a signal. It names what is lost of a
measure, and where (`LosesOnly`): its exemplar, when the contract step drops
`physical_unit_id`; its flags, when the first revision is undone; its origin, when it leaves
its point, to be told again from its source when it joins one. `ContractReady`: the
contract step accepts what the migrate step left. One family of rows per behaviour
(the families share no table), two writes.

### What is computed

`Diagnostics`: `record_measurement` with `compute_trust` and every kind of rule
over all series within the bounds (up to four readings of a point, two points
together), late readings included. Arithmetic is exact: means and deviations as
fractions, ratios rounded to thousandths as the code rounds them.
A rule reads the latest rows of its window only (`list_measurements`, `limit=1000` in
`app/rules.py`); `HistoryLimit` is that limit, 3 in the instance, and two of its
windows hold four readings. `DiagnosisAsDefined` compares short cycling and trend projection with a
definition written independently, on the state after a reading that came in order:
while the window holds no more readings than the limit the finding is open exactly
when the definition says so, and over a longer one a finding that is open still has more
starts than allowed in the window, or a reading of the window from which the line reaches the
threshold. The definition counts the doubtful readings of the window, as the code does. The other
rules take part in the model and fire. What the documentation says without the limit and
the flags is refuted by TLC (`WindowCounted`, `DoubtfulNeverEvaluated`, section 11).

`EquipmentStatus`: two equipments, eight points and the readers of four screens.
`ScreensAgree`: one status whichever screen asks, consistent with the latest
values and the passport; the points of a class that have a value can all be compared
or none (`ComparedAlike`), and one that is called apart is beyond all others
(`ApartOfAll`). The last one is stated for at most five peers (`FEW_PEERS`), more than
the instance has, since two deviations mean that much for few peers only: with six, a
point may be called apart although one peer has its very value.

`Energy`: a meter that may be reset, weather entered and corrected between the
statements of a computation, stored results. `NeverOverCounted`, `PeriodsAddUp`,
`ResultsExplained`, `ReducedCostsLess`. The register after the reset may be above
the last value read before it, which the code cannot tell; the consumption is then
less than what was used, never more.

`FieldTest`: a daemon read every interval under cuts of the API, the gateway or
the daemon and one fault (a reading lost, doubled, going back, a buffer lost).
`VerdictFair` is `NoFalseAlarm` and `FaultsSeen`, under the conditions that the model
names: the cuts in which nothing is read are the minority of the intervals (`MayEnd`,
the comment of `app/sdm120_check.py:383-384`), the meter is read between two cuts and
after the last (`BeginCut`, what `docs/terrain/test-terrain-sdm120.md:398` asks of the
person who makes the test), and the fault is `Visible`: between two readings with
no such cut between them (`Hole`), hence not at the ends of the series nor within the intervals
granted around a cut. Nine cycles, two cuts and one fault: with six cycles, no
test with two cuts had enough readings to be judged. Without the reading between
them, two cuts in a row fail a daemon that did nothing wrong.

`ComputedAsDefined` is what `Diagnostics`, `Energy` and `EquipmentStatus` compute, proved
in section 9; `VerdictFair` is a property of its own.

### Fairness and bounds of this run

The run checks safety only, so it assumes no fairness. Its bounds are the
constants `Max...` of each module; they let two requests of every kind overlap in
every way and a third one follow.

## 8. MCLive: what must end

`PendingUpload`: `handleSave` queues an intervention with what was filled in;
`synchronize` goes through the rows of the person who is logged in, and each piece
(creation, signed address, object, photo, closure, refrigerant form) is a request
that may be answered, lost, given up (and served later), or cut by a kill of the
application. The routes are steps of the server: the unique `client_ref`, the
photo and the closure of an intervention, the author check. `ReceivedOnce`,
`ImplementsHandover`, `PendingLeaves`. `InterventionHandover` is what is promised of an
intervention without requests, marks or numbers: it is entered with the pieces it
will have, each of them arrives once (a photo: with its file in the storage) while the phone
still holds the intervention and after the pieces it belongs to, and the phone
lets go of it when all have arrived. In `PendingUpload` what has arrived is read from
the tables of the server, under the `client_ref` of the intervention that each row
names. Fairness: the application runs, an
awaited request is answered, each person who uses the phone logs in and
synchronizes again and again (each opening of the application does). Two faults,
two people, one intervention: rows are handled one after the other and share
nothing but the order, so a second one adds no conflict. Forms are complete,
absent, or one the phone refuses (a negative quantity).

`Admission`: three clients, three slots as configured (bounded to the capacity of
the pool by `effective_max_in_flight`), one thread, a pool of two. A route takes
its connection in a dependency, in its body, or takes none. `EveryRequestEnds`:
each queued request is answered or refused. `NoWaitForConnection`, no request in a
thread finds the pool empty (`app/admission.py:17-18`), is proved (section 9). Fairness: `asyncio.Semaphore`, the
thread limiter of AnyIO and the pool give way in the order of the requests (strong
fairness of the progress of each client); neither time-out is relied upon. More
clients than slots, threads and connections is what the circle needs, and the
mutant that drops the bound closes it.

## 9. What is proved

Each theorem holds for every value of the constants that the named assumption of
its module allows: any sets of commands, requests, devices, rows or people, any
bounds. The assumptions say that bounds and delays are naturals (positive where
the code's default is a positive constant) and that a value such as `NoRequest`,
"nothing here", is not one of the values it stands beside. A theorem needs
more in two places only, `WithinOverlap` and `OneSweep`; both are explained below.

None of the invariants below is inductive as the runs state it. Each proof names
what the code relies on without saying it, shows that every action keeps it, one
lemma or step per action, and derives the property.

### Commands

`CommandsProofs`, under `CommandsAssumption` (the two delays are positive, the
bounds are naturals, `NoCommand` is no command), for any sets of commands and
claims:

- `TypeCorrect`, `ClaimedOrFailedOnceHolds`, `WrittenAtMostOnceHolds`,
  `NeverClaimedStaleHolds`, `NeverSentBarredHolds`, `JournalMatchesRowHolds`: the
  invariants of run `MCCommands`;
- `Refinement`: `Spec => ImplementsLifecycle`.

`IInv` adds to the type invariant `LockInv`, a row written by an open claim is
written by no other and stays pending until that claim ends (this is what makes
the late check `WHERE status = 'pending'` sufficient); `ClaimInv`, candidates were
young when they were selected, and a claim has not written those it still has to
visit; `JournalInv`, the exact counts of events for each stored status; `EdgeInv`,
the daemon knows a command only by its one hand-over. `JournalInv` needs `LockInv`
at the commit, and `EdgeInv` needs `JournalInv` at the acknowledgement. `BarInv`
carries the history variable for `NeverSentBarred`. The refinement maps a commit
of a claim to one step that moves many commands, and uses `JournalInv` to show
that exactly those that enter "sent" are newly dispatched.

### SyncFeed

`SyncProofs`, under `SyncFeedAssumption`, for any set of rows, page size and
bounds:

- `TypeCorrect`, `PullAdvancesHolds`, `CacheNeverGoesBackHolds`: without
  condition;
- `NothingBehindCursorHolds`: under `WithinOverlap` (`MAX_TX + MAX_SCAN <=
  OVERLAP`), which states the limit of the design; run `MCSyncFeedWalk` shows that
  the duration of the walk cannot be left out of it.

`NothingBehindCursor` says nothing of a walk under way, where late rows do stand
behind the cursor. `MissingInv` says which: a row the phone misses is ahead of the
cursor or was stamped no earlier than `MAX_TX` before the walk began. With
`ClockInv` (a walk is at most `MAX_SCAN` old), the step back at the end of the
walk reaches before all of them.

### ScheduledCommands

`ScheduledCommandsProofs`, under `ScheduledCommandsAssumption`:

- `TypeCorrect` and `NeverDispatchedBarredHolds`, for any number of sweeps, however
  they overlap;
- `OneCommandAtItsTimeHolds` and `StatusTellsTheCommandHolds` under `OneSweep`: the
  set of sweep processes has one member at most. The deployment launches one
  (section 4); the code does not exclude two, and with two the theorems are
  false, since both may have selected the same due row.

`SweepInv` says that what a sweep has selected or written was planned and is due,
and that a favourable verdict it is about to act on was given since it began.
`HandledOnce` says that nothing a sweep still handles has a command, so its commit
makes each command once, and its rollback leaves rows that tell of none.

### EdgeBuffer

`EdgeBufferProofs`, under `EdgeBufferAssumption`: `TypeCorrect`,
`ReadingNeverLostHolds`, `EvaluatedOnceHolds`, `CrashQuarantinesLittleHolds` and the
action property `ClearedOnlyWhenSettledHolds`, for any number of readings, open
requests, faults and changes of the mapping; and
`DeliveryRefinement`, `Spec => ImplementsDelivery`. (`ClearedOnlyWhenSettledHolds`
says of the file alone what the refinement says of the whole; no run repeats it.)

`SentInv` follows a reading through a cycle: what was read from the file is still
the file, what was sent is with the request, and settled when the answer has come.
`InsertedInv` keeps the open transactions apart: no two have inserted the same
reading, nor one that is stored (the unique index that the second one waits on).
`CrashInv` counts: the readings that crashes have spoilt, and those the last unended
line may still spoil, are two for each crash at most. The refinement
needs `MemoryInv` besides: the new readings are distinct and not yet in the buffer, so
one that is appended leaves the memory for the disk; whatever is in flight was
taken; and a buffer is replaced by a part of itself. `ReplaceBuffer` and
`ClearBuffer` map to `Release`, by what `SentInv` says is settled or set aside, and a commit to
one `Judge` of many readings, by `InsertedInv`.

### PendingUpload

`SyncProofs`, under `UploadAssumption`: `UploadTypeCorrect`,
`ReceivedOnceHolds`, `DeletedOnlyWhenStoredHolds`, for any references, people and
requests under way, whether or not the phone still waits for them.

`TableInv` states the unique keys of the server's tables and that a photo's object
is stored. `MessageOK` says of each request under way that what it refers to is
already on the server, and `RowOK` that what a row of the phone has marked as
acknowledged is in the tables; a request given up and served late keeps both.

`HandoverRefinement` proves `UploadSpec => ImplementsHandover`, from these and two more
invariants. `OrderInv`: the row being sent is still queued, and a request on its way,
however old, is about a piece that was entered and left after those it belongs to
were acknowledged; so a request that is served after its intervention has left the
phone inserts nothing. `FormInv`: closures and refrigerant forms name an
intervention, whose reference they therefore have. A step of a route maps to
`Receive` if it inserts its row and to a stutter if it finds one, the last step of a
row to `Leave`.
(`DeletedOnlyWhenStoredHolds` states what follows for a row that is gone; no run
repeats it.)

### What is set up

`SetupProofs`:

- `ConfigTypeCorrect`, `OneActiveApprovedHolds` and the action property
  `TakesOverHolds`, under `ConfigAssumption`, for any number of overlapping
  requests. `RequestInv` tells what survives of a stale read until the write: a
  version that was active is no draft any more, an author never changes, numbers
  only grow. The index and the trigger do the rest;
- `CommTypeCorrect`, `PointOfAcceptedHolds`, under `CommAssumption`. `ReadExists`: the
  point that a request has read still exists when it writes, because points are
  never removed. That a point's proposal stays accepted rests on the constraint
  that the late rejection meets (`accepted_point`), not on what was read;
- `VocTypeCorrect`, `UnitsAgreeHolds`, under `VocAssumption`. A reading that is not
  flagged, stored or about to be, is of a point that is validated, in its unit
  (`InItsUnit`), because the trigger refuses any write of a point that is not
  proposed any more. That a confident guess can be validated is a proof by cases
  on the tables of `app/point_vocabulary.py`;
- `CycleTypeCorrect`, `CycleSafeHolds`, under `CycleAssumption`, for any number of
  mappings, commands, rounds and outages. `RoundInv`: the configuration of a round is
  the last one known, and that one is what the API answered last before the
  round; `OrderInv`: a command that was sent went through both gates, and those
  still to be executed have written nothing; `WriteInv` and `RecordedInv` carry
  both to the coils and to the readings.

### What watches

`WatchProofs`:

- `AuditTypeCorrect`, `WritersExcludeEachOther`, `JournalVerifiesHolds`, under
  `AuditAssumption`. `HolderInv`: who has read the last hash, or has rows to commit,
  holds the advisory lock. Hence `NumbersInv`, numbers are committed in the order in
  which they are drawn although rollbacks leave gaps, `ChainInv`, the hash
  read is that of the row before, and `AnchorInv`;
- `AutoTypeCorrect`, `FiredApartHolds`, under `AutomationAssumption`, for any
  `EventLimit` above zero. `LogOK` is the reason why a bounded search is enough:
  nothing follows a firing in the journal of its rule before the brake has
  ended, so a firing that the search no longer reaches is old enough;
- `SuperTypeCorrect`, `OneFindingOneOrderHolds`, under `SuperAssumption`. The
  invariant assumes nothing of what a transaction has read but its shape: the
  index and the guard of the update keep one finding open and one order for it;
- `TimelineTypeCorrect`, `WalkMissesOnlyTiesHolds`, under `TimelineAssumption`, for any
  page size and number of events shown. `TimelineInv`: what the walk knew and has
  not shown is before the instant it has reached, at an instant a page ended at, or
  an event behind `EventsShown` others (`CutOff`, which more rows never undo). The
  lemmas `LatestAre` and `LatestIf` say what the cut of a merged page is.

### What is computed

`WatchProofs` as well, for any readings and tables within the assumptions:

- `DiagTypeCorrect`, `DiagnosisAsDefinedHolds`, under `DiagAssumption`. `DiagInv`: what is open
  after a reading was judged is what its evaluation found. `StartsAsDefined` and
  `TrendAsDefined` show that the evaluation, which walks over neighbours or draws a
  line through two readings, says what the definition says of a window that is read whole;
  `LatestRead` and `StartsNotInvented`, that what is read of a longer window is its latest
  readings, and that no more starts are counted in it than the window has;
- `StatusTypeCorrect`, `ScreensAgreeHolds`, under `StatusAssumption`: from one measure per
  point and instant (`StatusInv`), `OneStatus`, `StatusAgreesWithValues`,
  `PassportAgrees`, `ComparedAlike`. `ApartOfAll` speaks of a mean and a deviation, and
  for any values: the peers within two deviations on one side would need squares that add up
  to more than they do (`SquaresAddUp`, the inequality between the square of a sum and the
  sum of the squares, and `ApartAlways`);
- `EnergyTypeCorrect`, `NothingInvented` (`NeverOverCounted`, `PeriodsAddUp`), under
  `EnergyAssumption` and `CourseAssumption`: a register counts at most what was used, which
  is what a reset leaves of it. `ReadingsSound`: the two readings a computation has
  taken are in order although it took them in two statements;
- `EnergyExplainedHolds` (`ResultsExplained`, `ReducedCostsLess`): no day has two observations
  (`NoDayTwice`), so a result misses no day that it also counts, and its degree days
  are the sum over the days it had (`DaysSummed`). `ExplainedInv` says so of what a
  computation has read, and `StoredExplained` of what it stored; `TimesGrows` and
  `CheaperIfLess` carry the order through the product and the integer division;
- `FieldTypeCorrect`, under `FieldAssumption`: a reading is dated before the interval
  after the next is due, and a cut that ended lasted. The verdict is not proved.

Sums are folds over sets, each step of which chooses an element. What a fold returns is
stated without induction over data: `Summed` says of a function on the subsets of a set
that it adds up, one element at a time in whatever order; `SummedTo` and `SummedAll` show
that such a function exists and `AddUpIsSummed` that the fold is one, both by the
smallest counterexample. From there `AddUpWithout` takes any element out of a sum,
`AddUpOfSubset` compares two, and the rest is arithmetic.

### The registry

`RegistryProofs`:

- `ArchTypeCorrect`, `ActiveOnArchivedIsStrayHolds`. `ShareInv`: a request about to
  make an equipment active, having found the site in service, still holds the
  lock that keeps it so;
- `PlaceTypeCorrect`, `UndisturbedConsistentHolds`, under `PlaceAssumption`.
  `ReadsInv` says, statement by statement of an assignment, what its reads are
  still worth for units and places that no other request has touched;
  `ReplacesInv` and `OneRowAPlace` say that the one that closed the row of a place
  is alone to open the next;
- `RecordTypeCorrect`, `OneValueAtATimeHolds`, `SettledKeptHolds`, under
  `RecordAssumption` (dates are positive naturals). `ValueInv`: each value ends when the
  next begins, and the last has not ended; `PlanInv`: a plan about to be inserted
  has the next number at most, so that the index refuses it or it is the next;
- `DevicesTypeCorrect`, `DevicesAccountedForHolds`, `RevocationKeptHolds`, under
  `DevicesAssumption`. `HeardOf` bounds what a row says of a device by what was
  heard, whatever order two reports are written in; `LastEntry` names the entry of
  the journal that holds the current key;
- `FilingTypeCorrect`, `FilingSoundHolds`, under `FilingAssumption`. `UploadOK`: a key is
  that of one upload, and is recorded once its object is stored. `ActOK` and `Told`:
  who holds the row of a placement is alone, its entry may follow those that the
  status of the row implies;
- `GraphTypeCorrect`, `WalkFaithfulHolds`, under `GraphAssumption`, for any set of nodes and
  pairs. `WalkInv`: the nodes that wait are known, those visited depended at some
  time, and every relation that was open throughout has its subject visited once
  its object is done with. `DependOn` is the least closed set, so at the end it
  is contained in what was visited;
- `ImportTypeCorrect`, `TreeConsistentHolds`, under `SpaceAssumption` and
  `ImportAssumption`. `PendingSound` says what each request that has read may still
  rely on when it writes, but for what was `raced`; `NodeSound`, `DecisionSound` and
  `UnderParent` tie a proposal, the request that decides on it and the parent it was
  accepted under;
- `MigrationTypeCorrect`, `MeaningKeptHolds`, `ContractReadyHolds`, under
  `MigrationAssumption`. `PointsInv`, `UnitInv` and `SignalsInv` say, revision by revision, which
  columns are there and that the old and the new ones tell the same; `ColumnsInv` says
  until and from which revision a measure may have an exemplar, flags and an origin.

### Admission

`SyncProofs`, under `AdmissionAssumption` (finitely many clients, and routes of the
three kinds): `AdmTypeCorrect` and `NoWaitForConnectionHolds`, for any pool, any number
of threads and any setting of the limit. `AdmInv`: there are no more slots taken
than connections in the pool, and each request that may come to need a
connection holds a slot; one that waits for a connection holds a slot that no
connection goes with yet.

### The composition

`PlatformProofs` shows that a behaviour of `MCPlatform` is a behaviour of each of its
twenty components, for every step of one leaves the variables of the others
(`EdgeBehaviours`, `RegistryBehaviours`, `OtherBehaviours`). What the components keep the
composition therefore keeps, under their assumptions: `TypeCorrect` (`TypeOK`),
`EdgeAsRegisteredHolds`, `RegistryConsistentHolds`, `HistoryKeptHolds` (an action
property: the histories of four components in one), and in `EachAsAlone` the
properties of single components. `ComputedAsDefinedHolds` is
`Spec => []ComputedAsDefined`.

Looking for proofs corrected the model three times. In `EdgeCycle`, the claim could
send a command on the mapping it had read for another one; `checked` now holds the
command with the mapping. In `EquipmentStatus`, `ApartOfAll` was stated for any number of
peers, and is false from six on. In `FieldTest`, `NoFalseAlarm` held because
no test with two cuts was long enough to be judged.

The assumptions on constants are what the code makes sure of: values, temperatures
and the base of the degree days are numbers (floats in the code, integers here), prices are above
zero (`gt=0` in the schema), an interval is longer than four units of the
clock, which only places the cuts between two readings.

## 10. What is only model-checked, and what is not modelled

Liveness (`PendingResolved`, `DueSettled`, `BufferArrives`, `PhoneCatchesUp`,
`PendingLeaves`, `EveryRequestEnds`) is checked by TLC only: it rests on fairness
and ENABLED, which the prover does not reason about. No module declares a recursive operator.

One safety property of a passing run is checked by TLC and not proved: `VerdictFair`
(`FieldTest`). It sorts series, takes medians and measures the time that
cuts cover; what the sort of a sequence returns for every input is an induction over data that
the prover cannot apply. `FieldTypeCorrect` is proved. TLC checked it within other bounds
too (10 cycles with 3 cuts, 8 with 2 cuts and 2 faults or with 3 faults, readings
delayed by up to two units).

`CHECK_DEADLOCK FALSE` is set where clocks, changes and faults are bounded: a
system that has nothing left to do stops; what must not stop is stated as
liveness. `MCLive` checks for deadlock.

Limits that hold for the whole model:

- one tenant; row-level security is the database's;
- texts, translations, formatting, pagination of plain lists, search;
- hashes, signatures, tokens and their expiry: HTTP authentication is a step that
  succeeds or a request that fails;
- protocol libraries, the decoding of registers, the IFC parser, the object store;
- one sweep of each kind at a time. `dispatch_due_scheduled_commands` selects
  without a lock, so two overlapping sweeps would create two commands of one
  planned command;
- the buffer file: a returned append is durable, and what a crash finds in the
  memory of the daemon only is lost (`lost` in `EdgeBuffer`); a filled buffer
  leaves with a cycle that reads, under an active mapping;
- a baseline of energy is a constant; versions of it are `ConfigVersions`;
- the checks of single readings of the field test compare numbers with thresholds.

Not modelled at all: rate limit (a library and its counter), job runs, load probe,
virtual telemetry and seed scripts, replay of imports, field comparison of BACnet
names, the pages of the web console beside the upload of a document, metrics and
logs. They keep no state that two requests could disturb.

## 11. Disagreements found

Five runs check a sentence of the repository and expect TLC to refute it.

- `MCTimedOut`, `TimedOutIsTerminal`: `timed_out` is documented as terminal
  (migration `0ecd01c9754c`), but an acknowledgement that read `sent` earlier
  overwrites it. `CommandLifecycle` has the two extra edges for that reason.
- `MCScheduledCancel`, `CancelledNeverRuns`: a cancellation confirmed to its
  author, and the command created all the same.
- `MCEdgeOutage`, `BufferArrives` with a small `MAX_ITEMS`: a buffer above the
  limit of a batch is refused for ever. The instance has no other fault than the
  cut.
- `MCSyncFeedWalk`, `NothingBehindCursor` with a long walk: a walk resumed after
  more than `OVERLAP` leaves a row behind, although the documents name long
  transactions only.
- `MCRestored`, `RestoredWasActive`: a draft that nobody approved becomes active
  by being restored, although `restore_version` justifies the absence of a second
  person by what the content had been.

Stated in the modules and refuted by TLC when checked alone (each is a definition
whose comment begins with "Not so"):

- `ExpiredNeverSent` (`Commands`): "une commande expirée n'est jamais envoyée à
  l'appareil" (`app/commands.py:222-223`), but the age is that of the instant at
  which the claim began. The clock passes the limit between its first statement and
  its commit, as it does while a claim waits for the row locks of another one; nothing in the
  repository sets a lock or statement time-out (one command, one claim);
- `WindowCounted` (`Diagnostics`): the starts "sur la fenêtre glissante"
  (`app/rules.py:387-388`) are those of its latest 1000 readings; 24 hours polled
  each minute hold 1440;
- `DoubtfulNeverEvaluated` (`Diagnostics`): "une valeur marquée douteuse […] n'est
  jamais évaluée par les règles" (`app/rules.py:71-72`), but the windows of the rules
  are read without regard to the flags;
- `NoActiveOnArchived` (`Archiving`): a repeated unarchive restores one equipment
  without the lock of the site;
- `ClosedIsNormal`, `OutageIsJournaled` (`Supervision`): a detection reactivates a
  finding that a person has closed meanwhile; a second outage records no event
  while its finding is open;
- `OneObjectOnePoint`, `ValidatedIsComplete` (`Commissioning`): two scans of one
  object both accepted; a field cleared between the check and the validation;
- `EquipmentInItsSpace` (`IfcImport`): accepted before its space, an equipment is
  created without a place;
- `SimulatedAsDefined` (`Diagnostics`): the simulation of short cycling has no end
  of window;
- `QueuedFormsAccepted` (`PendingUpload`): some forms pass the checks of the phone
  and not those of the API, and such a row would stay queued for ever;
  `PendingLeaves` is checked for the forms of `SomeDrafts`, on which the two
  agree.

Read in the code while modelling, visible in the models as the exceptions of their
properties or left out of them:

- timeline: entries at the instant a page ended at are skipped, and so are events
  beyond the 200 latest;
- graph: two requests may leave a symmetric relation open in both directions;
- devices: of two reports that overlap, the older may be the last to be written;
  two rotations of a key may record the same previous fingerprint;
- field test: a loss at the ends of the series or next to a silent cut, two cuts
  without a reading between them, and a test whose cuts are most of it, are not
  judged as they should be;
- energy: a reset already overtaken by the register is not detected; the reads of
  a computation may straddle a correction of the weather; a normalization accepts
  a baseline version that is not active any more;
- OPERAT: a declaration that is ready may be emptied by an update and then
  submitted;
- placements stay with the version of the plan they were drawn on;
- a comparison among three points at equal distances calls both ends apart;
- trust counts a flagged reading as recent while the status does not, and the
  passport shows a flagged value (with its flag);
- edge cycle: when the call for the configuration fails and the call for commands
  succeeds, commands are executed with the last known configuration, although
  `scripts/modbus_daemon.py:8-9` says that a change takes effect in the next
  round; the claim checks mapping and policy again but not the control mode; a
  value that is not a number ends the BACnet and OPC UA daemons; a refused device
  (401, 403) buffers for ever, like an outage;
- migrations: the contract step of the points drops `physical_unit_id` of the measures for good, as
  its docstring says (`f688f24c2cd4:10-12`); undoing the migrate step drops their `origin`, which
  is told again from `source` and may then differ (`manual` becomes `measured`); undoing the expand step
  drops `quality_flags` when no point is left, and with them the table `external_identifiers`, whatever
  the node its rows are about. None of these is refused. A full downgrade and upgrade loses the validation of a point that
  was migrated; two measures of one date whose old units were `°C` and `Cel` then
  become duplicates, and the upgrade is refused; the downgrade of the relations
  drops them without refusing;
- vocabulary: a keyword guess on an incompatible unit is proposed and then
  refused, and the unit of such a point cannot be cleared.

## 12. Plan

Done, in this order: `Commands` with `CommandLifecycle` and its proofs, because a
command acts on equipment; `ScheduledCommands`, its second source; `EdgeBuffer`,
the path of every measurement; `SyncFeed` and its proofs; then the uploads,
configurations, supervision, journal, discovery and registry, the cycle of the
daemons, the computations, the migrations. What can be modelled of the code's own
logic is. Then the proofs of section 9: every safety property that a run checks but
those of section 10, for the components first and for their composition last. The buffer and the uploads were given
abstract specifications like that of the commands (`ReadingDelivery`,
`InterventionHandover`), and proofs that they implement them. What is left to TLC is
out of the prover's reach (section 10).

Small components share a module of proofs, by the part of the system they belong to.

## 13. Running the checks

    tlc -workers 2 -config MCCommands.cfg MCCommands
    tlc -workers 2 -config MCPlatform.cfg MCPlatform
    tlapm CommandsProofs.tla        (and the other modules named ...Proofs)

The module of each configuration is named in `PROJECT.json` under `runs`; the
longest runs (`MCCommands`, `MCPlatform`) take two to three minutes on two cores. The
proofs of `RegistryProofs`, the largest module, take about twelve minutes from nothing.
