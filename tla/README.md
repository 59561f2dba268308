# IVMS fleet tracking: a TLA+ development

IVMS receives telemetry of vehicles over TCP, stores it in PostgreSQL
(TimescaleDB), keeps one *live position* per vehicle in a table and in a Redis
cache, derives trips, events, driver sessions and notifications from it, and
serves all of it over web pages, a REST API and WebSockets, under accounts with
limits.  This directory holds TLA+ modules that model the parts of it in which
tasks, requests, retries, crashes and several stores interact, the TLC
configurations that check them, and theorems about them that TLAPS proves.

    tlc -workers 2 -config ReconciliationFirst.cfg MCReconciliation
    tlc -workers 2 -config Components.cfg MCComponents
    tlapm ReconciliationProofs.tla

Contents: [inventory](#1-inventory) · [modules](#2-modules-and-the-code) ·
[runs](#3-what-the-runs-check) · [theorems](#4-what-is-proved) ·
[disagreements](#5-where-the-code-does-something-else-than-it-says) ·
[not modelled](#6-not-modelled) · [plan](#7-plan)

## 1. Inventory

One asyncio process does the ingestion (`ingestion/main.py`), a FastAPI process
the API and the WebSockets (`api/main.py`), worker processes of Flask the pages
(`app.py`, `routes/`), Celery workers the notifications (`tasks/`).  They share
PostgreSQL and Redis, and the Flask workers also files.

| Component (module) | State | Operations | Hard parts | What makes it correct |
|---|---|---|---|---|
| `ingestion/registry.py`, `connection.py` (`SessionRegistry`) | sessions by IMEI, a lock, presence keys in Redis | authenticate, register, supersede, read, close, heartbeat, scan for dead sockets | close() runs several times for one session; awaits between its steps; presence removed by separate tasks | the serving session is the registered one; no ghost stays |
| `ingestion/connection.py`, `filters.py`, `protocol/codec8e.py` (`PacketFraming`, `RecordIntake`) | the buffer; the session's last record; the unacknowledged packet | cut packets from the stream, decode, filter, acknowledge, put | a stream cut anywhere; packets sent again; rejected records in between | what was sent is framed; the track has no sample twice |
| `ingestion/main.py` queues (`IngestionPipeline`) | `db_queue`, five partition queues, worker state | put, route, save with three attempts, dead-letter file, supervise | acknowledgement before the put; bounded queues that wait for each other; a worker dies; the process dies | what is acknowledged is accounted for, in order, in the end |
| `core/reconciliation.py`, `ingestion/db/handler.py` (`Reconciliation`) | telemetry, the live row, audit trail, cache entry, announcements | `save_telemetry`, `reconcile_position`, offline sweep, watchdog, cache rebuild, healing | a row lock that locks nothing on first contact; work after the commit and outside the lock; stale selections | newest record wins; audit, cache and announcements follow |
| `ingestion/hysteresis.py` (`MotionHysteresis`) | motion state and lock key in Redis | evaluate, reset on offline | lock given up, expired, or released by another; a reset without it | "moving" and "idle" are debounced |
| `ingestion/analytics/engine.py` (`TripAnalytics`) | per-device state in Redis, events, trips | process a packet in stages | an error between stages forgets what was to be remembered | trips never overlap |
| `log_alert` (`EventStorm`), driver sessions (`DriverSessions`) | cooldown and count keys; drivers, tags, sessions | report; log in and out, edit the registry | check-then-act between tasks; statements that commit one by one; late packets | one event per cooldown; one driver at a time |
| `api/main.py`, `services/ws_broker.py` (`LiveStream`) | connections, two listeners, a batch | connect, broadcast, suppress, batch | iteration over a list that others change; sends that fail | no update is missed |
| `static/js/dashboard.js` and the bulk endpoint (`FleetDashboard`) | the page's store, its buffer and request | apply live messages and bulk answers by version | answers read at several times, late messages | a quiet page shows what the server has |
| `routes/api.py`, `events_center.html` (`EventsCenter`) | events, the pages shown | page, filter, acknowledge | a list that grows while it is paged | the pages leave no gap |
| `tasks/`, `routes/notifications.py` (`Notifications`) | notification queue and history | raise, poll, dispatch, send, retry | a crash between sending and marking; an aborted transaction; overlapping polls | none is swallowed |
| `api/mobile/sync*.py` (`DeltaSync`) | change log, the client's last number | store, number, fetch | numbers commit out of order | a change is missed only for a known reason |
| `services/limit_validator.py`, `routes/users.py`, `routes/vehicles.py`, `models/database.py` (`AccountLimits`) | users, vehicles, limits | register, approve, decline, edit, delete, create | count-then-create, read-modify-write of whole records | limits hold within the requests under way |
| `auth/shared.py` (`AccountTree`) | users and their parents | collect a subtree | cycles, unknown parents | the walk ends and misses nobody |
| `services/maintenance_service.py` (`Maintenance`) | a schedule, its history | create, complete | two completions at once | a service moves the plan by one interval |
| `services/native_report_service.py` (`FleetReport`) | telemetry, trips, edges | report as a sequence of queries | trips close between the queries | nothing is counted twice |
| `services/external_api_service.py` (`LiveFallback`) | three layers of positions | answer from the first that has it | layers fail, and are written at different times | a fallback is no older |
| `middleware/rate_limiter.py` (`RateLimiter`) | a sorted set in Redis | admit | boundary; transactions overtake each other | at most one above the limit |
| `ai_module/services/rag_service.py` (`KnowledgeBase`) | list and chunks in every worker's memory, two shared files | upload, delete, re-index | whole files overwritten, truncated files read | what is searched is what is listed |
| `services/copilot_service.py` (`CopilotChat`) | answer cache, conversation memory | ask, query, word, cache | awaits of the model between reading and caching | answers are fresh and go forward |
| site operations, device commands, user authentication, diagnostics, legacy server | – | – | – | not modelled, see [section 6](#6-not-modelled) |

How they interact: a connection cuts packets from its stream, filters their
records, acknowledges them and puts what passed into `db_queue`; the router moves
it to the partition of its IMEI; the partition's worker calls `save_telemetry`,
which inserts the records, runs motion hysteresis, driver sessions and analytics,
and hands the newest of the batch to `reconcile_position`; that locks and writes
the live row and its audit entry in one transaction, and then, outside it, the
cache entry and an announcement to which the API's two listeners subscribe, which
broadcast to the dashboards.  Disconnects travel through the same queues.  The
watchdog, the offline sweep, the cache rebuilder and the API's cache healer work
beside all this on what they read a while ago.  Events go through storm control
into the notification queue, from there to Celery tasks and the history that
mobile clients synchronise.  Reports and the external API read what the worker
is writing.

## 2. Modules and the code

| Module | Models |
|---|---|
| `Reconciliation` | one vehicle: telemetry rows, live row, audit trail, cache entry, announcements, and every task that touches them |
| `LivePosition` | the abstract promise of the reconciliation: a register that holds a stored position and only moves forward |
| `SessionRegistry` | the TCP sessions of one device, their registry entry, presence keys and the device's items in the queues |
| `IngestionPipeline` | packets of several devices from the socket to the database |
| the nineteen of the table above | one component each, with a prefix of its own (`h…`, `ev…`, `t…`) so that they can be extended together |
| `MC…` | definitions for TLC: ignition by record, symmetry, the connections of devices, packets; `MCComponents` composes the nineteen |
| `…Proofs` | theorems: one module each for the reconciliation, the sessions and the pipeline; `TelemetryProofs`, `ClientProofs` and `AdministrationProofs` for the components, by what they do; `ComponentsProofs` for their composition |
| `Counting` | lemmas on naturals and cardinalities that several of these need, among them the two on recursive functions of section 4 |

In all of them a step is what one task does between two awaits (one SQL
statement, one Redis command, one put or get of a queue, one call of a language
model), or one transaction boundary.  Several tasks of one kind are elements of a
constant set, `pc` (or a field `step`) says where each of them is.  A definition
named `…Bug` is a mutation of the definition after it: the code with a plausible
mistake, which the property it is meant for must notice.  No specification uses
one.

**Reconciliation.**  Records are their timestamps, `1..MaxTs`, which are also
their ids: `telemetry` has a unique key on IMEI and timestamp.  `row` is the
live row (its timestamp, telemetry id, version, the state shown and whether
`updated_at` is recent), `lock` the task that holds the row or its key,
`redis` the cache entry, `audit` and `published` the trail and the
announcements.  `Receive`, `InsertRecord`, `AttemptFails` and `StartReconcile`
are `save_telemetry` under `db_worker`'s retries; `LockRow`, `Upsert`, `Commit`,
`SetCache`, `Publish` and `LogCompletion` are `reconcile_position`, with the
failed audit INSERT that turns the COMMIT into a rollback; `WatchdogScan`,
`SweepScan`/`MarkRow`/`ReadCache`/`WriteBack`, `ReadRow` and `HealMiss` are the
periodic tasks and the API's healer; `RegisterVehicle` and `InitStatusRow` the
registration form, whose vehicle is active or, from a company, a draft until it
is approved: telemetry of a draft is stored and reconciled, but the watchdog
passes it by (`Active`).  `Crash`, `Flush`, `PurgeRow`, `LockTimeout` are what may
go wrong, and the fault `redis` is a Redis command that fails wherever one is
issued: the motion engine before the reconciliation, the cache and the
announcement after it, offline marking, rebuilds and heals.  PostgreSQL's row lock and unique key are modelled by what they do:
`SELECT … FOR UPDATE` waits for a lock on a row that exists and locks nothing
otherwise; an upsert waits for an uncommitted insert of the same key.
`HealedState` is constant because the watchdog looks up IO elements with integers
in a dictionary read back from JSON, whose keys are strings.

**SessionRegistry.**  `entry` is `ConnectionManager._sessions.get(imei)`,
`holder` who holds its lock across awaits, `closing[e]` the close() that task `e`
is running and where: a session's close() may be run by its own task, by the
session that supersedes it and by the cleanup task, at the same time.  `key` and
`field` are the presence keys, `redisOps` the heartbeat and removal tasks that
`create_task` leaves behind.  `queue` is the device's share of the queues, oldest
first, and `shown` the effect of the item processed last.

**IngestionPipeline.**  Device `d` numbers its packets; it sends again what was
not acknowledged, so `1..acked[d]` are the acknowledged ones.  `mainQ`, `router`,
`partQ` and `worker` follow `db_queue`, the router's local item, the partition
queues and the workers.  A waiting `put` that is woken and finds the queue full
goes back to the end of asyncio's line, so the order of waiting puts is left open.
`save_telemetry` may return without having stored anything, which the worker takes
for a success: the vehicle is not registered (`dropped`), or the error of an INSERT
is only logged (`lost`).  `lost` is a history variable: that, what was in memory in
a crash, and what could not be written to the dead-letter file.

**The components.**  Each module's head says what its steps are and what was
abstracted; what a reader may not expect:

- `MotionHysteresis`: an evaluation is enter, read, save, unlock.  `HRules` is
  the decision table of `evaluate_state`; `hFaults` counts errors of Redis,
  sections that outlive the five seconds others wait or the lock's ten, and
  restarts.  `HResetOffline` writes without the lock, as the code does.
- `TripAnalytics`, `FleetReport`: a packet goes through edge, summary, idling,
  violations and remember; `TGiveUp`/`PGiveUp` is an error or restart between any
  two, after which the state in Redis is the old one.
- `DriverSessions`: `Swipe`, `SelectActive`, `CloseOther`, `OpenSession` are the
  statements of `sync_driver_session`, each of which commits by itself.
- `PacketFraming`: a byte has `FBase` values (256), the four-byte fields have
  `FZeros` bytes, and a body is any whose length its field can hold, so lengths
  take several bytes: `FField` is the field the device writes, `FValue` what the
  server reads in it.  `FRound` is one round of the `while` of `_process_buffer`, and
  `FProcess` as many rounds as there can be.
- `RecordIntake`: positions on a line; a packet is a sequence of records.
  `RStep` is one round of the loop over the records.
- `AccountTree`: `Children` is the set that the walks look up, `Below` the least
  set with the root's children and theirs: what the walks should find.
- `LiveStream`: a broadcast is `WBegin`, one `WSend` per client of a copy of the
  list, `WCleanUp`.  The streamer and the broker are `Casters`.
- `FleetDashboard`: a bulk request is `BRefresh`, then the read of the cache
  (`BAnswerCached`, or `BMisses` when there is no entry), in the second case the
  later read of the row (`BReadRow`) and the task that writes it to the cache
  whatever is there by then (`BHeal`), and `BApplyBulk`; requests of other browsers
  miss, read and heal too.  `bWire` are announced messages that may arrive late, again and
  out of order; `ProcessBufferedUpdates` is the timer.
- `Notifications`: `nRun[d]` is a dispatcher's selection, its step and whether its
  transaction is aborted.  `nRecorded` are rows that `notification_history` really
  has: `NHistory` may fail to write one, and `nUnwritten` remembers where that was
  the last trace of the notification.
- `Maintenance`: a schedule has a date, an odometer and an engine hours target, each
  optional; `LiveStatus` looks at all three.
- `LiveFallback`: a packet's position reaches telemetry, row and cache one after
  another, or its call fails, or its row is rolled back and the cache is written all
  the same (`finding_rollback`); `xUnbacked` remembers what was cached that way.
- `AccountLimits`: `Begin` is the read of the tables (which fails into an empty
  list), `ValidateLimit` the check, the `Write…` the commit; `ReadUser` and
  `SaveUser` are `update_user_db`.
- `KnowledgeBase`: `Broken` is a file that was truncated and not yet dumped;
  `kTorn` the workers in which two requests overlapped or one failed, or that
  started from files that such a request had left or was writing (`kSplit`), which
  is a matter of what happened and not of what the files say.
- Ghost variables (marked so where they are declared) remember what a property
  needs: a late packet, an overlap, a failed read.  The exceptions a property
  grants are stated with them, and each is a behaviour of the code that
  section 5 names.

## 3. What the runs check

| Run | Instance | Properties | States |
|---|---|---|---|
| `reconciliation_first_contact` | new vehicle or imported one, worker and watchdog, 3 events, 2 timestamps; drafts, crash, lock timeout, purge, insert and Redis failures | `TypeOK`, `LiveMatchesAudit`, `OnlyFirstContactRegresses`, `OnlyRollbackOvertakes` | 2.7 M |
| `reconciliation_known` | known vehicle; worker, watchdog, sweeper, rebuilder, healer; 3 events, 3 timestamps; cache entry lost | `CacheNeverAhead`, `LiveIsAnnounced`, `NewestWins` | 1.3 M |
| `reconciliation_live` | imported vehicle; worker, watchdog, rebuilder; failed attempts, timeouts, Redis failures, a crash | `LatestBecomesLive`, `CacheConverges` | 0.5 M |
| `session_safety` | two sessions and the cleanup task, one packet | `TypeOK`, `ServingIsRegistered`, `NoGhostEntry`, `SecondSocketIsClosing` | 3.1 M |
| `session_live` | two sessions, no packet after the login; Redis failures | `EvictedEnds` | 58 k |
| `session_ghost_presence` | one session and the cleanup task, two packets | `GhostPresenceEnds` | 37 k |
| `pipeline_order` | two devices, two partitions, two packets each; retries, late failures, unregistered vehicles, swallowed insert errors, dead letters, a crash | `TypeOK`, `ZeroPacketLoss`, `StrictSequencing` | 2.6 M |
| `pipeline_live` | one device with two connections, queues of one; failed attempts, worker deaths, filters, unregistered vehicles, swallowed insert errors, undecodable bytes | `EveryPacketSettles` | 0.3 M |
| `components` | the nineteen components, each in an instance of its own | `TypeOK` and one property or two per component, below | 0.6 M |
| `finding_*` | see [section 5](#5-where-the-code-does-something-else-than-it-says) | one each | – |

What the properties say is stated above each of them in its module.  A few are
worth their reasons here:

- `OnlyFirstContactRegresses` is the exact extent of "stale packets never corrupt
  runtime state": the step that breaks it is named, and nothing else breaks it.
  `NewestWins` is the unconditional form, for a vehicle that has a row.
- `OnlyRollbackOvertakes` does the same for the cache, under every failure there
  is: while cache, snapshots and what is about to be written are behind the row
  (`InStep`), only a purge, a first contact or the rolled-back call of
  `finding_rollback` puts one of them ahead.
- `CacheNeverAhead` is about the snapshots that the sweeper, the rebuilder, the
  healer and the offline marker write back later: none of them can show what the
  database has not committed.  It is checked without retries, which
  `OnlyRollbackOvertakes` says is the only reason left for a known vehicle.
- `LatestBecomesLive` and `CacheConverges` are what repairs everything that a
  timeout, a failed attempt, a crash or a race leaves behind.  The first is about
  active vehicles: of a draft, the watchdog repairs nothing.
- `SecondSocketIsClosing` is what remains of "one active socket per IMEI".
- `ZeroPacketLoss` accounts for every acknowledged packet in every state, with the
  ways out named: stored, dead-lettered, rejected, or lost in one of three ways.
- `QuietDashboardIsRight` and `FallbackIsNoOlder` grant the exceptions that the
  heal task and the rolled-back commit make necessary, and no more: each is bound
  to the very entry that was written that way.
- `SearchedIsListed` excuses what a request left that overlapped another or failed,
  and a restart from such files; it does not excuse workers that overwrite each
  other's files in turn, nor a restart after that.

The component properties, each with the question it answers:

| Property | Module | Question |
|---|---|---|
| `EvaluationsExclude`, `TransitionIsSustained` | `MotionHysteresis` | does the Redis lock exclude, and does debouncing hold, with late packets and a reset that takes no lock? |
| `OneEventPerCooldown` | `EventStorm` | is an alert storm impossible, but for two tasks that pass one gap? |
| `TripsDisjoint` | `TripAnalytics` | can errors between the stages double or join trips? |
| `OneDriverAtATime` | `DriverSessions` | can a vehicle have two drivers after errors, late swipes and edits of the registry? |
| `FramesArePackets` | `PacketFraming` | is framing independent of how the stream is cut, whatever the lengths? |
| `TrackIsConsistent` | `RecordIntake` | can resends and rejections put a wrong or repeated sample on the queue? |
| `NoUpdateIsMissed` | `LiveStream` | can an update be lost between two listeners that share a list of connections? |
| `QuietDashboardIsRight` | `FleetDashboard` | can a page stay wrong when everything has gone quiet, and which requests may leave it so? |
| `PagesLeaveNoGap` | `EventsCenter` | can paging skip an event while new ones arrive? |
| `NoticesAreSettled` | `Notifications` | can a notification be swallowed, or a reminder doubled? |
| `MissedForAReason` | `DeltaSync` | which changes can a client miss? |
| `OverrunIsBounded` | `AccountLimits` | how far can limits be exceeded, and can a changed limit come back? |
| `SubtreeIsComplete` | `AccountTree` | do the walks end and agree on any table, cycles included? |
| `ServiceMovesThePlan` | `Maintenance` | do concurrent completions lose or double an interval? |
| `NothingCountedTwice` | `FleetReport` | can a trip be in two parts of a report? |
| `FallbackIsNoOlder` | `LiveFallback` | can a fallback answer go back in time? |
| `WindowIsBounded` | `RateLimiter` | how many requests does a window let through? |
| `SearchedIsListed` | `KnowledgeBase` | do the list and the chunks of a worker agree, and does re-indexing repair? |
| `AnswersAreFresh` | `CopilotChat` | how old may an answer be, and can it go back? |

**Bounds.**  `MaxTs` (timestamps) is 2 or 3: two records show every order of an
older and a newer one, the third a position overtaken twice.  `MaxEvents` bounds
what the environment does (batches, disconnects, crashes, flushes, purges); one
worker and one watchdog are what the process runs for a vehicle, since a vehicle
has one partition and a partition one worker.  `MaxRetries` is the code's own 3.
Two sessions are enough for a session to be superseded by another while the
cleanup task closes either; the theorems cover any number.  Queue sizes of 1 to 3
make queues full all the time where the code has 10000 and 2000; `Threshold` 0
stands for 8000, `Burst` for the packets one `read(4096)` may hold.
`MaxPackets` and `MaxCrashes` bound the pipeline's runs.  Every run ends because
these bounds end what the environment does, so `CHECK_DEADLOCK FALSE`.

In `components` there are two of everything that can meet (tasks, requests,
workers, clients, polls, dispatchers), which is what every hazard in question
takes, and durations keep the order of the code's (the counter's life is twice
the cooldown, a stop takes longer than a start, the mobile page is shorter than
what there is to fetch).  Where a third matters it is there: three notices for a
client that sees the first and last number, three accounts for a cycle below a
root.  The dashboard has one request past the cache beside the writers, as two
that read rows of different ages differ only in the order of their writes; a byte
has four values, so that a body of five has a length of two digits.  `Explored`
ends an execution where the components' properties say nothing of what follows:
after the first fault of the hysteresis, a failed read of accounts, crossed edits,
two rows for one reminder.  It also bounds what only multiplies states: vehicles
and users of `AccountLimits`, which are counted apart, are not combined; a report
has one jump of the receiver, the dashboard three messages on their way, and of
the notifications' tasks and those that could not write their history there are
two.  The theorems have none of these bounds.

**Symmetry** is used for sessions in the safety run, and in `components` for the
processes and clients (`p1`, `p2`), the requests and the documents (`w1`, `w2`),
which are interchangeable wherever they stand for something; no liveness property
is checked there, and `TransitionIsSustained` does not name them.

**Composition.**  The nineteen components share no variable with one another:
what one of them leaves for the next is in the model of the next as what may be
there.  So `MCComponents` lets TLC choose one at the start and run it alone;
checking all interleavings of independent components would add nothing.  The
components that do share state, the tasks around the live row, are together in
`Reconciliation`; sessions and their queue in `SessionRegistry`.

**Fairness.**  `Fairness` in each module is weak fairness for every task that can
go on: asyncio schedules all ready tasks, the periodic tasks sleep and wake
again, PostgreSQL grants a lock that stays free.  The pipeline needs strong
fairness in two places: asyncio queues serve waiting puts in line, so a put that
finds room again and again succeeds; and a database that refuses connections
again and again accepts one at last (without that nothing can be stored).  In
`Reconciliation` a rebuild that writes the entry again and again succeeds at last,
as Redis does not refuse every write of it for ever.
Nothing is assumed of devices, users, failures or crashes.  In `pipeline_live`
there is no crash: what a crash loses never settles.  The components of
`MCComponents` are checked for safety only: requests may be given up at any
point, and nothing in the code promises that they end.

## 4. What is proved

TLAPS proves the following for all values of the constants that satisfy the
assumption named in each module, that is for any number of timestamps, events,
workers, watchdogs, sessions, cleanup tasks, connections, packets, reporters,
requests, clients, users and pages, and any faults.  The assumptions give the
parameters their types, keep sets of tasks disjoint, and say what the code's
constants do: queues, pages, lifetimes and the number of a period's first packet
are positive, sets whose elements are counted are finite, each device has a
connection, a byte has more than one value, and the length of a packet's body can
be written in its field.

| Theorem | Statement |
|---|---|
| `ReconciliationProofs!TypeCorrect` | `Spec => []TypeOK` |
| `…!FirstContactIsTheOnlyRegress` | `Spec => OnlyFirstContactRegresses` |
| `…!LiveRowIsBacked` | the row's telemetry id names a stored record no newer than the row |
| `…!AuditMatchesLive` | `Spec => []LiveMatchesAudit` |
| `…!OvertakenForAReason` | `Spec => OnlyRollbackOvertakes` |
| `…!KnownVehicleNeverRegresses` | `Spec => NoRegress` (no step moves the row back in time) if the vehicle is known and never purged |
| `…!ImplementsNewestWins` | `Spec => NewestWins` if, besides, no record insert fails |
| `…!LivePositionIsAnnounced` | `Spec => []LiveIsAnnounced` unless Redis fails or the process dies |
| `…!CacheIsNeverAhead` | `Spec => []CacheNeverAhead` for a known vehicle with one worker, if no attempt, lock, insert or Redis command fails, the process does not die and the row is not purged |
| `SessionRegistryProofs!TypeCorrect` | `Spec => []TypeOK` |
| `…!ServedSessionIsRegistered` | `Spec => []ServingIsRegistered` |
| `…!AtMostOneServes` | at most one session serves the device |
| `…!NoGhostRemains` | `Spec => []NoGhostEntry` |
| `…!SecondSocketIsBeingClosed` | `Spec => []SecondSocketIsClosing` |
| `IngestionPipelineProofs!TypeCorrect` | `Spec => []TypeOK` |
| `…!NoPacketVanishes` | `Spec => []ZeroPacketLoss` |
| `…!DeviceInOrder` | a device with one connection has its packets stored in order, whatever the others do |
| `…!StoredInOrder` | `Spec => StrictSequencing` if every device has one connection |
| `TelemetryProofs!SectionExcludes` | `HSpec => []EvaluationsExclude` |
| `…!MotionIsSustained` | `HSpec => TransitionIsSustained` |
| `…!StormsAreHeld` | `EvSpec => []OneEventPerCooldown` |
| `…!TripsDoNotOverlap` | `TSpec => []TripsDisjoint` |
| `…!DriversTakeTurns` | `DSpec => []OneDriverAtATime` |
| `…!TracksAreConsistent` | `RSpec => []TrackIsConsistent` |
| `…!FramingIsExact` | `FSpec => []FramesArePackets` |
| `ClientProofs!ClientsAreServed` | `WSpec => []NoUpdateIsMissed` |
| `…!QuietStoreIsTheRow` | `BSpec => []QuietDashboardIsRight` |
| `…!AnswersAreNoOlder` | `XSpec => []FallbackIsNoOlder` |
| `…!NothingIsCountedTwice` | `PSpec => []NothingCountedTwice` |
| `…!NoNoticeIsSwallowed` | `NSpec => []NoticesAreSettled` |
| `…!NoChangeIsSkipped` | `YSpec => []MissedForAReason` |
| `…!PagesJoinUp` | `GSpec => []PagesLeaveNoGap` |
| `AdministrationProofs!EveryServiceCounts` | `MSpec => []ServiceMovesThePlan` |
| `…!LimitsAreHardlyExceeded` | `ASpec => []OverrunIsBounded` |
| `…!WindowsAreLimited` | `LSpec => []WindowIsBounded` |
| `…!AnswersStayFresh` | `QSpec => []AnswersAreFresh` |
| `…!SearchFindsTheList` | `KSpec => []SearchedIsListed` |
| `…!WalksFindTheSubtree` | `USpec => []SubtreeIsComplete` |
| `…TypeCorrect` of each component | `HSpec => []HTypeOK`, `EvSpec => []EvTypeOK`, …: nineteen theorems, next to the component's others |
| `ComponentsProofs!ComponentsRunAsSpecified` | `MCComponents!Spec` implies the specification of every component |
| `…!ComponentsTypeCorrect` | `MCComponents!Spec => []TypeOK` |

Where a theorem has hypotheses on the faults, section 5 or the run that checks
the property shows what happens without them.

### Reconciliation, sessions, pipeline

*The row.*  `LiveRowBacked` is not inductive: the commit writes what the
call was given.  `Inv1` adds what a running call (`CallInv`) and a running
`save_telemetry` (`InputInv`) were given.  `OnlyFirstContactRegresses` needs
`Inv2`, whose `LockInv` says that a call that has found a row and passed the
stale test holds the lock, and that the row still is what it tested: without the
lock an older commit could come in between.  `AuditInv` adds that the row and
its last audit entry are equal and that versions count entries.  For a known
vehicle `AllSaw` says that every call between the test and the commit has found a
row, so the exception in `OnlyFirstContactRegresses` never applies; the
refinement follows with the mapping `stored <- telemetry`,
`pos <-` the row's timestamp once it has a position.

*Cache and announcements.*  `Announcing` says that the live position was
announced or that the call which committed it is on its way to do so.
A call whose records were all stored before has no
telemetry id: its commit rolls back, and it writes the cache all the same
(section 5).  So the cache stays behind the row only if what such a call carries
is in the row already.  `CaughtUp` says that a stored record newer than the row is
in the hands of a worker that has an id and will commit it (`Underway`); with one
worker, which is what a vehicle has, a call without an id then carries nothing
newer.  A failed attempt or insert, a lock timeout and a crash each leave a stored
record behind that is in no hands until the watchdog picks it up, which is why the
theorem excludes them; so does a motion engine without Redis, which is why Redis
failures are excluded too.  `Committed` and `Snapped` say that what a call or a periodic
task carries was in the row, and `HealsStored` that what the watchdog heals has an
id.  `OnlyRollbackOvertakes` needs none of these exclusions: `InStep` itself is
what the step must keep, a row that exists moves back only by a purge or a first
contact (`RowMovesBack`, from the lock), and a call comes to the write of the
cache only by its own commit (`SetexFirst`).

*SessionRegistry.*  `ServingIsRegistered` needs to know what the registry lock
protects: while a session supersedes another one it holds the lock and nobody
else can be registered (`Locked`); a close() that is over has closed the socket
(`Shut`); what is closed or registered has connected (`Known`), so a session that
just connected is known to nobody and a closed one never serves again.  `Own`
and `Gone` add that a session's task ends with its own close(), whose first step
takes it out of the registry: hence no ghosts.  The same invariant gives
`SecondSocketIsClosing`: of two sockets that are read, one at most is the
registry's, and a session leaves the registry only by a close() that has not come
to its socket.

*Pipeline.*  A packet that is acknowledged is accounted for (`Kept`) because the
connection in use holds exactly the packets that follow the acknowledged ones, in
order (`BufferFollows`): then each step moves one item from one place to the
next.  `Typed` bounds the queues by their capacities, which is part of `TypeOK`.
For the order, a device's packets stand in line (`InLine`): stored, in the
worker's hands, in its partition's queue, with the router, in `db_queue`, each
place behind the one before and each queue sorted, and nothing ahead of the
acknowledgements.  A retry that stores again what was stored is behind nothing,
a dead worker's item is in its hands still.  A second connection of the device
breaks the line, as section 5 says; that of another device does not, which is
`DeviceInOrder`.

### What is derived from packets

*Motion.*  `LockInv` is what the key in Redis stands for while nothing
has failed: who is inside holds it, one task at most does, and the key is set
while it does, so the unconditional release deletes the task's own.
`TransitionIsSustained` rests on that: a task that is about to save has read what
is still there (`ReadIsCurrent`), and behind a pending transition there are
packets of the kind it needs from before it began to pend until now
(`PendingIsEvident`).  `RulesAreEarned` is the decision table's share of the
argument, free of any state: from evident memory, what it decides is earned.

*Event storms.*  Until two reporters pass one gap together, the one that passed
is alone before the cooldown is set (`EvAlone`), so every plain event, stored or
carried, has the time of a cooldown for itself (`EvApart`).

*Trips.*  As long as no packet was late, nothing remembered is later than the
last packet (`EdgesPast`), a trip that a stage has just ended is the last
(`JustEnded`), and trips ended by then (`TripsEnded`); so a stage that is repeated
after an error starts no earlier.

*Driver sessions.*  Only the newest session may be open, and what was read of it
while a packet is in hand is still so (`OnlyLastOpen`); while no packet was late
nothing in the table is newer than the last packet (`Past`), so closing and opening
at its time keeps the sessions apart (`Ordered`).

*Filters.*  A track is `Trusted` if it is what `TrackIsConsistent` says, and
`EndsWith` its last record; `StepKeeps` is one round of the loop from one such
track to the next.  The state keeps them for the queued records with the batch in
hand, whose end is the session's last record or will be once it is acknowledged
(`RLine`).

*Framing.*  A stream `Carries` packets if they stand in it apart, in order, and
with every zero of it in one of them.  What is not framed is `Owed`: the frames
and the packets that buffer and wire carry are together the packets sent.  A round
of the loop keeps that (`Settles`): a preamble that is found begins a packet, as all
zeros are in packets; its field, which `FieldHolds` says has the body's length as
its value, says where it ends; what is skipped or dropped has no packet in it.  A round that goes on
leaves a shorter buffer, so `Len(s) + 1` rounds are enough to end
(`ProcessKeeps`), and what is left without anything on the wire carries no packet.

### What users see

*Streams.*  A client whose send failed never is an open one again, so no clean-up
takes a live client off the list (`WListed`), and an update that a client has not
got is in the broker's inbox, its batch, or the broadcast under way (`WServed`).

*Dashboard.*  What an answer says is what the cache said when it was read
(`BRead`): the entry is the row's unless it has no version or a request that read
the row before its last change wrote it, and a request that is not one of those
(`bLate`) has read the row as it is; a page that applied an answer read after the last change shows the row
(`BApplied`), and the gate lets no message change that: induction over the queue
that one timer works off.

*Fallback.*  The layers are ordered (`XLayered`): nothing is newer than the
telemetry, and nothing in the cache newer than the row but what a call cached whose
row was rolled back.

*Report.*  The sums over telemetry are a recursive function, of which the lemmas
say that stretches which meet add up (`StretchesJoin`), that a stretch has no more
minutes than packets, and that a later packet changes nothing before it.  Every
trip is a stretch that ends at a stored edge, and begins no earlier than the trip
before it ended (`PLine`): the edge that closes it is the last one, and the other
trips' edges are before its start.  So the completed trips together are within the
period up to an edge (`CompletedTold`).  The edges are read after them, hence the
open trip starts at that edge or later (`PReportIs`), and what is counted since
then is beyond what they have (`TheRestFits`).

*Events pages.*  A page begins below all that is shown however far the list has
moved down (`Reaches`), what is shown has no gap (`Gapless`), and there is nothing
after the last page.  The lemmas count the events newer than a given one.

*Notifications.*  What a dispatcher is about to mark has been handed over
(`MarkedIsHanded`), a task leaves the broker only with a retry in its place, with
its row recorded, or as one of those that could not write it (`HandedIsKept`), and unless polls overlapped, the title that a poll is about to
insert is not in the queue (`OneReminder`).

*Mobile clients.*  Numbers are given once (`YNumbers`), a page is the lower end
of what is above the client's number (`PageIsLowest`), and what the client went
past it has, or it falls under one of the exceptions (`YCovered`).

### Administration

*Maintenance.*  What a completion has read counts the services there were at the
time, less those that were overwritten before (`ReadIsDated`); the services since
are what its own commit overwrites, so the target it writes is right again up to
those (`DateMoves`).

*Limits.*  A request that was allowed claims its vehicle or user before it writes
it.  What an administrator has and what is claimed for it (`Claimed`) is below
the highest limit and one for each request, and unless edits crossed, the one
request between the read and the write of an administrator's record holds the
limits last given (`LimitsHeld`).

*Rate limiter.*  Every window is `Whole`, when the count of the last admission
saw all of it, or past, when a transaction has cut into it; then only workers that
read the clock before can enter it (`IsPast`), and they are counted.

*Copilot.*  Rows are worded within a call's time (`QDated`), and of an intent never
worded twice at once the cache has the newest rows shown (`QForward`).

*Knowledge base.*  What a request has left in its worker's memory between two
steps is known from the step it is at (`Fits`); of a re-indexing served alone,
also what is on the disk and in the files (`Heals`).  A request that ends alone, in
a worker whose memory agrees, leaves files that agree (`WholeStep`), so a worker
that starts from them agrees too, whichever worker wrote them last.

*Accounts.*  The set collected has only who is below, and all children of
those off the stack (`UCollected`); once the stack is empty it is closed, and
`Below` is the least closed set (`BelowIsLeast`).  The list has once whoever is
right below one that was visited (`UListing`).

### The components' types, and their composition

The invariants above have the types that their proofs need; a `…TypeOK` says more,
namely the bounds that TLC enumerates within.  For each component the predicate
`…Bounded` next to its type theorem has what that takes, and it is inductive only
together with the component's invariant: a schedule's targets are at most one
interval past the services that are on record (`MBounded`, where the target a
completion writes is bounded by when it read); limits in a half-done edit are
limits that may be given, or the zeros that a failed read leaves (`ABounded`);
what the copilot words, caches and shows is of a time that has been (`QBounded`);
a dispatcher has a row in hand from its selection to the last mark (`NBounded`);
a broadcast with clients left carries an update (`WNumbered`).

`ComponentsRunAsSpecified` is the bridge to TLC's run: each disjunct of a
component's `Next` is what `MCComponents` lets it do when it is the one chosen,
and a stutter otherwise.  So every theorem about a component holds in the
instance that `components` checks, with any values of its constants, and the run's
`TypeOK` follows from the nineteen type theorems.

### Recursion, and what is only model-checked

The loops are recursive functions.  `Counting` shows from the well-foundedness of
the naturals that a set of naturals with 0 and every successor has them all,
hence that a function defined by a first value and a step exists on `0..L`
(`StepsExist`) and that what the step keeps holds of all its values (`StepsKeep`).
With these the filters, the rounds of the framing, the value of a field, the
dashboard's queue and the sums of a report are proved about for inputs of any length.  What
the library's folds and `RECURSIVE` operators compute is out of the provers' reach,
as their induction theorems take an operator as a parameter.

Only model-checked: what needs fairness (`LatestBecomesLive`, `CacheConverges`,
`EvictedEnds`, `GhostPresenceEnds`, `EveryPacketSettles`).  Every invariant and
every action property that a run checks is the statement of a theorem.

## 5. Where the code does something else than it says

Each of these is a run that TLC ends with a counterexample.

- `finding_rollback`: a batch whose records are stored already (re-sent, or a
  retried attempt) has no telemetry id; the audit INSERT violates NOT NULL, the
  exception is swallowed, the COMMIT rolls the row back; the cache and the
  subscribers get the position although "only if position actually reconciled".
- `finding_placeholder`: the registration form creates a row without a telemetry
  id, and every packet that meets such a row is stale: "tracking will start as
  soon as the device connects" does not happen.
- `finding_two_sockets`: the cleanup task's close() takes the session out of the
  registry before it closes the socket; a reconnecting device does not find it
  and both sockets are read.

The models show more behaviour that a reader of the documents would not expect.
It is in their actions or in the exceptions their properties grant, by file:

*Ingestion.*

- `core/reconciliation.py:174`: on first contact there is no row to lock; two
  reconciliations pass the stale test and the older may be the last to write
  (the exception in `OnlyFirstContactRegresses`).
- `core/reconciliation.py:250` writes the cache after the commit and outside the
  lock, so until the next rebuild the cache may show the older of two positions.
- `ingestion/main.py:312`: a row healed by the watchdog shows ignition off, as IO
  elements read back from JSON have strings for keys.
- `ingestion/db/handler.py:537`: the sweep marks vehicles offline that reported
  after it selected them.
- `ingestion/db/handler.py:476`: when the cache entry was lost, offline marking
  writes one without a version, which the dashboard's gate does not order.
- `ingestion/registry.py:90`: the late removal of an old session's presence
  deletes what the new session has just set, until its next heartbeat.
- `ingestion/connection.py:250`: the disconnect item of a replaced session marks
  the device offline while the new session serves it, until its next packet.
- `ingestion/connection.py:172`: an acknowledged packet is in memory only; a
  crash loses it.
- `ingestion/db/handler.py:162`: packets of a vehicle that is not registered are
  acknowledged, queued and rejected; at 199 the error of a record's INSERT is logged
  and the record is gone, with no retry and no dead letter (`ZeroPacketLoss`).
- `ingestion/main.py:295`: the watchdog repairs active vehicles only, although
  telemetry of a draft is accepted and shown (`LatestBecomesLive`).
- `ingestion/connection.py:179`: when a device reconnects while a put of its old
  connection waits for room, its next packet may be stored first;
  `StrictSequencing` is checked for devices that do not reconnect.
- `ingestion/hysteresis.py:34`: after five seconds the section runs without the
  lock, and its release deletes the key whoever holds it (`hFaults`).
- `ingestion/db/handler.py:495`: an evaluation that read before an offline reset
  takes the reset back (`hTorn`).
- `ingestion/db/handler.py:96` says that a persistent WARNING is suppressed, but
  from the third event on each one passes as CRITICAL; and an event of severity
  INFO starts a cooldown that hides a CRITICAL one of the same category.
- `ingestion/analytics/engine.py:71`: the duration of an idling that a failed
  packet ended is lost, and so is a trip whose edge was repeated.
- `ingestion/db/handler.py:406`: a driver's session is closed by the next driver
  only; nobody logs out.  Tags are looked up across tenants, and
  `services/driver_service.py:109` changes a driver's tag without the row of the
  tag.

*Streams and pages.*

- `api/main.py:615` speaks of "Event deduplication"; every update is broadcast
  twice, by the streamer and by the broker, and the streamer's suppression drops
  the newer of two.  A client that says nothing for 60 seconds is closed.
- `api/main.py:405`: a bulk request that missed the cache writes the row it read to
  it, over whatever was cached since; until the next position or the next rebuild,
  every dashboard is answered from that (`bOverwritten`).
- `static/js/dashboard.js:66`: each message restarts the 50 ms timer, so a steady
  stream of messages is shown only when it pauses; a
  `position_update` carries no status; a whole entry of the version shown
  replaces what is newer in the page, however late it comes.
- `templates/events_center.html:184`: a form changed between two pages mixes the
  results; a live event is put on top whatever the date filter says;
  "acknowledge all visible" acknowledges everything (`routes/api.py:484`).
- `services/external_api_service.py`: rows and telemetry stand in for Redis as
  "guaranteed identical output", but have no freshness check of their own; behind an
  entry whose row was rolled back, the row answers with the older position
  (`xUnbacked`).
- `services/native_report_service.py:201`: a vehicle that drives without an open
  trip is guessed to have driven since the first row with the ignition on, and
  completed trips are counted again.

*Notifications and mobile clients.*

- `tasks/dispatch_notifications.py:15`: no writer fills `event_type`, so all rows
  go to the maintenance task; no beat schedule in `celery_app.py` names the
  dispatcher; an error leaves its transaction aborted for the rest of the run.
- `tasks/notifications.py:25`: `self.retry` raises inside the handler, so every
  failing attempt leaves a row of history besides its retry; if that row cannot be
  written (`models/notifications.py:85` prints the error, line 64 raises) and no
  retry is left, nothing remains of the notification (`nUnwritten`).
- `routes/notifications.py:47`: nothing archives the queue, so a title is never
  raised a second time; two polls at once raise it twice.
- `api/mobile/sync_changes.py:14`: a change that commits after a higher number
  was seen is never fetched.  `models/notifications.py` writes devices and
  `sync_state` with ON CONFLICT on columns without a unique key, which fails
  every time; `mark_sent` and `mark_acknowledged` are called by nobody.
- `api/mobile/notifications.py` is a patch that was committed as a file: it does
  not parse, and with it `api/main.py` does not import.

*Accounts and upkeep.*

- `services/limit_validator.py:49`: requests at the same time exceed a limit by
  their number; a failed read counts as zero.
- `routes/vehicles.py:96`: a declined vehicle that is submitted again is deleted
  before the limit is checked.  An edit of a vehicle writes back the whole record
  it read, its status included.
- `models/database.py:180`: two edits of a user bring old limits back; an edit
  whose read failed writes nulls, and a user without a name makes `load_users`
  return nobody.
- `services/maintenance_service.py:237`: a recurring schedule without an interval
  of days loses its date; the target in engine hours never advances, so once it is passed the schedule is
  overdue for ever (`ServiceMovesThePlan`); a schedule
  that does not recur is completed as often as asked.
- `services/site_ops_service.py:331`: a ticket takes any status from any other;
  visits stay "scheduled".
- `middleware/rate_limiter.py:67`: with a limit of 100 the 101st request passes.
- `core/commands.py`: a command's row is committed before a publish that may
  fail, and its status is never advanced.

*Copilot.*

- `ai_module/services/rag_service.py:33`: workers overwrite each other's files
  until one re-indexes, and one that starts from two files of different workers
  lists what it does not find (`kTorn`); a document uploaded to one is unknown to another; the
  message of a failed extraction is indexed as the document's text; texts of 40
  characters or less are listed and never found.
- `services/copilot_service.py:475`: an answer is dated by its wording and shared
  by all users; a failed query is answered, and cached, as "no data".

## 6. Not modelled

- Values that no property looks at: coordinates, fuel, names, the text of alerts,
  prompts and logs, metrics.
- Site operations and tickets: status columns set to whatever the request says,
  related to nothing.
- Device commands: one insert and one publish to whoever listens.
- User authentication, tokens and sessions of the web pages: local to a request
  and resting on libraries; deliberately out of scope.
- Requests that only read one query: diagnostics, most reports, exports, trip
  history.
- Several ingestion processes: the deployment runs one.
- `ingestion/server.py`, a predecessor that the deployment does not start, and
  the scripts under `scripts/` and `scratch/`.
- In `Reconciliation`, two vehicles: rows, locks, cache keys and audit entries
  are per vehicle, and the partition keeps their packets apart.
- In `SessionRegistry`, two devices: the registry lock is shared by all, which is
  in the model as the lock being held by sessions of the one device; queue space
  taken by others is in the model as a queue that may be full at any time.
- In `EventsCenter` and `DeltaSync`, rows of equal `created_at`: the order of
  arrival is the order of the list.

## 7. Plan

Done: the reconciliation of the live row with its refinement, the session
registry, the pipeline, the nineteen components and their composition; a theorem
for every invariant and action property that a run checks.

Left, in this order:

1. Liveness stays with TLC, and with it the bounds of the live runs.  A proof of
   `LatestBecomesLive` would rest on the well-founded order of the stored records
   above the row.
2. `CaughtUp` for several workers: a vehicle has one, by its partition, so this
   matters only if the partitions' number ever changes while the process runs.

A change of the code that the models should follow first: a lock that also covers
a vehicle without a row (an advisory lock on the IMEI, say) would remove the
exception of `OnlyFirstContactRegresses`, and with it `NoRegress` would hold for
every vehicle; and a call that stops where its audit INSERT failed would remove
the last reason in `OnlyRollbackOvertakes`.
