--------------------------- MODULE Reconciliation ---------------------------
(***************************************************************************)
(* The authoritative live position of one vehicle: how the telemetry       *)
(* workers, the reconciliation watchdog, the offline sweeper, the cache    *)
(* rebuilders and the API's cache healer of the IVMS read and write the    *)
(* row of live_vehicle_status (PostgreSQL) and the key live:<imei>         *)
(* (Redis).  All of that state is keyed by the IMEI, so one vehicle is     *)
(* modelled; timestamps are the integers 1..MaxTs and a telemetry record   *)
(* is named by its timestamp, since (imei, timestamp) is unique.           *)
(*                                                                         *)
(* A step is what happens between two awaits: one SQL statement or one     *)
(* Redis command.  What a transaction wrote is private until it commits.   *)
(***************************************************************************)
EXTENDS Integers, Sequences, FiniteSets

CONSTANTS
    MaxTs,        \* timestamps are 1..MaxTs
    MaxEvents,    \* bound on batches, disconnects, crashes, flushes, purges
    IgnitionOn,   \* the records whose IO element 239 says "ignition on"
    Workers,      \* db_worker tasks that process this vehicle's items
    Watchdogs,    \* reconciliation_watchdog tasks
    Sweepers,     \* offline_reconciliation_worker tasks
    Rebuilders,   \* cache_rebuilder tasks and DBHandler.connect() calls
    Healers,      \* API requests that heal a missing cache entry
    Faults,       \* what may go wrong in a run, a subset of FaultKinds
    Starts        \* how the vehicle may be known at the start

FaultKinds == {"insert", "attempt", "timeout", "redis", "flush", "crash", "purge"}
StartKinds == {"unregistered", "imported", "known"}

Ts == 1..MaxTs
NullId == 0                     \* SQL NULL for a telemetry id
MaxRetries == 3
Reconcilers == Workers \cup Watchdogs
Markers     == Workers \cup Sweepers
Ingestion   == Workers \cup Watchdogs \cup Sweepers \cup Rebuilders
Proc        == Ingestion \cup Healers

ASSUME ReconciliationAssumption ==
    /\ MaxTs \in Nat /\ MaxEvents \in Nat
    /\ IgnitionOn \subseteq Ts
    /\ Faults \subseteq FaultKinds
    /\ Starts \subseteq StartKinds
    /\ Workers \cap Watchdogs = {}
    /\ (Workers \cup Watchdogs) \cap (Sweepers \cup Rebuilders \cup Healers) = {}
    /\ Sweepers \cap (Rebuilders \cup Healers) = {}
    /\ Rebuilders \cap Healers = {}

VARIABLES
    registered,   \* "no", "draft" (a vehicles row that is not active), "vehicle"
                  \* (an active one, and nothing else), "yes" (status row tried)
    telemetry,    \* timestamps stored in the telemetry table
    row,          \* the live_vehicle_status row (committed)
    audit,        \* live_position_updates (committed), oldest first
    redis,        \* the cache entry live:<imei>
    published,    \* timestamps announced by a position_update message
    lock,         \* who holds the lock on the row (or on its key): at most one
    pc,           \* what each task does next
    input,        \* save_telemetry: a worker's records, those left, the attempt
    call,         \* reconcile_position: a task's arguments and locals
    snap,         \* a cache entry read and not yet written back
    events        \* environment events so far, at most MaxEvents

db    == <<registered, telemetry, row, audit, lock>>
cache == <<redis, published>>
vars  == <<db, cache, pc, input, call, snap, events>>

-----------------------------------------------------------------------------
(* What the row shows: ignition on (whatever motion status goes with it),     *)
(* ignition off, or marked offline.                                           *)
States == {"on", "off", "offline"}
NoRow  == [exists |-> FALSE, ts |-> 0, id |-> NullId, ver |-> 0,
           state |-> "offline", fresh |-> FALSE]
Miss   == [ts |-> 0, state |-> "miss"]

Row   == [exists : BOOLEAN, ts : 0..MaxTs, id : 0..MaxTs, ver : Nat,
          state : States, fresh : BOOLEAN]
Entry == [ts : 0..MaxTs, state : States \cup {"unknown", "miss"}]
Audit == [id : Ts, ts : Ts, ws : BOOLEAN, redis : BOOLEAN]
(* saw: did the SELECT ... FOR UPDATE find a row; ws, redis: what the call    *)
(* reports as websocket_notified and redis_updated.                           *)
Call  == [ts : 0..MaxTs, id : 0..MaxTs, state : States,
          saw : BOOLEAN, ws : BOOLEAN, redis : BOOLEAN]
Input == [batch : SUBSET Ts, todo : SUBSET Ts, id : 0..MaxTs, attempt : 0..MaxRetries]
CallFor(t, id, s) == [ts |-> t, id |-> id, state |-> s,
                      saw |-> FALSE, ws |-> FALSE, redis |-> FALSE]
NoCall  == CallFor(0, NullId, "off")
NoInput == [batch |-> {}, todo |-> {}, id |-> NullId, attempt |-> 0]

Label == {"idle", "insert", "lock", "upsert", "commit", "setex", "publish", "log",
          "mark", "offread", "offwrite", "read", "startup", "put"}

IsNewest(t, S) == t \in S /\ \A u \in S : u <= t

(* Bug: the row is taken as stale only when it is a placeholder.              *)
IsStaleNoOrderBug(r, ts) == r.exists /\ r.id = NullId

(* The staleness test, on the row the SELECT ... FOR UPDATE returned: a row   *)
(* with no telemetry id is never overwritten, and an equal timestamp is stale.*)
IsStale(r, ts) == r.exists /\ (r.id = NullId \/ ts <= r.ts)

(* The image the INSERT ... ON CONFLICT DO UPDATE leaves in the row.          *)
Upserted(r, c) ==
    [exists |-> TRUE, ts |-> c.ts, id |-> c.id,
     ver |-> IF r.exists THEN r.ver + 1 ELSE 1,
     state |-> c.state, fresh |-> TRUE]

(* Bug: a state the rest of the system does not know.                         *)
OfflinedBug(r) == IF r.exists THEN [r EXCEPT !.state = "stopped"] ELSE r

(* The UPDATE that marks the row offline; it touches no timestamp and no id.  *)
Offlined(r) == IF r.exists THEN [r EXCEPT !.state = "offline", !.fresh = TRUE] ELSE r

Goto(p, l) == pc' = [pc EXCEPT ![p] = l]
At(p, l)   == pc[p] = l
Return(p)  == Goto(p, "idle") /\ call' = [call EXCEPT ![p] = NoCall]
Event      == events < MaxEvents /\ events' = events + 1

KnownRow == [exists |-> TRUE, ts |-> 1, id |-> 1, ver |-> 1, state |-> "off", fresh |-> TRUE]

(* "known" is a vehicle whose first record was reconciled before; "imported"  *)
(* has its vehicles row and nothing else; "unregistered" has nothing.         *)
Init ==
    /\ \E s \in Starts :
        /\ s = "known" => MaxTs >= 1
        /\ registered = IF s = "unregistered" THEN "no" ELSE "yes"
        /\ telemetry  = IF s = "known" THEN {1} ELSE {}
        /\ row        = IF s = "known" THEN KnownRow ELSE NoRow
        /\ audit      = IF s = "known"
                        THEN <<[id |-> 1, ts |-> 1, ws |-> TRUE, redis |-> TRUE]>>
                        ELSE <<>>
        /\ redis      = IF s = "known" THEN [ts |-> 1, state |-> "off"] ELSE Miss
        /\ published  = IF s = "known" THEN {1} ELSE {}
    /\ lock = {}
    /\ pc = [p \in Proc |-> "idle"]
    /\ input = [w \in Workers |-> NoInput]
    /\ call  = [p \in Reconcilers |-> NoCall]
    /\ snap  = [p \in Proc |-> Miss]
    /\ events = 0

-----------------------------------------------------------------------------
(* Registration from the web UI: the vehicles row, active when a main admin   *)
(* enters it and a draft when a company does, until it is approved; then in a *)
(* transaction of its own a status row with a timestamp and no telemetry id.  *)
RegisterVehicle ==
    /\ \/ registered = "no" /\ registered' \in {"draft", "vehicle"}
       \/ registered = "draft" /\ registered' = "vehicle"
    /\ UNCHANGED <<telemetry, row, audit, lock, cache, pc, input, call, snap, events>>

InitStatusRow(now) ==
    /\ registered = "vehicle"
    /\ row.exists \/ lock = {}
    /\ registered' = "yes"
    /\ row' = IF row.exists THEN row
              ELSE [exists |-> TRUE, ts |-> now, id |-> NullId, ver |-> 1,
                    state |-> "offline", fresh |-> TRUE]
    /\ UNCHANGED <<telemetry, audit, lock, cache, pc, input, call, snap, events>>

(* Time passes: updated_at falls behind the offline timeout.                  *)
RowAges ==
    /\ row.exists /\ row.fresh /\ Sweepers # {}
    /\ row' = [row EXCEPT !.fresh = FALSE]
    /\ UNCHANGED <<registered, telemetry, audit, lock, cache, pc, input, call, snap, events>>

-----------------------------------------------------------------------------
(* save_telemetry: a batch for an unregistered vehicle is rejected; otherwise,*)
(* and for a draft too, the records are inserted oldest first, each in a      *)
(* statement of its own.                                                      *)
Receive(w, B) ==
    /\ At(w, "idle") /\ Event
    /\ IF registered = "no"
       THEN UNCHANGED <<pc, input>>
       ELSE /\ Goto(w, "insert")
            /\ input' = [input EXCEPT ![w] = [batch |-> B, todo |-> B, id |-> NullId, attempt |-> 1]]
    /\ UNCHANGED <<db, cache, call, snap>>

(* One record tried, id being the latest id so far; and a new attempt.        *)
Tried(i, t, id) == [i EXCEPT !.todo = @ \ {t}, !.id = id]
Retried(i)      == [i EXCEPT !.attempt = @ + 1, !.todo = i.batch, !.id = NullId]

(* A stored record's id is remembered as the latest one; a conflict returns   *)
(* no row and leaves it; an error on one record is logged and skipped.        *)
InsertRecord(w) ==
    /\ At(w, "insert")
    /\ \E t \in input[w].todo :
        /\ \A u \in input[w].todo : t <= u
        /\ \/ /\ t \notin telemetry
              /\ telemetry' = telemetry \cup {t}
              /\ input' = [input EXCEPT ![w] = Tried(@, t, t)]
           \/ /\ t \in telemetry \/ "insert" \in Faults
              /\ input' = [input EXCEPT ![w] = Tried(@, t, @.id)]
              /\ UNCHANGED telemetry
    /\ UNCHANGED <<registered, row, audit, lock, cache, pc, call, snap, events>>

(* An exception before the reconciliation (pool, devices upsert, RFID or      *)
(* driver lookup) makes db_worker call save_telemetry again with the same     *)
(* records; after MaxRetries the item goes to the dead-letter file.           *)
AttemptFails(w) ==
    /\ "attempt" \in Faults
    /\ At(w, "insert")
    /\ IF input[w].attempt < MaxRetries
       THEN /\ input' = [input EXCEPT ![w] = Retried(@)]
            /\ UNCHANGED pc
       ELSE Goto(w, "idle") /\ input' = [input EXCEPT ![w] = NoInput]
    /\ UNCHANGED <<db, cache, call, snap, events>>

(* The state shown for a record decoded from the device's own packet.         *)
DecodedState(t) == IF t \in IgnitionOn THEN "on" ELSE "off"

(* The newest record of the batch is handed to reconcile_position with the    *)
(* id of the last record that was really inserted, NULL when none was; an     *)
(* error of the motion engine, whose state is in Redis, skips the call.       *)
StartReconcile(w) ==
    /\ At(w, "insert") /\ input[w].todo = {}
    /\ \/ /\ \E t \in input[w].batch :
              /\ IsNewest(t, input[w].batch)
              /\ call' = [call EXCEPT ![w] = CallFor(t, input[w].id, DecodedState(t))]
          /\ Goto(w, "lock")
       \/ "redis" \in Faults /\ Return(w)
    /\ input' = [input EXCEPT ![w] = NoInput]
    /\ UNCHANGED <<db, cache, snap, events>>

(* The watchdog compares the newest stored record with the row, of active     *)
(* vehicles only.  It reads the IO elements back from JSON, whose keys are    *)
(* strings, and looks them up with integers: it never finds element 239, so   *)
(* ignition is always off.                                                    *)
HealedState(t) == "off"
Active == registered \in {"vehicle", "yes"}

(* Bug: only vehicles without a row are healed.                               *)
WatchdogScanBug(g) ==
    /\ At(g, "idle") /\ Active
    /\ \E t \in telemetry :
        /\ IsNewest(t, telemetry) /\ ~row.exists
        /\ call' = [call EXCEPT ![g] = CallFor(t, t, "off")]
    /\ Goto(g, "lock")
    /\ UNCHANGED <<db, cache, input, snap, events>>

WatchdogScan(g) ==
    /\ At(g, "idle") /\ Active
    /\ \E t \in telemetry :
        /\ IsNewest(t, telemetry)
        /\ ~row.exists \/ t > row.ts
        /\ call' = [call EXCEPT ![g] = CallFor(t, t, HealedState(t))]
    /\ Goto(g, "lock")
    /\ UNCHANGED <<db, cache, input, snap, events>>

-----------------------------------------------------------------------------
(* Bug: a plain SELECT, without FOR UPDATE.                                   *)
LockRowBug(p) ==
    /\ At(p, "lock")
    /\ IF IsStale(row, call[p].ts)
       THEN Return(p)
       ELSE /\ Goto(p, "upsert")
            /\ call' = [call EXCEPT ![p].saw = row.exists]
    /\ UNCHANGED <<db, cache, input, snap, events>>

(* reconcile_position.  SELECT ... FOR UPDATE locks the row it finds; when    *)
(* there is none (or only an uncommitted one) it locks nothing and returns at *)
(* once.  A stale packet ends the transaction here.                           *)
LockRow(p) ==
    /\ At(p, "lock")
    /\ ~row.exists \/ lock = {}
    /\ IF IsStale(row, call[p].ts)
       THEN Return(p) /\ UNCHANGED lock
       ELSE /\ Goto(p, "upsert")
            /\ call' = [call EXCEPT ![p].saw = row.exists]
            /\ lock' = IF row.exists THEN {p} ELSE lock
    /\ UNCHANGED <<registered, telemetry, row, audit, cache, input, snap, events>>

(* lock_timeout: the call gives up, live state is skipped for this packet.    *)
LockTimeout(p) ==
    /\ "timeout" \in Faults
    /\ \/ At(p, "lock") /\ row.exists /\ lock # {}
       \/ At(p, "upsert") /\ lock \notin {{}, {p}}
    /\ Return(p)
    /\ UNCHANGED <<db, cache, input, snap, events>>

(* Bug: the cache is written inside the transaction.                          *)
UpsertBug(p) ==
    /\ At(p, "upsert")
    /\ lock \in {{}, {p}}
    /\ lock' = {p}
    /\ redis' = [ts |-> call[p].ts, state |-> call[p].state]
    /\ Goto(p, "commit")
    /\ UNCHANGED <<registered, telemetry, row, audit, published, input, call, snap, events>>

(* The upsert waits for whoever holds the row or its key.                     *)
Upsert(p) ==
    /\ At(p, "upsert")
    /\ lock \in {{}, {p}}
    /\ lock' = {p}
    /\ Goto(p, "commit")
    /\ UNCHANGED <<registered, telemetry, row, audit, cache, input, call, snap, events>>

(* Bug: the first position of a vehicle is not audited.                       *)
CommitBug(p) ==
    /\ At(p, "commit")
    /\ row' = Upserted(row, call[p])
    /\ audit' = IF call[p].saw
                THEN Append(audit, [id |-> call[p].id, ts |-> call[p].ts,
                                    ws |-> FALSE, redis |-> FALSE])
                ELSE audit
    /\ lock' = {}
    /\ Goto(p, "setex")
    /\ UNCHANGED <<registered, telemetry, cache, input, call, snap, events>>

(* Audit row and commit.  new_telemetry_id is NOT NULL: without an id the     *)
(* audit INSERT fails, its exception is swallowed, and the COMMIT of the      *)
(* aborted transaction rolls the upsert back; the call goes on either way.    *)
Commit(p) ==
    /\ At(p, "commit")
    /\ IF call[p].id = NullId
       THEN UNCHANGED <<row, audit>>
       ELSE /\ row' = Upserted(row, call[p])
            /\ audit' = Append(audit, [id |-> call[p].id, ts |-> call[p].ts,
                                       ws |-> FALSE, redis |-> FALSE])
    /\ lock' = {}
    /\ Goto(p, "setex")
    /\ UNCHANGED <<registered, telemetry, cache, input, call, snap, events>>

(* Bug: what the cache shows already is not announced again.                  *)
SetCacheBug(p) ==
    /\ At(p, "setex")
    /\ redis' = [ts |-> call[p].ts, state |-> call[p].state]
    /\ call' = [call EXCEPT ![p].redis = TRUE]
    /\ Goto(p, IF redis.ts = call[p].ts THEN "log" ELSE "publish")
    /\ UNCHANGED <<db, published, input, snap, events>>

(* After the commit and outside the lock: cache, announcement, audit flags.   *)
SetCache(p) ==
    /\ At(p, "setex")
    /\ \/ /\ redis' = [ts |-> call[p].ts, state |-> call[p].state]
          /\ call' = [call EXCEPT ![p].redis = TRUE]
       \/ "redis" \in Faults /\ UNCHANGED <<redis, call>>
    /\ Goto(p, "publish")
    /\ UNCHANGED <<db, published, input, snap, events>>

Publish(p) ==
    /\ At(p, "publish")
    /\ \/ /\ published' = published \cup {call[p].ts}
          /\ call' = [call EXCEPT ![p].ws = TRUE]
       \/ "redis" \in Faults /\ UNCHANGED <<published, call>>
    /\ Goto(p, "log")
    /\ UNCHANGED <<db, redis, input, snap, events>>

Flagged(entry, c) ==
    IF entry.id = c.id THEN [entry EXCEPT !.ws = c.ws, !.redis = c.redis] ELSE entry

LogCompletion(p) ==
    /\ At(p, "log")
    /\ audit' = IF call[p].ws \/ call[p].redis
                THEN [i \in DOMAIN audit |-> Flagged(audit[i], call[p])]
                ELSE audit
    /\ Return(p)
    /\ UNCHANGED <<registered, telemetry, row, lock, cache, input, snap, events>>

-----------------------------------------------------------------------------
(* Marking offline, by the worker on a disconnect item or by the sweeper on a *)
(* row it selected earlier: UPDATE the row, then read, change and write back  *)
(* the cache entry, unless Redis fails.                                       *)
Disconnect(w) ==
    /\ At(w, "idle") /\ Event
    /\ Goto(w, "mark")
    /\ snap' = [snap EXCEPT ![w] = Miss]
    /\ UNCHANGED <<db, cache, input, call>>

SweepScan(s) ==
    /\ At(s, "idle")
    /\ row.exists /\ row.state # "offline" /\ ~row.fresh
    /\ snap' = [snap EXCEPT ![s] = [ts |-> row.ts, state |-> "offline"]]
    /\ Goto(s, "mark")
    /\ UNCHANGED <<db, cache, input, call, events>>

MarkRow(p) ==
    /\ At(p, "mark")
    /\ row.exists => lock = {}
    /\ row' = Offlined(row)
    /\ Goto(p, "offread")
    /\ UNCHANGED <<registered, telemetry, audit, lock, cache, input, call, snap, events>>

ReadCache(p) ==
    /\ At(p, "offread")
    /\ \/ /\ snap' = [snap EXCEPT ![p] = [ts |-> IF redis = Miss THEN @.ts ELSE redis.ts,
                                           state |-> "offline"]]
          /\ Goto(p, "offwrite")
       \/ "redis" \in Faults /\ snap' = [snap EXCEPT ![p] = Miss] /\ Goto(p, "idle")
    /\ UNCHANGED <<db, cache, input, call, events>>

(* Bug: a rebuild fills only a missing entry.                                 *)
ReadRowBug(p) ==
    /\ \/ p \in Rebuilders /\ At(p, "idle")
       \/ At(p, "read") \/ At(p, "startup")
    /\ IF row.exists /\ redis = Miss
       THEN snap' = [snap EXCEPT ![p] = [ts |-> row.ts, state |-> row.state]] /\ Goto(p, "put")
       ELSE Goto(p, "idle") /\ UNCHANGED snap
    /\ UNCHANGED <<db, cache, input, call, events>>

(* Cache rebuilds and the API's heal: read the row, later write the entry.    *)
(* The rebuild that runs when a handler connects writes no status fields.     *)
HealMiss(h) ==
    /\ At(h, "idle") /\ redis = Miss /\ Event
    /\ Goto(h, "read")
    /\ UNCHANGED <<db, cache, input, call, snap>>

ReadRow(p) ==
    /\ \/ p \in Rebuilders /\ At(p, "idle")
       \/ At(p, "read") \/ At(p, "startup")
    /\ IF row.exists
       THEN /\ snap' = [snap EXCEPT ![p] =
                    [ts |-> row.ts, state |-> IF At(p, "startup") THEN "unknown" ELSE row.state]]
            /\ Goto(p, "put")
       ELSE Goto(p, "idle") /\ UNCHANGED snap
    /\ UNCHANGED <<db, cache, input, call, events>>

WriteBack(p) ==
    /\ At(p, "put") \/ At(p, "offwrite")
    /\ redis' = snap[p] \/ ("redis" \in Faults /\ UNCHANGED redis)
    /\ snap' = [snap EXCEPT ![p] = Miss]
    /\ Goto(p, "idle")
    /\ UNCHANGED <<db, published, input, call, events>>

-----------------------------------------------------------------------------
(* Failures.  A crash of the ingestion process rolls open transactions back   *)
(* and forgets every task; on restart the handlers rebuild the cache.         *)
Crash ==
    /\ "crash" \in Faults /\ Event
    /\ pc' = [p \in Proc |-> IF p \in Rebuilders THEN "startup"
                             ELSE IF p \in Ingestion THEN "idle" ELSE pc[p]]
    /\ lock' = {}
    /\ input' = [w \in Workers |-> NoInput]
    /\ call' = [p \in Reconcilers |-> NoCall]
    /\ snap' = [p \in Proc |-> IF p \in Ingestion THEN Miss ELSE snap[p]]
    /\ UNCHANGED <<registered, telemetry, row, audit, cache>>

(* Redis loses the entry: restart, eviction or the seven-day expiry.          *)
Flush ==
    /\ "flush" \in Faults /\ Event
    /\ redis' = Miss
    /\ UNCHANGED <<db, published, pc, input, call, snap>>

(* cleanup_stale_metadata deletes rows by last_update, a column that only the *)
(* offline UPDATEs set.                                                       *)
PurgeRow ==
    /\ "purge" \in Faults /\ Event
    /\ row.exists /\ lock = {}
    /\ row' = NoRow
    /\ UNCHANGED <<registered, telemetry, audit, lock, cache, pc, input, call, snap>>

-----------------------------------------------------------------------------
ReconcileStep(p) == LockRow(p) \/ Upsert(p) \/ Commit(p) \/ SetCache(p)
                    \/ Publish(p) \/ LogCompletion(p)
MarkStep(p)      == MarkRow(p) \/ ReadCache(p)

Next ==
    \/ RegisterVehicle
    \/ \E now \in Ts : InitStatusRow(now)
    \/ RowAges
    \/ \E w \in Workers : \/ \E B \in (SUBSET Ts) \ {{}} : Receive(w, B)
                          \/ InsertRecord(w) \/ AttemptFails(w)
                          \/ StartReconcile(w) \/ Disconnect(w)
    \/ \E g \in Watchdogs : WatchdogScan(g)
    \/ \E p \in Reconcilers : ReconcileStep(p) \/ LockTimeout(p)
    \/ \E s \in Sweepers : SweepScan(s)
    \/ \E p \in Markers : MarkStep(p)
    \/ \E h \in Healers : HealMiss(h)
    \/ \E p \in Rebuilders \cup Healers : ReadRow(p)
    \/ \E p \in Proc : WriteBack(p)
    \/ Crash \/ Flush \/ PurgeRow

Spec == Init /\ [][Next]_vars

(* The tasks of one event loop are all scheduled, PostgreSQL grants a lock    *)
(* that stays free, the periodic tasks wake up again and again, and Redis     *)
(* does not refuse every write of a rebuild for ever.  Nothing else is        *)
(* assumed of the environment: packets, disconnects, failures, the web UI.    *)
Fairness ==
    /\ \A w \in Workers : WF_vars(InsertRecord(w)) /\ WF_vars(StartReconcile(w))
    /\ \A g \in Watchdogs : WF_vars(WatchdogScan(g))
    /\ \A p \in Reconcilers : WF_vars(ReconcileStep(p))
    /\ \A p \in Markers : WF_vars(MarkStep(p))
    /\ \A p \in Rebuilders \cup Healers : WF_vars(ReadRow(p))
    /\ \A p \in Proc : WF_vars(WriteBack(p))
    /\ \A p \in Rebuilders : SF_vars(WriteBack(p) /\ redis' = snap[p])

FairSpec == Spec /\ Fairness

-----------------------------------------------------------------------------
TypeOK ==
    /\ registered \in {"no", "draft", "vehicle", "yes"}
    /\ telemetry \subseteq Ts /\ published \subseteq Ts
    /\ row \in Row
    /\ audit \in Seq(Audit)
    /\ redis \in Entry
    /\ lock \subseteq Reconcilers
    /\ pc \in [Proc -> Label]
    /\ input \in [Workers -> Input]
    /\ call \in [Reconcilers -> Call]
    /\ snap \in [Proc -> Entry]
    /\ events \in Nat

Quiet   == \A p \in Proc : At(p, "idle")
HasPosition == row.exists /\ row.id # NullId

(* The live position is always one that was stored: the row's telemetry id    *)
(* names a record of the telemetry table, and one that is no newer than the   *)
(* timestamp shown (the batch's own newest record may have been inserted by   *)
(* an earlier attempt, and then the id is an older record's).                 *)
LiveRowBacked == HasPosition => row.id \in telemetry /\ row.id <= row.ts

(* A live position was stored and is audited.  The audit trail and the row    *)
(* change in one transaction: the last audit entry is the row's position, and *)
(* the row's version counts the entries, and the placeholder row of the       *)
(* registration (unless a purge restarted it).                                *)
LiveMatchesAudit ==
    HasPosition =>
        /\ LiveRowBacked
        /\ audit # <<>>
        /\ audit[Len(audit)].id = row.id /\ audit[Len(audit)].ts = row.ts
        /\ "purge" \notin Faults => row.ver - Len(audit) \in {0, 1}

(* "Stale packets never corrupt runtime state", as far as the row lock makes  *)
(* it so: a step that moves an existing row back in time, or that gives a row *)
(* without a telemetry id one (the poisoned-timestamp guard), is the commit   *)
(* of a reconciliation that had found no row to lock.                         *)
GivesPlaceholderId == row.id = NullId /\ row'.id # NullId

OnlyFirstContactRegresses ==
    [][ row.exists /\ row'.exists /\ (row'.ts < row.ts \/ GivesPlaceholderId)
            => \E p \in Reconcilers : At(p, "commit") /\ ~call[p].saw ]_vars

(* For a vehicle that has a row, nothing ever moves it back.                  *)
NoRegress == [][row.exists /\ row'.exists => row'.ts >= row.ts]_vars

(* The cache never runs ahead of the database: it shows no position that is   *)
(* newer than the committed row.                                              *)
CacheNeverAhead == redis.ts <= row.ts

(* The cache, the entries read to be written back, and what a call that       *)
(* committed is about to write are all behind the row, or level with it.      *)
InStep ==
    /\ redis.ts <= row.ts
    /\ \A p \in Proc : snap[p].ts <= row.ts
    /\ \A p \in Reconcilers : At(p, "setex") /\ call[p].id # NullId => call[p].ts <= row.ts

(* Why the cache can run ahead of the database at all, whatever fails: the    *)
(* row was purged, a commit that had found no row to lock moved it back, or a *)
(* call whose commit was rolled back went on to write the cache.              *)
OnlyRollbackOvertakes ==
    [][ InStep /\ ~InStep' =>
            \/ ~row'.exists
            \/ \E p \in Reconcilers : At(p, "commit") /\ ~call[p].saw
            \/ \E p \in Reconcilers : At(p, "setex") /\ call[p].id = NullId ]_vars

(* Every position that became live was announced, once the tasks are quiet.   *)
LiveIsAnnounced == Quiet /\ HasPosition => row.ts \in published

(* "Latest valid packet always updates live state": in the end the row is on  *)
(* the newest stored record, if the vehicle is active; nothing heals the live *)
(* state of a draft, whose telemetry is stored all the same.                  *)
LatestBecomesLive ==
    <>[](\A t \in telemetry : Active => row.exists /\ row.id # NullId /\ t <= row.ts)

(* verify_redis_consistency: an entry, and no other time than the row's; a    *)
(* row or an entry that has no time is not compared.                          *)
VerifyRedisConsistency ==
    IF ~row.exists THEN redis = Miss
    ELSE redis # Miss /\ (row.ts # 0 /\ redis.ts # 0 => redis.ts = row.ts)

(* The cache rebuild repairs what the races leave behind: in the end the      *)
(* code's own check finds no divergence, and the cache shows the row's state. *)
CacheConverges ==
    <>[](row.exists => VerifyRedisConsistency /\ redis.state = row.state)

(* The detailed protocol implements the abstract register.                    *)
LP == INSTANCE LivePosition WITH
        stored <- telemetry,
        pos <- IF HasPosition THEN row.ts ELSE 0
NewestWins == LP!Spec
=============================================================================
