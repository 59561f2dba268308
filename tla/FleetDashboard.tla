----------------------------- MODULE FleetDashboard -----------------------------
(***************************************************************************)
(* The fleet dashboard of a browser: the store it keeps per vehicle, fed   *)
(* by the live messages of the WebSocket, which are buffered behind a      *)
(* 50 ms timer, and by the bulk synchronisation it asks for on opening,    *)
(* every 30 seconds and on demand.  Both are accepted by version.          *)
(*                                                                         *)
(* One vehicle.  The server's side is what the dashboard can observe of    *)
(* it: the row of live_vehicle_status, the cache entry with its lifetime,  *)
(* and the messages.  Races among the server's writers are those of        *)
(* Reconciliation and not repeated; a bulk request, of this browser or of  *)
(* another, that misses the cache reads the row later and writes what it   *)
(* read to the cache later still.                                          *)
(***************************************************************************)
EXTENDS Integers, Sequences

CONSTANTS
    BRequests,     \* bulk requests that may be under way past the cache
    BMaxVersion,   \* bound on live_position_reconciliation_version
    BMoving,       \* versions whose position has a speed above 1 km/h
    BMaxQueue      \* bound on the messages waiting for the timer

ASSUME BAssumption == BMaxVersion \in Nat \ {0} /\ BMoving \subseteq Nat /\ BMaxQueue \in Nat

BMiss     == [version |-> -1, status |-> "none"]
Versionless == 0                       \* an entry without reconciliation_version

VARIABLES
    bRow,      \* the row: version and status
    bAged,     \* the last packet is older than the offline timeout
    bPosition, \* version committed and not announced yet, or 0
    bCache,    \* the live entry in Redis
    bWire,     \* messages sent to this browser since it opened the page
    bQueue,    \* updateQueue; renderTimeout is set while it is not empty
    bAsked,    \* the refresh that still counts: none, asked, or its answer
    bMissed,   \* requests that found no entry and read the row next
    bBy,       \* the one of them this browser waits for
    bHeals,    \* what a request read of the row and is to write to the cache
    bLate,     \* ghost: requests that read the row before its last change
    bOverwritten, \* ghost: the entry is what such a request wrote
    bStore,    \* fleetStore's entry
    bCurrent   \* ghost: nothing changed since what was last applied was read

answering == <<bMissed, bBy, bHeals, bLate, bOverwritten>>
dashboard == <<bRow, bAged, bPosition, bCache, bWire, bQueue, bAsked, answering, bStore, bCurrent>>

BMessage(v, s) == [version |-> v, status |-> s]
BAbsent == BMessage(-1, "none")
BNoRequest == [state |-> "none", data |-> BAbsent, current |-> FALSE]

BInit ==
    /\ bRow = BMessage(1, "on") /\ bCache = BMessage(1, "on")
    /\ bAged = FALSE /\ bPosition = 0 /\ bWire = {} /\ bQueue = <<>>
    /\ bAsked = BNoRequest /\ bStore = BAbsent /\ bCurrent = FALSE
    /\ bMissed = {} /\ bBy = {} /\ bHeals = [r \in BRequests |-> BAbsent]
    /\ bLate = {} /\ bOverwritten = FALSE

BStale == bCurrent' = FALSE /\ bAsked' = [bAsked EXCEPT !.current = FALSE]
BRowChanges == bLate' = {r \in BRequests : bHeals[r] # BAbsent} /\ UNCHANGED <<bMissed, bBy, bHeals, bOverwritten>>
BEntryIsNew == bOverwritten' = FALSE /\ UNCHANGED <<bMissed, bBy, bHeals, bLate>>

-----------------------------------------------------------------------------
(* reconcile_position accepts a record; then it writes the cache and          *)
(* publishes a position_update, which carries no status.                      *)
BReconcile ==
    /\ bPosition = 0 /\ bRow.version < BMaxVersion
    /\ bRow' = BMessage(bRow.version + 1, "on") /\ bPosition' = bRow.version + 1
    /\ bAged' = FALSE /\ BStale /\ BRowChanges
    /\ UNCHANGED <<bCache, bWire, bQueue, bStore>>

BAnnounce ==
    /\ bPosition # 0 /\ bPosition' = 0
    /\ bCache' = BMessage(bPosition, "on")
    /\ bWire' = bWire \cup {BMessage(bPosition, "none")}
    /\ BStale /\ BEntryIsNew
    /\ UNCHANGED <<bRow, bAged, bQueue, bStore>>

(* update_status: the entry, and the whole entry as a message.                *)
BUpdateStatus(entry) == bCache' = entry /\ bWire' = bWire \cup {entry}

(* Offline marking keeps the entry it finds; without one it writes an entry   *)
(* that has no version.                                                       *)
BMarkOffline ==
    /\ bPosition = 0 /\ bRow.status = "on"
    /\ bRow' = [bRow EXCEPT !.status = "offline"]
    /\ BUpdateStatus(IF bCache = BMiss THEN BMessage(Versionless, "offline")
                     ELSE [bCache EXCEPT !.status = "offline"])
    /\ BStale /\ BRowChanges
    /\ UNCHANGED <<bAged, bPosition, bQueue, bStore>>

BAge     == ~bAged /\ bAged' = TRUE /\ BStale
            /\ UNCHANGED <<bRow, bPosition, bCache, bWire, bQueue, bStore, answering>>
BExpires == bCache # BMiss /\ bCache' = BMiss /\ BStale /\ BEntryIsNew
            /\ UNCHANGED <<bRow, bAged, bPosition, bWire, bQueue, bStore>>

-----------------------------------------------------------------------------
(* What a reader makes of a version that is missing.                          *)
BVersion(m) == IF m.version = Versionless THEN 1 ELSE m.version

(* enforce_cache_freshness.                                                   *)
BFreshness(entry) == IF bAged THEN [entry EXCEPT !.status = "offline"] ELSE entry

(* refreshAll: a newer call makes the answer of an older one worthless.       *)
BRefresh ==
    /\ bAsked.state # "asked" \/ bBy # {}
    /\ bAsked' = [BNoRequest EXCEPT !.state = "asked"] /\ bBy' = {}
    /\ UNCHANGED <<bRow, bAged, bPosition, bCache, bWire, bQueue, bStore, bCurrent,
                   bMissed, bHeals, bLate, bOverwritten>>

(* get_bulk_sync: the cache entry it reads, made fresh.                       *)
BAnswerCached ==
    /\ bAsked.state = "asked" /\ bBy = {} /\ bCache # BMiss
    /\ bAsked' = [state |-> "answered", data |-> BFreshness(bCache), current |-> TRUE]
    /\ UNCHANGED <<bRow, bAged, bPosition, bCache, bWire, bQueue, bStore, bCurrent, answering>>

(* Without one, this browser's request or another's goes on to the row.       *)
BMisses(r) ==
    /\ bCache = BMiss /\ r \notin bMissed /\ bHeals[r] = BAbsent
    /\ bMissed' = bMissed \cup {r}
    /\ \/ bBy' = bBy
       \/ bAsked.state = "asked" /\ bBy = {} /\ bBy' = {r}
    /\ UNCHANGED <<bRow, bAged, bPosition, bCache, bWire, bQueue, bAsked, bStore, bCurrent,
                   bHeals, bLate, bOverwritten>>

(* The row as it is by then answers the request, whatever its age; a task is  *)
(* left to write it to the cache.                                             *)
BReadRow(r) ==
    /\ r \in bMissed /\ bMissed' = bMissed \ {r}
    /\ bHeals' = [bHeals EXCEPT ![r] = bRow]
    /\ bBy' = bBy \ {r}
    /\ bAsked' = IF r \in bBy THEN [state |-> "answered", data |-> bRow, current |-> FALSE] ELSE bAsked
    /\ UNCHANGED <<bRow, bAged, bPosition, bCache, bWire, bQueue, bStore, bCurrent, bLate, bOverwritten>>

(* The task: update_status, whatever the cache holds by then.                 *)
BHeal(r) ==
    /\ bHeals[r] # BAbsent /\ bHeals' = [bHeals EXCEPT ![r] = BAbsent]
    /\ BUpdateStatus(bHeals[r]) /\ bOverwritten' = (r \in bLate)
    /\ bLate' = bLate \ {r} /\ BStale
    /\ UNCHANGED <<bRow, bAged, bPosition, bQueue, bStore, bMissed, bBy>>

(* Bug: only a higher version is applied.                                     *)
ReconcileFleetStateBug(incoming) ==
    IF bStore = BAbsent \/ BVersion(incoming) > bStore.version
    THEN BMessage(BVersion(incoming), incoming.status) ELSE bStore

ReconcileFleetState(incoming) ==
    IF bStore = BAbsent \/ BVersion(incoming) >= bStore.version
    THEN BMessage(BVersion(incoming), incoming.status) ELSE bStore

BApplyBulk ==
    /\ bAsked.state = "answered"
    /\ bStore' = ReconcileFleetState(bAsked.data)
    /\ bCurrent' = bAsked.current /\ bAsked' = BNoRequest
    /\ UNCHANGED <<bRow, bAged, bPosition, bCache, bWire, bQueue, answering>>

(* A message arrives in any order, once, again through the second broadcast,  *)
(* or never: it stays on the wire.  Each one sets the timer anew.             *)
BArrive ==
    /\ Len(bQueue) < BMaxQueue
    /\ \E m \in bWire : bQueue' = Append(bQueue, m)
    /\ UNCHANGED <<bRow, bAged, bPosition, bCache, bWire, bAsked, answering, bStore, bCurrent>>

(* One packet of the queue: a vehicle the store lacks or an older version is  *)
(* passed over, a message without a status leaves the status.                 *)
BPacket(store, m) ==
    IF store = BAbsent \/ BVersion(m) < store.version THEN store
    ELSE BMessage(BVersion(m), IF m.status = "none" THEN store.status ELSE m.status)

BPackets(store, queue) ==
    LET after[n \in 0..Len(queue)] == IF n = 0 THEN store ELSE BPacket(after[n - 1], queue[n])
    IN  after[Len(queue)]

ProcessBufferedUpdates ==
    /\ bQueue # <<>> /\ bQueue' = <<>>
    /\ bStore' = BPackets(bStore, bQueue)
    /\ bCurrent' = (bCurrent /\ \A i \in DOMAIN bQueue :
                       bQueue[i].status = "none" \/ BVersion(bQueue[i]) < bStore.version)
    /\ UNCHANGED <<bRow, bAged, bPosition, bCache, bWire, bAsked, answering>>

(* The page is opened anew.                                                   *)
BReload ==
    /\ bStore # BAbsent /\ bStore' = BAbsent
    /\ bQueue' = <<>> /\ bWire' = {} /\ bCurrent' = FALSE
    /\ bAsked' = [BNoRequest EXCEPT !.state = "asked"] /\ bBy' = {}
    /\ UNCHANGED <<bRow, bAged, bPosition, bCache, bMissed, bHeals, bLate, bOverwritten>>

BNext == \/ BReconcile \/ BAnnounce \/ BMarkOffline \/ BAge \/ BExpires
         \/ BRefresh \/ BAnswerCached \/ BApplyBulk \/ BArrive
         \/ ProcessBufferedUpdates \/ BReload
         \/ \E r \in BRequests : BMisses(r) \/ BReadRow(r) \/ BHeal(r)

BSpec == BInit /\ [][BNext]_dashboard

-----------------------------------------------------------------------------
(* The marker of a vehicle: updateMap; and the tile that counts it.           *)
Marker(m) == IF m.status = "offline" THEN "gray"
             ELSE IF m.version \in BMoving THEN "green" ELSE "orange"
Counted(m) == IF m.status = "offline" THEN {"offline", "stopped"}
              ELSE {"online", IF m.version \in BMoving THEN "moving" ELSE "stopped"}

BTypeOK ==
    LET Message == [version : 0..BMaxVersion, status : {"on", "offline", "none"}] IN
    /\ bRow \in Message /\ bRow.status # "none"
    /\ bAged \in BOOLEAN /\ bCurrent \in BOOLEAN
    /\ bPosition \in 0..BMaxVersion /\ bWire \subseteq Message /\ bQueue \in Seq(Message)
    /\ bCache \in Message \cup {BMiss} /\ bStore \in Message \cup {BAbsent}
    /\ bAsked.state \in {"none", "asked", "answered"} /\ bAsked.data \in Message \cup {BAbsent}
    /\ bMissed \subseteq BRequests /\ bBy \subseteq bMissed /\ bLate \subseteq BRequests
    /\ bHeals \in [BRequests -> Message \cup {BAbsent}] /\ bOverwritten \in BOOLEAN

(* A dashboard that has applied a bulk answer from the cache, read after the  *)
(* last change, and then whatever late, repeated or reordered position        *)
(* updates and older entries still came, shows the vehicle as the server has  *)
(* it: marker and tiles.  Three exceptions are in the code: a cache entry     *)
(* that offline marking wrote without a version; one that a bulk request      *)
(* wrote from a row it had read before the row's last change, until the next  *)
(* position is announced or the entry goes; and a whole entry of the same     *)
(* version that arrives after the answer was applied.                         *)
QuietDashboardIsRight ==
    LET server == IF bAged THEN [bRow EXCEPT !.status = "offline"] ELSE bRow
    IN  bCurrent /\ bPosition = 0 /\ bCache.version # Versionless /\ ~bOverwritten =>
            /\ bStore.version = bRow.version
            /\ Marker(bStore) = Marker(server) /\ Counted(bStore) = Counted(server)
=============================================================================
