------------------------------ MODULE LiveFallback ------------------------------
(***************************************************************************)
(* The live status of a fleet as the external API resolves it, in layers:  *)
(* the Redis entries in bulk, for the vehicles still missing their rows of *)
(* live_vehicle_status, for those still missing their last telemetry, and  *)
(* a stub.  Any layer may fail, and Redis in the middle of the bulk read,  *)
(* which then counts for nothing.                                          *)
(*                                                                         *)
(* A position is the number of its packet, and the status is left out:     *)
(* what is at stake is how old an answer may be.  The writers are there as *)
(* far as a reader can tell: a packet reaches telemetry, then the row,     *)
(* then the cache, or its call fails before the row is written, or the row *)
(* is rolled back and the cache is written all the same; offline marking   *)
(* writes an entry of its own, and the periodic synchronisation writes     *)
(* what it read before.                                                    *)
(***************************************************************************)
EXTENDS Integers, FiniteSets

CONSTANTS
    XVehicles,    \* the vehicles asked for
    XMaxPackets   \* bound on the packets of each

ASSUME XAssumption == XMaxPackets \in Nat

VARIABLES
    xTelemetry, \* the newest row of telemetry, 0 if none
    xRow,       \* live_vehicle_status
    xCache,     \* live:<imei>
    xStage,     \* how far the last packet is
    xSynced,    \* the row the periodic synchronisation has read, or none
    xRead,      \* the request: its step and what is left of the layer
    xAnswer,    \* what it has found so far
    xFloor,     \* ghost: the cached positions when the request began
    xUnbacked   \* ghost: positions cached by a call whose row was rolled back

layers == <<xTelemetry, xRow, xCache, xStage, xSynced, xRead, xAnswer, xFloor, xUnbacked>>

XNowhere  == -1
XUnplaced == 0                            \* an entry written without a position
XFound(source, position) == [source |-> source, pos |-> position]
XMissing == XFound("none", XNowhere)

XInit ==
    /\ xTelemetry = [v \in XVehicles |-> 0]
    /\ xRow = [v \in XVehicles |-> XNowhere] /\ xCache = xRow /\ xSynced = xRow /\ xFloor = xRow
    /\ xStage = [v \in XVehicles |-> "ready"] /\ xUnbacked = [v \in XVehicles |-> {}]
    /\ xRead = [step |-> "new", left |-> {}]
    /\ xAnswer = [v \in XVehicles |-> XMissing]

-----------------------------------------------------------------------------
XAt(v, l)   == xStage[v] = l
XGoto(v, l) == xStage' = [xStage EXCEPT ![v] = l]

(* Bug: the cache is written before the row.                                  *)
WriteThroughBug(v) ==
    /\ \/ /\ XAt(v, "stored") /\ XGoto(v, "accepted")
          /\ xCache' = [xCache EXCEPT ![v] = xTelemetry[v]]
          /\ UNCHANGED xRow
       \/ /\ XAt(v, "accepted") /\ XGoto(v, "ready")
          /\ xRow' = [xRow EXCEPT ![v] = xTelemetry[v]]
          /\ UNCHANGED xCache
    /\ UNCHANGED xUnbacked

(* reconcile_position(): the row, then the cache unless Redis fails.  A call  *)
(* that fails writes neither; one for a record that was stored before has no  *)
(* telemetry id, its commit is a rollback, and it writes the cache.           *)
WriteThrough(v) ==
    \/ /\ XAt(v, "stored")
       /\ \/ XGoto(v, "accepted") /\ xRow' = [xRow EXCEPT ![v] = xTelemetry[v]]
          \/ \E end \in {"undone", "ready"} : XGoto(v, end) /\ UNCHANGED xRow
       /\ UNCHANGED <<xCache, xUnbacked>>
    \/ /\ XAt(v, "accepted") \/ XAt(v, "undone")
       /\ \/ /\ xCache' = [xCache EXCEPT ![v] = xTelemetry[v]]
             /\ xUnbacked' = IF XAt(v, "accepted") THEN xUnbacked
                             ELSE [xUnbacked EXCEPT ![v] = @ \cup {xTelemetry[v]}]
          \/ UNCHANGED <<xCache, xUnbacked>>
       /\ XGoto(v, "ready") /\ UNCHANGED xRow

XWriteThrough(v) ==
    WriteThrough(v) /\ UNCHANGED <<xTelemetry, xSynced, xRead, xAnswer, xFloor>>

XStoreTelemetry(v) ==
    /\ XAt(v, "ready") /\ xTelemetry[v] < XMaxPackets
    /\ xTelemetry' = [xTelemetry EXCEPT ![v] = @ + 1]
    /\ XGoto(v, "stored")
    /\ UNCHANGED <<xRow, xCache, xSynced, xRead, xAnswer, xFloor, xUnbacked>>

(* The row is behind: the packet comes again, or the watchdog finds it.       *)
XTryAgain(v) ==
    /\ XAt(v, "ready") /\ xRow[v] < xTelemetry[v] /\ xTelemetry[v] # 0
    /\ XGoto(v, "stored")
    /\ UNCHANGED <<xTelemetry, xRow, xCache, xSynced, xRead, xAnswer, xFloor, xUnbacked>>

(* mark_device_offline(): an entry it finds keeps its position, without one   *)
(* it writes one that has none.                                               *)
XMarkOffline(v) ==
    /\ xRow[v] # XNowhere /\ xCache[v] = XNowhere
    /\ xCache' = [xCache EXCEPT ![v] = XUnplaced]
    /\ UNCHANGED <<xTelemetry, xRow, xStage, xSynced, xRead, xAnswer, xFloor, xUnbacked>>

(* rebuild_cache_from_db(): the rows as they were read, one vehicle at a time.*)
XSyncReads == /\ xSynced' = xRow /\ xSynced # xRow
              /\ UNCHANGED <<xTelemetry, xRow, xCache, xStage, xRead, xAnswer, xFloor, xUnbacked>>
XSyncWrites(v) ==
    /\ xSynced[v] # XNowhere
    /\ xCache' = [xCache EXCEPT ![v] = xSynced[v]] /\ xSynced' = [xSynced EXCEPT ![v] = XNowhere]
    /\ UNCHANGED <<xTelemetry, xRow, xStage, xRead, xAnswer, xFloor, xUnbacked>>

XExpires(v) == /\ xCache[v] # XNowhere /\ xCache' = [xCache EXCEPT ![v] = XNowhere]
               /\ UNCHANGED <<xTelemetry, xRow, xStage, xSynced, xRead, xAnswer, xFloor, xUnbacked>>

-----------------------------------------------------------------------------
UnchangedStores == UNCHANGED <<xTelemetry, xRow, xCache, xStage, xSynced, xUnbacked>>

Absentees == {v \in XVehicles : xAnswer[v] = XMissing}

(* The keys are listed, and then read one by one; an entry that is gone by    *)
(* then is skipped, an entry whose time is too old is offline.                *)
ListKeys ==
    /\ xRead.step = "new"
    /\ xRead' = [step |-> "cache", left |-> {v \in XVehicles : xCache[v] # XNowhere}]
    /\ xFloor' = xCache
    /\ UnchangedStores /\ UNCHANGED xAnswer

ReadEntry(v) ==
    /\ xRead.step = "cache" /\ v \in xRead.left
    /\ xRead' = [xRead EXCEPT !.left = @ \ {v}]
    /\ xAnswer' = IF xCache[v] = XNowhere THEN xAnswer
                  ELSE [xAnswer EXCEPT ![v] = XFound("redis", xCache[v])]
    /\ UnchangedStores /\ UNCHANGED xFloor

AllEntriesRead ==
    /\ xRead = [step |-> "cache", left |-> {}] /\ xRead' = [xRead EXCEPT !.step = "rows"]
    /\ UnchangedStores /\ UNCHANGED <<xAnswer, xFloor>>

RedisFails ==
    /\ xRead.step = "cache" /\ xRead' = [step |-> "rows", left |-> {}]
    /\ xAnswer' = [v \in XVehicles |-> XMissing]
    /\ UnchangedStores /\ UNCHANGED xFloor

(* One query for the rows of all that are missing, and one for the last       *)
(* telemetry of those that still are.                                         *)
ReadRows ==
    /\ xRead.step = "rows" /\ xRead' = [xRead EXCEPT !.step = "telemetry"]
    /\ xAnswer' \in {xAnswer, [v \in XVehicles |->
                        IF v \in Absentees /\ xRow[v] # XNowhere THEN XFound("row", xRow[v])
                        ELSE xAnswer[v]]}
    /\ UnchangedStores /\ UNCHANGED xFloor

ReadLastPoints ==
    /\ xRead.step = "telemetry" /\ xRead' = [xRead EXCEPT !.step = "done"]
    /\ xAnswer' \in {xAnswer, [v \in XVehicles |->
                        IF v \in Absentees /\ xTelemetry[v] # 0
                        THEN XFound("telemetry", xTelemetry[v])
                        ELSE xAnswer[v]]}
    /\ UnchangedStores /\ UNCHANGED xFloor

Respond ==
    /\ xRead.step = "done" /\ xRead' = [xRead EXCEPT !.step = "new"]
    /\ xAnswer' = [v \in XVehicles |-> XMissing] /\ xFloor' = [v \in XVehicles |-> XNowhere]
    /\ UnchangedStores

XNext ==
    \/ \E v \in XVehicles : \/ XStoreTelemetry(v) \/ XWriteThrough(v) \/ XTryAgain(v)
                            \/ XMarkOffline(v) \/ XSyncWrites(v) \/ XExpires(v) \/ ReadEntry(v)
    \/ XSyncReads \/ ListKeys \/ AllEntriesRead \/ RedisFails
    \/ ReadRows \/ ReadLastPoints \/ Respond

XSpec == XInit /\ [][XNext]_layers

-----------------------------------------------------------------------------
XTypeOK ==
    /\ xTelemetry \in [XVehicles -> 0..XMaxPackets]
    /\ {xRow, xCache, xSynced, xFloor} \subseteq [XVehicles -> XNowhere..XMaxPackets]
    /\ xStage \in [XVehicles -> {"ready", "stored", "accepted", "undone"}]
    /\ xUnbacked \in [XVehicles -> SUBSET (1..XMaxPackets)]
    /\ xRead.step \in {"new", "cache", "rows", "telemetry", "done"} /\ xRead.left \subseteq XVehicles
    /\ \A v \in XVehicles : xAnswer[v].source \in {"none", "redis", "row", "telemetry"}

(* "Redis failures are silently absorbed; callers always receive accurate     *)
(* data", as far as it holds: whichever layer answers once Redis failed or    *)
(* lost the entry, its position is not older than what Redis held for the     *)
(* vehicle when the request began, however the writers of the three layers    *)
(* are interleaved with the reads.  Only the row may be behind, and only      *)
(* behind an entry that a call wrote whose own row was rolled back.           *)
FallbackIsNoOlder ==
    \A v \in XVehicles : xAnswer[v].source \in {"row", "telemetry"} =>
        \/ xAnswer[v].pos >= xFloor[v]
        \/ xAnswer[v].source = "row" /\ xFloor[v] \in xUnbacked[v]
=============================================================================
