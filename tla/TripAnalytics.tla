----------------------------- MODULE TripAnalytics -----------------------------
(***************************************************************************)
(* AnalyticsEngine.process_telemetry() for one device: trips from the      *)
(* edges of the ignition, idling, sustained overspeed.  The engine keeps   *)
(* its previous state in Redis and its events in PostgreSQL; a packet goes *)
(* through the stages in order, each with statements of its own, and an    *)
(* error or a restart at any stage leaves what was stored and forgets what *)
(* was to be remembered.  Packets may be late: the partition worker hands  *)
(* over the newest record of each batch, stale or not.  A speed is "still" *)
(* (idling when the engine runs) or "over" the limit: either ends what the *)
(* other began, as any speed between does.                                 *)
(***************************************************************************)
EXTENDS Integers, Sequences

CONSTANTS
    TMaxTime,              \* bound on packet times
    TMinTrip, TOver, TIdle,\* shortest trip, OVERSPEED_DURATION, IDLE_THRESHOLD_SEC
    TBrief,                \* idling not above this has no summary (60 s)
    TMaxPackets            \* bound on the packets of a run

ASSUME TAssumption == {TMaxTime, TMinTrip, TOver, TIdle, TBrief, TMaxPackets} \subseteq Nat

VARIABLES
    tPrev,      \* state:<imei>: what the last packet left
    tStage,     \* how far the packet in hand is
    tPacket,    \* the packet in hand
    tWork,      \* prev_state, as the stages change it
    tRows,      \* telemetry rows: their times
    tEdges,     \* analytics_events: starts and ends of trips
    tFlags,     \* analytics_events: idle and overspeed, and since when
    tTrips,     \* trip_summary, in order of insertion
    tLate,      \* ghost: a packet older than its predecessor was processed
    tNewest,    \* ghost: the time of the last packet
    tCount      \* packets so far

analytics == <<tPrev, tStage, tPacket, tWork, tRows, tEdges, tFlags, tTrips, tLate, tNewest, tCount>>

TTime    == 0..TMaxTime
TNever   == -1
TPacket  == [ts : TTime, ignition : BOOLEAN, speed : {"still", "over"}]
TPackets == {p \in TPacket : p.ignition \/ p.speed = "still"}
TState   == [ignition : BOOLEAN, over : TTime \cup {TNever}, idle : TTime \cup {TNever}]
TFresh   == [ignition |-> FALSE, over |-> TNever, idle |-> TNever]
TEdges   == [kind : {"trip_start", "trip_end"}, ts : TTime, n : 1..TMaxPackets]
TFlags   == [kind : {"idle", "idle_summary", "over"}, from : TTime, to : TTime]
TNothing == [ts |-> 0, ignition |-> FALSE, speed |-> "still"]
TStages  == {"ready", "edge", "summary", "idle", "violations", "remember"}

TInit ==
    /\ tPrev = TFresh /\ tStage = "ready"
    /\ tPacket = TNothing
    /\ tWork = TFresh
    /\ tRows = {} /\ tEdges = {} /\ tFlags = {} /\ tTrips = <<>>
    /\ tLate = FALSE
    /\ tNewest = TNever /\ tCount = 0

TGoto(s)      == tStage' = s
TIdles(p)     == p.ignition /\ p.speed = "still"
TSpeeds(p)    == p.speed = "over"
TRecord(kind) == tEdges' = tEdges \cup {[kind |-> kind, ts |-> tPacket.ts, n |-> tCount]}
TFlag(kind, since) == tFlags' = tFlags \cup {[kind |-> kind, from |-> since, to |-> tPacket.ts]}

-----------------------------------------------------------------------------
(* save_telemetry() has tried to insert the rows (an insert may fail, and is  *)
(* skipped for a time that exists); the engine reads its state.               *)
TTake(p) ==
    /\ tStage = "ready" /\ tCount < TMaxPackets
    /\ tPacket' = p /\ tWork' = tPrev
    /\ tCount' = tCount + 1
    /\ tRows' \in {tRows, tRows \cup {p.ts}}
    /\ tLate' = (tLate \/ p.ts < tNewest)
    /\ tNewest' = p.ts
    /\ TGoto("edge")
    /\ UNCHANGED <<tPrev, tEdges, tFlags, tTrips>>

(* Bug: every packet with the ignition off closes a trip.                     *)
TEdgeBug ==
    /\ tStage = "edge"
    /\ CASE tPacket.ignition /\ ~tWork.ignition -> TRecord("trip_start") /\ TGoto("idle")
         [] ~tPacket.ignition /\ tWork.ignition -> TRecord("trip_end") /\ TGoto("summary")
         [] ~tPacket.ignition /\ ~tWork.ignition -> UNCHANGED tEdges /\ TGoto("summary")
         [] OTHER                               -> UNCHANGED tEdges /\ TGoto("idle")
    /\ UNCHANGED <<tPrev, tPacket, tWork, tRows, tFlags, tTrips, tLate, tNewest, tCount>>

(* An edge of the ignition is an event, and the falling one closes a trip.    *)
TEdge ==
    /\ tStage = "edge"
    /\ CASE tPacket.ignition /\ ~tWork.ignition -> TRecord("trip_start") /\ TGoto("idle")
         [] ~tPacket.ignition /\ tWork.ignition -> TRecord("trip_end") /\ TGoto("summary")
         [] OTHER                               -> UNCHANGED tEdges /\ TGoto("idle")
    /\ UNCHANGED <<tPrev, tPacket, tWork, tRows, tFlags, tTrips, tLate, tNewest, tCount>>

(* The two latest trip events by time; PostgreSQL orders equal times as it    *)
(* likes.                                                                     *)
TLatestPairs ==
    {pair \in tEdges \X tEdges :
        /\ pair[1] # pair[2] /\ pair[1].ts <= pair[2].ts
        /\ \A e \in tEdges \ {pair[1], pair[2]} : e.ts <= pair[1].ts}

(* _calculate_trip_summary(): a start followed by an end, with telemetry      *)
(* between them and long enough.  The first row may have no position, and     *)
(* then there is no trip.                                                     *)
TIsTrip(pair) ==
    /\ pair[1].kind = "trip_start" /\ pair[2].kind = "trip_end"
    /\ \E r \in tRows : pair[1].ts <= r /\ r <= pair[2].ts
    /\ pair[2].ts - pair[1].ts >= TMinTrip

TSummary ==
    /\ tStage = "summary"
    /\ \/ \E pair \in TLatestPairs :
             /\ TIsTrip(pair)
             /\ tTrips' = Append(tTrips, [from |-> pair[1].ts, to |-> pair[2].ts])
       \/ UNCHANGED tTrips
    /\ TGoto("idle")
    /\ UNCHANGED <<tPrev, tPacket, tWork, tRows, tEdges, tFlags, tLate, tNewest, tCount>>

(* Idling: running and not above 1 km/h.  Every packet past the threshold is  *)
(* an event, and the packet that ends it sums it up.                          *)
TIdling ==
    /\ tStage = "idle"
    /\ CASE ~TIdles(tPacket)
              -> /\ tWork' = [tWork EXCEPT !.idle = TNever]
                 /\ IF tWork.idle # TNever /\ tPacket.ts - tWork.idle > TBrief
                    THEN TFlag("idle_summary", tWork.idle) ELSE UNCHANGED tFlags
         [] TIdles(tPacket) /\ tWork.idle = TNever
              -> tWork' = [tWork EXCEPT !.idle = tPacket.ts] /\ UNCHANGED tFlags
         [] OTHER
              -> /\ UNCHANGED tWork
                 /\ IF tPacket.ts - tWork.idle >= TIdle THEN TFlag("idle", tWork.idle)
                                                        ELSE UNCHANGED tFlags
    /\ TGoto("violations")
    /\ UNCHANGED <<tPrev, tPacket, tRows, tEdges, tTrips, tLate, tNewest, tCount>>

(* Overspeed: an event once it lasted TOver, and the timing starts again.     *)
TViolations ==
    /\ tStage = "violations"
    /\ CASE ~TSpeeds(tPacket)
              -> tWork' = [tWork EXCEPT !.over = TNever] /\ UNCHANGED tFlags
         [] TSpeeds(tPacket) /\ tWork.over = TNever
              -> tWork' = [tWork EXCEPT !.over = tPacket.ts] /\ UNCHANGED tFlags
         [] OTHER
              -> IF tPacket.ts - tWork.over >= TOver
                 THEN TFlag("over", tWork.over) /\ tWork' = [tWork EXCEPT !.over = TNever]
                 ELSE UNCHANGED <<tFlags, tWork>>
    /\ TGoto("remember")
    /\ UNCHANGED <<tPrev, tPacket, tRows, tEdges, tTrips, tLate, tNewest, tCount>>

TDone == TGoto("ready") /\ tPacket' = TNothing /\ tWork' = TFresh

TRemember ==
    /\ tStage = "remember"
    /\ tPrev' = [tWork EXCEPT !.ignition = tPacket.ignition]
    /\ TDone
    /\ UNCHANGED <<tRows, tEdges, tFlags, tTrips, tLate, tNewest, tCount>>

(* The exception handler of process_telemetry(), or a restart.                *)
TGiveUp ==
    /\ tStage # "ready"
    /\ TDone
    /\ UNCHANGED <<tPrev, tRows, tEdges, tFlags, tTrips, tLate, tNewest, tCount>>

TNext ==
    \/ \E p \in TPackets : TTake(p)
    \/ TEdge \/ TSummary \/ TIdling \/ TViolations \/ TRemember \/ TGiveUp

TSpec == TInit /\ [][TNext]_analytics

-----------------------------------------------------------------------------
TTypeOK ==
    /\ tPrev \in TState /\ tWork \in TState
    /\ tStage \in TStages /\ tPacket \in TPacket
    /\ tRows \subseteq TTime /\ tEdges \subseteq TEdges /\ tFlags \subseteq TFlags
    /\ tTrips \in Seq([from : TTime, to : TTime])
    /\ tLate \in BOOLEAN
    /\ tNewest \in TTime \cup {TNever} /\ tCount \in 0..TMaxPackets

(* While no packet is older than one before it, two trips never overlap and   *)
(* no trip is summarised twice, whatever fails in between: a lost state may   *)
(* repeat or lose an edge, which loses a trip but never doubles one.          *)
TripsDisjoint ==
    ~tLate => \A i, j \in DOMAIN tTrips : i < j => tTrips[i].to <= tTrips[j].from
=============================================================================
