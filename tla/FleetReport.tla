------------------------------ MODULE FleetReport ------------------------------
(***************************************************************************)
(* The figures of one vehicle in the fleet summary of a period that is not *)
(* over: distance and driving time, put together from the completed trips, *)
(* the telemetry, and the trip that is still open.  A report is a sequence *)
(* of queries, each of which sees what is committed by then; the partition *)
(* worker stores a packet in stages of its own meanwhile.                  *)
(*                                                                         *)
(* Packets come in the order of their times and are numbered; a time step  *)
(* is a packet.  What late packets do to trips is in TripAnalytics.  Speed,*)
(* fuel and idle sums are merged the same way and left out.                *)
(***************************************************************************)
EXTENDS Integers, Sequences, FiniteSetsExt

CONSTANTS
    PMaxPackets,  \* bound on the packets
    PFrom,        \* first packet of the period: midnight
    PSteps,       \* distances between two packets of a vehicle that is not parked
    PJump,        \* _GPS_SEGMENT_MAX_KM: a longer one is an error of the receiver
    PMinTrip      \* shortest trip that is summarised

ASSUME PAssumption == /\ {PMaxPackets, PJump, PMinTrip} \subseteq Nat
                      /\ PFrom \in Nat \ {0} /\ PSteps \subseteq Nat

VARIABLES
    pRows,    \* telemetry, in the order of its times
    pEdges,   \* analytics_events: starts and ends of trips
    pTrips,   \* trip_summary, in the order of its rows
    pStage,   \* how far the worker is with the last packet
    pOn,      \* last_ignition in the engine's state
    pReport   \* the report being made

period == <<pRows, pEdges, pTrips, pStage, pOn, pReport>>

PNobody == 0
PNone   == [km |-> 0, time |-> 0]
PNew    == [step |-> "new", trips |-> PNone, all |-> PNone, active |-> PNobody,
            guessed |-> FALSE, live |-> PNone]

PInit ==
    /\ pRows = <<>> /\ pEdges = {} /\ pTrips = <<>>
    /\ pStage = "ready" /\ pOn = FALSE /\ pReport = PNew

Plus(a, b) == [km |-> a.km + b.km, time |-> a.time + b.time]

(* _telemetry_stats_for_period(): the segments between neighbouring rows,     *)
(* added up to each of them.                                                  *)
Segment(row) == [km   |-> IF row.moved < PJump THEN row.moved ELSE 0,
                 time |-> IF row.moved > 0 THEN 1 ELSE 0]
Sums(rows, from) ==
    LET sum[n \in 0..Len(rows)] == IF n <= from THEN PNone
                                   ELSE Plus(sum[n - 1], Segment(rows[n]))
    IN sum
Stretch(from) == Sums(pRows, from)[Len(pRows)]

-----------------------------------------------------------------------------
(* The worker: the row, then the edge of the ignition as an event, then the   *)
(* summary of the trip an edge has closed.  An error leaves it at any stage.  *)
PStore ==
    /\ pStage = "ready" /\ Len(pRows) < PMaxPackets
    /\ \E on \in BOOLEAN :
          LET parked == ~on /\ (pRows = <<>> \/ ~pRows[Len(pRows)].on) IN
          \E d \in IF parked THEN {0} ELSE PSteps :
              pRows' = Append(pRows, [on |-> on, moved |-> d])
    /\ pStage' = "edge"
    /\ UNCHANGED <<pEdges, pTrips, pOn, pReport>>

PEdge ==
    /\ pStage = "edge"
    /\ LET on == pRows[Len(pRows)].on
           event(kind) == pEdges' = pEdges \cup {[kind |-> kind, at |-> Len(pRows)]} IN
       CASE on /\ ~pOn -> event("trip_start") /\ pStage' = "remember"
         [] ~on /\ pOn -> event("trip_end") /\ pStage' = "summary"
         [] OTHER      -> UNCHANGED pEdges /\ pStage' = "remember"
    /\ UNCHANGED <<pRows, pTrips, pOn, pReport>>

PLast(edges) == CHOOSE e \in edges : \A f \in edges : f.at <= e.at

PSummary ==
    /\ pStage = "summary" /\ pStage' = "remember"
    /\ LET last == PLast(pEdges) before == pEdges \ {last} IN
       IF /\ last.kind = "trip_end" /\ before # {} /\ PLast(before).kind = "trip_start"
          /\ last.at - PLast(before).at >= PMinTrip
       THEN LET start == PLast(before).at IN
            pTrips' = Append(pTrips, [from |-> start, to |-> last.at,
                                      km |-> Stretch(start).km, time |-> last.at - start])
       ELSE UNCHANGED pTrips
    /\ UNCHANGED <<pRows, pEdges, pOn, pReport>>

PRemember == /\ pStage = "remember" /\ pStage' = "ready"
             /\ pOn' = pRows[Len(pRows)].on
             /\ UNCHANGED <<pRows, pEdges, pTrips, pReport>>

PGiveUp == /\ pStage # "ready" /\ pStage' = "ready"
           /\ UNCHANGED <<pRows, pEdges, pTrips, pOn, pReport>>

-----------------------------------------------------------------------------
(* get_fleet_summary(), one query a step.                                     *)
Ask(step, next) == pReport.step = step /\ pReport' = next
                   /\ UNCHANGED <<pRows, pEdges, pTrips, pStage, pOn>>

Added(trips) ==
    LET sum[n \in 0..Len(trips)] ==
            IF n = 0 THEN PNone
            ELSE IF trips[n].from < PFrom THEN sum[n - 1] ELSE Plus(sum[n - 1], trips[n])
    IN sum
Completed == Added(pTrips)[Len(pTrips)]

ReadTrips == Ask("new", [PNew EXCEPT !.step = "telemetry", !.trips = Completed])

ReadTelemetry == Ask("telemetry", [pReport EXCEPT !.step = "events", !.all = Stretch(PFrom)])

(* _get_active_trip_start(): the last start or end of a trip in the period, ...*)
ReadEvents ==
    LET mine == {e \in pEdges : e.at >= PFrom}
        open == mine # {} /\ PLast(mine).kind = "trip_start" IN
    Ask("events", IF open THEN [pReport EXCEPT !.step = "live", !.active = PLast(mine).at]
                  ELSE [pReport EXCEPT !.step = "guess"])

(* ... or, when the ignition is on all the same, the first row of the period  *)
(* with the ignition on.                                                      *)
GuessStart ==
    LET n == Len(pRows) on == {i \in PFrom..n : pRows[i].on} IN
    Ask("guess", IF n >= PFrom /\ n \in on
                 THEN [pReport EXCEPT !.step = "live", !.active = Min(on), !.guessed = TRUE]
                 ELSE [pReport EXCEPT !.step = "done"])

(* Bug: the completed trips are read after the start of the open one.         *)
ReadActiveBug ==
    Ask("live", [pReport EXCEPT !.step = "done", !.live = Stretch(pReport.active),
                                !.trips = Completed])

ReadActive == Ask("live", [pReport EXCEPT !.step = "done", !.live = Stretch(pReport.active)])

(* The report is delivered, and another one may be asked for.                 *)
PDeliver == Ask("done", PNew)

PNext == \/ PStore \/ PEdge \/ PSummary \/ PRemember \/ PGiveUp
         \/ ReadTrips \/ ReadTelemetry \/ ReadEvents \/ GuessStart \/ ReadActive \/ PDeliver

PSpec == PInit /\ [][PNext]_period

-----------------------------------------------------------------------------
(* The larger of what telemetry and what the trips say.                       *)
Figures == LET merged == Plus(pReport.trips, pReport.live) IN
           [km |-> Max({pReport.all.km, merged.km}), time |-> Max({pReport.all.time, merged.time})]

PTypeOK ==
    LET Amount == [km : Nat, time : Nat] IN
    /\ pRows \in Seq([on : BOOLEAN, moved : PSteps \cup {0}]) /\ Len(pRows) <= PMaxPackets
    /\ pEdges \subseteq [kind : {"trip_start", "trip_end"}, at : 1..PMaxPackets]
    /\ pTrips \in Seq([from : 1..PMaxPackets, to : 1..PMaxPackets, km : Nat, time : Nat])
    /\ pStage \in {"ready", "edge", "summary", "remember"} /\ pOn \in BOOLEAN
    /\ pReport.step \in {"new", "telemetry", "events", "guess", "live", "done"}
    /\ {pReport.trips, pReport.all, pReport.live} \subseteq Amount
    /\ pReport.active \in 0..PMaxPackets /\ pReport.guessed \in BOOLEAN

(* A report counts no kilometre and no minute twice, although trips close and *)
(* open between its queries, edges and trips are lost to errors, and a trip   *)
(* of yesterday may end today.  The exception is the guess: a vehicle that    *)
(* drives without an open trip, because its trip_start is not stored yet or   *)
(* was lost, is taken to have driven since the first row of the period with   *)
(* the ignition on, and the trips completed since then are counted again.     *)
NothingCountedTwice ==
    pReport.step = "done" /\ (pReport.guessed => pReport.trips = PNone) =>
        /\ Figures.km <= Stretch(PFrom).km
        /\ Figures.time <= Cardinality(PFrom..Len(pRows) - 1)
=============================================================================
