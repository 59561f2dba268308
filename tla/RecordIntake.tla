----------------------------- MODULE RecordIntake -----------------------------
(***************************************************************************)
(* DeviceSession._handle_packet(): a framed packet is decoded, its records *)
(* are sorted and filtered, the packet is acknowledged and what passed is  *)
(* put on the queue.  The device sends a packet again until it gets an     *)
(* acknowledgement with its number of records; the connection may break    *)
(* while the acknowledgement or the queue is waited for, and a reconnect   *)
(* starts with no last record.                                             *)
(*                                                                         *)
(* A position is a number on a line: 0 stands for what CoordinateFilter    *)
(* takes for invalid, a distance of one for a drift below the threshold.   *)
(***************************************************************************)
EXTENDS Integers, SequencesExt

CONSTANTS
    RPackets,      \* what a device may send: records [sound, packets with records]
    RNow,          \* the server's time
    RMaxFuture,    \* allowed drift ahead (1800 s)
    RMaxPast,      \* allowed age (MAX_PAST_DAYS)
    RMaxSpeed,     \* MAX_SPEED_THRESHOLD
    RMaxSends      \* bound on the packets sent in a run

(* A record has a time unless it does not parse, and a position that may be 0.*)
RNull   == -1
RRecord == [ts : Nat \cup {RNull}, pos : Nat, speed : Nat, weak : BOOLEAN]

ASSUME RAssumption ==
    /\ {RNow, RMaxFuture, RMaxPast, RMaxSpeed, RMaxSends} \subseteq Nat
    /\ RPackets \subseteq [sound : BOOLEAN, records : Seq(RRecord)]

VARIABLES
    rUnacked,   \* the packet the device waits for an acknowledgement of
    rStage,     \* "read", or what the session waits for: "drain", "put"
    rBatch,     \* the filtered records of the packet in hand
    rLast,      \* last_record of the session
    rQueued,    \* records of this session put on the queue, in order
    rSends

intake == <<rUnacked, rStage, rBatch, rLast, rQueued, rSends>>

RNone    == [ts |-> 0, pos |-> 0, speed |-> 0, weak |-> FALSE]
RNothing == [sound |-> FALSE, records |-> <<>>]
RTold(r) == r # RNone

RInit == /\ rUnacked = RNothing /\ rStage = "read" /\ rBatch = <<>>
         /\ rLast = RNone /\ rQueued = <<>> /\ rSends = 0

-----------------------------------------------------------------------------
(* decode_avl(): None for a packet whose length, checksum or codec is wrong;  *)
(* else the records before the first that does not parse.                     *)
RParses(r)  == r.ts # RNull
RRecords(p) == LET bad == {i \in DOMAIN p.records : ~RParses(p.records[i])} IN
               CASE ~p.sound -> <<>>
                 [] p.sound /\ bad # {} -> SubSeq(p.records, 1, Min(bad) - 1)
                 [] OTHER   -> p.records

(* By time, and in the order sent where times are equal.                      *)
RPlaced(t, r) == InsertAt(t, Cardinality({i \in DOMAIN t : t[i].ts <= r.ts}) + 1, r)
RSorted(s) ==
    LET sorted[n \in 0..Len(s)] == IF n = 0 THEN <<>> ELSE RPlaced(sorted[n - 1], s[n])
    IN sorted[Len(s)]

(* CoordinateFilter never rejects: it takes the position of the last record,  *)
(* or none.                                                                   *)
RLocate(r, last) ==
    IF r.pos # 0 THEN r
    ELSE [r EXCEPT !.pos = IF RTold(last) THEN last.pos ELSE RNull]

RSpeedOk(r) == r.speed <= RMaxSpeed
RTimeOk(r)  == r.ts - RNow <= RMaxFuture /\ RNow - r.ts <= RMaxPast
RNewOk(r, last) == RTold(last) => ~(r.ts = last.ts /\ r.pos = last.pos)

(* GpsDriftFilter fails on a missing position, and a filter that fails lets   *)
(* the record pass.                                                           *)
RDrifts(r, last) ==
    /\ RTold(last) /\ r.pos # RNull /\ last.pos # RNull
    /\ r.speed = 0 /\ r.weak
    /\ r.pos - last.pos \in {-1, 1}

RPasses(r, last) == RSpeedOk(r) /\ RTimeOk(r) /\ RNewOk(r, last) /\ ~RDrifts(r, last)

(* Bug: each record is compared with the last of the packet before.           *)
RFilterBug(s, last) ==
    FoldLeft(LAMBDA acc, r :
                LET it == RLocate(r, last)
                IN IF RPasses(it, last) THEN Append(acc, it) ELSE acc,
             <<>>, s)

(* filter_records(): each record against the last that passed.                *)
RStep(acc, r) ==
    LET it == RLocate(r, acc.last)
    IN IF RPasses(it, acc.last) THEN [passed |-> Append(acc.passed, it), last |-> it] ELSE acc

RFilter(s, last) ==
    LET after[n \in 0..Len(s)] == IF n = 0 THEN [passed |-> <<>>, last |-> last]
                                  ELSE RStep(after[n - 1], s[n])
    IN after[Len(s)].passed

-----------------------------------------------------------------------------
(* A packet arrives.  One without records is reported and not acknowledged.   *)
RHandle(p) ==
    /\ rStage = "read" /\ rSends < RMaxSends
    /\ p = rUnacked \/ rUnacked = RNothing
    /\ rSends' = rSends + 1
    /\ rUnacked' = p
    /\ IF RRecords(p) = <<>> THEN UNCHANGED <<rStage, rBatch>>
       ELSE rStage' = "drain" /\ rBatch' = RFilter(RSorted(RRecords(p)), rLast)
    /\ UNCHANGED <<rLast, rQueued>>

(* The acknowledgement is out: the device goes on when the count is right.    *)
RAck ==
    /\ rStage = "drain"
    /\ \/ Len(RRecords(rUnacked)) = Len(rUnacked.records) /\ rUnacked' = RNothing
       \/ UNCHANGED rUnacked
    /\ IF rBatch = <<>> THEN rStage' = "read" /\ UNCHANGED rLast
       ELSE rStage' = "put" /\ rLast' = Last(rBatch)
    /\ UNCHANGED <<rBatch, rQueued, rSends>>

RPut ==
    /\ rStage = "put" /\ rStage' = "read"
    /\ rQueued' = rQueued \o rBatch
    /\ rBatch' = <<>>
    /\ UNCHANGED <<rUnacked, rLast, rSends>>

(* The device gives up on a packet, as it does when its memory is full.       *)
RAbandon ==
    /\ rStage = "read" /\ rUnacked # RNothing /\ rUnacked' = RNothing
    /\ UNCHANGED <<rStage, rBatch, rLast, rQueued, rSends>>

(* The connection breaks: what was acknowledged and not put is lost.          *)
RBreak ==
    /\ rStage' = "read" /\ rBatch' = <<>> /\ rLast' = RNone
    /\ rQueued' = <<>>
    /\ UNCHANGED <<rUnacked, rSends>>

RNext == (\E p \in RPackets : RHandle(p)) \/ RAck \/ RPut \/ RAbandon \/ RBreak

RSpec == RInit /\ [][RNext]_intake

-----------------------------------------------------------------------------
RTypeOK ==
    /\ rUnacked \in RPackets \cup {RNothing}
    /\ rStage \in {"read", "drain", "put"}
    /\ \A r \in Range(rBatch) \cup Range(rQueued) : RParses(r)
    /\ rSends \in 0..RMaxSends

(* Within a session the queue gets a track that can be trusted: no record is  *)
(* without a position once one had it, no two in a row are the same sample,   *)
(* and none is impossibly fast or far from the server's time; across packets, *)
(* packets sent again and records that were rejected in between.              *)
TrackIsConsistent ==
    \A i \in DOMAIN rQueued :
        LET r == rQueued[i] IN
        /\ r.speed <= RMaxSpeed /\ RTimeOk(r)
        /\ r.pos = RNull => \A j \in 1..i : rQueued[j].pos = RNull
        /\ i > 1 => ~(r.ts = rQueued[i - 1].ts /\ r.pos = rQueued[i - 1].pos)
=============================================================================
