-------------------------- MODULE IngestionPipeline --------------------------
(***************************************************************************)
(* The way of a telemetry packet through the ingestion process: read from  *)
(* a device's connection under backpressure, acknowledged, put into the    *)
(* bounded db_queue, moved by the one router into the bounded queue of the *)
(* device's partition, and saved by the partition's one worker, with       *)
(* retries and a dead-letter file.  A device numbers its packets and sends *)
(* again what was not acknowledged, so the packets of device d that were   *)
(* acknowledged are 1..acked[d].                                           *)
(***************************************************************************)
EXTENDS Integers, Sequences, FiniteSets

CONSTANTS
    Devices, Conns,     \* devices, and the connections they make one after another
    DevOf,              \* the device of a connection
    Partitions,         \* partition numbers, 0 among them
    Hash,               \* hash(imei) % num_partitions
    QueueMax, PartMax,  \* capacity of db_queue and of a partition queue
    Threshold,          \* backpressure: no reading while db_queue is longer
    Burst,              \* bound on the packets one read() returns
    MaxPackets,         \* bound on the packets a device sends
    MaxCrashes,         \* bound on crashes
    Faults              \* what may go wrong in a run

FaultKinds == {"save", "late", "insert", "unregistered", "dlq", "connect", "decode", "filter", "crash"}
MaxRetries == 3

ASSUME PipelineAssumption ==
    /\ DevOf \in [Conns -> Devices] /\ Hash \in [Devices -> Partitions]
    /\ \A d \in Devices : \E c \in Conns : DevOf[c] = d
    /\ 0 \in Partitions
    /\ {QueueMax, PartMax, Burst} \subseteq Nat \ {0}
    /\ {Threshold, MaxPackets, MaxCrashes} \subseteq Nat
    /\ Faults \subseteq FaultKinds

VARIABLES
    cur,        \* the connection a device uses now, or the last one it used
    pc,         \* where each connection's task is
    buffer,     \* packets read by a connection and not yet passed on
    acked,      \* how many packets the device knows to be acknowledged
    mainQ,      \* db_queue
    router,     \* what the router has taken and not passed on: at most one item
    partQ,      \* partition_queues
    worker,     \* each partition's worker: its state, item and attempt
    saved, dlq, \* packets in the database, and in the dead-letter file
    dropped,    \* packets acknowledged and discarded on purpose: by the filters,
                \* or because the device is in no row of vehicles
    lost,       \* history: packets lost in a crash, in a failed DLQ write, or in an
                \* INSERT whose error was only logged
    crashes     \* crashes so far, at most MaxCrashes

conns == <<cur, pc, buffer, acked>>
store == <<saved, dlq, dropped, lost>>
vars  == <<conns, mainQ, router, partQ, worker, store, crashes>>

Item == [kind : {"data"}, dev : Devices, n : 1..MaxPackets]
        \cup [kind : {"alert", "disconnect"}, dev : Devices, n : {0}]
Idle(l)     == [at |-> l, item |-> <<>>, attempt |-> 0]
Packet(d, n) == [kind |-> "data", dev |-> d, n |-> n]
Notice(k, d) == [kind |-> k, dev |-> d, n |-> 0]

At(c, l)   == pc[c] = l
Goto(c, l) == pc' = [pc EXCEPT ![c] = l]

Init ==
    /\ cur = [d \in Devices |-> CHOOSE c \in Conns : DevOf[c] = d]
    /\ pc = [c \in Conns |-> "off"]
    /\ buffer = [c \in Conns |-> <<>>]
    /\ acked = [d \in Devices |-> 0]
    /\ mainQ = <<>> /\ router = {}
    /\ partQ = [p \in Partitions |-> <<>>]
    /\ worker = [p \in Partitions |-> Idle("start")]
    /\ saved = [d \in Devices |-> {}] /\ dlq = saved /\ dropped = saved /\ lost = saved
    /\ crashes = 0

-----------------------------------------------------------------------------
(* A connection.  When the device has an older one that is not closed yet,    *)
(* register() closes that one first, which puts a disconnect item.            *)
Connect(c) ==
    LET d == DevOf[c] IN
    /\ At(c, "off")
    /\ IF cur[d] = c \/ pc[cur[d]] \in {"off", "gone"}
       THEN Goto(c, "gate") /\ cur' = [cur EXCEPT ![d] = c]
       ELSE Goto(c, "evict") /\ UNCHANGED cur
    /\ UNCHANGED <<buffer, acked, mainQ, router, partQ, worker, store, crashes>>

Evict(c) ==
    /\ At(c, "evict") /\ Len(mainQ) < QueueMax
    /\ Goto(c, "gate")
    /\ cur' = [cur EXCEPT ![DevOf[c]] = c]
    /\ mainQ' = Append(mainQ, Notice("disconnect", DevOf[c]))
    /\ UNCHANGED <<buffer, acked, router, partQ, worker, store, crashes>>

(* Backpressure is checked before each read(), which may wait for long.       *)
Gate(c) ==
    /\ At(c, "gate")
    /\ Len(mainQ) <= Threshold
    /\ Goto(c, "read")
    /\ UNCHANGED <<cur, buffer, acked, mainQ, router, partQ, worker, store, crashes>>

(* Packets of the device that uses this connection, or bytes that make none.  *)
Read(c, k) ==
    LET a == acked[DevOf[c]] IN
    /\ At(c, "read") /\ cur[DevOf[c]] = c
    /\ a + k <= MaxPackets
    /\ buffer' = [buffer EXCEPT ![c] = [i \in 1..k |-> a + i]]
    /\ Goto(c, "handle")
    /\ UNCHANGED <<cur, acked, mainQ, router, partQ, worker, store, crashes>>

ReadNoise(c) ==
    /\ "decode" \in Faults
    /\ At(c, "read") /\ cur[DevOf[c]] = c
    /\ Goto(c, "alert")
    /\ UNCHANGED <<cur, buffer, acked, mainQ, router, partQ, worker, store, crashes>>

(* _handle_packet, up to the put: a packet is acknowledged, and enqueued      *)
(* unless the filters reject all of it.  When the device has moved on to      *)
(* another connection the acknowledgement is lost: the write fails and ends   *)
(* the session, or goes unnoticed.                                            *)
Handle(c) ==
    LET d == DevOf[c]
        n == Head(buffer[c]) IN
    /\ At(c, "handle") /\ buffer[c] # <<>>
    /\ \/ /\ cur[d] = c /\ acked' = [acked EXCEPT ![d] = n]
          /\ Goto(c, "put")
          /\ UNCHANGED <<buffer, dropped>>
       \/ /\ "filter" \in Faults
          /\ cur[d] = c /\ acked' = [acked EXCEPT ![d] = n]
          /\ dropped' = [dropped EXCEPT ![d] = @ \cup {n}]
          /\ buffer' = [buffer EXCEPT ![c] = Tail(@)]
          /\ UNCHANGED pc
       \/ cur[d] # c /\ Goto(c, "put") /\ UNCHANGED <<buffer, acked, dropped>>
       \/ cur[d] # c /\ Goto(c, "close") /\ UNCHANGED <<buffer, acked, dropped>>
    /\ UNCHANGED <<cur, mainQ, router, partQ, worker, saved, dlq, lost, crashes>>

(* A put that finds the queue full waits; a waiter that is woken and finds it *)
(* full again goes to the end of the line, so the order is left open.         *)
Put(c) ==
    /\ At(c, "put")
    /\ Len(mainQ) < QueueMax
    /\ mainQ' = Append(mainQ, Packet(DevOf[c], Head(buffer[c])))
    /\ buffer' = [buffer EXCEPT ![c] = Tail(@)]
    /\ Goto(c, "handle")
    /\ UNCHANGED <<cur, acked, router, partQ, worker, store, crashes>>

(* An alert, or the disconnect item of close().                               *)
PutNotice(c) ==
    /\ Len(mainQ) < QueueMax
    /\ \/ /\ At(c, "alert") /\ Goto(c, "handle")
          /\ mainQ' = Append(mainQ, Notice("alert", DevOf[c]))
          /\ UNCHANGED buffer
       \/ /\ At(c, "close") /\ Goto(c, "gone")
          /\ mainQ' = Append(mainQ, Notice("disconnect", DevOf[c]))
          /\ buffer' = [buffer EXCEPT ![c] = <<>>]
    /\ UNCHANGED <<cur, acked, router, partQ, worker, store, crashes>>

ReadAgain(c) ==
    /\ At(c, "handle") /\ buffer[c] = <<>>
    /\ Goto(c, "gate")
    /\ UNCHANGED <<cur, buffer, acked, mainQ, router, partQ, worker, store, crashes>>

(* End of stream or timeout: close().                                         *)
HangUp(c) ==
    /\ At(c, "read")
    /\ Goto(c, "close")
    /\ UNCHANGED <<cur, buffer, acked, mainQ, router, partQ, worker, store, crashes>>

ConnStep(c) == Gate(c) \/ Handle(c) \/ ReadAgain(c) \/ Put(c) \/ PutNotice(c) \/ Evict(c)

-----------------------------------------------------------------------------
RouterTake ==
    /\ router = {} /\ mainQ # <<>>
    /\ router' = {Head(mainQ)}
    /\ mainQ' = Tail(mainQ)
    /\ UNCHANGED <<conns, partQ, worker, store, crashes>>

(* Bug: items go to any partition that has room.                              *)
RouteBug(i) == CHOOSE p \in Partitions : \A q \in Partitions : Len(partQ[p]) <= Len(partQ[q])

Route(i) == IF i.kind = "alert" THEN 0 ELSE Hash[i.dev]

(* Bug: put_nowait into a partition queue without a limit.                    *)
RouterPassBug ==
    \E i \in router :
        /\ partQ' = [partQ EXCEPT ![Route(i)] = Append(@, i)]
        /\ router' = {}
        /\ UNCHANGED <<conns, mainQ, worker, store, crashes>>

RouterPass ==
    \E i \in router :
        /\ Len(partQ[Route(i)]) < PartMax
        /\ partQ' = [partQ EXCEPT ![Route(i)] = Append(@, i)]
        /\ router' = {}
        /\ UNCHANGED <<conns, mainQ, worker, store, crashes>>

-----------------------------------------------------------------------------
(* A worker.  If its database handler cannot connect, the task dies and the   *)
(* supervisor starts it again.                                                *)
WorkerStart(p) ==
    /\ worker[p].at = "start"
    /\ \/ worker' = [worker EXCEPT ![p] = Idle("idle")]
       \/ "connect" \in Faults /\ worker' = [worker EXCEPT ![p] = Idle("dead")]
    /\ UNCHANGED <<conns, mainQ, router, partQ, store, crashes>>

(* Bug: a worker whose task has ended is not started again.                   *)
SuperviseBug(p) ==
    /\ worker[p].at = "dead" /\ partQ[p] # <<>>
    /\ worker' = [worker EXCEPT ![p] = Idle("dead")]
    /\ UNCHANGED <<conns, mainQ, router, partQ, store, crashes>>

Supervise(p) ==
    /\ worker[p].at = "dead"
    /\ worker' = [worker EXCEPT ![p] = Idle("start")]
    /\ UNCHANGED <<conns, mainQ, router, partQ, store, crashes>>

(* Alerts and disconnects are done in one go, whether they succeed or not.    *)
WorkerTake(p) ==
    /\ worker[p].at = "idle" /\ partQ[p] # <<>>
    /\ partQ' = [partQ EXCEPT ![p] = Tail(@)]
    /\ worker' = [worker EXCEPT ![p] =
            IF Head(partQ[p]).kind = "data"
            THEN [at |-> "save", item |-> Head(partQ[p]), attempt |-> 1]
            ELSE Idle("idle")]
    /\ UNCHANGED <<conns, mainQ, router, store, crashes>>

With(set, i) == [set EXCEPT ![i.dev] = @ \cup {i.n}]
Saved(p)     == saved' = With(saved, worker[p].item)

(* save_telemetry returns, which the worker takes for a success: the records  *)
(* are stored, or rejected because the vehicle is not registered, or (in      *)
(* part) gone because the error of an INSERT is caught and logged.            *)
WorkerSave(p) ==
    /\ worker[p].at = "save"
    /\ \/ Saved(p) /\ UNCHANGED <<dropped, lost>>
       \/ /\ "unregistered" \in Faults
          /\ dropped' = With(dropped, worker[p].item) /\ UNCHANGED <<saved, lost>>
       \/ /\ "insert" \in Faults
          /\ lost' = With(lost, worker[p].item) /\ UNCHANGED <<saved, dropped>>
    /\ worker' = [worker EXCEPT ![p] = Idle("idle")]
    /\ UNCHANGED <<conns, mainQ, router, partQ, dlq, crashes>>

(* Bug: the last failed attempt is taken for a success.                       *)
WorkerFailsBug(p) ==
    /\ "save" \in Faults
    /\ worker[p].at = "save"
    /\ worker' = IF worker[p].attempt < MaxRetries THEN [worker EXCEPT ![p].attempt = @ + 1]
                 ELSE [worker EXCEPT ![p] = Idle("idle")]
    /\ UNCHANGED <<conns, mainQ, router, partQ, store, crashes>>

(* save_telemetry raises, with nothing stored or ("late") with the records    *)
(* stored; the worker tries the same packet again, then gives up on it.       *)
WorkerFails(p) ==
    /\ worker[p].at = "save"
    /\ \/ "save" \in Faults /\ UNCHANGED saved
       \/ "late" \in Faults /\ Saved(p)
    /\ worker' = IF worker[p].attempt < MaxRetries THEN [worker EXCEPT ![p].attempt = @ + 1]
                 ELSE [worker EXCEPT ![p].at = "dlq"]
    /\ UNCHANGED <<conns, mainQ, router, partQ, dlq, dropped, lost, crashes>>

(* The dead-letter file; an error in writing it is only logged.               *)
WriteDLQ(p) ==
    /\ worker[p].at = "dlq"
    /\ \/ dlq' = With(dlq, worker[p].item) /\ UNCHANGED lost
       \/ "dlq" \in Faults /\ lost' = With(lost, worker[p].item) /\ UNCHANGED dlq
    /\ worker' = [worker EXCEPT ![p] = Idle("idle")]
    /\ UNCHANGED <<conns, mainQ, router, partQ, saved, dropped, crashes>>

WorkerStep(p) == WorkerStart(p) \/ Supervise(p) \/ WorkerTake(p) \/ WriteDLQ(p)
                 \/ WorkerSave(p) \/ WorkerFails(p)

SetOf(q) == {q[i] : i \in DOMAIN q}
InFlight(d) ==
    {n \in 1..MaxPackets :
        \/ \E c \in Conns : At(c, "put") /\ DevOf[c] = d /\ Head(buffer[c]) = n
        \/ Packet(d, n) \in SetOf(mainQ) \cup router
        \/ \E p \in Partitions : \/ Packet(d, n) \in SetOf(partQ[p])
                                 \/ worker[p].item = Packet(d, n)}

(* The process ends: everything in memory is gone, connections are lost.      *)
Crash ==
    /\ "crash" \in Faults /\ crashes < MaxCrashes
    /\ crashes' = crashes + 1
    /\ pc' = [c \in Conns |-> IF At(c, "off") THEN "off" ELSE "gone"]
    /\ buffer' = [c \in Conns |-> <<>>]
    /\ mainQ' = <<>> /\ router' = {}
    /\ partQ' = [p \in Partitions |-> <<>>]
    /\ worker' = [p \in Partitions |-> Idle("start")]
    /\ lost' = [d \in Devices |-> lost[d] \cup InFlight(d)]
    /\ UNCHANGED <<cur, acked, saved, dlq, dropped>>

-----------------------------------------------------------------------------
Next ==
    \/ \E c \in Conns : Connect(c) \/ ConnStep(c) \/ HangUp(c) \/ ReadNoise(c)
                        \/ \E k \in 1..Burst : Read(c, k)
    \/ RouterTake \/ RouterPass
    \/ \E p \in Partitions : WorkerStep(p)
    \/ Crash

Spec == Init /\ [][Next]_vars

(* Tasks that can go on do, a put waits in line for room, and a database that *)
(* refuses connections does not do so for ever.  Devices owe nothing.         *)
Fairness ==
    /\ \A c \in Conns : WF_vars(ConnStep(c)) /\ SF_vars(Put(c) \/ PutNotice(c) \/ Evict(c))
    /\ WF_vars(RouterTake) /\ WF_vars(RouterPass)
    /\ \A p \in Partitions :
        /\ WF_vars(WorkerStep(p))
        /\ SF_vars(WorkerStart(p) /\ worker'[p].at = "idle")

FairSpec == Spec /\ Fairness

-----------------------------------------------------------------------------
Worker == [at : {"start", "dead", "idle"}, item : {<<>>}, attempt : {0}]
          \cup [at : {"save", "dlq"}, item : Item, attempt : 1..MaxRetries]

TypeOK ==
    /\ cur \in [Devices -> Conns]
    /\ pc \in [Conns -> {"off", "evict", "gate", "read", "handle", "put", "alert", "close", "gone"}]
    /\ buffer \in [Conns -> Seq(1..MaxPackets)] /\ \A c \in Conns : Len(buffer[c]) <= Burst
    /\ acked \in [Devices -> 0..MaxPackets]
    /\ mainQ \in Seq(Item) /\ Len(mainQ) <= QueueMax
    /\ router \in {{}} \cup {{i} : i \in Item}
    /\ partQ \in [Partitions -> Seq(Item)] /\ \A p \in Partitions : Len(partQ[p]) <= PartMax
    /\ worker \in [Partitions -> Worker]
    /\ \A s \in {saved, dlq, dropped, lost} : s \in [Devices -> SUBSET (1..MaxPackets)]
    /\ crashes \in 0..MaxCrashes

Settled(d) == saved[d] \cup dlq[d] \cup dropped[d]

(* "Zero-Packet Loss", as far as it goes: a packet that was acknowledged to   *)
(* the device, which will not send it again, is in flight, stored, in the     *)
(* dead-letter file or was rejected (by the filters, or for want of a         *)
(* registered vehicle), unless it was in memory in a crash, could not be      *)
(* written to the dead-letter file, or was to be stored by an INSERT whose    *)
(* error save_telemetry swallows.  There is no other way out: not by a full   *)
(* queue, a retry, a dead worker or a connection that is closed.              *)
ZeroPacketLoss == \A d \in Devices : 1..acked[d] \subseteq InFlight(d) \cup Settled(d) \cup lost[d]

(* "Strict Per-Device Sequencing": no packet of a device is stored for the    *)
(* first time after a later one, whatever is retried in between.              *)
StrictSequencing ==
    [][ \A d \in Devices : \A n \in saved'[d] \ saved[d], m \in saved[d] : m < n ]_vars

(* Every acknowledged packet comes to its end, in one of these ways, although *)
(* a partition that is full holds up the router and so the packets of all     *)
(* devices.                                                                   *)
EveryPacketSettles ==
    \A d \in Devices : \A n \in 1..MaxPackets : n <= acked[d] ~> n \in Settled(d) \cup lost[d]
=============================================================================
