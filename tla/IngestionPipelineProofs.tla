----------------------- MODULE IngestionPipelineProofs -----------------------
(***************************************************************************)
(* Proofs about IngestionPipeline, for any devices, connections and        *)
(* partitions, any capacities, and any crashes and failures.               *)
(***************************************************************************)
EXTENDS IngestionPipeline, SequenceTheorems, TLAPS

(* What is in a queue after a put and after a get.                            *)
LEMMA PutProperties ==
    ASSUME NEW S, NEW q \in Seq(S), NEW x \in S
    PROVE  /\ Append(q, x) \in Seq(S) /\ Len(Append(q, x)) = Len(q) + 1
           /\ SetOf(Append(q, x)) = SetOf(q) \cup {x}
           /\ \A i \in DOMAIN Append(q, x) :
                 \/ i \in DOMAIN q /\ Append(q, x)[i] = q[i]
                 \/ i = Len(q) + 1 /\ Append(q, x)[i] = x
<1> DEFINE a == Append(q, x)
<1>1. /\ a \in Seq(S) /\ Len(a) = Len(q) + 1 /\ Len(q) \in Nat
      /\ DOMAIN a = 1..Len(q) + 1 /\ DOMAIN q = 1..Len(q)
  OBVIOUS
<1>2. a[Len(q) + 1] = x /\ \A i \in 1..Len(q) : a[i] = q[i]
  OBVIOUS
<1> HIDE DEF a
<1>3. \A i \in 1..Len(q) + 1 : i \in 1..Len(q) \/ i = Len(q) + 1
  BY <1>1
<1>4. SetOf(q) \subseteq SetOf(a) /\ x \in SetOf(a)
  BY <1>1, <1>2 DEF SetOf
<1>5. SetOf(a) \subseteq SetOf(q) \cup {x}
  BY <1>1, <1>2, <1>3 DEF SetOf
<1>6. \A i \in DOMAIN a : (i \in DOMAIN q /\ a[i] = q[i]) \/ (i = Len(q) + 1 /\ a[i] = x)
  BY <1>1, <1>2, <1>3
<1>7. SetOf(a) = SetOf(q) \cup {x}
  BY <1>4, <1>5
<1> QED BY <1>1, <1>6, <1>7 DEF a

LEMMA GetProperties ==
    ASSUME NEW S, NEW q \in Seq(S), q # <<>>
    PROVE  /\ Head(q) \in S /\ Tail(q) \in Seq(S) /\ Len(Tail(q)) = Len(q) - 1
           /\ SetOf(q) = SetOf(Tail(q)) \cup {Head(q)}
           /\ 1 \in DOMAIN q /\ Head(q) = q[1]
           /\ \A i \in DOMAIN Tail(q) : i + 1 \in DOMAIN q /\ Tail(q)[i] = q[i + 1]
<1>1. /\ Len(q) \in Nat /\ Len(q) # 0 /\ DOMAIN q = 1..Len(q) /\ Head(q) = q[1] /\ Head(q) \in S
      /\ Tail(q) \in Seq(S) /\ Len(Tail(q)) = Len(q) - 1
      /\ \A i \in 1..Len(Tail(q)) : Tail(q)[i] = q[i + 1]
  BY EmptySeq, LenProperties, HeadTailProperties
<1>2. DOMAIN Tail(q) = 1..Len(q) - 1
  BY <1>1, LenProperties
<1>3. \A i \in 1..Len(q) : i = 1 \/ (i - 1 \in DOMAIN Tail(q) /\ q[i] = Tail(q)[i - 1])
  BY <1>1, <1>2
<1>4. \A i \in DOMAIN Tail(q) : i + 1 \in 1..Len(q) /\ Tail(q)[i] = q[i + 1]
  BY <1>1, <1>2
<1>5. SetOf(Tail(q)) \subseteq SetOf(q) /\ Head(q) \in SetOf(q)
  BY <1>1, <1>4 DEF SetOf
<1>6. SetOf(q) \subseteq SetOf(Tail(q)) \cup {Head(q)}
  <2> SUFFICES ASSUME NEW i \in 1..Len(q) PROVE q[i] \in SetOf(Tail(q)) \cup {Head(q)}
    BY <1>1 DEF SetOf
  <2>1. CASE i = 1
    BY <1>1, <2>1
  <2>2. CASE i - 1 \in DOMAIN Tail(q) /\ q[i] = Tail(q)[i - 1]
    BY <2>2 DEF SetOf
  <2> QED BY <1>3, <2>1, <2>2
<1> QED BY <1>1, <1>2, <1>4, <1>5, <1>6

(* Packets and notices are items, and what makes them.                        *)
LEMMA ItemProperties ==
    /\ \A d \in Devices : \A n \in 1..MaxPackets :
          /\ Packet(d, n) \in Item /\ Packet(d, n).kind = "data" /\ Packet(d, n) # <<>>
          /\ \A e \in Devices, m \in 1..MaxPackets : Packet(d, n) = Packet(e, m) => d = e /\ n = m
    /\ \A d \in Devices, k \in {"alert", "disconnect"} :
          Notice(k, d) \in Item /\ Notice(k, d).kind # "data"
    /\ \A i \in Item : /\ i.dev \in Devices /\ Route(i) \in Partitions
                       /\ i.kind = "data" => i.n \in 1..MaxPackets /\ i = Packet(i.dev, i.n)
<1>1. ASSUME NEW d \in Devices, NEW n \in 1..MaxPackets
      PROVE  /\ Packet(d, n) \in Item /\ Packet(d, n).kind = "data" /\ Packet(d, n) # <<>>
             /\ Packet(d, n).dev = d /\ Packet(d, n).n = n
  <2>1. "kind" \in DOMAIN Packet(d, n) /\ "kind" \notin DOMAIN <<>>
    BY DEF Packet
  <2> QED BY <2>1 DEF Packet, Item
<1>2. \A d \in Devices, k \in {"alert", "disconnect"} :
          Notice(k, d) \in Item /\ Notice(k, d).kind # "data"
  BY DEF Notice, Item
<1>3. ASSUME NEW i \in Item
      PROVE  /\ i.dev \in Devices /\ Route(i) \in Partitions
             /\ i.kind = "data" => i.n \in 1..MaxPackets /\ i = Packet(i.dev, i.n)
  <2>1. CASE i \in [kind : {"data"}, dev : Devices, n : 1..MaxPackets]
    BY <2>1, PipelineAssumption DEF Packet, Route
  <2>2. CASE i \in [kind : {"alert", "disconnect"}, dev : Devices, n : {0}]
    BY <2>2, PipelineAssumption DEF Packet, Route
  <2> QED BY <2>1, <2>2 DEF Item
<1>4. ASSUME NEW d \in Devices, NEW n \in 1..MaxPackets, NEW e \in Devices,
             NEW m \in 1..MaxPackets, Packet(d, n) = Packet(e, m)
      PROVE  d = e /\ n = m
  BY <1>1, <1>4
<1> QED BY <1>1, <1>2, <1>3, <1>4

-----------------------------------------------------------------------------
(* Type correctness.                                                          *)
Pc == {"off", "evict", "gate", "read", "handle", "put", "alert", "close", "gone"}
PacketSets == [Devices -> SUBSET (1..MaxPackets)]
Rest == UNCHANGED <<saved, dlq, dropped, lost, crashes>>

LEMMA Bounds == {QueueMax, PartMax, Burst} \subseteq Nat \ {0} /\ {MaxPackets, MaxCrashes} \subseteq Nat
BY PipelineAssumption

LEMMA WorkerTypes ==
    /\ \A l \in {"start", "dead", "idle"} : Idle(l) \in Worker /\ Idle(l).item = <<>>
    /\ \A i \in Item, n \in 1..MaxRetries :
          [at |-> "save", item |-> i, attempt |-> n] \in Worker
    /\ \A w \in Worker : w.at \in {"save", "dlq"} =>
          /\ w.item \in Item /\ w.attempt \in 1..MaxRetries
          /\ [w EXCEPT !.at = "dlq"] \in Worker
          /\ w.attempt < MaxRetries /\ w.at = "save" => [w EXCEPT !.attempt = w.attempt + 1] \in Worker
    /\ \A w \in Worker : w.at \notin {"save", "dlq"} => w.item = <<>>
<1>1. \A l \in {"start", "dead", "idle"} : Idle(l) \in Worker /\ Idle(l).item = <<>>
  BY DEF Idle, Worker
<1>2. \A i \in Item, n \in 1..MaxRetries : [at |-> "save", item |-> i, attempt |-> n] \in Worker
  BY DEF Worker
<1>3. ASSUME NEW w \in Worker, w.at \in {"save", "dlq"}
      PROVE  /\ w.item \in Item /\ w.attempt \in 1..MaxRetries
             /\ [w EXCEPT !.at = "dlq"] \in Worker
             /\ w.attempt < MaxRetries /\ w.at = "save" =>
                   [w EXCEPT !.attempt = w.attempt + 1] \in Worker
  <2>1. w \in [at : {"save", "dlq"}, item : Item, attempt : 1..MaxRetries]
    BY <1>3 DEF Worker
  <2>2. [w EXCEPT !.at = "dlq"] \in [at : {"save", "dlq"}, item : Item, attempt : 1..MaxRetries]
    BY <2>1
  <2>3. ASSUME w.attempt < MaxRetries
        PROVE  [w EXCEPT !.attempt = w.attempt + 1]
                  \in [at : {"save", "dlq"}, item : Item, attempt : 1..MaxRetries]
    <3>1. w.attempt + 1 \in 1..MaxRetries
      BY <2>1, <2>3 DEF MaxRetries
    <3> QED BY <2>1, <3>1
  <2> QED BY <2>1, <2>2, <2>3 DEF Worker
<1>4. \A w \in Worker : w.at \notin {"save", "dlq"} => w.item = <<>>
  BY DEF Worker
<1> QED BY <1>1, <1>2, <1>3, <1>4

LEMMA InitType == Init => TypeOK
<1> SUFFICES ASSUME Init PROVE TypeOK
  OBVIOUS
<1>1. cur \in [Devices -> Conns]
  BY PipelineAssumption DEF Init
<1>2. <<>> \in Seq(1..MaxPackets) /\ <<>> \in Seq(Item) /\ Len(<<>>) = 0
  OBVIOUS
<1>3. buffer \in [Conns -> Seq(1..MaxPackets)] /\ \A c \in Conns : Len(buffer[c]) <= Burst
  BY <1>2, Bounds DEF Init
<1>4. mainQ \in Seq(Item) /\ Len(mainQ) <= QueueMax
  BY <1>2, Bounds DEF Init
<1>5. partQ \in [Partitions -> Seq(Item)] /\ \A p \in Partitions : Len(partQ[p]) <= PartMax
  BY <1>2, Bounds DEF Init
<1>6. worker \in [Partitions -> Worker]
  BY WorkerTypes DEF Init
<1>7. \A s \in {saved, dlq, dropped, lost} : s \in [Devices -> SUBSET (1..MaxPackets)]
  BY DEF Init
<1>8. acked \in [Devices -> 0..MaxPackets] /\ crashes \in 0..MaxCrashes
  BY Bounds DEF Init
<1> QED BY <1>1, <1>3, <1>4, <1>5, <1>6, <1>7, <1>8 DEF Init, TypeOK

(* Steps of a connection that touch no queue.                                 *)
LEMMA ConnectType == ASSUME TypeOK, NEW c \in Conns, Connect(c) PROVE TypeOK'
<1>1. DevOf[c] \in Devices
  BY PipelineAssumption
<1>2. cur' \in [Devices -> Conns]
  BY <1>1 DEF Connect, TypeOK
<1>3. pc' \in [Conns -> Pc]
  BY DEF Connect, Goto, TypeOK, Pc
<1> QED BY <1>2, <1>3 DEF Connect, TypeOK, Pc, store

LEMMA StayType ==
    ASSUME TypeOK, NEW c \in Conns, Gate(c) \/ ReadNoise(c) \/ ReadAgain(c) \/ HangUp(c)
    PROVE  TypeOK'
<1>1. /\ \E l \in Pc : pc' = [pc EXCEPT ![c] = l]
      /\ UNCHANGED <<cur, buffer, acked, mainQ, router, partQ, worker, store, crashes>>
  BY DEF Gate, ReadNoise, ReadAgain, HangUp, Goto, Pc
<1>2. pc' \in [Conns -> Pc]
  BY <1>1 DEF TypeOK, Pc
<1> QED BY <1>1, <1>2 DEF TypeOK, Pc, store

LEMMA FunctionIsSeq ==
    ASSUME NEW n \in Nat, NEW S, NEW f \in [1..n -> S] PROVE f \in Seq(S) /\ Len(f) = n
<1>1. f \in Seq(S) BY SMT
<1>2. Len(f) = n BY SMT
<1> QED BY <1>1, <1>2

LEMMA ReadType == ASSUME TypeOK, NEW c \in Conns, NEW k \in 1..Burst, Read(c, k) PROVE TypeOK'
<1> DEFINE a == acked[DevOf[c]]
           b == [i \in 1..k |-> a + i]
<1>1. a \in 0..MaxPackets /\ a + k <= MaxPackets /\ k \in Nat /\ k <= Burst
  <2>1. DevOf[c] \in Devices /\ Burst \in Nat
    BY PipelineAssumption, Bounds
  <2>2. a \in 0..MaxPackets
    BY <2>1 DEF TypeOK
  <2> QED BY <2>1, <2>2 DEF Read
<1>2. b \in Seq(1..MaxPackets) /\ Len(b) = k
  <2>1. \A i \in 1..k : a + i \in 1..MaxPackets
    BY <1>1, Bounds
  <2>2. b \in [1..k -> 1..MaxPackets]
    BY <2>1
  <2> HIDE DEF a, b
  <2> QED BY <1>1, <2>2, FunctionIsSeq
<1>3. /\ buffer' = [buffer EXCEPT ![c] = b] /\ pc' = [pc EXCEPT ![c] = "handle"]
      /\ UNCHANGED <<cur, acked, mainQ, router, partQ, worker, store, crashes>>
  BY DEF Read, Goto
<1> HIDE DEF b
<1>4. buffer' \in [Conns -> Seq(1..MaxPackets)] /\ \A e \in Conns : Len(buffer'[e]) <= Burst
  BY <1>1, <1>2, <1>3 DEF TypeOK
<1>5. pc' \in [Conns -> Pc]
  BY <1>3 DEF TypeOK, Pc
<1> QED BY <1>3, <1>4, <1>5 DEF TypeOK, Pc, store

(* Taking the first packet out of a buffer.                                   *)
LEMMA ShiftType ==
    ASSUME TypeOK, NEW c \in Conns, buffer[c] # <<>>
    PROVE  /\ Head(buffer[c]) \in 1..MaxPackets
           /\ buffer' = [buffer EXCEPT ![c] = Tail(@)] =>
                 /\ buffer' \in [Conns -> Seq(1..MaxPackets)]
                 /\ \A e \in Conns : Len(buffer'[e]) <= Burst
<1>1. buffer[c] \in Seq(1..MaxPackets) /\ Len(buffer[c]) <= Burst
  BY DEF TypeOK
<1>2. /\ Head(buffer[c]) \in 1..MaxPackets /\ Tail(buffer[c]) \in Seq(1..MaxPackets)
      /\ Len(Tail(buffer[c])) <= Burst
  <2>1. Head(buffer[c]) \in 1..MaxPackets /\ Tail(buffer[c]) \in Seq(1..MaxPackets)
    BY <1>1, GetProperties
  <2>2. Len(Tail(buffer[c])) = Len(buffer[c]) - 1 /\ Len(buffer[c]) \in Nat
    BY <1>1, GetProperties
  <2> QED BY <1>1, <2>1, <2>2, Bounds
<1>3. ASSUME buffer' = [buffer EXCEPT ![c] = Tail(buffer[c])]
      PROVE  /\ buffer' \in [Conns -> Seq(1..MaxPackets)]
             /\ \A e \in Conns : Len(buffer'[e]) <= Burst
  BY <1>2, <1>3 DEF TypeOK
<1> QED BY <1>2, <1>3

LEMMA HandleType == ASSUME TypeOK, NEW c \in Conns, Handle(c) PROVE TypeOK'
<1> DEFINE d == DevOf[c]
           n == Head(buffer[c])
<1>1. d \in Devices /\ n \in 1..MaxPackets /\ n \in 0..MaxPackets
  BY PipelineAssumption, ShiftType DEF Handle
<1>2. acked' \in [Devices -> 0..MaxPackets]
  <2>1. acked' = [acked EXCEPT ![d] = n] \/ acked' = acked
    BY DEF Handle
  <2> QED BY <1>1, <2>1 DEF TypeOK
<1>3. pc' \in [Conns -> Pc]
  BY DEF Handle, Goto, TypeOK, Pc
<1>4. dropped' \in [Devices -> SUBSET (1..MaxPackets)]
  <2>1. dropped' = [dropped EXCEPT ![d] = @ \cup {n}] \/ dropped' = dropped
    BY DEF Handle
  <2>2. dropped \in [Devices -> SUBSET (1..MaxPackets)]
    BY DEF TypeOK
  <2> QED BY <1>1, <2>1, <2>2
<1>5. buffer' \in [Conns -> Seq(1..MaxPackets)] /\ \A e \in Conns : Len(buffer'[e]) <= Burst
  BY ShiftType DEF Handle, TypeOK
<1>6. UNCHANGED <<cur, mainQ, router, partQ, worker, saved, dlq, lost, crashes>>
  BY DEF Handle
<1> QED BY <1>2, <1>3, <1>4, <1>5, <1>6 DEF TypeOK, Pc

(* A put into db_queue.                                                       *)
LEMMA MainType ==
    ASSUME TypeOK, NEW i \in Item, mainQ' = Append(mainQ, i), Len(mainQ) < QueueMax
    PROVE  mainQ' \in Seq(Item) /\ Len(mainQ') <= QueueMax
<1>1. mainQ \in Seq(Item) /\ Len(mainQ) \in Nat
  BY DEF TypeOK
<1> QED BY <1>1, PutProperties, Bounds

LEMMA PutType ==
    ASSUME TypeOK, NEW c \in Conns, At(c, "put") => buffer[c] # <<>>,
           Put(c) \/ PutNotice(c) \/ Evict(c)
    PROVE  TypeOK'
<1>1. DevOf[c] \in Devices
  BY PipelineAssumption
<1>2. \E i \in Item : mainQ' = Append(mainQ, i) /\ Len(mainQ) < QueueMax
  <2>1. CASE Put(c)
    BY <1>1, <2>1, ShiftType, ItemProperties DEF Put
  <2>2. CASE PutNotice(c) \/ Evict(c)
    BY <1>1, <2>2, ItemProperties DEF PutNotice, Evict
  <2> QED BY <2>1, <2>2
<1>3. mainQ' \in Seq(Item) /\ Len(mainQ') <= QueueMax
  BY <1>2, MainType
<1>4. pc' \in [Conns -> Pc]
  BY DEF Put, PutNotice, Evict, Goto, TypeOK, Pc
<1>5. cur' \in [Devices -> Conns]
  BY <1>1 DEF Put, PutNotice, Evict, TypeOK
<1>6. buffer' \in [Conns -> Seq(1..MaxPackets)] /\ \A e \in Conns : Len(buffer'[e]) <= Burst
  <2>1. CASE buffer' = buffer
    BY <2>1 DEF TypeOK
  <2>2. CASE buffer' = [buffer EXCEPT ![c] = <<>>]
    <3>1. <<>> \in Seq(1..MaxPackets) /\ Len(<<>>) <= Burst
      BY Bounds
    <3> QED BY <2>2, <3>1 DEF TypeOK
  <2>3. CASE At(c, "put") /\ buffer' = [buffer EXCEPT ![c] = Tail(@)]
    BY <2>3, ShiftType
  <2> QED BY <2>1, <2>2, <2>3 DEF Put, PutNotice, Evict
<1>7. UNCHANGED <<acked, router, partQ, worker, store, crashes>>
  BY DEF Put, PutNotice, Evict
<1> QED BY <1>3, <1>4, <1>5, <1>6, <1>7 DEF TypeOK, Pc, store

(* The router and the workers.                                                *)
LEMMA RouterType == ASSUME TypeOK, RouterTake \/ RouterPass PROVE TypeOK'
<1>1. CASE RouterTake
  <2>1. /\ Head(mainQ) \in Item /\ Tail(mainQ) \in Seq(Item)
        /\ Len(Tail(mainQ)) = Len(mainQ) - 1 /\ Len(mainQ) \in Nat
    BY <1>1, GetProperties DEF RouterTake, TypeOK
  <2>2. /\ mainQ' = Tail(mainQ) /\ router' = {Head(mainQ)}
        /\ UNCHANGED <<cur, pc, buffer, acked, partQ, worker, store, crashes>>
    BY <1>1 DEF RouterTake, conns
  <2>3. mainQ' \in Seq(Item) /\ Len(mainQ') <= QueueMax /\ router' \in {{}} \cup {{i} : i \in Item}
    <3>1. Len(mainQ) <= QueueMax /\ QueueMax \in Nat
      BY Bounds DEF TypeOK
    <3>2. Len(mainQ') <= QueueMax
      BY <2>1, <2>2, <3>1
    <3> QED BY <2>1, <2>2, <3>2
  <2> QED BY <2>2, <2>3 DEF TypeOK, store
<1>2. ASSUME NEW i \in router, Len(partQ[Route(i)]) < PartMax,
             partQ' = [partQ EXCEPT ![Route(i)] = Append(partQ[Route(i)], i)], router' = {},
             UNCHANGED <<conns, mainQ, worker, store, crashes>>
      PROVE  TypeOK'
  <2>1. i \in Item /\ Route(i) \in Partitions
    BY ItemProperties DEF TypeOK
  <2>2. partQ[Route(i)] \in Seq(Item) /\ Len(partQ[Route(i)]) \in Nat
    BY <2>1 DEF TypeOK
  <2>3. /\ Append(partQ[Route(i)], i) \in Seq(Item)
        /\ Len(Append(partQ[Route(i)], i)) = Len(partQ[Route(i)]) + 1
    BY <2>1, <2>2, PutProperties
  <2>4. Len(Append(partQ[Route(i)], i)) <= PartMax
    BY <1>2, <2>2, <2>3, Bounds
  <2>5. partQ' \in [Partitions -> Seq(Item)] /\ \A p \in Partitions : Len(partQ'[p]) <= PartMax
    BY <1>2, <2>1, <2>3, <2>4 DEF TypeOK
  <2> QED BY <1>2, <2>5 DEF TypeOK, conns, store
<1> QED BY <1>1, <1>2 DEF RouterPass

(* A packet added to a set of packets by device.                              *)
LEMMA WithType ==
    ASSUME NEW s \in PacketSets, NEW i \in Item, i.kind = "data"
    PROVE  /\ With(s, i) \in PacketSets /\ s[i.dev] \cup {i.n} = With(s, i)[i.dev]
           /\ \A d \in Devices \ {i.dev} : With(s, i)[d] = s[d]
<1>1. i.dev \in Devices /\ i.n \in 1..MaxPackets
  BY ItemProperties
<1> QED BY <1>1 DEF With, PacketSets

(* What a worker has to save or to write is a packet.                         *)
DataOnly == \A p \in Partitions : worker[p].at \in {"save", "dlq"} => worker[p].item.kind = "data"

(* A step of a worker, as far as its own state goes.                          *)
WorkerMoves(p) ==
    \E w \in Worker : /\ worker' = [worker EXCEPT ![p] = w]
                      /\ w.at \in {"save", "dlq"} => w.item.kind = "data"

LEMMA WorkerKeeps ==
    ASSUME TypeOK, DataOnly, NEW p \in Partitions, WorkerStep(p) PROVE WorkerMoves(p)
<1>1. worker[p] \in Worker
  BY DEF TypeOK
<1>2. ASSUME NEW l \in {"start", "dead", "idle"}, worker' = [worker EXCEPT ![p] = Idle(l)]
      PROVE  WorkerMoves(p)
  BY <1>2, WorkerTypes DEF WorkerMoves, Idle
<1>3. CASE WorkerStart(p) \/ Supervise(p) \/ WriteDLQ(p) \/ WorkerSave(p)
  BY <1>2, <1>3 DEF WorkerStart, Supervise, WriteDLQ, WorkerSave
<1>4. CASE WorkerTake(p)
  <2> DEFINE i == Head(partQ[p])
  <2>1. i \in Item
    BY <1>4, GetProperties DEF WorkerTake, TypeOK
  <2>2. CASE i.kind = "data"
    <3>1. [at |-> "save", item |-> i, attempt |-> 1] \in Worker
      <4>1. 1 \in 1..MaxRetries
        BY DEF MaxRetries
      <4> QED BY <2>1, <4>1, WorkerTypes
    <3> QED BY <1>4, <2>2, <3>1 DEF WorkerTake, WorkerMoves
  <2>3. CASE i.kind # "data"
    BY <1>2, <1>4, <2>3 DEF WorkerTake
  <2> QED BY <2>2, <2>3
<1>5. CASE WorkerFails(p)
  <2> DEFINE w == worker[p]
  <2>1. w.at = "save" /\ w.item.kind = "data"
    BY <1>5 DEF WorkerFails, DataOnly
  <2>2. CASE w.attempt < MaxRetries
    <3>1. [w EXCEPT !.attempt = w.attempt + 1] \in Worker
      BY <1>1, <2>1, <2>2, WorkerTypes
    <3>2. [w EXCEPT !.attempt = w.attempt + 1].item = w.item
      BY <1>1, <2>1 DEF Worker
    <3>3. worker' = [worker EXCEPT ![p] = [w EXCEPT !.attempt = w.attempt + 1]]
      BY <1>5, <2>2 DEF WorkerFails
    <3> QED BY <2>1, <3>1, <3>2, <3>3 DEF WorkerMoves
  <2>3. CASE ~(w.attempt < MaxRetries)
    <3>1. [w EXCEPT !.at = "dlq"] \in Worker
      BY <1>1, <2>1, WorkerTypes
    <3>2. [w EXCEPT !.at = "dlq"].item = w.item
      BY <1>1, <2>1 DEF Worker
    <3>3. worker' = [worker EXCEPT ![p] = [w EXCEPT !.at = "dlq"]]
      BY <1>5, <2>3 DEF WorkerFails
    <3> QED BY <2>1, <3>1, <3>2, <3>3 DEF WorkerMoves
  <2> QED BY <2>2, <2>3
<1> QED BY <1>3, <1>4, <1>5 DEF WorkerStep

LEMMA WorkerType ==
    ASSUME TypeOK, DataOnly, NEW p \in Partitions, WorkerStep(p) PROVE TypeOK' /\ DataOnly'
<1>1. PICK w \in Worker : /\ worker' = [worker EXCEPT ![p] = w]
                          /\ w.at \in {"save", "dlq"} => w.item.kind = "data"
  BY WorkerKeeps DEF WorkerMoves
<1>2. worker' \in [Partitions -> Worker] /\ DataOnly'
  BY <1>1 DEF TypeOK, DataOnly
<1>3. partQ' \in [Partitions -> Seq(Item)] /\ \A q \in Partitions : Len(partQ'[q]) <= PartMax
  <2>1. CASE partQ' = partQ
    BY <2>1 DEF TypeOK
  <2>2. CASE partQ[p] # <<>> /\ partQ' = [partQ EXCEPT ![p] = Tail(partQ[p])]
    <3>1. partQ[p] \in Seq(Item) /\ Len(partQ[p]) \in Nat /\ Len(partQ[p]) <= PartMax
      BY DEF TypeOK
    <3>2. Tail(partQ[p]) \in Seq(Item) /\ Len(Tail(partQ[p])) = Len(partQ[p]) - 1
      BY <2>2, <3>1, GetProperties
    <3>3. Len(Tail(partQ[p])) <= PartMax
      BY <3>1, <3>2, Bounds
    <3> QED BY <2>2, <3>2, <3>3 DEF TypeOK
  <2> QED BY <2>1, <2>2 DEF WorkerStep, WorkerStart, Supervise, WorkerTake, WriteDLQ, WorkerSave,
                            WorkerFails
<1>4. saved' \in PacketSets /\ dlq' \in PacketSets /\ lost' \in PacketSets /\ dropped' \in PacketSets
  <2> DEFINE i == worker[p].item
  <2>1. saved \in PacketSets /\ dlq \in PacketSets /\ lost \in PacketSets /\ dropped \in PacketSets
    BY DEF TypeOK, PacketSets
  <2>2. worker[p].at \in {"save", "dlq"} => i \in Item /\ i.kind = "data"
    BY WorkerTypes DEF TypeOK, DataOnly
  <2>3. /\ saved' = saved \/ (worker[p].at = "save" /\ saved' = With(saved, i))
        /\ dlq' = dlq \/ (worker[p].at = "dlq" /\ dlq' = With(dlq, i))
        /\ lost' = lost \/ (worker[p].at \in {"save", "dlq"} /\ lost' = With(lost, i))
        /\ dropped' = dropped \/ (worker[p].at = "save" /\ dropped' = With(dropped, i))
    BY DEF WorkerStep, WorkerStart, Supervise, WorkerTake, WriteDLQ, WorkerSave, WorkerFails,
           Saved, store
  <2> QED BY <2>1, <2>2, <2>3, WithType
<1>5. UNCHANGED <<conns, mainQ, router, crashes>>
  BY DEF WorkerStep, WorkerStart, Supervise, WorkerTake, WriteDLQ, WorkerSave, WorkerFails
<1> QED BY <1>2, <1>3, <1>4, <1>5 DEF TypeOK, PacketSets, conns

LEMMA CrashType == ASSUME TypeOK, Crash PROVE TypeOK' /\ DataOnly'
<1>1. pc' \in [Conns -> Pc]
  BY DEF Crash, TypeOK, Pc
<1>2. <<>> \in Seq(1..MaxPackets) /\ <<>> \in Seq(Item) /\ Len(<<>>) = 0
  OBVIOUS
<1>3. buffer' \in [Conns -> Seq(1..MaxPackets)] /\ \A c \in Conns : Len(buffer'[c]) <= Burst
  BY <1>2, Bounds DEF Crash
<1>4. partQ' \in [Partitions -> Seq(Item)] /\ \A p \in Partitions : Len(partQ'[p]) <= PartMax
  BY <1>2, Bounds DEF Crash
<1>5. mainQ' \in Seq(Item) /\ Len(mainQ') <= QueueMax /\ router' = {}
  BY <1>2, Bounds DEF Crash
<1>6. worker' \in [Partitions -> Worker] /\ \A p \in Partitions : worker'[p].at = "start"
  BY WorkerTypes DEF Crash, Idle
<1>7. lost' \in PacketSets
  <2>1. \A d \in Devices : lost[d] \in SUBSET (1..MaxPackets) /\ InFlight(d) \in SUBSET (1..MaxPackets)
    BY DEF TypeOK, InFlight
  <2> QED BY <2>1 DEF Crash, PacketSets
<1>8. crashes' \in 0..MaxCrashes
  BY Bounds DEF Crash, TypeOK
<1>9. UNCHANGED <<cur, acked, saved, dlq, dropped>>
  BY DEF Crash
<1> QED BY <1>1, <1>3, <1>4, <1>5, <1>6, <1>7, <1>8, <1>9 DEF TypeOK, DataOnly, Pc, PacketSets

(* A connection that is about to put a packet has one.                        *)
PutHas == \A c \in Conns : At(c, "put") => buffer[c] # <<>>

LEMMA ConnTypes ==
    ASSUME TypeOK, PutHas, DataOnly, NEW c \in Conns,
           \/ Connect(c) \/ ConnStep(c) \/ HangUp(c) \/ ReadNoise(c)
           \/ \E k \in 1..Burst : Read(c, k)
    PROVE  TypeOK' /\ PutHas' /\ DataOnly'
<1>1. TypeOK'
  BY ConnectType, StayType, ReadType, HandleType, PutType DEF ConnStep, PutHas
<1>2. worker' = worker
  BY DEF Connect, ConnStep, HangUp, ReadNoise, Read, Gate, Handle, ReadAgain, Put, PutNotice, Evict
<1>3. \A e \in Conns \ {c} : buffer'[e] = buffer[e] /\ pc'[e] = pc[e]
  BY DEF Connect, ConnStep, HangUp, ReadNoise, Read, Gate, Handle, ReadAgain, Put, PutNotice,
         Evict, Goto, TypeOK
<1>4. pc'[c] = "put" => buffer'[c] # <<>>
  <2>1. CASE Handle(c)
    BY <2>1 DEF Handle, Goto, At, TypeOK
  <2>2. CASE ~Handle(c)
    BY <2>2 DEF Connect, ConnStep, HangUp, ReadNoise, Read, Gate, ReadAgain, Put, PutNotice,
                Evict, Goto, TypeOK
  <2> QED BY <2>1, <2>2
<1>5. PutHas'
  BY <1>3, <1>4 DEF PutHas, At
<1> QED BY <1>1, <1>2, <1>5 DEF DataOnly

Typed == TypeOK /\ PutHas /\ DataOnly

LEMMA InitTyped == Init => Typed
BY InitType DEF Init, Typed, PutHas, DataOnly, At, Idle

LEMMA StepTyped == Typed /\ [Next]_vars => Typed'
<1> SUFFICES ASSUME Typed, [Next]_vars PROVE Typed'
  OBVIOUS
<1>1. ASSUME NEW c \in Conns,
             \/ Connect(c) \/ ConnStep(c) \/ HangUp(c) \/ ReadNoise(c)
             \/ \E k \in 1..Burst : Read(c, k)
      PROVE  Typed'
  BY <1>1, ConnTypes DEF Typed
<1>2. CASE RouterTake \/ RouterPass
  <2>1. UNCHANGED <<pc, buffer, worker>>
    BY <1>2 DEF RouterTake, RouterPass, conns
  <2> QED BY <1>2, <2>1, RouterType DEF Typed, PutHas, DataOnly, At
<1>3. ASSUME NEW p \in Partitions, WorkerStep(p) PROVE Typed'
  <2>1. UNCHANGED <<pc, buffer>>
    BY <1>3 DEF WorkerStep, WorkerStart, Supervise, WorkerTake, WriteDLQ, WorkerSave, WorkerFails,
                conns
  <2> QED BY <1>3, <2>1, WorkerType DEF Typed, PutHas, At
<1>4. CASE Crash
  <2>1. \A c \in Conns : pc'[c] # "put"
    BY <1>4 DEF Crash, At
  <2> QED BY <1>4, <2>1, CrashType DEF Typed, PutHas, At
<1>5. CASE UNCHANGED vars
  BY <1>5 DEF vars, conns, store, Typed, TypeOK, PutHas, DataOnly, At
<1> QED BY <1>1, <1>2, <1>3, <1>4, <1>5 DEF Next

(* Every variable of the pipeline keeps its type, and no queue outgrows its   *)
(* capacity, whatever is put, retried or lost: ingestion/main.py.             *)
THEOREM TypeCorrect == Spec => []TypeOK
<1>1. Typed => TypeOK
  BY DEF Typed
<1> QED BY <1>1, InitTyped, StepTyped, PTL DEF Spec

-----------------------------------------------------------------------------
(* No acknowledged packet is lost.                                            *)

(* What the connection in use has read and not passed on are the packets that *)
(* follow those acknowledged; the one it is about to put is the last of them. *)
BufferFollows ==
    \A c \in Conns :
        /\ pc[c] \in {"off", "evict", "gate", "read", "alert", "gone"} => buffer[c] = <<>>
        /\ cur[DevOf[c]] = c =>
              /\ pc[c] = "close" => buffer[c] = <<>>
              /\ pc[c] = "handle" =>
                    \A i \in DOMAIN buffer[c] : buffer[c][i] = acked[DevOf[c]] + i
              /\ pc[c] = "put" =>
                    \A i \in DOMAIN buffer[c] : buffer[c][i] = acked[DevOf[c]] + i - 1

Kept(d) == InFlight(d) \cup Settled(d) \cup lost[d]

LossInv == Typed /\ BufferFollows /\ ZeroPacketLoss

(* A packet is in flight if a connection is about to put it, in a queue, with *)
(* the router, or with a worker.                                              *)
LEMMA FlightIs ==
    ASSUME NEW d \in Devices, NEW n \in 1..MaxPackets
    PROVE  n \in InFlight(d) <=>
              \/ \E c \in Conns : At(c, "put") /\ DevOf[c] = d /\ Head(buffer[c]) = n
              \/ Packet(d, n) \in SetOf(mainQ) \/ Packet(d, n) \in router
              \/ \E p \in Partitions : Packet(d, n) \in SetOf(partQ[p])
              \/ \E p \in Partitions : worker[p].item = Packet(d, n)
BY DEF InFlight

LEMMA KeptIsPacket == ASSUME TypeOK, NEW d \in Devices, NEW n \in Kept(d) PROVE n \in 1..MaxPackets
<1>1. /\ saved[d] \subseteq 1..MaxPackets /\ dlq[d] \subseteq 1..MaxPackets
      /\ dropped[d] \subseteq 1..MaxPackets /\ lost[d] \subseteq 1..MaxPackets
  BY DEF TypeOK
<1> QED BY <1>1 DEF Kept, Settled, InFlight

(* The other places where a packet is, that a connection's step leaves alone. *)
LEMMA ConnKeeps ==
    ASSUME Typed, NEW c \in Conns, NEW d \in Devices, NEW n \in Kept(d),
           \/ Connect(c) \/ ConnStep(c) \/ HangUp(c) \/ ReadNoise(c)
           \/ \E k \in 1..Burst : Read(c, k)
    PROVE  n \in Kept(d)'
<1>1. n \in 1..MaxPackets /\ TypeOK /\ PutHas
  BY KeptIsPacket DEF Typed
<1>2. UNCHANGED <<router, partQ, worker, saved, dlq, lost>>
  BY DEF Connect, ConnStep, HangUp, ReadNoise, Read, Gate, Handle, ReadAgain, Put, PutNotice,
         Evict, store
<1>3. \A e \in Conns \ {c} : buffer'[e] = buffer[e] /\ pc'[e] = pc[e]
  BY <1>1 DEF Connect, ConnStep, HangUp, ReadNoise, Read, Gate, Handle, ReadAgain, Put, PutNotice,
              Evict, Goto, TypeOK
<1>4. Packet(d, n) \in SetOf(mainQ) => Packet(d, n) \in SetOf(mainQ)'
  <2>1. mainQ' = mainQ \/ \E i \in Item : mainQ' = Append(mainQ, i)
    <3>1. DevOf[c] \in Devices
      BY PipelineAssumption
    <3>2. CASE Put(c)
      BY <1>1, <3>1, <3>2, ShiftType, ItemProperties DEF Put, PutHas
    <3>3. CASE PutNotice(c) \/ Evict(c)
      BY <3>1, <3>3, ItemProperties DEF PutNotice, Evict
    <3>4. CASE ~(Put(c) \/ PutNotice(c) \/ Evict(c))
      BY <3>4 DEF Connect, ConnStep, HangUp, ReadNoise, Read, Gate, Handle, ReadAgain
    <3> QED BY <3>2, <3>3, <3>4
  <2>2. mainQ \in Seq(Item)
    BY <1>1 DEF TypeOK
  <2>3. SetOf(mainQ) \subseteq SetOf(mainQ')
    <3>1. ASSUME NEW i \in Item, mainQ' = Append(mainQ, i)
          PROVE  SetOf(mainQ) \subseteq SetOf(mainQ')
      <4>1. SetOf(Append(mainQ, i)) = SetOf(mainQ) \cup {i}
        BY <2>2, <3>1, PutProperties
      <4> QED BY <3>1, <4>1
    <3> QED BY <2>1, <3>1
  <2> QED BY <2>3 DEF SetOf
<1>5. dropped[d] \subseteq dropped'[d]
  <2>1. dropped' = dropped \/ dropped' = [dropped EXCEPT ![DevOf[c]] = @ \cup {Head(buffer[c])}]
    BY DEF Connect, ConnStep, HangUp, ReadNoise, Read, Gate, Handle, ReadAgain, Put, PutNotice,
           Evict, store
  <2>2. dropped \in PacketSets
    BY <1>1 DEF TypeOK, PacketSets
  <2> QED BY <2>1, <2>2 DEF PacketSets
<1>6. ASSUME NEW e \in Conns, At(e, "put"), DevOf[e] = d, Head(buffer[e]) = n
      PROVE  n \in InFlight(d)'
  <2>1. CASE e # c
    <3>1. pc'[e] = "put" /\ buffer'[e] = buffer[e]
      BY <1>3, <1>6, <2>1 DEF At
    <3> QED BY <1>1, <1>6, <3>1 DEF InFlight, At
  <2>2. CASE e = c
    <3>1. Put(c)
      BY <1>6, <2>2 DEF Connect, ConnStep, HangUp, ReadNoise, Read, Gate, Handle, ReadAgain,
                        PutNotice, Evict, At
    <3>2. Packet(d, n) \in Item /\ mainQ' = Append(mainQ, Packet(d, n))
      BY <1>1, <1>6, <2>2, <3>1, ItemProperties DEF Put
    <3>3. Packet(d, n) \in SetOf(mainQ')
      <4>1. mainQ \in Seq(Item)
        BY <1>1 DEF TypeOK
      <4>2. SetOf(mainQ') = SetOf(mainQ) \cup {Packet(d, n)}
        BY <3>2, <4>1, PutProperties
      <4> QED BY <4>2
    <3> QED BY <1>1, <3>3 DEF InFlight, SetOf
  <2> QED BY <2>1, <2>2
<1>7. n \in InFlight(d) => n \in InFlight(d)'
  <2>1. Packet(d, n) \in SetOf(mainQ) => n \in InFlight(d)'
    BY <1>1, <1>4 DEF InFlight
  <2>2. ASSUME \/ Packet(d, n) \in router \/ \E p \in Partitions : Packet(d, n) \in SetOf(partQ[p])
               \/ \E p \in Partitions : worker[p].item = Packet(d, n)
        PROVE  n \in InFlight(d)'
    BY <1>1, <1>2, <2>2 DEF InFlight
  <2> QED BY <1>1, <1>6, <2>1, <2>2, FlightIs
<1>8. n \in Settled(d) \cup lost[d] => n \in Kept(d)'
  BY <1>2, <1>5 DEF Settled, Kept
<1> QED BY <1>7, <1>8 DEF Kept

LEMMA RouterKeeps ==
    ASSUME Typed, NEW d \in Devices, NEW n \in Kept(d), RouterTake \/ RouterPass
    PROVE  n \in Kept(d)'
<1>1. n \in 1..MaxPackets /\ TypeOK
  BY KeptIsPacket DEF Typed
<1>2. UNCHANGED <<pc, buffer, worker, saved, dlq, dropped, lost>>
  BY DEF RouterTake, RouterPass, conns, store
<1>3. n \in Settled(d) \cup lost[d] => n \in Kept(d)'
  BY <1>2 DEF Settled, Kept
<1>4. ASSUME \/ \E c \in Conns : At(c, "put") /\ DevOf[c] = d /\ Head(buffer[c]) = n
             \/ \E p \in Partitions : worker[p].item = Packet(d, n)
      PROVE  n \in InFlight(d)'
  BY <1>1, <1>2, <1>4 DEF InFlight, At
<1>5. CASE RouterTake
  <2>1. SetOf(mainQ) = SetOf(Tail(mainQ)) \cup {Head(mainQ)}
    BY <1>1, <1>5, GetProperties DEF RouterTake, TypeOK
  <2>2. /\ router = {} /\ router' = {Head(mainQ)} /\ mainQ' = Tail(mainQ) /\ partQ' = partQ
    BY <1>5 DEF RouterTake
  <2>3. Packet(d, n) \in SetOf(mainQ) => Packet(d, n) \in SetOf(mainQ)' \cup router'
    BY <2>1, <2>2
  <2>4. Packet(d, n) \in SetOf(mainQ) => n \in InFlight(d)'
    BY <1>1, <2>3 DEF InFlight
  <2>5. (\E p \in Partitions : Packet(d, n) \in SetOf(partQ[p])) => n \in InFlight(d)'
    BY <1>1, <2>2 DEF InFlight
  <2> QED BY <1>1, <1>3, <1>4, <2>2, <2>4, <2>5, FlightIs DEF Kept
<1>6. CASE RouterPass
  <2>1. PICK i \in router : /\ partQ' = [partQ EXCEPT ![Route(i)] = Append(partQ[Route(i)], i)]
                            /\ mainQ' = mainQ
    BY <1>6 DEF RouterPass
  <2>2. router = {i} /\ i \in Item /\ Route(i) \in Partitions
    BY <1>1, ItemProperties DEF TypeOK
  <2>3. partQ[Route(i)] \in Seq(Item) /\ partQ \in [Partitions -> Seq(Item)]
    BY <1>1, <2>2 DEF TypeOK
  <2> DEFINE r == Route(i)
  <2>9. partQ'[r] = Append(partQ[r], i)
    BY <2>1, <2>2, <2>3
  <2>10. SetOf(partQ'[r]) = SetOf(partQ[r]) \cup {i}
    BY <2>2, <2>3, <2>9, PutProperties
  <2>4. \A p \in Partitions : SetOf(partQ[p]) \subseteq SetOf(partQ'[p])
    <3> SUFFICES ASSUME NEW p \in Partitions PROVE SetOf(partQ[p]) \subseteq SetOf(partQ'[p])
      OBVIOUS
    <3>1. CASE p = Route(i)
      BY <2>10, <3>1
    <3>2. CASE p # Route(i)
      BY <2>1, <2>3, <3>2
    <3> QED BY <3>1, <3>2
  <2>5. i \in SetOf(partQ'[Route(i)])
    BY <2>10
  <2>6. Packet(d, n) \in router => n \in InFlight(d)'
    BY <1>1, <2>2, <2>5 DEF InFlight, SetOf
  <2>7. (\E p \in Partitions : Packet(d, n) \in SetOf(partQ[p])) => n \in InFlight(d)'
    <3> SUFFICES ASSUME NEW p \in Partitions, Packet(d, n) \in SetOf(partQ[p])
                 PROVE  n \in InFlight(d)'
      OBVIOUS
    <3>1. Packet(d, n) \in SetOf(partQ'[p])
      BY <2>4
    <3> QED BY <1>1, <3>1 DEF InFlight, SetOf
  <2>8. Packet(d, n) \in SetOf(mainQ) => n \in InFlight(d)'
    BY <1>1, <2>1 DEF InFlight
  <2> QED BY <1>1, <1>3, <1>4, <2>6, <2>7, <2>8, FlightIs DEF Kept
<1> QED BY <1>5, <1>6

LEMMA WorkerStepKeeps ==
    ASSUME Typed, NEW p \in Partitions, NEW d \in Devices, NEW n \in Kept(d), WorkerStep(p)
    PROVE  n \in Kept(d)'
<1> DEFINE i == worker[p].item
<1>1. n \in 1..MaxPackets /\ TypeOK /\ DataOnly /\ worker[p] \in Worker
  BY KeptIsPacket DEF Typed, TypeOK
<1>2. UNCHANGED <<pc, buffer, mainQ, router>>
  BY DEF WorkerStep, WorkerStart, Supervise, WorkerTake, WriteDLQ, WorkerSave, WorkerFails, conns
<1>3. worker[p].at \in {"save", "dlq"} => i \in Item /\ i.kind = "data"
  BY <1>1, WorkerTypes DEF DataOnly
<1>4. saved \in PacketSets /\ dlq \in PacketSets /\ lost \in PacketSets /\ dropped \in PacketSets
  BY <1>1 DEF TypeOK, PacketSets
<1>5. /\ saved[d] \subseteq saved'[d] /\ dlq[d] \subseteq dlq'[d]
      /\ lost[d] \subseteq lost'[d] /\ dropped[d] \subseteq dropped'[d]
  <2>1. /\ saved' = saved \/ (worker[p].at = "save" /\ saved' = With(saved, i))
        /\ dlq' = dlq \/ (worker[p].at = "dlq" /\ dlq' = With(dlq, i))
        /\ lost' = lost \/ (worker[p].at \in {"save", "dlq"} /\ lost' = With(lost, i))
        /\ dropped' = dropped \/ (worker[p].at = "save" /\ dropped' = With(dropped, i))
    BY DEF WorkerStep, WorkerStart, Supervise, WorkerTake, WriteDLQ, WorkerSave, WorkerFails,
           Saved, store
  <2>2. \A s \in PacketSets : worker[p].at \in {"save", "dlq"} => s[d] \subseteq With(s, i)[d]
    BY <1>3, WithType
  <2> QED BY <1>4, <2>1, <2>2
<1>6. n \in Settled(d) \cup lost[d] => n \in Kept(d)'
  BY <1>2, <1>5 DEF Settled, Kept
<1>7. ASSUME \/ \E c \in Conns : At(c, "put") /\ DevOf[c] = d /\ Head(buffer[c]) = n
             \/ Packet(d, n) \in SetOf(mainQ)
             \/ Packet(d, n) \in router
      PROVE  n \in InFlight(d)'
  BY <1>1, <1>2, <1>7 DEF InFlight, At
<1>8. \A q \in Partitions \ {p} : worker'[q] = worker[q] /\ partQ'[q] = partQ[q]
  BY <1>1 DEF WorkerStep, WorkerStart, Supervise, WorkerTake, WriteDLQ, WorkerSave, WorkerFails,
              TypeOK
(* What the worker's own queue and hands held.                                *)
<1>9. ASSUME Packet(d, n) \in SetOf(partQ[p]) PROVE n \in InFlight(d)'
  <2>1. CASE WorkerTake(p)
    <3>1. SetOf(partQ[p]) = SetOf(Tail(partQ[p])) \cup {Head(partQ[p])}
      BY <1>1, <2>1, GetProperties DEF WorkerTake, TypeOK
    <3>2. partQ'[p] = Tail(partQ[p])
      BY <1>1, <2>1 DEF WorkerTake, TypeOK
    <3>3. CASE Packet(d, n) = Head(partQ[p])
      <4>1. Head(partQ[p]).kind = "data"
        BY <1>1, <3>3, ItemProperties
      <4>2. worker'[p] = [at |-> "save", item |-> Packet(d, n), attempt |-> 1]
        BY <1>1, <2>1, <3>3, <4>1 DEF WorkerTake, TypeOK
      <4>3. worker'[p].item = Packet(d, n)
        BY <4>2
      <4> QED BY <1>1, <4>3 DEF InFlight
    <3>4. CASE Packet(d, n) \in SetOf(partQ'[p])
      BY <1>1, <3>4 DEF InFlight, SetOf
    <3> QED BY <1>9, <3>1, <3>2, <3>3, <3>4
  <2>2. CASE ~WorkerTake(p)
    <3>1. partQ' = partQ
      BY <2>2 DEF WorkerStep, WorkerStart, Supervise, WriteDLQ, WorkerSave, WorkerFails
    <3> QED BY <1>1, <1>9, <3>1 DEF InFlight
  <2> QED BY <2>1, <2>2
<1>10. ASSUME i = Packet(d, n) PROVE n \in Kept(d)'
  <2>1. worker[p].at \in {"save", "dlq"} /\ i.dev = d /\ i.n = n
    <3>1. i # <<>>
      BY <1>1, <1>10, ItemProperties
    <3>2. worker[p].at \in {"save", "dlq"}
      BY <1>1, <1>10, <3>1, WorkerTypes
    <3>3. Packet(d, n).dev = d /\ Packet(d, n).n = n
      BY DEF Packet
    <3> QED BY <1>10, <3>2, <3>3
  <2>2. CASE WorkerSave(p)
    <3>1. saved' = With(saved, i) \/ dropped' = With(dropped, i) \/ lost' = With(lost, i)
      BY <2>2 DEF WorkerSave, Saved
    <3>2. \A s \in PacketSets : n \in With(s, i)[d]
      BY <1>3, <2>1, WithType
    <3>3. n \in saved'[d] \/ n \in dropped'[d] \/ n \in lost'[d]
      BY <1>4, <3>1, <3>2
    <3> QED BY <3>3 DEF Kept, Settled
  <2>3. CASE WriteDLQ(p)
    <3>1. dlq' = With(dlq, i) \/ lost' = With(lost, i)
      BY <2>3 DEF WriteDLQ
    <3>2. \A s \in PacketSets : n \in With(s, i)[d]
      BY <1>3, <2>1, WithType
    <3>3. n \in dlq'[d] \/ n \in lost'[d]
      BY <1>4, <3>1, <3>2
    <3> QED BY <3>3 DEF Kept, Settled
  <2>4. CASE WorkerFails(p)
    <3>1. /\ worker' = [worker EXCEPT ![p].attempt = @ + 1] \/ worker' = [worker EXCEPT ![p].at = "dlq"]
          /\ worker[p].at = "save"
      BY <2>4 DEF WorkerFails
    <3>2. worker[p] \in [at : {"save", "dlq"}, item : Item, attempt : 1..MaxRetries]
      BY <1>1, <3>1 DEF Worker
    <3>3. worker'[p].item = i
      BY <1>1, <3>1, <3>2 DEF TypeOK
    <3>4. n \in InFlight(d)'
      BY <1>1, <1>10, <3>3 DEF InFlight
    <3> QED BY <3>4 DEF Kept
  <2> QED BY <2>1, <2>2, <2>3, <2>4 DEF WorkerStep, WorkerStart, Supervise, WorkerTake
<1>11. ASSUME NEW q \in Partitions \ {p},
              Packet(d, n) \in SetOf(partQ[q]) \/ worker[q].item = Packet(d, n)
       PROVE  n \in InFlight(d)'
  <2>1. worker'[q] = worker[q] /\ SetOf(partQ'[q]) = SetOf(partQ[q])
    BY <1>8
  <2> QED BY <1>1, <1>11, <2>1 DEF InFlight, SetOf
<1>12. n \in InFlight(d) => n \in Kept(d)'
  BY <1>1, <1>7, <1>9, <1>10, <1>11, FlightIs DEF Kept
<1> QED BY <1>6, <1>12 DEF Kept

LEMMA CrashKeeps ==
    ASSUME Typed, NEW d \in Devices, NEW n \in Kept(d), Crash PROVE n \in Kept(d)'
<1>1. lost'[d] = lost[d] \cup InFlight(d) /\ UNCHANGED <<saved, dlq, dropped>>
  BY DEF Crash
<1> QED BY <1>1 DEF Kept, Settled

LEMMA StepKeeps ==
    ASSUME Typed, [Next]_vars, NEW d \in Devices, NEW n \in Kept(d) PROVE n \in Kept(d)'
<1>1. CASE UNCHANGED vars
  <2>1. UNCHANGED <<pc, buffer, mainQ, router, partQ, worker, saved, dlq, dropped, lost>>
    BY <1>1 DEF vars, conns, store
  <2> QED BY <2>1 DEF Kept, Settled, InFlight, At
<1>2. CASE Next
  BY <1>2, ConnKeeps, RouterKeeps, WorkerStepKeeps, CrashKeeps DEF Next
<1> QED BY <1>1, <1>2

(* BufferFollows for one connection.                                          *)
Follows(c) ==
    /\ pc[c] \in {"off", "evict", "gate", "read", "alert", "gone"} => buffer[c] = <<>>
    /\ cur[DevOf[c]] = c =>
          /\ pc[c] = "close" => buffer[c] = <<>>
          /\ pc[c] = "handle" =>
                \A i \in DOMAIN buffer[c] : buffer[c][i] = acked[DevOf[c]] + i
          /\ pc[c] = "put" =>
                \A i \in DOMAIN buffer[c] : buffer[c][i] = acked[DevOf[c]] + i - 1

LEMMA HandleFollows ==
    ASSUME Typed, NEW c \in Conns, Follows(c), Handle(c)
    PROVE  /\ Follows(c)'
           /\ acked'[DevOf[c]] # acked[DevOf[c]] =>
                 /\ cur[DevOf[c]] = c /\ acked'[DevOf[c]] = acked[DevOf[c]] + 1
                 /\ acked'[DevOf[c]] \in Kept(DevOf[c])'
<1> DEFINE d == DevOf[c]
           b == buffer[c]
           n == Head(b)
<1>1. /\ d \in Devices /\ b \in Seq(1..MaxPackets) /\ b # <<>> /\ pc[c] = "handle"
      /\ acked \in [Devices -> 0..MaxPackets] /\ acked[d] \in 0..MaxPackets
      /\ n \in 1..MaxPackets /\ pc \in [Conns -> Pc] /\ buffer \in [Conns -> Seq(1..MaxPackets)]
      /\ dropped \in PacketSets /\ MaxPackets \in Nat
  BY PipelineAssumption, ShiftType, Bounds DEF Typed, TypeOK, Pc, Handle, At, PacketSets
<1>2. /\ n = b[1] /\ 1 \in DOMAIN b
      /\ \A i \in DOMAIN Tail(b) : i \in Int /\ i + 1 \in DOMAIN b /\ Tail(b)[i] = b[i + 1]
  <2>1. Tail(b) \in Seq(1..MaxPackets)
    BY <1>1, GetProperties
  <2>2. \A i \in DOMAIN Tail(b) : i \in Int
    BY <2>1
  <2> QED BY <1>1, <2>2, GetProperties
<1>3. cur' = cur /\ UNCHANGED <<mainQ, router, partQ, worker>>
  BY DEF Handle
<1>4. CASE cur[d] # c
  <2>1. /\ acked' = acked /\ buffer' = buffer
        /\ pc' = [pc EXCEPT ![c] = "put"] \/ pc' = [pc EXCEPT ![c] = "close"]
    BY <1>4 DEF Handle, Goto
  <2>2. pc'[c] \in {"put", "close"}
    BY <1>1, <2>1
  <2> QED BY <1>3, <1>4, <2>1, <2>2 DEF Follows
<1>5. CASE cur[d] = c
  <2>1. n = acked[d] + 1 /\ \A i \in DOMAIN b : b[i] = acked[d] + i
    BY <1>1, <1>2, <1>5 DEF Follows
  <2>2. acked' = [acked EXCEPT ![d] = n]
    BY <1>5 DEF Handle
  <2>3. acked'[d] = n
    BY <1>1, <2>2
  <2>4. CASE pc' = [pc EXCEPT ![c] = "put"] /\ buffer' = buffer
    <3>1. pc'[c] = "put" /\ buffer'[c] = b
      BY <1>1, <2>4
    <3>2. \A i \in DOMAIN b : i \in Int /\ b[i] = acked'[d] + i - 1
      BY <1>1, <2>1, <2>3
    <3>3. n \in InFlight(d)'
      BY <1>1, <3>1 DEF InFlight, At
    <3> QED BY <1>3, <1>5, <2>1, <2>3, <3>1, <3>2, <3>3 DEF Follows, Kept
  <2>5. CASE /\ pc' = pc /\ buffer' = [buffer EXCEPT ![c] = Tail(b)]
             /\ dropped' = [dropped EXCEPT ![d] = dropped[d] \cup {n}]
    <3>1. pc'[c] = "handle" /\ buffer'[c] = Tail(b)
      BY <1>1, <2>5
    <3>2. ASSUME NEW i \in DOMAIN Tail(b) PROVE Tail(b)[i] = acked'[d] + i
      <4>1. i \in Int /\ i + 1 \in DOMAIN b /\ Tail(b)[i] = b[i + 1]
        BY <1>2
      <4>2. b[i + 1] = acked[d] + (i + 1)
        BY <2>1, <4>1
      <4>3. acked'[d] = acked[d] + 1 /\ acked[d] \in Int
        BY <1>1, <2>1, <2>3
      <4> HIDE DEF b
      <4> QED BY <4>1, <4>2, <4>3
    <3>3. n \in dropped'[d]
      BY <1>1, <2>5 DEF PacketSets
    <3> QED BY <1>3, <1>5, <2>1, <2>3, <3>1, <3>2, <3>3 DEF Follows, Kept, Settled
  <2> QED BY <1>5, <2>4, <2>5 DEF Handle, Goto
<1> QED BY <1>4, <1>5

LEMMA StepFollows ==
    ASSUME Typed, NEW c \in Conns, Follows(c),
           \/ Connect(c) \/ ConnStep(c) \/ HangUp(c) \/ ReadNoise(c)
           \/ \E k \in 1..Burst : Read(c, k)
    PROVE  Follows(c)'
<1> DEFINE d == DevOf[c]
<1>1. /\ d \in Devices /\ pc \in [Conns -> Pc] /\ buffer \in [Conns -> Seq(1..MaxPackets)]
      /\ cur \in [Devices -> Conns] /\ acked[d] \in 0..MaxPackets
  BY PipelineAssumption DEF Typed, TypeOK, Pc
<1>2. CASE Handle(c)
  BY <1>2, HandleFollows
<1>3. CASE Connect(c) \/ Evict(c)
  <2>1. buffer' = buffer /\ buffer[c] = <<>>
    BY <1>3 DEF Connect, Evict, At, Follows
  <2>2. pc'[c] \in {"gate", "evict"}
    BY <1>1, <1>3 DEF Connect, Evict, Goto
  <2> QED BY <2>1, <2>2 DEF Follows
<1>4. CASE Gate(c) \/ ReadNoise(c) \/ HangUp(c) \/ ReadAgain(c)
  <2>1. buffer' = buffer /\ buffer[c] = <<>>
    BY <1>4 DEF Gate, ReadNoise, HangUp, ReadAgain, At, Follows
  <2>2. pc'[c] \in {"gate", "read", "alert", "close"}
    BY <1>1, <1>4 DEF Gate, ReadNoise, HangUp, ReadAgain, Goto
  <2> QED BY <2>1, <2>2 DEF Follows
<1>5. CASE PutNotice(c)
  <2>1. \/ buffer' = buffer /\ pc[c] = "alert" /\ pc'[c] = "handle"
        \/ buffer'[c] = <<>> /\ pc'[c] = "gone"
    BY <1>1, <1>5 DEF PutNotice, Goto, At
  <2>2. buffer'[c] = <<>> /\ pc'[c] \in {"handle", "gone"}
    BY <2>1 DEF Follows
  <2> QED BY <2>2 DEF Follows
<1>6. ASSUME NEW k \in 1..Burst, Read(c, k) PROVE Follows(c)'
  <2>1. /\ pc'[c] = "handle" /\ buffer'[c] = [i \in 1..k |-> acked[d] + i]
        /\ acked' = acked
    BY <1>1, <1>6 DEF Read, Goto
  <2> QED BY <2>1 DEF Follows
<1>7. CASE Put(c)
  <2>1. buffer[c] # <<>> /\ pc[c] = "put" /\ pc'[c] = "handle" /\ buffer'[c] = Tail(buffer[c])
        /\ acked' = acked /\ cur' = cur
    BY <1>1, <1>7 DEF Put, At, Goto, Typed, PutHas
  <2>2. \A i \in DOMAIN Tail(buffer[c]) : /\ i \in Int /\ i + 1 \in DOMAIN buffer[c]
                                          /\ Tail(buffer[c])[i] = buffer[c][i + 1]
    <3>1. buffer[c] \in Seq(1..MaxPackets) /\ Tail(buffer[c]) \in Seq(1..MaxPackets)
      BY <1>1, <2>1, GetProperties
    <3>2. \A i \in DOMAIN Tail(buffer[c]) : i \in Int
      BY <3>1
    <3> QED BY <2>1, <3>1, <3>2, GetProperties
  <2>3. cur[d] = c => \A i \in DOMAIN Tail(buffer[c]) : Tail(buffer[c])[i] = acked[d] + i
    <3> SUFFICES ASSUME cur[d] = c, NEW i \in DOMAIN Tail(buffer[c])
                 PROVE  Tail(buffer[c])[i] = acked[d] + i
      OBVIOUS
    <3>1. buffer[c][i + 1] = acked[d] + (i + 1) - 1
      BY <2>1, <2>2 DEF Follows
    <3> QED BY <1>1, <2>2, <3>1
  <2> QED BY <2>1, <2>3 DEF Follows
<1> QED BY <1>2, <1>3, <1>4, <1>5, <1>6, <1>7 DEF ConnStep

(* The other connections: none of them becomes the one in use, and the        *)
(* packets of the device are acknowledged to the one in use only.             *)
LEMMA OthersFollow ==
    ASSUME Typed, NEW c \in Conns, NEW e \in Conns \ {c}, Follows(e),
           \/ Connect(c) \/ ConnStep(c) \/ HangUp(c) \/ ReadNoise(c)
           \/ \E k \in 1..Burst : Read(c, k)
    PROVE  Follows(e)'
<1>1. DevOf[c] \in Devices /\ DevOf[e] \in Devices
  BY PipelineAssumption
<1>2. pc'[e] = pc[e] /\ buffer'[e] = buffer[e]
  BY DEF Connect, ConnStep, HangUp, ReadNoise, Read, Gate, Handle, ReadAgain, Put, PutNotice,
         Evict, Goto, Typed, TypeOK
<1>3. /\ cur' = cur \/ cur' = [cur EXCEPT ![DevOf[c]] = c]
      /\ acked' = acked \/ (cur[DevOf[c]] = c /\ cur' = cur
                            /\ acked' = [acked EXCEPT ![DevOf[c]] = Head(buffer[c])])
  BY DEF Connect, ConnStep, HangUp, ReadNoise, Read, Gate, Handle, ReadAgain, Put, PutNotice,
         Evict
<1>4. cur'[DevOf[e]] = e => cur[DevOf[e]] = e /\ acked'[DevOf[e]] = acked[DevOf[e]]
  <2>1. cur \in [Devices -> Conns] /\ acked \in [Devices -> 0..MaxPackets]
    BY DEF Typed, TypeOK
  <2> QED BY <1>1, <1>3, <2>1
<1> QED BY <1>2, <1>4 DEF Follows

LEMMA AckedKept ==
    ASSUME Typed, BufferFollows, ZeroPacketLoss, [Next]_vars
    PROVE  BufferFollows' /\ ZeroPacketLoss'
<1>1. \A c \in Conns : Follows(c)
  BY DEF BufferFollows, Follows
<1>2. \A d \in Devices : \A n \in 1..acked[d] : n \in Kept(d)'
  <2>1. \A d \in Devices : \A n \in 1..acked[d] : n \in Kept(d)
    BY DEF ZeroPacketLoss, Kept
  <2> QED BY <2>1, StepKeeps
<1>3. ASSUME NEW c \in Conns,
             \/ Connect(c) \/ ConnStep(c) \/ HangUp(c) \/ ReadNoise(c)
             \/ \E k \in 1..Burst : Read(c, k)
      PROVE  /\ \A e \in Conns : Follows(e)'
             /\ \A d \in Devices : \A n \in 1..acked'[d] : n \in Kept(d)'
  <2>1. \A e \in Conns : Follows(e)'
    BY <1>1, <1>3, StepFollows, OthersFollow
  <2>2. CASE acked' = acked
    BY <1>2, <2>1, <2>2
  <2>3. CASE acked' # acked
    <3>1. Handle(c)
      BY <1>3, <2>3 DEF Connect, ConnStep, HangUp, ReadNoise, Read, Gate, ReadAgain, Put,
                        PutNotice, Evict
    <3>2. acked' = [acked EXCEPT ![DevOf[c]] = Head(buffer[c])]
      BY <2>3, <3>1 DEF Handle
    <3>3. acked \in [Devices -> 0..MaxPackets] /\ DevOf[c] \in Devices
      BY PipelineAssumption DEF Typed, TypeOK
    <3>4. acked'[DevOf[c]] # acked[DevOf[c]]
      BY <2>3, <3>2, <3>3
    <3>5. acked'[DevOf[c]] = acked[DevOf[c]] + 1 /\ acked'[DevOf[c]] \in Kept(DevOf[c])'
      BY <1>1, <3>1, <3>4, HandleFollows
    <3>6. \A d \in Devices \ {DevOf[c]} : acked'[d] = acked[d]
      BY <3>2, <3>3
    <3>7. ASSUME NEW n \in 1..acked'[DevOf[c]] PROVE n \in Kept(DevOf[c])'
      <4>1. acked[DevOf[c]] \in Nat
        BY <3>3, Bounds
      <4>2. n \in 1..acked[DevOf[c]] \/ n = acked'[DevOf[c]]
        BY <3>5, <4>1
      <4> QED BY <1>2, <3>3, <3>5, <4>2
    <3> QED BY <1>2, <2>1, <3>6, <3>7
  <2> QED BY <2>2, <2>3
<1>4. ASSUME UNCHANGED conns
      PROVE  /\ \A e \in Conns : Follows(e)'
             /\ \A d \in Devices : \A n \in 1..acked'[d] : n \in Kept(d)'
  BY <1>1, <1>2, <1>4 DEF conns, Follows
<1>5. CASE Crash
  <2>1. acked' = acked /\ \A e \in Conns : buffer'[e] = <<>> /\ pc'[e] \in {"off", "gone"}
    BY <1>5 DEF Crash, At
  <2> QED BY <1>2, <2>1 DEF Follows, BufferFollows, ZeroPacketLoss, Kept
<1>6. \/ Crash \/ UNCHANGED conns
      \/ \E c \in Conns : \/ Connect(c) \/ ConnStep(c) \/ HangUp(c) \/ ReadNoise(c)
                          \/ \E k \in 1..Burst : Read(c, k)
  BY DEF Next, RouterTake, RouterPass, WorkerStep, WorkerStart, Supervise, WorkerTake, WriteDLQ,
         WorkerSave, WorkerFails, vars
<1>7. ASSUME \A e \in Conns : Follows(e)', \A d \in Devices : \A n \in 1..acked'[d] : n \in Kept(d)'
      PROVE  BufferFollows' /\ ZeroPacketLoss'
  BY <1>7 DEF BufferFollows, Follows, ZeroPacketLoss, Kept
<1> QED BY <1>3, <1>4, <1>5, <1>6, <1>7

(* An acknowledged packet is in flight, settled, or among those that a crash, *)
(* a failed dead-letter write or a swallowed INSERT error cost, in every      *)
(* state: connection.py, main.py, handler.py.                                 *)
THEOREM NoPacketVanishes == Spec => []ZeroPacketLoss
<1>1. Init => LossInv
  <2> SUFFICES ASSUME Init PROVE BufferFollows /\ ZeroPacketLoss
    BY InitTyped DEF LossInv
  <2>1. \A c \in Conns : pc[c] = "off" /\ buffer[c] = <<>>
    BY DEF Init
  <2>2. \A d \in Devices : acked[d] = 0
    BY DEF Init
  <2>3. 1..0 = {}
    OBVIOUS
  <2> QED BY <2>1, <2>2, <2>3 DEF BufferFollows, ZeroPacketLoss
<1>2. LossInv /\ [Next]_vars => LossInv'
  BY StepTyped, AckedKept DEF LossInv
<1>3. LossInv => ZeroPacketLoss
  BY DEF LossInv
<1> QED BY <1>1, <1>2, <1>3, PTL DEF Spec

-----------------------------------------------------------------------------
(* The order in which a device's packets are stored.                          *)

Of(d, x)        == x.kind = "data" /\ x.dev = d
Before(d, X, Y) == \A x \in X, y \in Y : Of(d, x) /\ Of(d, y) => x.n <= y.n
Sorted(d, q)    == \A i, j \in DOMAIN q : i <= j /\ Of(d, q[i]) /\ Of(d, q[j]) => q[i].n <= q[j].n

(* What a worker has in its hands, and what is stored, as items.              *)
Hands(p)  == IF worker[p].at \in {"save", "dlq"} THEN {worker[p].item} ELSE {}
Stored(d) == {Packet(d, n) : n \in saved[d]}
Ahead(d)  == Stored(d) \cup Hands(Hash[d]) \cup SetOf(partQ[Hash[d]]) \cup router

(* A device's packets are in its own partition only.                          *)
Routed == \A p \in Partitions : \A x \in SetOf(partQ[p]) \cup Hands(p) :
              x.kind = "data" => p = Hash[x.dev]

(* The packets of a device stand in line: what is stored, in the worker's     *)
(* hands, in the partition queue, with the router and in db_queue is in this  *)
(* order, each queue is sorted, and nothing is ahead of the acknowledgements. *)
InLine(d) ==
    /\ Before(d, Stored(d), Hands(Hash[d]))
    /\ Before(d, Stored(d) \cup Hands(Hash[d]), SetOf(partQ[Hash[d]]))
    /\ Before(d, Stored(d) \cup Hands(Hash[d]) \cup SetOf(partQ[Hash[d]]), router)
    /\ Before(d, Ahead(d), SetOf(mainQ))
    /\ Sorted(d, partQ[Hash[d]]) /\ Sorted(d, mainQ)
    /\ \A x \in Ahead(d) \cup SetOf(mainQ) : Of(d, x) => x.n <= acked[d]

OneConn(d) == \A c, e \in Conns : DevOf[c] = d /\ DevOf[e] = d => c = e

CurOwn == \A d \in Devices : DevOf[cur[d]] = d

OrderInv(d) == Typed /\ BufferFollows /\ CurOwn /\ Routed /\ InLine(d)

LEMMA SortedPut ==
    ASSUME NEW d, NEW q \in Seq(Item), NEW x \in Item, Sorted(d, q), Before(d, SetOf(q), {x})
    PROVE  Sorted(d, Append(q, x))
<1> DEFINE a == Append(q, x)
<1>1. /\ \A i \in DOMAIN a : (i \in DOMAIN q /\ a[i] = q[i]) \/ (i = Len(q) + 1 /\ a[i] = x)
      /\ Len(q) \in Nat /\ DOMAIN q = 1..Len(q)
  BY PutProperties
<1>2. \A i \in DOMAIN q : Of(d, q[i]) /\ Of(d, x) => q[i].n <= x.n
  BY DEF Before, SetOf
<1>3. Of(d, x) => x.n <= x.n
  <2>1. Of(d, x) => x.n \in Int
    BY ItemProperties DEF Of
  <2> QED BY <2>1
<1> HIDE DEF a
<1> SUFFICES ASSUME NEW i \in DOMAIN a, NEW j \in DOMAIN a, i <= j, Of(d, a[i]), Of(d, a[j])
             PROVE  a[i].n <= a[j].n
  BY DEF Sorted, a
<1>4. CASE i \in DOMAIN q /\ a[i] = q[i] /\ j \in DOMAIN q /\ a[j] = q[j]
  BY <1>4 DEF Sorted
<1>5. CASE i \in DOMAIN q /\ a[i] = q[i] /\ a[j] = x
  BY <1>2, <1>5
<1>6. CASE a[i] = x /\ a[j] = x
  BY <1>3, <1>6
<1>7. CASE i = Len(q) + 1 /\ j \in DOMAIN q
  BY <1>1, <1>7
<1> QED BY <1>1, <1>4, <1>5, <1>6, <1>7

LEMMA SortedGet ==
    ASSUME NEW d, NEW q \in Seq(Item), q # <<>>, Sorted(d, q)
    PROVE  Sorted(d, Tail(q)) /\ Before(d, {Head(q)}, SetOf(Tail(q)))
<1> DEFINE t == Tail(q)
<1>1. /\ 1 \in DOMAIN q /\ Head(q) = q[1] /\ t \in Seq(Item)
      /\ \A i \in DOMAIN t : i + 1 \in DOMAIN q /\ t[i] = q[i + 1]
  BY GetProperties
<1>2. \A i \in DOMAIN t : i \in Nat
  BY <1>1
<1> HIDE DEF t
<1>3. Sorted(d, t)
  BY <1>1, <1>2 DEF Sorted
<1>4. Before(d, {Head(q)}, SetOf(t))
  <2>1. ASSUME NEW i \in DOMAIN t, Of(d, Head(q)), Of(d, t[i]) PROVE Head(q).n <= t[i].n
    <3>1. i + 1 \in DOMAIN q /\ 1 <= i + 1 /\ t[i] = q[i + 1]
      BY <1>1, <1>2
    <3> QED BY <1>1, <2>1, <3>1 DEF Sorted
  <2> QED BY <2>1 DEF Before, SetOf
<1> QED BY <1>3, <1>4 DEF t

(* A put leaves the line in order if nothing in it is later.                  *)
LEMMA LinePut ==
    ASSUME Typed, NEW d \in Devices, InLine(d), acked'[d] \in Int, acked[d] \in Int,
           acked[d] <= acked'[d],
           UNCHANGED <<router, partQ, worker, saved>>,
           \/ mainQ' = mainQ
           \/ \E x \in Item : mainQ' = Append(mainQ, x) /\ (Of(d, x) => x.n = acked[d])
    PROVE  InLine(d)'
<1>1. Ahead(d)' = Ahead(d) /\ Stored(d)' = Stored(d) /\ Hands(Hash[d])' = Hands(Hash[d])
  BY DEF Ahead, Stored, Hands, SetOf
<1>2. mainQ \in Seq(Item)
  BY DEF Typed, TypeOK
<1>3. \A x \in Ahead(d) \cup SetOf(mainQ) : Of(d, x) => x.n <= acked[d]
  BY DEF InLine
<1>4. \A x \in Ahead(d) \cup SetOf(mainQ) : Of(d, x) => x.n \in Int
  <2>1. Hash[d] \in Partitions
    BY PipelineAssumption
  <2>2. \A x \in SetOf(mainQ) \cup router \cup SetOf(partQ[Hash[d]]) : x \in Item
    BY <2>1 DEF Typed, TypeOK, SetOf
  <2>3. \A x \in Hands(Hash[d]) : x \in Item
    BY <2>1, WorkerTypes DEF Typed, TypeOK, Hands
  <2>4. \A x \in Stored(d) : x \in Item
    BY ItemProperties DEF Typed, TypeOK, Stored
  <2> QED BY <2>2, <2>3, <2>4, ItemProperties DEF Ahead, Of
<1>5. CASE mainQ' = mainQ
  <2>1. \A x \in Ahead(d) \cup SetOf(mainQ) : Of(d, x) => x.n <= acked'[d]
    BY <1>3, <1>4
  <2>2. SetOf(partQ[Hash[d]])' = SetOf(partQ[Hash[d]]) /\ SetOf(mainQ)' = SetOf(mainQ)
    BY <1>5 DEF SetOf
  <2> QED BY <1>1, <1>5, <2>1, <2>2 DEF InLine, Sorted
<1>6. ASSUME NEW x \in Item, mainQ' = Append(mainQ, x), Of(d, x) => x.n = acked[d]
      PROVE  InLine(d)'
  <2>1. Before(d, Ahead(d) \cup SetOf(mainQ), {x})
    BY <1>3, <1>6 DEF Before
  <2>2. SetOf(mainQ)' = SetOf(mainQ) \cup {x}
    <3>1. SetOf(Append(mainQ, x)) = SetOf(mainQ) \cup {x}
      BY <1>2, PutProperties
    <3> QED BY <1>6, <3>1 DEF SetOf
  <2>3. Sorted(d, mainQ)'
    <3>1. Before(d, SetOf(mainQ), {x}) /\ Sorted(d, mainQ)
      BY <2>1 DEF Before, InLine
    <3>2. Sorted(d, Append(mainQ, x))
      BY <1>2, <3>1, SortedPut
    <3> QED BY <1>6, <3>2 DEF Sorted
  <2>4. Before(d, Ahead(d), SetOf(mainQ)')
    BY <2>1, <2>2 DEF Before, InLine
  <2>5. \A y \in Ahead(d) \cup SetOf(mainQ)' : Of(d, y) => y.n <= acked'[d]
    <3>1. Of(d, x) => x.n <= acked'[d]
      BY <1>6
    <3> QED BY <1>3, <1>4, <2>2, <3>1
  <2>6. SetOf(partQ[Hash[d]])' = SetOf(partQ[Hash[d]]) /\ Sorted(d, partQ[Hash[d]])'
    BY DEF SetOf, Sorted, InLine
  <2> QED BY <1>1, <2>3, <2>4, <2>5, <2>6 DEF InLine
<1> QED BY <1>5, <1>6

LEMMA ConnLine ==
    ASSUME NEW d \in Devices, OneConn(d), OrderInv(d), NEW c \in Conns,
           \/ Connect(c) \/ ConnStep(c) \/ HangUp(c) \/ ReadNoise(c)
           \/ \E k \in 1..Burst : Read(c, k)
    PROVE  CurOwn' /\ Routed' /\ InLine(d)'
<1>1. /\ DevOf[c] \in Devices /\ DevOf \in [Conns -> Devices] /\ cur \in [Devices -> Conns]
      /\ acked \in [Devices -> 0..MaxPackets] /\ MaxPackets \in Nat /\ mainQ \in Seq(Item)
  BY PipelineAssumption, Bounds DEF OrderInv, Typed, TypeOK
<1>2. UNCHANGED <<router, partQ, worker, saved>>
  BY DEF Connect, ConnStep, HangUp, ReadNoise, Read, Gate, Handle, ReadAgain, Put, PutNotice,
         Evict, store
<1>3. CurOwn'
  <2>1. cur' = cur \/ cur' = [cur EXCEPT ![DevOf[c]] = c]
    BY DEF Connect, ConnStep, HangUp, ReadNoise, Read, Gate, Handle, ReadAgain, Put, PutNotice,
           Evict
  <2> QED BY <1>1, <2>1 DEF CurOwn, OrderInv
<1>4. Routed'
  BY <1>2 DEF Routed, OrderInv, Hands, SetOf
<1>5. Follows(c)
  BY DEF OrderInv, BufferFollows, Follows
<1>6. acked'[d] \in Int /\ acked[d] \in Int /\ acked[d] <= acked'[d]
  <2>1. acked' = acked \/ (Handle(c) /\ acked' = [acked EXCEPT ![DevOf[c]] = Head(buffer[c])])
    BY DEF Connect, ConnStep, HangUp, ReadNoise, Read, Gate, Handle, ReadAgain, Put, PutNotice,
           Evict
  <2>2. CASE acked'[d] = acked[d]
    BY <1>1, <2>2
  <2>3. CASE acked'[d] # acked[d]
    <3>1. Handle(c) /\ DevOf[c] = d
      BY <1>1, <2>1, <2>3
    <3>2. acked'[d] = acked[d] + 1
      BY <1>5, <2>3, <3>1, HandleFollows DEF OrderInv
    <3> QED BY <1>1, <3>2
  <2> QED BY <2>2, <2>3
<1>7. \/ mainQ' = mainQ
      \/ \E x \in Item : mainQ' = Append(mainQ, x) /\ (Of(d, x) => x.n = acked[d])
  <2>1. CASE Put(c)
    <3> DEFINE n == Head(buffer[c])
               x == Packet(DevOf[c], n)
    <3>1. buffer[c] # <<>> /\ pc[c] = "put" /\ buffer[c] \in Seq(1..MaxPackets) /\ TypeOK
      BY <2>1 DEF Put, At, OrderInv, Typed, TypeOK, PutHas
    <3>2. n = buffer[c][1] /\ 1 \in DOMAIN buffer[c] /\ n \in 1..MaxPackets
      BY <3>1, GetProperties
    <3>3. x \in Item /\ x.dev = DevOf[c] /\ x.n = n
      BY <1>1, <3>2, ItemProperties DEF Packet
    <3>4. ASSUME DevOf[c] = d PROVE n = acked[d]
      <4>1. cur[d] = c
        BY <1>1, <3>4 DEF OrderInv, CurOwn, OneConn
      <4>2. buffer[c][1] = acked[d] + 1 - 1
        BY <1>5, <3>1, <3>2, <3>4, <4>1 DEF Follows
      <4> QED BY <1>1, <3>2, <4>2
    <3>5. mainQ' = Append(mainQ, x)
      BY <2>1 DEF Put
    <3> HIDE DEF x, n
    <3> QED BY <3>3, <3>4, <3>5 DEF Of
  <2>2. CASE PutNotice(c) \/ Evict(c)
    <3>1. PICK k \in {"alert", "disconnect"} : mainQ' = Append(mainQ, Notice(k, DevOf[c]))
      BY <2>2 DEF PutNotice, Evict
    <3>2. Notice(k, DevOf[c]) \in Item /\ Notice(k, DevOf[c]).kind # "data"
      BY <1>1, ItemProperties
    <3> QED BY <3>1, <3>2 DEF Of
  <2>3. CASE ~(Put(c) \/ PutNotice(c) \/ Evict(c))
    BY <2>3 DEF Connect, ConnStep, HangUp, ReadNoise, Read, Gate, Handle, ReadAgain
  <2> QED BY <2>1, <2>2, <2>3
<1>8. InLine(d)'
  BY <1>2, <1>6, <1>7, LinePut DEF OrderInv
<1> QED BY <1>3, <1>4, <1>8

LEMMA RouterLine ==
    ASSUME NEW d \in Devices, OrderInv(d), RouterTake \/ RouterPass
    PROVE  Routed' /\ InLine(d)'
<1> DEFINE p == Hash[d]
<1>1. /\ p \in Partitions /\ mainQ \in Seq(Item) /\ partQ \in [Partitions -> Seq(Item)]
      /\ partQ[p] \in Seq(Item) /\ router \in {{}} \cup {{i} : i \in Item}
  BY PipelineAssumption DEF OrderInv, Typed, TypeOK
<1>2. UNCHANGED <<worker, saved, acked>>
  BY DEF RouterTake, RouterPass, conns, store
<1>3. Stored(d)' = Stored(d) /\ Hands(p)' = Hands(p) /\ \A q \in Partitions : Hands(q)' = Hands(q)
  BY <1>2 DEF Stored, Hands
<1>4. CASE RouterTake
  <2> DEFINE h == Head(mainQ)
  <2>1. /\ router = {} /\ router' = {h} /\ mainQ' = Tail(mainQ) /\ partQ' = partQ /\ mainQ # <<>>
    BY <1>4 DEF RouterTake
  <2>2. SetOf(mainQ) = SetOf(mainQ)' \cup {h}
    <3>1. SetOf(mainQ) = SetOf(Tail(mainQ)) \cup {h}
      BY <1>1, <2>1, GetProperties
    <3> QED BY <2>1, <3>1 DEF SetOf
  <2>3. Sorted(d, mainQ)' /\ Before(d, {h}, SetOf(mainQ)')
    <3>1. Sorted(d, Tail(mainQ)) /\ Before(d, {h}, SetOf(Tail(mainQ)))
      BY <1>1, <2>1, SortedGet DEF OrderInv, InLine
    <3> QED BY <2>1, <3>1 DEF Sorted, SetOf
  <2>4. SetOf(partQ[p])' = SetOf(partQ[p]) /\ Sorted(d, partQ[p])'
    BY <2>1 DEF SetOf, Sorted, OrderInv, InLine
  <2>5. /\ Ahead(d) = Stored(d) \cup Hands(p) \cup SetOf(partQ[p])
        /\ Ahead(d)' = Ahead(d) \cup {h}
    BY <1>3, <2>1, <2>4 DEF Ahead
  <2>6. Before(d, Ahead(d), router') /\ Before(d, Ahead(d)', SetOf(mainQ)')
    BY <2>1, <2>2, <2>3, <2>5 DEF Before, OrderInv, InLine
  <2>7. \A x \in Ahead(d)' \cup SetOf(mainQ)' : Of(d, x) => x.n <= acked'[d]
    BY <1>2, <2>2, <2>5 DEF OrderInv, InLine
  <2> HIDE DEF h
  <2>8. InLine(d)'
    BY <1>3, <2>3, <2>4, <2>5, <2>6, <2>7 DEF InLine, OrderInv
  <2>9. Routed'
    BY <1>3, <2>1 DEF Routed, OrderInv, SetOf
  <2> QED BY <2>8, <2>9
<1>5. CASE RouterPass
  <2>1. PICK i \in router : /\ partQ' = [partQ EXCEPT ![Route(i)] = Append(partQ[Route(i)], i)]
                            /\ mainQ' = mainQ /\ router' = {}
    BY <1>5 DEF RouterPass
  <2> DEFINE r == Route(i)
  <2>2. router = {i} /\ i \in Item /\ r \in Partitions /\ partQ[r] \in Seq(Item)
    BY <1>1, <2>1, ItemProperties
  <2>3. i.kind = "data" => r = Hash[i.dev]
    BY DEF Route
  <2>4. partQ'[r] = Append(partQ[r], i) /\ \A q \in Partitions \ {r} : partQ'[q] = partQ[q]
    BY <1>1, <2>1, <2>2
  <2> HIDE DEF r
  <2>5. SetOf(partQ'[r]) = SetOf(partQ[r]) \cup {i}
    BY <2>2, <2>4, PutProperties
  <2>6. Routed'
    <3> SUFFICES ASSUME NEW q \in Partitions, NEW x \in SetOf(partQ'[q]) \cup Hands(q)', x.kind = "data"
                 PROVE  q = Hash[x.dev]
      BY DEF Routed, SetOf
    <3>1. CASE x \in SetOf(partQ[q]) \cup Hands(q)
      BY <3>1 DEF Routed, OrderInv
    <3>2. CASE q = r /\ x = i
      BY <2>3, <3>2
    <3> QED BY <1>3, <2>4, <2>5, <3>1, <3>2
  <2>7. \A x \in SetOf(partQ'[p]) \ SetOf(partQ[p]) : x = i
    BY <1>1, <2>4, <2>5
  <2>8. SetOf(partQ[p]) \subseteq SetOf(partQ'[p])
    BY <1>1, <2>4, <2>5
  <2>9. SetOf(partQ[p])' = SetOf(partQ'[p])
    BY DEF SetOf
  <2>10. Before(d, Stored(d) \cup Hands(p), SetOf(partQ[p])')
    BY <2>2, <2>7, <2>9 DEF Before, OrderInv, InLine
  <2>11. Sorted(d, partQ[p])'
    <3>1. CASE p = r
      <4>1. Before(d, SetOf(partQ[p]), {i}) /\ Sorted(d, partQ[p])
        BY <2>2 DEF Before, OrderInv, InLine
      <4>2. Sorted(d, Append(partQ[p], i))
        BY <1>1, <2>2, <4>1, SortedPut
      <4> QED BY <2>4, <3>1, <4>2 DEF Sorted
    <3>2. CASE p # r
      <4>1. partQ'[p] = partQ[p]
        BY <1>1, <2>4, <3>2
      <4> QED BY <4>1 DEF Sorted, OrderInv, InLine
    <3> QED BY <3>1, <3>2
  <2>12. Ahead(d)' = Stored(d) \cup Hands(p) \cup SetOf(partQ'[p])
    BY <1>3, <2>1, <2>9 DEF Ahead
  <2>13. Ahead(d)' \subseteq Ahead(d)
    BY <2>2, <2>7, <2>12 DEF Ahead
  <2>14. SetOf(mainQ)' = SetOf(mainQ) /\ Sorted(d, mainQ)'
    BY <2>1 DEF SetOf, Sorted, OrderInv, InLine
  <2>15. Before(d, Ahead(d)', SetOf(mainQ)')
    BY <2>13, <2>14 DEF Before, OrderInv, InLine
  <2>16. \A x \in Ahead(d)' \cup SetOf(mainQ)' : Of(d, x) => x.n <= acked'[d]
    BY <1>2, <2>13, <2>14 DEF OrderInv, InLine
  <2>17. Before(d, Stored(d) \cup Hands(p) \cup SetOf(partQ[p])', router')
    BY <2>1 DEF Before
  <2>18. InLine(d)'
    BY <1>3, <2>10, <2>11, <2>14, <2>15, <2>16, <2>17 DEF InLine, OrderInv
  <2> QED BY <2>6, <2>18
<1> QED BY <1>4, <1>5

LEMMA WorkerLine ==
    ASSUME NEW d \in Devices, OrderInv(d), NEW p \in Partitions, WorkerStep(p)
    PROVE  /\ Routed' /\ InLine(d)'
           /\ \A n \in saved'[d] \ saved[d], m \in saved[d] : m < n
<1> DEFINE i == worker[p].item
           h == Hash[d]
<1>1. /\ h \in Partitions /\ worker \in [Partitions -> Worker] /\ worker[p] \in Worker
      /\ partQ \in [Partitions -> Seq(Item)] /\ partQ[p] \in Seq(Item) /\ saved \in PacketSets
      /\ DataOnly
  BY PipelineAssumption DEF OrderInv, Typed, TypeOK, PacketSets
<1>2. UNCHANGED <<mainQ, router, acked>>
  BY DEF WorkerStep, WorkerStart, Supervise, WorkerTake, WriteDLQ, WorkerSave, WorkerFails, conns
<1>3. \A q \in Partitions \ {p} : worker'[q] = worker[q] /\ partQ'[q] = partQ[q]
  BY <1>1 DEF WorkerStep, WorkerStart, Supervise, WorkerTake, WriteDLQ, WorkerSave, WorkerFails
<1>4. worker[p].at \in {"save", "dlq"} => Hands(p) = {i} /\ i \in Item /\ i.kind = "data"
  BY <1>1, WorkerTypes DEF DataOnly, Hands
(* What is in the worker's hands now was there, or at the head of its queue.  *)
<1>5. \/ partQ' = partQ /\ Hands(p)' \subseteq Hands(p)
      \/ /\ Hands(p) = {} /\ partQ[p] # <<>> /\ partQ'[p] = Tail(partQ[p])
         /\ Hands(p)' \subseteq {Head(partQ[p])} /\ saved' = saved
  <2>1. CASE WorkerStart(p) \/ Supervise(p) \/ WriteDLQ(p) \/ WorkerSave(p)
    <3>1. PICK l \in {"start", "dead", "idle"} : worker' = [worker EXCEPT ![p] = Idle(l)]
      BY <2>1 DEF WorkerStart, Supervise, WriteDLQ, WorkerSave
    <3>2. Hands(p)' = {}
      BY <1>1, <3>1 DEF Hands, Idle
    <3>3. partQ' = partQ
      BY <2>1 DEF WorkerStart, Supervise, WriteDLQ, WorkerSave
    <3> QED BY <3>2, <3>3
  <2>2. CASE WorkerFails(p)
    <3>1. /\ worker' = [worker EXCEPT ![p].attempt = @ + 1] \/ worker' = [worker EXCEPT ![p].at = "dlq"]
          /\ worker[p].at = "save" /\ partQ' = partQ
      BY <2>2 DEF WorkerFails
    <3>2. worker[p] \in [at : {"save", "dlq"}, item : Item, attempt : 1..MaxRetries]
      BY <1>1, <3>1 DEF Worker
    <3>3. worker'[p].item = i /\ worker'[p].at \in {"save", "dlq"}
      BY <1>1, <3>1, <3>2
    <3> QED BY <3>1, <3>3 DEF Hands
  <2>3. CASE WorkerTake(p)
    <3>1. partQ'[p] = Tail(partQ[p]) /\ partQ[p] # <<>> /\ saved' = saved /\ worker[p].at = "idle"
      BY <1>1, <2>3 DEF WorkerTake, store
    <3>2. \/ worker'[p] = [at |-> "save", item |-> Head(partQ[p]), attempt |-> 1]
          \/ worker'[p] = Idle("idle")
      BY <1>1, <2>3 DEF WorkerTake
    <3>3. Hands(p)' \subseteq {Head(partQ[p])}
      BY <3>2 DEF Hands, Idle
    <3> QED BY <3>1, <3>3 DEF Hands
  <2> QED BY <2>1, <2>2, <2>3 DEF WorkerStep
(* What is stored now was stored, or in the worker's hands.                   *)
<1>6. \A n \in saved'[d] \ saved[d] : worker[p].at = "save" /\ i = Packet(d, n) /\ p = h
  <2>1. saved' = saved \/ (worker[p].at = "save" /\ saved' = With(saved, i))
    BY DEF WorkerStep, WorkerStart, Supervise, WorkerTake, WriteDLQ, WorkerSave, WorkerFails,
           Saved, store
  <2>2. CASE saved' = saved
    BY <2>2
  <2>3. CASE worker[p].at = "save" /\ saved' = With(saved, i)
    <3>1. i \in Item /\ i.kind = "data" /\ Hands(p) = {i}
      BY <1>4, <2>3
    <3>2. /\ saved[i.dev] \cup {i.n} = saved'[i.dev] /\ i = Packet(i.dev, i.n)
          /\ \A e \in Devices \ {i.dev} : saved'[e] = saved[e]
      <4>1. /\ With(saved, i)[i.dev] = saved[i.dev] \cup {i.n}
            /\ \A e \in Devices \ {i.dev} : With(saved, i)[e] = saved[e]
        BY <1>1, <3>1, WithType
      <4>2. i = Packet(i.dev, i.n)
        BY <3>1, ItemProperties
      <4> QED BY <2>3, <4>1, <4>2
    <3>3. p = Hash[i.dev]
      BY <3>1 DEF OrderInv, Routed
    <3> QED BY <2>3, <3>2, <3>3
  <2> QED BY <2>1, <2>2, <2>3
<1>7. Stored(d)' \subseteq Stored(d) \cup Hands(h)
  BY <1>4, <1>6 DEF Stored
<1>8. \A n \in saved'[d] \ saved[d], m \in saved[d] : m < n
  <2> SUFFICES ASSUME NEW n \in saved'[d] \ saved[d], NEW m \in saved[d] PROVE m < n
    OBVIOUS
  <2>1. Packet(d, n) \in Hands(h) /\ Packet(d, m) \in Stored(d)
    BY <1>4, <1>6 DEF Stored
  <2>2. Of(d, Packet(d, n)) /\ Of(d, Packet(d, m)) /\ Packet(d, n).n = n /\ Packet(d, m).n = m
    BY DEF Of, Packet
  <2>3. m <= n
    BY <2>1, <2>2 DEF OrderInv, InLine, Before
  <2>4. m \in Int /\ n \in Int /\ m # n
    <3>1. m \in 1..MaxPackets
      BY <1>1 DEF PacketSets
    <3>2. i.kind = "data" /\ i \in Item /\ i.n = n
      BY <1>4, <1>6, <2>2
    <3> QED BY <3>1, <3>2, ItemProperties
  <2> QED BY <2>3, <2>4
(* So nothing new comes ahead of db_queue, and the rest of the line holds.    *)
<1> DEFINE P == SetOf(partQ[h])
           Q == SetOf(partQ'[h])
<1>9. /\ Stored(d)' \cup Hands(h)' \cup Q \subseteq Stored(d) \cup Hands(h) \cup P
      /\ Before(d, Stored(d)', Hands(h)') /\ Before(d, Stored(d)' \cup Hands(h)', Q)
      /\ Sorted(d, partQ'[h])
  <2>1. /\ Before(d, Stored(d), Hands(h)) /\ Before(d, Stored(d) \cup Hands(h), P)
        /\ Sorted(d, partQ[h])
    BY DEF OrderInv, InLine
  <2>2. CASE Hands(h)' \subseteq Hands(h) /\ partQ'[h] = partQ[h]
    <3>1. \A x \in Hands(h) : x.n <= x.n
      <4>1. \A x \in Hands(h) : x \in Item /\ x.kind = "data"
        BY <1>1, WorkerTypes DEF Hands, DataOnly
      <4>2. \A x \in Hands(h) : x.n \in Int
        BY <4>1, ItemProperties
      <4> QED BY <4>2
    <3>2. Before(d, Hands(h), Hands(h))
      <4>1. \A x, y \in Hands(h) : x = y
        BY DEF Hands
      <4> QED BY <3>1, <4>1 DEF Before
    <3>3. Before(d, Stored(d)', Hands(h)')
      BY <1>7, <2>1, <2>2, <3>2 DEF Before
    <3>4. Before(d, Stored(d)' \cup Hands(h)', Q)
      BY <1>7, <2>1, <2>2 DEF Before
    <3> QED BY <1>7, <2>1, <2>2, <3>3, <3>4
  <2>3. CASE p # h
    <3>1. worker'[h] = worker[h] /\ partQ'[h] = partQ[h]
      BY <1>1, <1>3, <2>3
    <3>2. Hands(h)' = Hands(h)
      BY <3>1 DEF Hands
    <3> QED BY <2>2, <3>1, <3>2
  <2>4. CASE /\ p = h /\ Hands(p) = {} /\ partQ[p] # <<>> /\ partQ'[p] = Tail(partQ[p])
             /\ Hands(p)' \subseteq {Head(partQ[p])} /\ saved' = saved
    <3> DEFINE x == Head(partQ[p])
    <3>1. P = Q \cup {x}
      BY <1>1, <2>4, GetProperties
    <3>2. Sorted(d, partQ'[h]) /\ Before(d, {x}, Q)
      BY <1>1, <2>1, <2>4, SortedGet
    <3>3. Stored(d)' = Stored(d)
      BY <2>4 DEF Stored
    <3> HIDE DEF x, P, Q
    <3>4. Before(d, Stored(d)', Hands(h)')
      BY <2>1, <2>4, <3>1, <3>3 DEF Before, x
    <3>5. Before(d, Stored(d)' \cup Hands(h)', Q)
      BY <2>1, <2>4, <3>1, <3>2, <3>3 DEF Before, x
    <3> QED BY <2>4, <3>1, <3>2, <3>3, <3>4, <3>5 DEF x
  <2> QED BY <1>5, <2>2, <2>3, <2>4
<1>10. Q = SetOf(partQ[h])' /\ SetOf(mainQ)' = SetOf(mainQ)
  BY <1>2 DEF SetOf
<1>11. Ahead(d) = Stored(d) \cup Hands(h) \cup P \cup router /\ Ahead(d)' \subseteq Ahead(d)
  BY <1>2, <1>9, <1>10 DEF Ahead
<1> HIDE DEF P, Q
<1>12. Before(d, Stored(d)' \cup Hands(h)' \cup Q, router')
  BY <1>2, <1>9 DEF Before, OrderInv, InLine, P
<1>13. Before(d, Ahead(d)', SetOf(mainQ)') /\ Sorted(d, mainQ)'
  BY <1>2, <1>10, <1>11 DEF Before, Sorted, OrderInv, InLine
<1>14. \A x \in Ahead(d)' \cup SetOf(mainQ)' : Of(d, x) => x.n <= acked'[d]
  BY <1>2, <1>10, <1>11 DEF OrderInv, InLine
<1>15. Sorted(d, partQ[h])'
  BY <1>9 DEF Sorted
<1>16. InLine(d)'
  BY <1>9, <1>10, <1>12, <1>13, <1>14, <1>15 DEF InLine
<1>17. Routed'
  <2> SUFFICES ASSUME NEW q \in Partitions, NEW x \in SetOf(partQ'[q]) \cup Hands(q)', x.kind = "data"
               PROVE  q = Hash[x.dev]
    BY DEF Routed, SetOf
  <2>1. x \in SetOf(partQ[q]) \cup Hands(q)
    <3>1. CASE q # p
      <4>1. worker'[q] = worker[q] /\ partQ'[q] = partQ[q]
        BY <1>3, <3>1
      <4> QED BY <4>1 DEF Hands
    <3>2. CASE q = p /\ partQ' = partQ /\ Hands(p)' \subseteq Hands(p)
      BY <3>2
    <3>3. CASE /\ q = p /\ partQ[p] # <<>> /\ partQ'[p] = Tail(partQ[p])
               /\ Hands(p)' \subseteq {Head(partQ[p])}
      <4>1. SetOf(partQ[p]) = SetOf(Tail(partQ[p])) \cup {Head(partQ[p])}
        BY <1>1, <3>3, GetProperties
      <4> QED BY <3>3, <4>1
    <3> QED BY <1>5, <3>1, <3>2, <3>3
  <2> QED BY <2>1 DEF Routed, OrderInv
<1> QED BY <1>8, <1>16, <1>17

LEMMA CrashLine ==
    ASSUME NEW d \in Devices, OrderInv(d), Crash PROVE Routed' /\ InLine(d)'
<1>1. /\ \A q \in Partitions : Hands(q)' = {} /\ SetOf(partQ'[q]) = {}
      /\ router' = {} /\ mainQ' = <<>> /\ SetOf(mainQ') = {}
  BY DEF Crash, Hands, Idle, SetOf
<1>2. Hash[d] \in Partitions
  BY PipelineAssumption
<1>3. Sorted(d, partQ[Hash[d]])' /\ Sorted(d, mainQ)'
  <2>1. partQ'[Hash[d]] = <<>> /\ mainQ' = <<>>
    BY <1>2 DEF Crash
  <2> QED BY <2>1 DEF Sorted
<1>4. Stored(d)' = Stored(d) /\ acked' = acked
  BY DEF Crash, Stored
<1>5. SetOf(partQ[Hash[d]])' = {} /\ SetOf(mainQ)' = {} /\ Hands(Hash[d])' = {}
  BY <1>1, <1>2 DEF SetOf
<1>6. Ahead(d)' \subseteq Ahead(d)
  BY <1>1, <1>4, <1>5 DEF Ahead
<1>7. InLine(d)'
  BY <1>1, <1>3, <1>4, <1>5, <1>6 DEF InLine, Before, OrderInv
<1>8. Routed'
  BY <1>1 DEF Routed, SetOf
<1> QED BY <1>7, <1>8

LEMMA OrderInit == ASSUME NEW d \in Devices, Init PROVE OrderInv(d)
<1>1. Hash[d] \in Partitions /\ DevOf \in [Conns -> Devices]
  BY PipelineAssumption
<1>2. Typed /\ BufferFollows
  <2>1. \A c \in Conns : pc[c] = "off" /\ buffer[c] = <<>>
    BY DEF Init
  <2> QED BY <2>1, InitTyped DEF BufferFollows
<1>3. CurOwn
  BY PipelineAssumption DEF Init, CurOwn
<1>4. /\ \A q \in Partitions : Hands(q) = {} /\ partQ[q] = <<>>
      /\ router = {} /\ mainQ = <<>> /\ saved[d] = {}
  BY DEF Init, Hands, Idle
<1>5. \A q \in Partitions : SetOf(partQ[q]) = {}
  BY <1>4 DEF SetOf
<1>6. Ahead(d) = {} /\ Stored(d) = {} /\ SetOf(mainQ) = {}
  BY <1>1, <1>4, <1>5 DEF Ahead, Stored, SetOf
<1>7. InLine(d)
  <2>1. Sorted(d, partQ[Hash[d]]) /\ Sorted(d, mainQ)
    BY <1>1, <1>4 DEF Sorted
  <2> QED BY <1>1, <1>4, <1>5, <1>6, <2>1 DEF InLine, Before
<1>8. Routed
  BY <1>4, <1>5 DEF Routed
<1> QED BY <1>2, <1>3, <1>7, <1>8 DEF OrderInv

(* What a step may do to the packets of device d.                             *)
InOrder(d) == \A n \in saved'[d] \ saved[d], m \in saved[d] : m < n

LEMMA OrderStep ==
    ASSUME NEW d \in Devices, OneConn(d), OrderInv(d), ZeroPacketLoss, [Next]_vars
    PROVE  OrderInv(d)' /\ InOrder(d)
<1>1. Typed' /\ BufferFollows'
  BY StepTyped, AckedKept DEF OrderInv
<1>2. ASSUME NEW c \in Conns,
             \/ Connect(c) \/ ConnStep(c) \/ HangUp(c) \/ ReadNoise(c)
             \/ \E k \in 1..Burst : Read(c, k)
      PROVE  CurOwn' /\ Routed' /\ InLine(d)' /\ InOrder(d)
  <2>1. saved' = saved
    BY <1>2 DEF Connect, ConnStep, HangUp, ReadNoise, Read, Gate, Handle, ReadAgain, Put,
                PutNotice, Evict, store
  <2> QED BY <1>2, <2>1, ConnLine DEF InOrder
<1>3. CASE RouterTake \/ RouterPass
  <2>1. cur' = cur /\ saved' = saved
    BY <1>3 DEF RouterTake, RouterPass, conns, store
  <2> QED BY <1>1, <1>3, <2>1, RouterLine DEF OrderInv, CurOwn, InOrder
<1>4. ASSUME NEW p \in Partitions, WorkerStep(p) PROVE CurOwn' /\ Routed' /\ InLine(d)' /\ InOrder(d)
  <2>1. cur' = cur
    BY <1>4 DEF WorkerStep, WorkerStart, Supervise, WorkerTake, WriteDLQ, WorkerSave, WorkerFails,
                conns
  <2> QED BY <1>4, <2>1, WorkerLine DEF OrderInv, CurOwn, InOrder
<1>5. CASE Crash
  <2>1. cur' = cur /\ saved' = saved
    BY <1>5 DEF Crash
  <2> QED BY <1>1, <1>5, <2>1, CrashLine DEF OrderInv, CurOwn, InOrder
<1>6. CASE UNCHANGED vars
  <2>1. UNCHANGED <<cur, mainQ, router, partQ, worker, saved, acked>>
    BY <1>6 DEF vars, conns, store
  <2>2. /\ Stored(d)' = Stored(d) /\ \A q \in Partitions : Hands(q)' = Hands(q)
        /\ Hands(Hash[d])' = Hands(Hash[d]) /\ Ahead(d)' = Ahead(d)
        /\ SetOf(partQ[Hash[d]])' = SetOf(partQ[Hash[d]]) /\ SetOf(mainQ)' = SetOf(mainQ)
    BY <2>1 DEF Stored, Hands, Ahead, SetOf
  <2>3. InLine(d)'
    BY <2>1, <2>2 DEF InLine, Sorted, OrderInv
  <2>4. Routed'
    BY <2>1, <2>2 DEF Routed, SetOf, OrderInv
  <2> QED BY <1>1, <2>1, <2>3, <2>4 DEF OrderInv, CurOwn, InOrder
<1> QED BY <1>1, <1>2, <1>3, <1>4, <1>5, <1>6 DEF Next, OrderInv

(* The packets of a device that keeps its one connection are stored for the   *)
(* first time in the order in which it sent them, whatever other devices do   *)
(* and whatever is retried, given up or lost in between: ingestion/main.py.   *)
THEOREM DeviceInOrder ==
    ASSUME NEW d \in Devices, OneConn(d) PROVE Spec => [][InOrder(d)]_vars
<1>1. Init => OrderInv(d) /\ ZeroPacketLoss
  <2>1. Init => \A e \in Devices : acked[e] = 0
    BY DEF Init
  <2>2. 1..0 = {}
    OBVIOUS
  <2> QED BY <2>1, <2>2, OrderInit DEF ZeroPacketLoss
<1>2. OrderInv(d) /\ ZeroPacketLoss /\ [Next]_vars => OrderInv(d)' /\ ZeroPacketLoss' /\ [InOrder(d)]_vars
  BY OrderStep, AckedKept DEF OrderInv
<1> QED BY <1>1, <1>2, PTL DEF Spec

(* "Strict Per-Device Sequencing" for every device, if none connects twice.   *)
THEOREM StoredInOrder ==
    ASSUME \A d \in Devices : OneConn(d) PROVE Spec => StrictSequencing
<1> DEFINE I == ZeroPacketLoss /\ \A d \in Devices : OrderInv(d)
<1>1. Init => I
  <2>1. Init => \A e \in Devices : acked[e] = 0
    BY DEF Init
  <2>2. 1..0 = {}
    OBVIOUS
  <2>3. Init => \A d \in Devices : OrderInv(d)
    BY OrderInit
  <2> QED BY <2>1, <2>2, <2>3 DEF ZeroPacketLoss
<1>2. Typed /\ BufferFollows /\ ZeroPacketLoss /\ [Next]_vars => ZeroPacketLoss'
  BY AckedKept
<1>3. I /\ [Next]_vars => I' /\ [\A d \in Devices : InOrder(d)]_vars
  <2> SUFFICES ASSUME I, [Next]_vars PROVE I' /\ \A d \in Devices : InOrder(d)
    OBVIOUS
  <2>1. ASSUME NEW d \in Devices PROVE OrderInv(d)' /\ InOrder(d)
    BY OrderStep
  <2>2. ZeroPacketLoss'
    <3>1. CASE Devices = {}
      BY <3>1 DEF ZeroPacketLoss
    <3>2. CASE Devices # {}
      <4>1. Typed /\ BufferFollows
        BY <3>2 DEF OrderInv
      <4> QED BY <1>2, <4>1
    <3> QED BY <3>1, <3>2
  <2> QED BY <2>1, <2>2
<1> HIDE DEF I
<1>4. Spec => [][\A d \in Devices : InOrder(d)]_vars
  BY <1>1, <1>3, PTL DEF Spec
<1>5. (\A d \in Devices : InOrder(d)) =>
          \A d \in Devices : \A n \in saved'[d] \ saved[d], m \in saved[d] : m < n
  BY DEF InOrder
<1> QED BY <1>4, <1>5, PTL DEF StrictSequencing
==============================================================================
