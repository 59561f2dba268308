----------------------- MODULE SessionRegistryProofs -----------------------
(***************************************************************************)
(* Proofs about SessionRegistry, for any number of sessions and cleanup    *)
(* tasks, any queue capacity and any Redis failures: the session that      *)
(* serves the device is the one the registry knows, and the registry keeps *)
(* no session that has ended.                                              *)
(*                                                                         *)
(* The argument: only a session that holds the registry lock, or finds it  *)
(* free, puts itself into the registry, and when it does the session that  *)
(* stood there is gone or its socket has been closed (Locked, Shut).  What *)
(* was closed never serves again, because a socket is opened only by a     *)
(* session that nobody can have known before (Known).                      *)
(***************************************************************************)
EXTENDS SessionRegistry, TLAPS

(* A session that is superseding another one holds the lock, and nobody but   *)
(* that other session can stand in the registry meanwhile.                    *)
Locked ==
    \A s \in Sessions : At(s, "evict") =>
        /\ holder = s
        /\ closing[s].of \in Sessions
        /\ entry \in {NoOne, closing[s].of}

(* A close() that is over has closed its socket.                              *)
Shut == \A e \in Exec : CloseAt(e, "end") => closing[e].of \notin open

(* A task runs close() only where it awaits its end.                          *)
Free == \A e \in Exec : pc[e] \notin {"evict", "closing"} => closing[e] = NoClose

(* Whoever is being closed, or stands in the registry, has connected.         *)
Known ==
    /\ \A e \in Exec : closing[e].of \in Sessions => ~At(closing[e].of, "new")
    /\ entry \in Sessions => ~At(entry, "new")

(* A session's task that ends closes its own session; from then on, but for   *)
(* the first step of close(), the registry does not hold it.                  *)
Own == \A s \in Sessions : At(s, "closing") => closing[s].of = s
Gone ==
    \A s \in Sessions :
        At(s, "done") \/ (At(s, "closing") /\ ~CloseAt(s, "cancel")) => entry # s

Inv == TypeOK /\ Locked /\ Shut /\ Free /\ Known /\ Own /\ Gone /\ ServingIsRegistered

USE DEF Goto, At, CloseAt, CloseGoto, StartClose

-----------------------------------------------------------------------------
(* Type correctness.                                                          *)

(* A close() that has started is about a session; the types of its next place *)
(* and of a new one.                                                          *)
LEMMA CloseType ==
    ASSUME NEW e \in Exec, TypeOK
    PROVE  /\ closing[e] \in Close
           /\ closing[e].at # "no" => closing[e].of \in Sessions
           /\ \A l \in {"put", "shut", "end"} :
                closing[e].at # "no" /\ CloseGoto(e, l) => closing' \in [Exec -> Close]
           /\ \A s \in Sessions : StartClose(e, s) => closing' \in [Exec -> Close]
<1>1. closing[e] \in Close
  BY DEF TypeOK
<1>2. closing[e].at # "no" => closing[e].of \in Sessions
  BY <1>1 DEF Close, NoClose
<1>3. ASSUME NEW l \in {"put", "shut", "end"}, closing[e].at # "no", CloseGoto(e, l)
      PROVE  closing' \in [Exec -> Close]
  <2>1. [closing[e] EXCEPT !.at = l] = [of |-> closing[e].of, at |-> l]
    BY <1>1, <1>3 DEF Close, NoClose
  <2>2. [of |-> closing[e].of, at |-> l] \in Close
    BY <1>2, <1>3 DEF Close
  <2>3. closing' = [closing EXCEPT ![e] = [of |-> closing[e].of, at |-> l]]
    BY <1>3, <2>1
  <2> QED BY <2>2, <2>3 DEF TypeOK
<1>4. ASSUME NEW s \in Sessions, StartClose(e, s)
      PROVE  closing' \in [Exec -> Close]
  <2>1. [of |-> s, at |-> "cancel"] \in Close
    BY DEF Close
  <2> QED BY <1>4, <2>1 DEF TypeOK
<1> QED BY <1>1, <1>2, <1>3, <1>4

(* The tasks of redisOps are removed one by one, or added by their maker.     *)
LEMMA OpTypes ==
    ASSUME NEW s \in Sessions
    PROVE  /\ [kind |-> "clear", by |-> s, at |-> "key"] \in Op
           /\ [kind |-> "beat", by |-> s, at |-> "key"] \in Op
           /\ [of |-> s, old |-> s \notin fresh] \in [of : Sessions \cup {NoOne}, old : BOOLEAN]
           /\ NoField \in [of : Sessions \cup {NoOne}, old : BOOLEAN]
BY DEF Op, NoField

LEMMA TypeStep == TypeOK /\ [Next]_vars => TypeOK'
<1> SUFFICES ASSUME TypeOK, [Next]_vars PROVE TypeOK'
  OBVIOUS
<1> USE SessionAssumption DEF Exec
<1>1. ASSUME NEW s \in Sessions, Connect(s) PROVE TypeOK'
  BY <1>1 DEF Connect, TypeOK, Stage, presence, stream
<1>2. ASSUME NEW s \in Sessions, Register(s) PROVE TypeOK'
  BY <1>2, CloseType DEF Register, TypeOK, Stage, presence, stream
<1>3. ASSUME NEW s \in Sessions, RunStep(s) PROVE TypeOK'
  <2>1. CASE SetKey(s)
    BY <2>1 DEF SetKey, TypeOK, Stage, presence, stream
  <2>2. CASE SetField(s)
    BY <2>2, OpTypes DEF SetField, TypeOK, Stage, presence, stream
  <2>3. CASE Acknowledge(s)
    <3>1. closing' \in [Exec -> Close]
      BY <2>3, CloseType DEF Acknowledge, TypeOK
    <3>2. pc' \in [Exec -> Stage \cup CleanerStage]
      BY <2>3 DEF Acknowledge, TypeOK, Stage
    <3> QED BY <2>3, <3>1, <3>2 DEF Acknowledge, TypeOK, presence, stream
  <2>4. CASE Enqueue(s)
    BY <2>4 DEF Enqueue, TypeOK, Stage, presence, stream
  <2>5. CASE TakeOver(s)
    BY <2>5 DEF TakeOver, TypeOK, Stage, Close, presence, stream
  <2>6. CASE Finish(s)
    BY <2>6 DEF Finish, TypeOK, Stage, Close, presence, stream
  <2> QED BY <1>3, <2>1, <2>2, <2>3, <2>4, <2>5, <2>6 DEF RunStep
<1>4. ASSUME NEW s \in Sessions, Receive(s) PROVE TypeOK'
  <2>1. closing' \in [Exec -> Close]
    BY <1>4, CloseType DEF Receive, TypeOK
  <2>2. pc' \in [Exec -> Stage \cup CleanerStage]
    BY <1>4 DEF Receive, TypeOK, Stage
  <2>3. redisOps' \subseteq Op
    <3>1. [kind |-> "beat", by |-> s, at |-> "key"] \in Op
      BY DEF Op
    <3>2. redisOps' = redisOps \cup {[kind |-> "beat", by |-> s, at |-> "key"]}
      BY <1>4 DEF Receive
    <3> QED BY <3>1, <3>2 DEF TypeOK
  <2> QED BY <1>4, <2>1, <2>2, <2>3 DEF Receive, TypeOK, presence, stream
<1>5. ASSUME NEW s \in Sessions, EndOfStream(s) PROVE TypeOK'
  BY <1>5, CloseType DEF EndOfStream, TypeOK, Stage, presence, stream
<1>6. ASSUME NEW s \in Sessions, Age(s) PROVE TypeOK'
  <2>1. [field EXCEPT !.old = TRUE] \in [of : Sessions \cup {NoOne}, old : BOOLEAN]
    BY DEF TypeOK
  <2> QED BY <1>6, <2>1 DEF Age, TypeOK, stream
<1>7. ASSUME NEW e \in Exec, CloseStep(e) PROVE TypeOK'
  <2>1. CASE CloseUnregister(e)
    <3>1. closing[e].of \in Sessions /\ closing' \in [Exec -> Close]
      BY <2>1, CloseType DEF CloseUnregister
    <3>2. entry' \in Sessions \cup {NoOne} /\ redisOps' \subseteq Op
      <4> DEFINE s == closing[e].of
      <4>1. [kind |-> "clear", by |-> s, at |-> "key"] \in Op
        BY <3>1 DEF Op
      <4>2. Unregister(s)
        BY <2>1 DEF CloseUnregister
      <4> HIDE DEF s
      <4> QED BY <4>1, <4>2 DEF Unregister, TypeOK
    <3> QED BY <2>1, <3>1, <3>2 DEF CloseUnregister, TypeOK, presence, stream
  <2>2. CASE CloseEnqueue(e)
    <3>1. closing' \in [Exec -> Close]
      BY <2>2, CloseType DEF CloseEnqueue
    <3> QED BY <2>2, <3>1 DEF CloseEnqueue, TypeOK, presence, Offline
  <2>3. CASE CloseSocket(e)
    <3>1. closing' \in [Exec -> Close]
      BY <2>3, CloseType DEF CloseSocket
    <3> QED BY <2>3, <3>1 DEF CloseSocket, TypeOK, presence, stream
  <2> QED BY <1>7, <2>1, <2>2, <2>3 DEF CloseStep
<1>8. ASSUME NEW c \in Cleaners, CleanStep(c) PROVE TypeOK'
  <2>1. CASE Scan(c)
    BY <2>1, CloseType DEF Scan, TypeOK, CleanerStage, presence, stream
  <2>2. CASE Evicted(c)
    BY <2>2 DEF Evicted, TypeOK, CleanerStage, Close, presence, stream
  <2>3. CASE Fetch(c)
    BY <2>3 DEF Fetch, TypeOK, CleanerStage, presence, stream
  <2>4. CASE DeleteField(c)
    <3>1. NoField \in [of : Sessions \cup {NoOne}, old : BOOLEAN]
      BY DEF NoField
    <3>2. field' \in [of : Sessions \cup {NoOne}, old : BOOLEAN]
      BY <2>4, <3>1 DEF DeleteField, TypeOK
    <3>3. pc' \in [Exec -> Stage \cup CleanerStage]
      BY <2>4 DEF DeleteField, TypeOK, CleanerStage
    <3> QED BY <2>4, <3>2, <3>3 DEF DeleteField, TypeOK, stream
  <2>5. CASE DeleteKey(c)
    BY <2>5 DEF DeleteKey, TypeOK, CleanerStage, presence, stream
  <2> QED BY <1>8, <2>1, <2>2, <2>3, <2>4, <2>5 DEF CleanStep
<1>9. ASSUME NEW o \in redisOps, OpKey(o) PROVE TypeOK'
  <2>1. o \in Op /\ [o EXCEPT !.at = "field"] \in Op
    BY DEF TypeOK, Op
  <2>2. o.by \in Sessions
    BY <2>1 DEF Op
  <2> QED BY <1>9, <2>1, <2>2 DEF OpKey, TypeOK, stream
<1>10. ASSUME NEW o \in redisOps, OpField(o) PROVE TypeOK'
  <2>1. o.by \in Sessions
    BY DEF TypeOK, Op
  <2>2. /\ [of |-> o.by, old |-> o.by \notin fresh] \in [of : Sessions \cup {NoOne}, old : BOOLEAN]
        /\ NoField \in [of : Sessions \cup {NoOne}, old : BOOLEAN]
    BY <2>1, OpTypes
  <2>3. field' \in [of : Sessions \cup {NoOne}, old : BOOLEAN]
    BY <1>10, <2>2 DEF OpField, TypeOK
  <2> QED BY <1>10, <2>3 DEF OpField, TypeOK, stream
<1>11. CASE Expire
  BY <1>11 DEF Expire, TypeOK, stream
<1>12. CASE Process
  BY <1>12 DEF Process, TypeOK, presence
<1>13. CASE UNCHANGED vars
  BY <1>13 DEF vars, TypeOK, presence, stream
<1> QED BY <1>1, <1>2, <1>3, <1>4, <1>5, <1>6, <1>7, <1>8, <1>9, <1>10, <1>11, <1>12, <1>13 DEF Next

-----------------------------------------------------------------------------
(* The steps that change nothing but where a serving session is, and Redis,   *)
(* the queue or the clocks.                                                   *)
Serves == {"setkey", "setfield", "ack", "read", "enqueue"}
Calm ==
    /\ UNCHANGED <<entry, holder, closing, open>>
    /\ \A e \in Exec :
        \/ pc'[e] = pc[e]
        \/ e \in Sessions /\ pc[e] \in Serves /\ pc'[e] \in Serves
        \/ e \in Cleaners /\ {pc[e], pc'[e]} \cap {"evict", "closing"} = {}

LEMMA CalmStep == Inv /\ TypeOK' /\ Calm => Inv'
<1> SUFFICES ASSUME Inv, TypeOK', Calm PROVE Inv'
  OBVIOUS
<1> USE SessionAssumption DEF Serves, Exec
<1>1. Locked'
  BY DEF Inv, Locked, Calm
<1>2. Shut'
  BY DEF Inv, Shut, Calm
<1>3. Free'
  BY DEF Inv, Free, Calm
<1>4. Known'
  <2>1. \A e \in Exec : closing[e].of \in Sessions => pc'[closing[e].of] # "new"
    BY DEF Inv, Known, Calm
  <2>2. entry \in Sessions => pc'[entry] # "new"
    BY DEF Inv, Known, Calm
  <2> QED BY <2>1, <2>2 DEF Known, Calm
<1>5. Own'
  BY DEF Inv, Own, Calm
<1>6. Gone'
  BY DEF Inv, Gone, Calm
<1>7. ServingIsRegistered'
  <2>1. ASSUME NEW t \in Sessions, Serving(t)' PROVE Serving(t)
    BY <2>1 DEF Serving, Calm
  <2> QED BY <2>1 DEF Inv, ServingIsRegistered, Calm
<1> QED BY <1>1, <1>2, <1>3, <1>4, <1>5, <1>6, <1>7 DEF Inv

LEMMA CalmGoto ==
    ASSUME TypeOK, NEW e \in Exec, NEW l, Goto(e, l),
           UNCHANGED <<entry, holder, closing, open>>,
           \/ e \in Sessions /\ pc[e] \in Serves /\ l \in Serves
           \/ e \in Cleaners /\ pc[e] \notin {"evict", "closing"} /\ l \notin {"evict", "closing"}
    PROVE  Calm
<1>1. pc'[e] = l /\ \A d \in Exec : d # e => pc'[d] = pc[d]
  BY DEF TypeOK
<1> QED BY <1>1 DEF Calm

(* A session of its own accord ends: it starts to close itself.               *)
LEMMA StartOwnClose ==
    ASSUME Inv, TypeOK', NEW s \in Sessions, pc[s] \in Serves,
           Goto(s, "closing"), StartClose(s, s),
           UNCHANGED <<entry, holder, open>>
    PROVE  Inv'
<1> USE DEF Serves
<1>0. s \in Exec /\ pc[s] # "evict" /\ pc \in [Exec -> Stage \cup CleanerStage] /\ closing \in [Exec -> Close]
  BY DEF Exec, Inv, TypeOK
<1>1. /\ closing'[s].of = s /\ closing'[s].at = "cancel"
      /\ closing[s] = NoClose
      /\ \A e \in Exec : e # s => closing'[e] = closing[e]
      /\ pc'[s] = "closing"
      /\ \A e \in Exec : e # s => pc'[e] = pc[e]
  BY <1>0 DEF Inv, Free
<1>2. Locked'
  BY <1>0, <1>1 DEF Inv, Locked, Exec
<1>3. Shut'
  BY <1>0, <1>1 DEF Inv, Shut
<1>4. Free'
  BY <1>0, <1>1 DEF Inv, Free
<1>5. Known'
  BY <1>0, <1>1 DEF Inv, Known, Exec
<1>6. Own'
  BY <1>0, <1>1 DEF Inv, Own, Exec
<1>7. Gone'
  BY <1>0, <1>1 DEF Inv, Gone, Exec
<1>8. ServingIsRegistered'
  <2>1. ASSUME NEW t \in Sessions, Serving(t)' PROVE Serving(t)
    <3>1. t # s
      BY <1>1, <2>1 DEF Serving
    <3>2. t # NoOne
      BY SessionAssumption DEF Exec
    <3> QED BY <1>1, <2>1, <3>1, <3>2 DEF Serving, Exec, NoClose
  <2> QED BY <2>1 DEF Inv, ServingIsRegistered
<1> QED BY <1>2, <1>3, <1>4, <1>5, <1>6, <1>7, <1>8 DEF Inv

-----------------------------------------------------------------------------
(* The steps of close().                                                      *)
LEMMA CloseSteps ==
    ASSUME Inv, TypeOK', NEW e \in Exec, CloseStep(e)
    PROVE  Inv'
<1> USE SessionAssumption DEF Exec
<1> DEFINE s == closing[e].of
<1>0. /\ s \in Sessions /\ pc' = pc /\ holder' = holder
      /\ closing \in [Exec -> Close] /\ closing[e] # NoClose
      /\ closing'[e].of = s
      /\ closing'[e].at \in {"put", "shut", "end"}
      /\ \A d \in Exec : d # e => closing'[d] = closing[d]
      /\ open' \subseteq open
      /\ entry' = entry \/ (entry = s /\ entry' = NoOne)
  <2>1. closing \in [Exec -> Close] /\ closing[e].at # "no"
    BY DEF Inv, TypeOK, CloseStep, CloseUnregister, CloseEnqueue, CloseSocket
  <2>2. s \in Sessions
    BY <2>1, CloseType DEF Inv
  <2>3. \E l \in {"put", "shut", "end"} : closing' = [closing EXCEPT ![e].at = l]
    BY DEF CloseStep, CloseUnregister, CloseEnqueue, CloseSocket
  <2>4. /\ closing'[e].of = s
        /\ closing'[e].at \in {"put", "shut", "end"}
        /\ \A d \in Exec : d # e => closing'[d] = closing[d]
    BY <2>1, <2>3 DEF Close, NoClose
  <2>5. entry' = entry \/ (entry = s /\ entry' = NoOne)
    BY DEF CloseStep, CloseUnregister, CloseEnqueue, CloseSocket, Unregister
  <2>6. pc' = pc /\ holder' = holder /\ open' \subseteq open
    BY DEF CloseStep, CloseUnregister, CloseEnqueue, CloseSocket
  <2> QED BY <2>1, <2>2, <2>4, <2>5, <2>6 DEF NoClose
<1>1. Locked'
  BY <1>0 DEF Inv, Locked
<1>2. Shut'
  <2>1. closing'[e].at = "end" => s \notin open'
    <3>1. CASE CloseSocket(e)
      BY <3>1 DEF CloseSocket
    <3>2. CASE CloseUnregister(e)
      BY <3>2, <1>0 DEF CloseUnregister, Close, NoClose
    <3>3. CASE CloseEnqueue(e)
      BY <3>3, <1>0 DEF CloseEnqueue, Close, NoClose
    <3> QED BY <3>1, <3>2, <3>3 DEF CloseStep
  <2> HIDE DEF s
  <2> QED BY <1>0, <2>1 DEF Inv, Shut
<1>3. Free'
  BY <1>0 DEF Inv, Free
<1>4. Known'
  BY <1>0 DEF Inv, Known
<1>5. Own'
  BY <1>0 DEF Inv, Own
<1>6. Gone'
  <2>1. ASSUME NEW t \in Sessions, pc[t] = "closing", closing'[t].at # "cancel"
        PROVE  entry' # t
    <3>1. CASE t # e
      BY <1>0, <2>1, <3>1 DEF Inv, Gone
    <3>2. CASE t = e
      <4>1. s = t
        BY <2>1, <3>2 DEF Inv, Own
      <4>2. CASE CloseUnregister(e)
        BY <4>1, <4>2, <1>0 DEF CloseUnregister, Unregister
      <4>3. CASE CloseEnqueue(e) \/ CloseSocket(e)
        <5>1. closing[e].at # "cancel" /\ entry' = entry
          BY <4>3 DEF CloseEnqueue, CloseSocket
        <5> QED BY <5>1, <3>2, <2>1 DEF Inv, Gone
      <4> QED BY <4>2, <4>3 DEF CloseStep
    <3> QED BY <3>1, <3>2
  <2>2. ASSUME NEW t \in Sessions, pc[t] = "done" PROVE entry' # t
    BY <1>0, <2>2 DEF Inv, Gone
  <2> QED BY <1>0, <2>1, <2>2 DEF Gone
<1>7. ServingIsRegistered'
  <2>1. ASSUME NEW t \in Sessions, Serving(t)' PROVE entry' = t
    <3>1. t # s
      BY <1>0, <2>1 DEF Serving
    <3>2. Serving(t)
      BY <1>0, <2>1, <3>1 DEF Serving
    <3> QED BY <1>0, <3>1, <3>2 DEF Inv, ServingIsRegistered
  <2> QED BY <2>1 DEF ServingIsRegistered
<1> QED BY <1>1, <1>2, <1>3, <1>4, <1>5, <1>6, <1>7 DEF Inv

(* close() returns to whoever called it: a session that takes the registry    *)
(* over, one that is done, or the cleanup task.                               *)
LEMMA Returned ==
    ASSUME Inv, TypeOK', NEW e \in Exec, CloseAt(e, "end"), NEW l,
           closing' = [closing EXCEPT ![e] = NoClose],
           pc' = [pc EXCEPT ![e] = l],
           UNCHANGED open,
           \/ /\ e \in Sessions /\ pc[e] = "evict" /\ l = "setkey"
              /\ entry' = e /\ holder' = NoOne
           \/ /\ e \in Sessions /\ pc[e] = "closing" /\ l = "done"
              /\ UNCHANGED <<entry, holder>>
           \/ /\ e \in Cleaners /\ l = "fetch"
              /\ UNCHANGED <<entry, holder>>
    PROVE  Inv'
<1> USE SessionAssumption DEF Exec
<1>0. /\ closing'[e] = NoClose /\ pc'[e] = l
      /\ \A d \in Exec : d # e => closing'[d] = closing[d] /\ pc'[d] = pc[d]
      /\ closing[e].of \in Sessions /\ closing[e].of \notin open
  BY CloseType DEF Inv, TypeOK, Shut
<1>1. Locked'
  <2>1. ASSUME NEW t \in Sessions, pc'[t] = "evict"
        PROVE  t # e /\ pc[t] = "evict" /\ UNCHANGED <<entry, holder>>
    BY <1>0, <2>1 DEF Inv, Locked
  <2> QED BY <1>0, <2>1 DEF Inv, Locked
<1>2. Shut'
  BY <1>0 DEF Inv, Shut, NoClose
<1>3. Free'
  BY <1>0 DEF Inv, Free
<1>4. Known'
  <2>1. \A d \in Exec : closing'[d].of \in Sessions => pc'[closing'[d].of] # "new"
    <3>1. ASSUME NEW d \in Exec, closing'[d].of \in Sessions PROVE pc'[closing'[d].of] # "new"
      <4>1. d # e /\ closing'[d] = closing[d]
        BY <1>0, <3>1 DEF NoClose
      <4>2. pc[closing[d].of] # "new"
        BY <3>1, <4>1 DEF Inv, Known
      <4> QED BY <1>0, <3>1, <4>1, <4>2
    <3> QED BY <3>1
  <2>2. entry' \in Sessions => pc'[entry'] # "new"
    BY <1>0 DEF Inv, Known
  <2> QED BY <2>1, <2>2 DEF Known
<1>5. Own'
  BY <1>0 DEF Inv, Own
<1>6. Gone'
  <2>1. CASE entry' = e /\ l = "setkey"
    BY <1>0, <2>1 DEF Inv, Gone
  <2>2. CASE entry' = entry
    BY <1>0, <2>2 DEF Inv, Gone
  <2> QED BY <2>1, <2>2
<1>7. ServingIsRegistered'
  <2>1. ASSUME NEW t \in Sessions, Serving(t)', t # e PROVE Serving(t) /\ entry' = entry
    <3>1. t # closing[e].of
      BY <1>0, <2>1 DEF Serving
    <3>2. Serving(t)
      BY <1>0, <2>1, <3>1 DEF Serving
    <3>3. entry = t
      BY <3>2 DEF Inv, ServingIsRegistered
    <3> QED BY <3>1, <3>2, <3>3 DEF Inv, Locked
  <2>2. ASSUME Serving(e)', e \in Sessions PROVE entry' = e
    BY <1>0, <2>2 DEF Serving
  <2> QED BY <2>1, <2>2 DEF Inv, ServingIsRegistered
<1> QED BY <1>1, <1>2, <1>3, <1>4, <1>5, <1>6, <1>7 DEF Inv

(* A session registers: it finds the registry empty, or starts to close the   *)
(* session that stands there.                                                 *)
LEMMA RegisterStep ==
    ASSUME Inv, TypeOK', NEW s \in Sessions, Register(s)
    PROVE  Inv'
<1> USE SessionAssumption DEF Exec
<1>0. /\ pc[s] = "wait" /\ holder = NoOne /\ closing[s] = NoClose /\ open' = open
      /\ \A d \in Exec : d # s => pc'[d] = pc[d]
      /\ \A t \in Sessions : pc[t] # "evict"
      /\ closing \in [Exec -> Close] /\ pc \in [Exec -> Stage \cup CleanerStage]
  BY DEF Register, Inv, TypeOK, Free, Locked
<1>1. CASE entry \in {NoOne, s}
  <2>0. entry' = s /\ pc'[s] = "setkey" /\ closing' = closing /\ holder' = holder
    BY <1>0, <1>1 DEF Register
  <2>1. Locked' /\ Shut' /\ Free' /\ Own' /\ Gone'
    BY <1>0, <2>0 DEF Inv, Locked, Shut, Free, Own, Gone
  <2>2. Known'
    BY <1>0, <2>0 DEF Inv, Known
  <2>3. ServingIsRegistered'
    <3>1. ASSUME NEW t \in Sessions, Serving(t)', t # s PROVE FALSE
      <4>1. Serving(t)
        BY <1>0, <2>0, <3>1 DEF Serving
      <4> QED BY <1>1, <3>1, <4>1 DEF Inv, ServingIsRegistered
    <3> QED BY <2>0, <3>1 DEF ServingIsRegistered
  <2> QED BY <2>1, <2>2, <2>3 DEF Inv
<1>2. CASE entry \notin {NoOne, s}
  <2>0. /\ entry' = entry /\ entry \in Sessions /\ holder' = s /\ pc'[s] = "evict"
        /\ closing'[s] = [of |-> entry, at |-> "cancel"]
        /\ \A d \in Exec : d # s => closing'[d] = closing[d]
    BY <1>0, <1>2 DEF Register, Inv, TypeOK
  <2>1. Locked' /\ Free' /\ Own'
    BY <1>0, <2>0 DEF Inv, Locked, Free, Own
  <2>2. Shut'
    BY <1>0, <2>0 DEF Inv, Shut
  <2>3. Known'
    BY <1>0, <2>0 DEF Inv, Known
  <2>4. Gone'
    BY <1>0, <2>0 DEF Inv, Gone
  <2>5. ServingIsRegistered'
    <3>1. ASSUME NEW t \in Sessions, Serving(t)' PROVE Serving(t)
      BY <1>0, <2>0, <3>1 DEF Serving, NoClose
    <3> QED BY <2>0, <3>1 DEF Inv, ServingIsRegistered
  <2> QED BY <2>1, <2>2, <2>3, <2>4, <2>5 DEF Inv
<1> QED BY <1>1, <1>2

(* A new connection: a session nobody can have known.                         *)
LEMMA ConnectStep ==
    ASSUME Inv, TypeOK', NEW s \in Sessions, Connect(s)
    PROVE  Inv'
<1> USE SessionAssumption DEF Exec
<1>0. /\ pc[s] = "new" /\ pc'[s] = "wait" /\ open' = open \cup {s}
      /\ \A d \in Exec : d # s => pc'[d] = pc[d]
      /\ UNCHANGED <<entry, holder, closing>>
      /\ entry # s /\ \A e \in Exec : closing[e].of # s
  BY DEF Connect, Inv, TypeOK, Known
<1>1. Locked' /\ Free' /\ Own' /\ Gone'
  BY <1>0 DEF Inv, Locked, Free, Own, Gone
<1>2. Shut'
  BY <1>0 DEF Inv, Shut
<1>3. Known'
  <2>1. \A e \in Exec : closing[e].of \in Sessions => pc'[closing[e].of] # "new"
    BY <1>0 DEF Inv, Known
  <2>2. entry \in Sessions => pc'[entry] # "new"
    BY <1>0 DEF Inv, Known
  <2> QED BY <1>0, <2>1, <2>2 DEF Known
<1>4. ServingIsRegistered'
  <2>1. ASSUME NEW t \in Sessions, Serving(t)' PROVE Serving(t)
    BY <1>0, <2>1 DEF Serving
  <2> QED BY <1>0, <2>1 DEF Inv, ServingIsRegistered
<1> QED BY <1>1, <1>2, <1>3, <1>4 DEF Inv

(* The cleanup task's scan: it may start to close the session it finds.       *)
LEMMA ScanStep ==
    ASSUME Inv, TypeOK', NEW c \in Cleaners, Scan(c)
    PROVE  Inv'
<1> USE SessionAssumption DEF Exec
<1>1. CASE UNCHANGED closing /\ Goto(c, "fetch")
  <2>1. Calm
    <3>1. pc[c] = "idle" /\ UNCHANGED <<entry, holder, open>> /\ TypeOK /\ c \in Exec
      BY DEF Scan, Inv
    <3> QED BY <1>1, <3>1, CalmGoto
  <2> QED BY <2>1, CalmStep
<1>2. CASE /\ entry # NoOne
           /\ StartClose(c, entry) /\ Goto(c, "evict")
  <2>0. /\ entry \in Sessions /\ closing[c] = NoClose /\ pc'[c] = "evict"
        /\ closing'[c] = [of |-> entry, at |-> "cancel"]
        /\ \A d \in Exec : d # c => closing'[d] = closing[d] /\ pc'[d] = pc[d]
        /\ UNCHANGED <<entry, holder, open>>
    BY <1>2 DEF Scan, Inv, TypeOK, Free
  <2>1. Locked' /\ Free' /\ Own' /\ Gone'
    BY <2>0 DEF Inv, Locked, Free, Own, Gone
  <2>2. Shut'
    BY <2>0 DEF Inv, Shut
  <2>3. Known'
    BY <2>0 DEF Inv, Known
  <2>4. ServingIsRegistered'
    <3>1. ASSUME NEW t \in Sessions, Serving(t)' PROVE Serving(t)
      BY <2>0, <3>1 DEF Serving, NoClose
    <3> QED BY <2>0, <3>1 DEF Inv, ServingIsRegistered
  <2> QED BY <2>1, <2>2, <2>3, <2>4 DEF Inv
<1> QED BY <1>1, <1>2 DEF Scan

-----------------------------------------------------------------------------
LEMMA InitInv == Init => Inv
<1> SUFFICES ASSUME Init PROVE Inv
  OBVIOUS
<1> USE SessionAssumption DEF Exec
<1>1. TypeOK
  BY DEF Init, TypeOK, Stage, CleanerStage, Close, NoField, Offline
<1>2. Locked /\ Shut /\ Free /\ Known /\ Own /\ Gone
  BY DEF Init, Locked, Shut, Free, Known, Own, Gone, NoClose
<1>3. ServingIsRegistered
  BY DEF Init, ServingIsRegistered, Serving
<1> QED BY <1>1, <1>2, <1>3 DEF Inv

LEMMA NextInv == Inv /\ [Next]_vars => Inv'
<1> SUFFICES ASSUME Inv, [Next]_vars PROVE Inv'
  OBVIOUS
<1>0. TypeOK' /\ TypeOK
  BY TypeStep DEF Inv
<1>a. /\ pc \in [Exec -> Stage \cup CleanerStage] /\ closing \in [Exec -> Close]
      /\ \A s \in Sessions : s \in Exec
      /\ \A c \in Cleaners : c \in Exec
  BY <1>0 DEF TypeOK, Exec
<1>1. ASSUME NEW s \in Sessions, Connect(s) PROVE Inv'
  BY <1>0, <1>1, ConnectStep
<1>2. ASSUME NEW s \in Sessions, Register(s) PROVE Inv'
  BY <1>0, <1>2, RegisterStep
<1>3. ASSUME NEW s \in Sessions, RunStep(s) PROVE Inv'
  <2>1. CASE SetKey(s) \/ SetField(s) \/ Enqueue(s)
    <3>1. Calm
      <4>1. /\ pc[s] \in Serves /\ UNCHANGED <<entry, holder, closing, open>>
            /\ \E l \in Serves : Goto(s, l)
        BY <2>1 DEF SetKey, SetField, Enqueue, Serves
      <4> QED BY <1>0, <1>a, <4>1, CalmGoto
    <3> QED BY <1>0, <3>1, CalmStep
  <2>2. CASE Acknowledge(s)
    <3>1. CASE Goto(s, "read") /\ UNCHANGED closing
      <4>1. Calm
        <5>1. /\ pc[s] \in Serves /\ UNCHANGED <<entry, holder, closing, open>> /\ "read" \in Serves
          BY <2>2, <3>1 DEF Acknowledge, Serves
        <5> QED BY <1>0, <1>a, <3>1, <5>1, CalmGoto
      <4> QED BY <1>0, <4>1, CalmStep
    <3>2. CASE Goto(s, "closing") /\ StartClose(s, s)
      <4>1. pc[s] \in Serves /\ UNCHANGED <<entry, holder, open>>
        BY <2>2 DEF Acknowledge, Serves
      <4> QED BY <1>0, <3>2, <4>1, StartOwnClose
    <3> QED BY <2>2, <3>1, <3>2 DEF Acknowledge
  <2>3. CASE TakeOver(s)
    <3>1. /\ CloseAt(s, "end") /\ pc[s] = "evict" /\ entry' = s /\ holder' = NoOne
          /\ closing' = [closing EXCEPT ![s] = NoClose]
          /\ pc' = [pc EXCEPT ![s] = "setkey"] /\ UNCHANGED open
      BY <2>3 DEF TakeOver
    <3> QED BY <1>0, <1>a, <3>1, Returned
  <2>4. CASE Finish(s)
    <3>1. /\ CloseAt(s, "end") /\ pc[s] = "closing" /\ UNCHANGED <<entry, holder>>
          /\ closing' = [closing EXCEPT ![s] = NoClose]
          /\ pc' = [pc EXCEPT ![s] = "done"] /\ UNCHANGED open
      BY <2>4 DEF Finish
    <3> QED BY <1>0, <1>a, <3>1, Returned
  <2> QED BY <1>3, <2>1, <2>2, <2>3, <2>4 DEF RunStep
<1>4. ASSUME NEW s \in Sessions, Receive(s) PROVE Inv'
  <2>1. CASE (Goto(s, "enqueue") \/ UNCHANGED pc) /\ UNCHANGED closing
    <3>1. Calm
      <4>1. /\ pc[s] \in Serves /\ UNCHANGED <<entry, holder, closing, open>>
            /\ "enqueue" \in Serves
        BY <1>4, <2>1 DEF Receive, Serves
      <4>2. CASE Goto(s, "enqueue")
        BY <1>0, <1>a, <4>1, <4>2, CalmGoto
      <4>3. CASE UNCHANGED pc
        BY <4>1, <4>3 DEF Calm
      <4> QED BY <2>1, <4>2, <4>3
    <3> QED BY <1>0, <3>1, CalmStep
  <2>2. CASE Goto(s, "closing") /\ StartClose(s, s)
    <3>1. pc[s] \in Serves /\ UNCHANGED <<entry, holder, open>>
      BY <1>4 DEF Receive, Serves
    <3> QED BY <1>0, <2>2, <3>1, StartOwnClose
  <2> QED BY <1>4, <2>1, <2>2 DEF Receive
<1>5. ASSUME NEW s \in Sessions, EndOfStream(s) PROVE Inv'
  <2>1. /\ pc[s] \in Serves /\ UNCHANGED <<entry, holder, open>>
        /\ Goto(s, "closing") /\ StartClose(s, s)
    BY <1>5 DEF EndOfStream, Serves
  <2> QED BY <1>0, <2>1, StartOwnClose
<1>6. ASSUME NEW e \in Exec, CloseStep(e) PROVE Inv'
  BY <1>0, <1>6, CloseSteps
<1>7. ASSUME NEW c \in Cleaners, CleanStep(c) PROVE Inv'
  <2>1. CASE Scan(c)
    BY <1>0, <2>1, ScanStep
  <2>2. CASE Evicted(c)
    <3>1. /\ CloseAt(c, "end") /\ UNCHANGED <<entry, holder>>
          /\ closing' = [closing EXCEPT ![c] = NoClose]
          /\ pc' = [pc EXCEPT ![c] = "fetch"] /\ UNCHANGED open
      BY <2>2 DEF Evicted
    <3> QED BY <1>0, <1>a, <3>1, Returned
  <2>3. CASE Fetch(c) \/ DeleteField(c) \/ DeleteKey(c)
    <3>1. Calm
      <4>1. /\ pc[c] \notin {"evict", "closing"} /\ UNCHANGED <<entry, holder, closing, open>>
            /\ \E l \in {"delfield", "delkey", "idle"} : Goto(c, l)
        BY <2>3 DEF Fetch, DeleteField, DeleteKey
      <4> QED BY <1>0, <1>a, <4>1, CalmGoto
    <3> QED BY <1>0, <3>1, CalmStep
  <2> QED BY <1>7, <2>1, <2>2, <2>3 DEF CleanStep
<1>8. CASE \/ \E o \in redisOps : OpKey(o) \/ OpField(o)
           \/ \E s \in Sessions : Age(s)
           \/ Expire \/ Process \/ UNCHANGED vars
  <2>1. UNCHANGED <<entry, holder, pc, closing, open>>
    BY <1>8 DEF OpKey, OpField, Age, Expire, Process, vars
  <2>2. Calm
    BY <2>1 DEF Calm
  <2> QED BY <1>0, <2>2, CalmStep
<1> QED BY <1>1, <1>2, <1>3, <1>4, <1>5, <1>6, <1>7, <1>8 DEF Next

(* Every variable keeps its type.                                             *)
THEOREM TypeCorrect == Spec => []TypeOK
<1>1. Init => TypeOK
  BY InitInv DEF Inv
<1> QED BY <1>1, TypeStep, PTL DEF Spec

LEMMA Invariant == Spec => []Inv
BY InitInv, NextInv, PTL DEF Spec

(* "Authoritative Sessions": whoever serves the device is the session that    *)
(* ConnectionManager returns for it, whatever the interleaving of register(), *)
(* the several close() calls and cleanup_dead_sockets().                      *)
THEOREM ServedSessionIsRegistered == Spec => []ServingIsRegistered
<1>1. Inv => ServingIsRegistered
  BY DEF Inv
<1> QED BY <1>1, Invariant, PTL

(* ... so that at most one session serves it.                                 *)
THEOREM AtMostOneServes ==
    Spec => [](\A s, t \in Sessions : Serving(s) /\ Serving(t) => s = t)
<1>1. Inv => \A s, t \in Sessions : Serving(s) /\ Serving(t) => s = t
  BY DEF Inv, ServingIsRegistered
<1> QED BY <1>1, Invariant, PTL

(* "Kills ghost sessions": the registry holds no session whose task has ended.*)
THEOREM NoGhostRemains == Spec => []NoGhostEntry
<1>1. Inv => NoGhostEntry
  BY DEF Inv, Gone, NoGhostEntry
<1> QED BY <1>1, Invariant, PTL

(* "Ensures only one active socket per IMEI", as far as it is true: if two    *)
(* sockets of the device are read, a cleanup task is closing one of them.  A  *)
(* session is closed by a cleanup task, by itself when it no longer reads, or *)
(* by the one session that supersedes it under the lock.                      *)
THEOREM SecondSocketIsBeingClosed == Spec => []SecondSocketIsClosing
<1>1. Inv => SecondSocketIsClosing
  <2> SUFFICES ASSUME Inv, NEW s \in Sessions, NEW t \in Sessions,
                      Active(s), Active(t), s # t
               PROVE  \E c \in Cleaners : closing[c].of \in {s, t}
    BY DEF SecondSocketIsClosing
  <2> USE DEF Exec
  <2>1. ASSUME NEW u \in Sessions, Active(u), entry # u
        PROVE  \/ \E c \in Cleaners : closing[c].of = u
               \/ \E e \in Sessions : At(e, "evict") /\ closing[e].of = u
    <3>1. PICK e \in Exec : closing[e].of = u
      BY <2>1 DEF Inv, ServingIsRegistered, Serving, Active
    <3>2. u # NoOne
      BY SessionAssumption
    <3>3. closing[e] # NoClose
      BY <3>1, <3>2 DEF NoClose
    <3>4. pc[e] \in {"evict", "closing"}
      BY <3>3 DEF Inv, Free
    <3>5. CASE e \in Sessions /\ pc[e] = "closing"
      <4>1. e = u
        BY <3>1, <3>5 DEF Inv, Own
      <4> QED BY <2>1, <3>5, <4>1 DEF Active
    <3> QED BY <3>1, <3>4, <3>5
  <2>2. \A e, f \in Sessions : At(e, "evict") /\ At(f, "evict") => e = f
    BY DEF Inv, Locked
  <2>3. ASSUME NEW e \in Sessions, At(e, "evict")
        PROVE  entry = s \/ entry = t => closing[e].of = entry
    <3>1. NoOne \notin {s, t}
      BY SessionAssumption
    <3> QED BY <2>3, <3>1 DEF Inv, Locked
  <2> QED BY <2>1, <2>2, <2>3
<1> QED BY <1>1, Invariant, PTL
==============================================================================
