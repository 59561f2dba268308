--------------------------- MODULE SessionRegistry ---------------------------
(***************************************************************************)
(* The TCP sessions of one device (one IMEI): how DeviceSession tasks, the *)
(* ConnectionManager and the socket cleanup task share the registry entry, *)
(* the presence keys in Redis and the device's stream of queue items.      *)
(*                                                                         *)
(* A step is what one task does between two awaits.  close() may run for   *)
(* one session several times and at the same time: from the session's own  *)
(* task, from the session that supersedes it and from the cleanup task.    *)
(* The queue is the device's part of db_queue and of its partition queue,  *)
(* which other devices fill too: a put may have to wait at any time.  What *)
(* stands behind the queue is reduced to its effect, "shown".              *)
(***************************************************************************)
EXTENDS Integers, Sequences, FiniteSets

CONSTANTS
    Sessions,     \* DeviceSession objects, one per accepted connection
    Cleaners,     \* socket_cleanup_worker tasks
    NoOne,        \* Python's None
    QueueMax,     \* capacity of the queue
    MaxPackets,   \* bound on the packets received in a run
    Faults        \* a subset of {"redis"}

Exec == Sessions \cup Cleaners

ASSUME SessionAssumption ==
    /\ NoOne \notin Exec
    /\ Sessions \cap Cleaners = {}
    /\ QueueMax \in Nat \ {0} /\ MaxPackets \in Nat
    /\ Faults \subseteq {"redis"}

VARIABLES
    entry,     \* ConnectionManager._sessions.get(imei)
    holder,    \* the session that holds ConnectionManager._lock across awaits
    pc,        \* where each task is
    closing,   \* closing[e]: the session whose close() e is running, and where
    open,      \* sessions whose socket the server has not closed
    fresh,     \* sessions with activity in the last 300 seconds
    key,       \* active_session:<imei>, as the session whose data it holds
    field,     \* the device's field of distributed_active_sessions, and its age
    redisOps,  \* create_task'ed heartbeats and removals that are not done
    queue,     \* the device's items, oldest first: the session that received
               \* a packet, or Offline for a disconnect item
    shown,     \* the session whose packet made the device live, or Offline
    packets    \* packets received so far, at most MaxPackets

Offline  == NoOne
presence == <<key, field>>
stream   == <<queue, shown>>
vars == <<entry, holder, pc, closing, open, fresh, presence, redisOps, stream, packets>>

NoClose == [of |-> NoOne, at |-> "no"]
Close   == [of : Sessions, at : {"cancel", "put", "shut", "end"}] \cup {NoClose}
NoField == [of |-> NoOne, old |-> FALSE]
Op      == [kind : {"beat", "clear"}, by : Sessions, at : {"key", "field"}]
Stage   == {"new", "wait", "evict", "setkey", "setfield", "ack", "read", "enqueue",
            "closing", "done"}
CleanerStage == {"idle", "evict", "fetch", "delfield", "delkey"}

Goto(e, l) == pc' = [pc EXCEPT ![e] = l]
At(e, l)   == pc[e] = l

Init ==
    /\ entry = NoOne /\ holder = NoOne
    /\ pc = [e \in Exec |-> IF e \in Sessions THEN "new" ELSE "idle"]
    /\ closing = [e \in Exec |-> NoClose]
    /\ open = {} /\ fresh = {}
    /\ key = NoOne /\ field = NoField /\ redisOps = {}
    /\ queue = <<>> /\ shown = Offline
    /\ packets = 0

-----------------------------------------------------------------------------
(* close(), run by e for session closing[e].of.                               *)
StartClose(e, s) == closing' = [closing EXCEPT ![e] = [of |-> s, at |-> "cancel"]]
CloseAt(e, l)    == closing[e].at = l
CloseGoto(e, l)  == closing' = [closing EXCEPT ![e].at = l]

(* Bug: the presence to remove is looked up after the entry is gone.          *)
UnregisterLateBug(s) ==
    IF entry = s
    THEN /\ entry' = NoOne
         /\ redisOps' = redisOps \cup {[kind |-> "clear", by |-> entry', at |-> "key"]}
    ELSE UNCHANGED <<entry, redisOps>>

(* Bug: the removal is skipped while somebody registers.                      *)
UnregisterTryLockBug(s) ==
    IF entry = s /\ holder = NoOne
    THEN /\ entry' = NoOne
         /\ redisOps' = redisOps \cup {[kind |-> "clear", by |-> s, at |-> "key"]}
    ELSE UNCHANGED <<entry, redisOps>>

(* unregister: only the session's own entry is removed, and only then is the  *)
(* removal of its presence scheduled, as a task of its own.                   *)
Unregister(s) ==
    IF entry = s
    THEN /\ entry' = NoOne
         /\ redisOps' = redisOps \cup {[kind |-> "clear", by |-> s, at |-> "key"]}
    ELSE UNCHANGED <<entry, redisOps>>

(* The command listener has ended; the rest of close() up to its first await. *)
CloseUnregister(e) ==
    /\ CloseAt(e, "cancel")
    /\ Unregister(closing[e].of)
    /\ CloseGoto(e, "put")
    /\ UNCHANGED <<holder, pc, open, fresh, presence, stream, packets>>

CloseEnqueue(e) ==
    /\ CloseAt(e, "put")
    /\ Len(queue) < QueueMax
    /\ queue' = Append(queue, Offline)
    /\ CloseGoto(e, "shut")
    /\ UNCHANGED <<entry, holder, pc, open, fresh, presence, redisOps, shown, packets>>

CloseSocket(e) ==
    /\ CloseAt(e, "shut")
    /\ open' = open \ {closing[e].of}
    /\ CloseGoto(e, "end")
    /\ UNCHANGED <<entry, holder, pc, fresh, presence, redisOps, stream, packets>>

CloseStep(e) == CloseUnregister(e) \/ CloseEnqueue(e) \/ CloseSocket(e)

-----------------------------------------------------------------------------
(* A session's own task, DeviceSession.run.                                   *)
Connect(s) ==
    /\ At(s, "new")
    /\ Goto(s, "wait")
    /\ open' = open \cup {s} /\ fresh' = fresh \cup {s}
    /\ UNCHANGED <<entry, holder, closing, presence, redisOps, stream, packets>>

(* Bug: the older session is forgotten, not superseded.                       *)
RegisterOverBug(s) ==
    /\ At(s, "wait") /\ holder = NoOne
    /\ entry' = s /\ Goto(s, "setkey")
    /\ UNCHANGED <<closing, holder, open, fresh, presence, redisOps, stream, packets>>

(* register, under the registry lock.  An older session is superseded first,  *)
(* and the lock is held until its close() returns.                            *)
Register(s) ==
    /\ At(s, "wait") /\ holder = NoOne
    /\ IF entry \in {NoOne, s}
       THEN entry' = s /\ Goto(s, "setkey") /\ UNCHANGED <<closing, holder>>
       ELSE /\ holder' = s
            /\ Goto(s, "evict") /\ StartClose(s, entry) /\ UNCHANGED entry
    /\ UNCHANGED <<open, fresh, presence, redisOps, stream, packets>>

TakeOver(s) ==
    /\ At(s, "evict") /\ CloseAt(s, "end")
    /\ entry' = s /\ holder' = NoOne
    /\ closing' = [closing EXCEPT ![s] = NoClose]
    /\ Goto(s, "setkey")
    /\ UNCHANGED <<open, fresh, presence, redisOps, stream, packets>>

(* The presence of the new session, outside the lock; an error is logged.     *)
SetKey(s) ==
    /\ At(s, "setkey")
    /\ \/ key' = s /\ Goto(s, "setfield")
       \/ "redis" \in Faults /\ Goto(s, "ack") /\ UNCHANGED key
    /\ UNCHANGED <<entry, holder, closing, open, fresh, field, redisOps, stream, packets>>

SetField(s) ==
    /\ At(s, "setfield")
    /\ \/ field' = [of |-> s, old |-> s \notin fresh]
       \/ "redis" \in Faults /\ UNCHANGED field
    /\ Goto(s, "ack")
    /\ UNCHANGED <<entry, holder, closing, open, fresh, key, redisOps, stream, packets>>

(* The handshake is acknowledged; on a socket that was closed meanwhile the   *)
(* write fails, or goes unnoticed until the next read.                        *)
Acknowledge(s) ==
    /\ At(s, "ack")
    /\ \/ Goto(s, "read") /\ UNCHANGED closing
       \/ s \notin open /\ Goto(s, "closing") /\ StartClose(s, s)
    /\ UNCHANGED <<entry, holder, open, fresh, presence, redisOps, stream, packets>>

(* Data arrives (what was buffered when the socket was closed still does).  A *)
(* heartbeat task starts; a complete packet is acknowledged and goes on to    *)
(* the queue if any of its records passes the filters.                        *)
Receive(s) ==
    /\ At(s, "read") /\ packets < MaxPackets
    /\ packets' = packets + 1
    /\ fresh' = fresh \cup {s}
    /\ redisOps' = redisOps \cup {[kind |-> "beat", by |-> s, at |-> "key"]}
    /\ \/ Goto(s, "enqueue") /\ UNCHANGED closing
       \/ UNCHANGED <<pc, closing>>
       \/ s \notin open /\ Goto(s, "closing") /\ StartClose(s, s)
    /\ UNCHANGED <<entry, holder, open, presence, stream>>

Enqueue(s) ==
    /\ At(s, "enqueue")
    /\ Len(queue) < QueueMax
    /\ queue' = Append(queue, s)
    /\ Goto(s, "read")
    /\ UNCHANGED <<entry, holder, closing, open, fresh, presence, redisOps, shown, packets>>

(* Bug: the reader is not told that its socket was closed by the server.      *)
EndOfStreamBug(s) ==
    /\ At(s, "read") /\ s \in open
    /\ Goto(s, "closing") /\ StartClose(s, s)
    /\ UNCHANGED <<entry, holder, open, fresh, presence, redisOps, stream, packets>>

(* End of stream, an error, or 300 seconds of silence: run() ends in close(). *)
EndOfStream(s) ==
    /\ At(s, "read")
    /\ Goto(s, "closing") /\ StartClose(s, s)
    /\ UNCHANGED <<entry, holder, open, fresh, presence, redisOps, stream, packets>>

Finish(s) ==
    /\ At(s, "closing") /\ CloseAt(s, "end")
    /\ closing' = [closing EXCEPT ![s] = NoClose]
    /\ Goto(s, "done")
    /\ UNCHANGED <<entry, holder, open, fresh, presence, redisOps, stream, packets>>

RunStep(s) == SetKey(s) \/ SetField(s) \/ Acknowledge(s) \/ Enqueue(s)
              \/ TakeOver(s) \/ Finish(s)

-----------------------------------------------------------------------------
(* cleanup_dead_sockets.  The scan holds the lock without awaiting; what it   *)
(* found is closed afterwards, as it was found.                               *)
Scan(c) ==
    /\ At(c, "idle") /\ holder = NoOne
    /\ IF entry # NoOne /\ (entry \notin fresh \/ entry \notin open)
       THEN StartClose(c, entry) /\ Goto(c, "evict")
       ELSE UNCHANGED closing /\ Goto(c, "fetch")
    /\ UNCHANGED <<entry, holder, open, fresh, presence, redisOps, stream, packets>>

Evicted(c) ==
    /\ At(c, "evict") /\ CloseAt(c, "end")
    /\ closing' = [closing EXCEPT ![c] = NoClose]
    /\ Goto(c, "fetch")
    /\ UNCHANGED <<entry, holder, open, fresh, presence, redisOps, stream, packets>>

(* Bug: only the fields of devices without a session are looked at.           *)
FetchBug(c) ==
    /\ At(c, "fetch")
    /\ Goto(c, IF field # NoField /\ field.old /\ entry # NoOne THEN "delfield" ELSE "idle")
    /\ UNCHANGED <<entry, holder, closing, open, fresh, presence, redisOps, stream, packets>>

(* All fields are fetched once; those that are old in that answer go.         *)
Fetch(c) ==
    /\ At(c, "fetch")
    /\ Goto(c, IF field # NoField /\ field.old THEN "delfield" ELSE "idle")
    /\ UNCHANGED <<entry, holder, closing, open, fresh, presence, redisOps, stream, packets>>

DeleteField(c) ==
    /\ At(c, "delfield")
    /\ \/ field' = NoField /\ Goto(c, "delkey")
       \/ "redis" \in Faults /\ Goto(c, "idle") /\ UNCHANGED field
    /\ UNCHANGED <<entry, holder, closing, open, fresh, key, redisOps, stream, packets>>

DeleteKey(c) ==
    /\ At(c, "delkey")
    /\ \/ key' = NoOne
       \/ "redis" \in Faults /\ UNCHANGED key
    /\ Goto(c, "idle")
    /\ UNCHANGED <<entry, holder, closing, open, fresh, field, redisOps, stream, packets>>

CleanStep(c) == Scan(c) \/ Evicted(c) \/ Fetch(c) \/ DeleteField(c) \/ DeleteKey(c)

-----------------------------------------------------------------------------
(* The tasks update_heartbeat and _unregister_redis: two commands each, in    *)
(* any order with all others; an error ends the task.                         *)
OpKey(o) ==
    /\ o.at = "key"
    /\ \/ /\ key' = IF o.kind = "beat" THEN o.by ELSE NoOne
          /\ redisOps' = (redisOps \ {o}) \cup {[o EXCEPT !.at = "field"]}
       \/ "redis" \in Faults /\ redisOps' = redisOps \ {o} /\ UNCHANGED key
    /\ UNCHANGED <<entry, holder, pc, closing, open, fresh, field, stream, packets>>

OpField(o) ==
    /\ o.at = "field"
    /\ \/ field' = IF o.kind = "beat" THEN [of |-> o.by, old |-> o.by \notin fresh]
                   ELSE NoField
       \/ "redis" \in Faults /\ UNCHANGED field
    /\ redisOps' = redisOps \ {o}
    /\ UNCHANGED <<entry, holder, pc, closing, open, fresh, key, stream, packets>>

(* Time: 300 seconds pass without data from s; the key's ten minutes are over.*)
Age(s) ==
    /\ s \in fresh /\ ~At(s, "new")
    /\ fresh' = fresh \ {s}
    /\ field' = IF field.of = s THEN [field EXCEPT !.old = TRUE] ELSE field
    /\ UNCHANGED <<entry, holder, pc, closing, open, key, redisOps, stream, packets>>

Expire ==
    /\ key # NoOne /\ key \notin fresh
    /\ key' = NoOne
    /\ UNCHANGED <<entry, holder, pc, closing, open, fresh, field, redisOps, stream, packets>>

(* The router and the device's worker take one item to its end: telemetry     *)
(* makes the device live, a disconnect item marks it offline, unconditionally.*)
Process ==
    /\ queue # <<>>
    /\ shown' = Head(queue)
    /\ queue' = Tail(queue)
    /\ UNCHANGED <<entry, holder, pc, closing, open, fresh, presence, redisOps, packets>>

Next ==
    \/ \E s \in Sessions : Connect(s) \/ Register(s) \/ RunStep(s) \/ Receive(s)
                           \/ EndOfStream(s) \/ Age(s)
    \/ \E e \in Exec : CloseStep(e)
    \/ \E c \in Cleaners : CleanStep(c)
    \/ \E o \in redisOps : OpKey(o) \/ OpField(o)
    \/ Expire \/ Process

Spec == Init /\ [][Next]_vars

(* The event loop runs every task that can go on, a read on a closed socket   *)
(* ends, time passes, and items are processed.  Devices owe nothing: they may *)
(* never connect, send or hang up.                                            *)
Fairness ==
    /\ \A s \in Sessions : /\ WF_vars(Register(s)) /\ WF_vars(RunStep(s))
                           /\ WF_vars(s \notin open /\ EndOfStream(s))
                           /\ WF_vars(Age(s))
    /\ \A e \in Exec : WF_vars(CloseStep(e))
    /\ \A c \in Cleaners : WF_vars(CleanStep(c))
    /\ WF_vars(\E o \in redisOps : OpKey(o) \/ OpField(o))
    /\ WF_vars(Expire) /\ WF_vars(Process)

FairSpec == Spec /\ Fairness

-----------------------------------------------------------------------------
TypeOK ==
    /\ entry \in Sessions \cup {NoOne}
    /\ holder \in Sessions \cup {NoOne}
    /\ pc \in [Exec -> Stage \cup CleanerStage]
    /\ closing \in [Exec -> Close]
    /\ open \subseteq Sessions /\ fresh \subseteq Sessions
    /\ key \in Sessions \cup {NoOne}
    /\ field \in [of : Sessions \cup {NoOne}, old : BOOLEAN]
    /\ redisOps \subseteq Op
    /\ queue \in Seq(Sessions \cup {Offline})
    /\ shown \in Sessions \cup {Offline}
    /\ packets \in Nat

(* A session past its registration that nobody has begun to close.            *)
Serving(s) == /\ pc[s] \in {"setkey", "setfield", "ack", "read", "enqueue"}
              /\ s \in open
              /\ \A e \in Exec : closing[e].of # s

Ended(s) == pc[s] \in {"new", "done"}

(* "Authoritative Sessions": a session that serves its device is the one the  *)
(* registry knows, whatever other sessions register, supersede or close at    *)
(* the same time; so at most one session serves the device.                   *)
ServingIsRegistered == \A s \in Sessions : Serving(s) => entry = s

(* No ghost: the registry never keeps a session whose task has ended.         *)
NoGhostEntry == \A s \in Sessions : At(s, "done") => entry # s

(* "Ensures only one active socket per IMEI": no two open sockets are read.   *)
Active(s)       == s \in open /\ pc[s] \in {"read", "enqueue"}
OneActiveSocket == \A s, t \in Sessions : Active(s) /\ Active(t) => s = t

(* What the registry does ensure: when two sockets of the device are active,  *)
(* the cleanup task has begun to close one of them.                           *)
SecondSocketIsClosing ==
    \A s, t \in Sessions :
        Active(s) /\ Active(t) /\ s # t => \E c \in Cleaners : closing[c].of \in {s, t}

(* "Kills ghost sessions automatically": a session whose socket was closed by *)
(* another task comes to its end, and a new one gets through registration.    *)
EvictedEnds ==
    \A s \in Sessions :
        /\ (~At(s, "new") /\ s \notin open) ~> At(s, "done")
        /\ At(s, "wait") ~> (At(s, "read") \/ At(s, "done"))

(* The presence of a device that is gone disappears: by the removal task, by  *)
(* the key's expiry or by the cleanup task.                                   *)
GhostPresenceEnds ==
    <>[](\A s \in Sessions : Ended(s)) => <>[](key = NoOne /\ field = NoField)
=============================================================================
