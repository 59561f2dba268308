------------------------ MODULE ReconciliationProofs ------------------------
(***************************************************************************)
(* Theorems about Reconciliation, for every number of timestamps and every *)
(* set of workers, watchdogs, sweepers, rebuilders and healers.            *)
(***************************************************************************)
EXTENDS Reconciliation, TLAPS

InCall == {"lock", "upsert", "commit", "setex", "publish", "log"}

(* What a running call of reconcile_position was given.                       *)
CallInv ==
    \A p \in Reconcilers : pc[p] \in InCall =>
        /\ call[p].ts \in Ts
        /\ call[p].id # NullId => call[p].id \in telemetry /\ call[p].id <= call[p].ts
        /\ "insert" \notin Faults => call[p].ts \in telemetry

(* What a running save_telemetry was given and has stored.                    *)
InputInv ==
    \A w \in Workers : pc[w] = "insert" =>
        /\ input[w].todo \subseteq input[w].batch
        /\ input[w].id # NullId => input[w].id \in telemetry \cap input[w].batch
        /\ "insert" \notin Faults => input[w].batch \ input[w].todo \subseteq telemetry

Inv1 == TypeOK /\ CallInv /\ InputInv

LEMMA ConstantTypes ==
    /\ NoRow \in Row /\ Miss \in Entry /\ NoCall \in Call /\ NoInput \in Input
    /\ MaxTs >= 1 => KnownRow \in Row /\ [ts |-> 1, state |-> "off"] \in Entry
<1> USE ReconciliationAssumption DEF Ts, NullId
<1>1. NoRow \in Row /\ Miss \in Entry
  BY DEF NoRow, Row, Miss, Entry, States
<1>2. NoCall \in Call
  BY DEF NoCall, CallFor, Call, States
<1>3. NoInput \in Input
  BY DEF NoInput, Input, MaxRetries
<1>4. ASSUME MaxTs >= 1
      PROVE  KnownRow \in Row /\ [ts |-> 1, state |-> "off"] \in Entry
  BY <1>4 DEF KnownRow, Row, Entry, States
<1> QED BY <1>1, <1>2, <1>3, <1>4

LEMMA Init1 == Init => Inv1
<1> SUFFICES ASSUME Init PROVE Inv1
  OBVIOUS
<1> USE ReconciliationAssumption
<1>1. PICK s \in Starts :
        /\ s = "known" => MaxTs >= 1
        /\ registered = IF s = "unregistered" THEN "no" ELSE "yes"
        /\ telemetry  = IF s = "known" THEN {1} ELSE {}
        /\ row        = IF s = "known" THEN KnownRow ELSE NoRow
        /\ audit      = IF s = "known"
                        THEN <<[id |-> 1, ts |-> 1, ws |-> TRUE, redis |-> TRUE]>>
                        ELSE <<>>
        /\ redis      = IF s = "known" THEN [ts |-> 1, state |-> "off"] ELSE Miss
        /\ published  = IF s = "known" THEN {1} ELSE {}
  BY Zenon DEF Init
<1>2. registered \in {"no", "vehicle", "yes"} /\ telemetry \subseteq Ts /\ published \subseteq Ts
  BY <1>1 DEF Ts
<1>3. row \in Row /\ redis \in Entry
  BY <1>1, ConstantTypes
<1>4. audit \in Seq(Audit)
  <2>1. CASE s = "known"
    <3>1. [id |-> 1, ts |-> 1, ws |-> TRUE, redis |-> TRUE] \in Audit
      BY <1>1, <2>1 DEF Audit, Ts
    <3> QED BY <1>1, <2>1, <3>1
  <2>2. CASE s # "known"
    BY <1>1, <2>2
  <2> QED BY <2>1, <2>2
<1>5. /\ lock \subseteq Reconcilers /\ events \in Nat
      /\ pc \in [Proc -> Label] /\ input \in [Workers -> Input]
      /\ call \in [Reconcilers -> Call] /\ snap \in [Proc -> Entry]
  BY ConstantTypes DEF Init, Label
<1>6. TypeOK
  BY <1>2, <1>3, <1>4, <1>5 DEF TypeOK
<1>7. CallInv /\ InputInv
  BY DEF Init, CallInv, InputInv, InCall, Reconcilers, Proc, Ingestion
<1> QED BY <1>6, <1>7 DEF Inv1

LEMMA ProcSets ==
    /\ Workers \subseteq Reconcilers /\ Watchdogs \subseteq Reconcilers
    /\ Reconcilers \subseteq Proc /\ Markers \subseteq Proc /\ Ingestion \subseteq Proc
    /\ Workers \subseteq Proc /\ Sweepers \subseteq Proc
    /\ Rebuilders \subseteq Proc /\ Healers \subseteq Proc
BY DEF Reconcilers, Markers, Ingestion, Proc

(* What an update of a call, an input, an audit entry or the row yields.      *)
LEMMA CallUpdates ==
    ASSUME NEW c \in Call, NEW b \in BOOLEAN
    PROVE  /\ [c EXCEPT !.saw = b] \in Call /\ [c EXCEPT !.ws = b] \in Call
           /\ [c EXCEPT !.redis = b] \in Call
           /\ [c EXCEPT !.saw = b].ts = c.ts /\ [c EXCEPT !.saw = b].id = c.id
           /\ [c EXCEPT !.ws = b].ts = c.ts /\ [c EXCEPT !.ws = b].id = c.id
           /\ [c EXCEPT !.redis = b].ts = c.ts /\ [c EXCEPT !.redis = b].id = c.id
           /\ [c EXCEPT !.saw = b].saw = b
BY DEF Call

LEMMA NewCall ==
    ASSUME NEW t \in Ts, NEW i \in 0..MaxTs, NEW s \in States
    PROVE  CallFor(t, i, s) \in Call /\ CallFor(t, i, s).ts = t /\ CallFor(t, i, s).id = i
BY ReconciliationAssumption DEF Call, CallFor, Ts

LEMMA InputTried ==
    ASSUME NEW i \in Input, NEW t \in Ts, NEW id \in 0..MaxTs
    PROVE  /\ Tried(i, t, id) \in Input
           /\ Tried(i, t, id).id = id /\ Tried(i, t, id).batch = i.batch
           /\ Tried(i, t, id).todo = i.todo \ {t}
<1>1. i.todo \ {t} \in SUBSET Ts
  BY DEF Input
<1> QED BY <1>1 DEF Input, Tried

LEMMA InputRetried ==
    ASSUME NEW i \in Input, i.attempt < MaxRetries
    PROVE  /\ Retried(i) \in Input
           /\ Retried(i).id = NullId /\ Retried(i).batch = i.batch /\ Retried(i).todo = i.batch
<1> USE ReconciliationAssumption DEF MaxRetries, NullId
<1>1. i.attempt + 1 \in 0..MaxRetries /\ NullId \in 0..MaxTs /\ i.batch \in SUBSET Ts
  BY DEF Input
<1> QED BY <1>1 DEF Input, Retried

LEMMA RowUpdates ==
    ASSUME NEW r \in Row
    PROVE  /\ Offlined(r) \in Row
           /\ \A c \in Call : Upserted(r, c) \in Row
           /\ [r EXCEPT !.fresh = FALSE] \in Row
<1> USE ReconciliationAssumption DEF Row, States
<1>1. Offlined(r) \in Row
  BY DEF Offlined
<1>2. ASSUME NEW c \in Call PROVE Upserted(r, c) \in Row
  <2>1. (IF r.exists THEN r.ver + 1 ELSE 1) \in Nat
    OBVIOUS
  <2>2. c.ts \in 0..MaxTs /\ c.id \in 0..MaxTs /\ c.state \in States
    BY DEF Call
  <2> QED BY <2>1, <2>2 DEF Upserted
<1>3. [r EXCEPT !.fresh = FALSE] \in Row
  OBVIOUS
<1> QED BY <1>1, <1>2, <1>3

LEMMA FlaggedType ==
    ASSUME NEW a \in Audit, NEW c \in Call
    PROVE  Flagged(a, c) \in Audit /\ Flagged(a, c).id = a.id /\ Flagged(a, c).ts = a.ts
BY DEF Flagged, Audit, Call

(* A step that only moves one task, or one task and its call.                 *)
LEMMA GotoType ==
    ASSUME TypeOK, NEW p \in Proc, NEW l \in Label, Goto(p, l)
    PROVE  pc' \in [Proc -> Label] /\ pc'[p] = l /\ \A q \in Proc \ {p} : pc'[q] = pc[q]
BY DEF TypeOK, Goto

LEMMA ReturnType ==
    ASSUME TypeOK, NEW p \in Reconcilers, Return(p)
    PROVE  /\ pc' \in [Proc -> Label] /\ call' \in [Reconcilers -> Call]
           /\ pc'[p] = "idle"
           /\ \A q \in Proc \ {p} : pc'[q] = pc[q]
           /\ \A q \in Reconcilers \ {p} : call'[q] = call[q]
BY ConstantTypes, ProcSets DEF TypeOK, Return, Goto, Label

(* TypeOK is inductive, given that a running call has a timestamp.            *)
LEMMA TypeStep == Inv1 /\ [Next]_vars => TypeOK'
<1> SUFFICES ASSUME Inv1, [Next]_vars PROVE TypeOK'
  OBVIOUS
<1> USE ReconciliationAssumption, ProcSets, ConstantTypes
<1>0. TypeOK /\ CallInv /\ InputInv
  BY DEF Inv1
<1>1. ASSUME RegisterVehicle PROVE TypeOK'
  BY <1>0, <1>1 DEF TypeOK, RegisterVehicle, cache
<1>2. ASSUME NEW now \in Ts, InitStatusRow(now) PROVE TypeOK'
  <2>1. row' \in Row
    BY <1>0, <1>2 DEF TypeOK, InitStatusRow, Row, States, Ts, NullId
  <2> QED BY <1>0, <1>2, <2>1 DEF TypeOK, InitStatusRow, cache
<1>3. ASSUME RowAges PROVE TypeOK'
  <2>1. row' \in Row
    BY <1>0, <1>3, RowUpdates DEF TypeOK, RowAges
  <2> QED BY <1>0, <1>3, <2>1 DEF TypeOK, RowAges, cache
<1>4. ASSUME NEW w \in Workers, NEW B \in SUBSET Ts, Receive(w, B) PROVE TypeOK'
  <2>1. [batch |-> B, todo |-> B, id |-> NullId, attempt |-> 1] \in Input
    BY DEF Input, NullId, MaxRetries
  <2>2. pc' \in [Proc -> Label] /\ input' \in [Workers -> Input] /\ events' \in Nat
    BY <1>0, <1>4, <2>1 DEF TypeOK, Receive, Goto, Event, Label
  <2> QED BY <1>0, <1>4, <2>2 DEF TypeOK, Receive, db, cache
<1>5. ASSUME NEW w \in Workers, InsertRecord(w) PROVE TypeOK'
  <2>1. PICK t \in input[w].todo :
          /\ telemetry' \in {telemetry, telemetry \cup {t}}
          /\ \E id \in {t, input[w].id} : input' = [input EXCEPT ![w] = Tried(@, t, id)]
    BY <1>5 DEF InsertRecord
  <2>2. input[w] \in Input /\ t \in Ts /\ t \in 0..MaxTs /\ input[w].id \in 0..MaxTs
    BY <1>0, <2>1 DEF TypeOK, Input, Ts
  <2>3. telemetry' \subseteq Ts
    BY <1>0, <2>1, <2>2 DEF TypeOK
  <2>4. PICK id \in {t, input[w].id} : input' = [input EXCEPT ![w] = Tried(@, t, id)]
    BY <2>1
  <2>5. Tried(input[w], t, id) \in Input
    BY <2>2, InputTried
  <2>6. input' \in [Workers -> Input]
    BY <1>0, <2>4, <2>5 DEF TypeOK
  <2> QED BY <1>0, <1>5, <2>3, <2>6 DEF TypeOK, InsertRecord, cache
<1>6. ASSUME NEW w \in Workers, AttemptFails(w) PROVE TypeOK'
  <2>1. input[w] \in Input
    BY <1>0 DEF TypeOK
  <2>2. input' \in [Workers -> Input]
    BY <1>0, <1>6, <2>1, InputRetried DEF TypeOK, AttemptFails
  <2>3. pc' \in [Proc -> Label]
    BY <1>0, <1>6 DEF TypeOK, AttemptFails, Goto, Label
  <2> QED BY <1>0, <1>6, <2>2, <2>3 DEF TypeOK, AttemptFails, db, cache
<1>7. ASSUME NEW w \in Workers, StartReconcile(w) PROVE TypeOK'
  <2>0. w \in Reconcilers
    BY DEF Reconcilers
  <2>1. Return(w) => pc' \in [Proc -> Label] /\ call' \in [Reconcilers -> Call]
    BY <1>0, <2>0, ReturnType
  <2>2. ASSUME ~Return(w) PROVE pc' \in [Proc -> Label] /\ call' \in [Reconcilers -> Call]
    <3>1. PICK t \in input[w].batch :
            call' = [call EXCEPT ![w] = CallFor(t, input[w].id, DecodedState(t))]
      BY <1>7, <2>2 DEF StartReconcile
    <3>2. t \in Ts /\ input[w].id \in 0..MaxTs
      BY <1>0, <3>1 DEF TypeOK, Input
    <3>3. CallFor(t, input[w].id, DecodedState(t)) \in Call
      BY <3>2, NewCall DEF States, DecodedState
    <3>4. Goto(w, "lock")
      BY <1>7, <2>2 DEF StartReconcile
    <3>5. pc' \in [Proc -> Label]
      BY <1>0, <3>4 DEF TypeOK, Goto, Label
    <3>6. call' \in [Reconcilers -> Call]
      BY <1>0, <2>0, <3>1, <3>3 DEF TypeOK
    <3> QED BY <3>5, <3>6
  <2>4. pc' \in [Proc -> Label] /\ call' \in [Reconcilers -> Call]
    BY <2>1, <2>2
  <2>5. input' \in [Workers -> Input]
    BY <1>0, <1>7 DEF TypeOK, StartReconcile
  <2> QED BY <1>0, <1>7, <2>4, <2>5 DEF TypeOK, StartReconcile, db, cache
<1>8. ASSUME NEW w \in Workers, Disconnect(w) PROVE TypeOK'
  <2>1. pc' \in [Proc -> Label] /\ snap' \in [Proc -> Entry] /\ events' \in Nat
    BY <1>0, <1>8 DEF TypeOK, Disconnect, Goto, Event, Label
  <2> QED BY <1>0, <1>8, <2>1 DEF TypeOK, Disconnect, db, cache
<1>9. ASSUME NEW g \in Watchdogs, WatchdogScan(g) PROVE TypeOK'
  <2>1. PICK t \in telemetry :
          call' = [call EXCEPT ![g] = CallFor(t, t, HealedState(t))]
    BY <1>9 DEF WatchdogScan
  <2>2. t \in Ts /\ t \in 0..MaxTs
    BY <1>0, <2>1 DEF TypeOK, Ts
  <2>3. CallFor(t, t, HealedState(t)) \in Call
    BY <2>2, NewCall DEF States, HealedState
  <2>4. call' \in [Reconcilers -> Call]
    BY <1>0, <2>1, <2>3 DEF TypeOK
  <2>5. pc' \in [Proc -> Label]
    BY <1>0, <1>9 DEF TypeOK, WatchdogScan, Goto, Label
  <2> QED BY <1>0, <1>9, <2>4, <2>5 DEF TypeOK, WatchdogScan, db, cache
<1>10. ASSUME NEW p \in Reconcilers, LockRow(p) PROVE TypeOK'
  <2>1. lock' \subseteq Reconcilers
    BY <1>0, <1>10 DEF TypeOK, LockRow
  <2>2. call[p] \in Call /\ row.exists \in BOOLEAN
    BY <1>0 DEF TypeOK, Row
  <2>3. pc' \in [Proc -> Label] /\ call' \in [Reconcilers -> Call]
    <3>1. CASE Return(p)
      BY <1>0, <3>1, ReturnType
    <3>2. CASE Goto(p, "upsert") /\ call' = [call EXCEPT ![p].saw = row.exists]
      BY <1>0, <2>2, <3>2, CallUpdates DEF TypeOK, Goto, Label
    <3> QED BY <1>10, <3>1, <3>2 DEF LockRow
  <2> QED BY <1>0, <1>10, <2>1, <2>3 DEF TypeOK, LockRow, cache
<1>11. ASSUME NEW p \in Reconcilers, LockTimeout(p) PROVE TypeOK'
  <2>1. pc' \in [Proc -> Label] /\ call' \in [Reconcilers -> Call]
    BY <1>0, <1>11, ReturnType DEF LockTimeout
  <2> QED BY <1>0, <1>11, <2>1 DEF TypeOK, LockTimeout, db, cache
<1>12. ASSUME NEW p \in Reconcilers, Upsert(p) PROVE TypeOK'
  <2>1. pc' \in [Proc -> Label]
    BY <1>0, <1>12 DEF TypeOK, Upsert, Goto, Label
  <2> QED BY <1>0, <1>12, <2>1 DEF TypeOK, Upsert, cache
<1>13. ASSUME NEW p \in Reconcilers, Commit(p) PROVE TypeOK'
  <2>1. call[p] \in Call /\ call[p].ts \in Ts
    BY <1>0, <1>13 DEF TypeOK, CallInv, InCall, Commit, At
  <2>2. row' \in Row
    <3>1. row \in Row /\ Upserted(row, call[p]) \in Row
      BY <1>0, <2>1, RowUpdates DEF TypeOK
    <3>2. row' = row \/ row' = Upserted(row, call[p])
      BY <1>13 DEF Commit
    <3> QED BY <3>1, <3>2
  <2>3. audit' \in Seq(Audit)
    <3>1. CASE call[p].id = NullId
      BY <1>0, <1>13, <3>1 DEF TypeOK, Commit
    <3>2. CASE call[p].id # NullId
      <4>1. [id |-> call[p].id, ts |-> call[p].ts, ws |-> FALSE, redis |-> FALSE] \in Audit
        BY <2>1, <3>2 DEF Audit, Call, Ts, NullId
      <4>2. audit' = Append(audit, [id |-> call[p].id, ts |-> call[p].ts,
                                    ws |-> FALSE, redis |-> FALSE])
        BY <1>13, <3>2 DEF Commit
      <4> QED BY <1>0, <4>1, <4>2 DEF TypeOK
    <3> QED BY <3>1, <3>2
  <2>4. pc' \in [Proc -> Label]
    BY <1>0, <1>13 DEF TypeOK, Commit, Goto, Label
  <2> QED BY <1>0, <1>13, <2>2, <2>3, <2>4 DEF TypeOK, Commit, cache
<1>14. ASSUME NEW p \in Reconcilers, SetCache(p) PROVE TypeOK'
  <2>1. call[p] \in Call /\ [ts |-> call[p].ts, state |-> call[p].state] \in Entry
    BY <1>0 DEF TypeOK, Call, Entry
  <2>2. redis' \in Entry
    BY <1>0, <1>14, <2>1 DEF TypeOK, SetCache
  <2>3. call' \in [Reconcilers -> Call]
    <3>1. [call[p] EXCEPT !.redis = TRUE] \in Call
      BY <2>1, CallUpdates
    <3> QED BY <1>0, <1>14, <3>1 DEF TypeOK, SetCache
  <2>4. pc' \in [Proc -> Label]
    BY <1>0, <1>14 DEF TypeOK, SetCache, Goto, Label
  <2> QED BY <1>0, <1>14, <2>2, <2>3, <2>4 DEF TypeOK, SetCache, db
<1>15. ASSUME NEW p \in Reconcilers, Publish(p) PROVE TypeOK'
  <2>1. call[p] \in Call /\ call[p].ts \in Ts
    BY <1>0, <1>15 DEF TypeOK, CallInv, InCall, Publish, At
  <2>2. published' \subseteq Ts /\ call' \in [Reconcilers -> Call]
    <3>1. [call[p] EXCEPT !.ws = TRUE] \in Call
      BY <2>1, CallUpdates
    <3> QED BY <1>0, <1>15, <2>1, <3>1 DEF TypeOK, Publish
  <2>3. pc' \in [Proc -> Label]
    BY <1>0, <1>15 DEF TypeOK, Publish, Goto, Label
  <2> QED BY <1>0, <1>15, <2>2, <2>3 DEF TypeOK, Publish, db
<1>16. ASSUME NEW p \in Reconcilers, LogCompletion(p) PROVE TypeOK'
  <2>1. pc' \in [Proc -> Label] /\ call' \in [Reconcilers -> Call]
    BY <1>0, <1>16, ReturnType DEF LogCompletion
  <2>2. call[p] \in Call /\ audit \in Seq(Audit)
    BY <1>0 DEF TypeOK
  <2>3. [i \in DOMAIN audit |-> Flagged(audit[i], call[p])] \in Seq(Audit)
    BY <2>2, FlaggedType
  <2>4. audit' \in Seq(Audit)
    BY <1>16, <2>2, <2>3 DEF LogCompletion
  <2> QED BY <1>0, <1>16, <2>1, <2>4 DEF TypeOK, LogCompletion, cache
<1>17. ASSUME NEW s \in Sweepers, SweepScan(s) PROVE TypeOK'
  <2>1. [ts |-> row.ts, state |-> "offline"] \in Entry
    BY <1>0 DEF TypeOK, Row, Entry, States
  <2>2. pc' \in [Proc -> Label] /\ snap' \in [Proc -> Entry]
    BY <1>0, <1>17, <2>1 DEF TypeOK, SweepScan, Goto, Label
  <2> QED BY <1>0, <1>17, <2>2 DEF TypeOK, SweepScan, db, cache
<1>18. ASSUME NEW p \in Markers, MarkRow(p) PROVE TypeOK'
  <2>1. row' \in Row /\ pc' \in [Proc -> Label]
    BY <1>0, <1>18, RowUpdates DEF TypeOK, MarkRow, Goto, Label
  <2> QED BY <1>0, <1>18, <2>1 DEF TypeOK, MarkRow, cache
<1>19. ASSUME NEW p \in Markers, ReadCache(p) PROVE TypeOK'
  <2>1. [ts |-> IF redis = Miss THEN snap[p].ts ELSE redis.ts, state |-> "offline"] \in Entry
    BY <1>0 DEF TypeOK, Entry, States
  <2>2. pc' \in [Proc -> Label] /\ snap' \in [Proc -> Entry]
    <3>1. \E l \in {"idle", "offwrite"} : Goto(p, l)
      BY <1>19 DEF ReadCache
    <3>2. \E e \in Entry : snap' = [snap EXCEPT ![p] = e]
      BY <1>0, <1>19, <2>1 DEF TypeOK, ReadCache
    <3> QED BY <1>0, <3>1, <3>2 DEF TypeOK, Goto, Label
  <2> QED BY <1>0, <1>19, <2>2 DEF TypeOK, ReadCache, db, cache
<1>20. ASSUME NEW h \in Healers, HealMiss(h) PROVE TypeOK'
  <2>1. pc' \in [Proc -> Label] /\ events' \in Nat
    BY <1>0, <1>20 DEF TypeOK, HealMiss, Goto, Event, Label
  <2> QED BY <1>0, <1>20, <2>1 DEF TypeOK, HealMiss, db, cache
<1>21. ASSUME NEW p \in Rebuilders \cup Healers, ReadRow(p) PROVE TypeOK'
  <2>1. [ts |-> row.ts, state |-> IF At(p, "startup") THEN "unknown" ELSE row.state] \in Entry
    BY <1>0 DEF TypeOK, Row, Entry, States
  <2>2. pc' \in [Proc -> Label] /\ snap' \in [Proc -> Entry]
    BY <1>0, <1>21, <2>1 DEF TypeOK, ReadRow, Goto, Label
  <2> QED BY <1>0, <1>21, <2>2 DEF TypeOK, ReadRow, db, cache
<1>22. ASSUME NEW p \in Proc, WriteBack(p) PROVE TypeOK'
  <2>1. redis' \in Entry /\ pc' \in [Proc -> Label] /\ snap' \in [Proc -> Entry]
    BY <1>0, <1>22 DEF TypeOK, WriteBack, Goto, Label
  <2> QED BY <1>0, <1>22, <2>1 DEF TypeOK, WriteBack, db
<1>23. ASSUME Crash PROVE TypeOK'
  <2>1. pc' \in [Proc -> Label] /\ snap' \in [Proc -> Entry] /\ events' \in Nat
    BY <1>0, <1>23 DEF TypeOK, Crash, Event, Label
  <2>2. call' \in [Reconcilers -> Call] /\ input' \in [Workers -> Input] /\ lock' = {}
    BY <1>23 DEF Crash
  <2> QED BY <1>0, <1>23, <2>1, <2>2 DEF TypeOK, Crash, cache
<1>24. ASSUME Flush PROVE TypeOK'
  BY <1>0, <1>24 DEF TypeOK, Flush, Event, db
<1>25. ASSUME PurgeRow PROVE TypeOK'
  BY <1>0, <1>25 DEF TypeOK, PurgeRow, Event, cache
<1>26. CASE UNCHANGED vars
  BY <1>0, <1>26 DEF vars, db, cache, TypeOK
<1> QED
  BY <1>1, <1>2, <1>3, <1>4, <1>5, <1>6, <1>7, <1>8, <1>9, <1>10, <1>11, <1>12, <1>13, <1>14,
     <1>15, <1>16, <1>17, <1>18, <1>19, <1>20, <1>21, <1>22, <1>23, <1>24, <1>25, <1>26
  DEF Next, ReconcileStep, MarkStep

(* A task that stays where it is, or that goes to a place outside the call,   *)
(* keeps what CallInv and InputInv say of it as the telemetry table grows.    *)
LEMMA CallStep == Inv1 /\ [Next]_vars => CallInv'
<1> SUFFICES ASSUME Inv1, [Next]_vars PROVE CallInv'
  OBVIOUS
<1> USE ReconciliationAssumption, ProcSets
<1>0. TypeOK /\ CallInv /\ InputInv
  BY DEF Inv1
<1>1. ASSUME pc' = pc, call' = call, telemetry' = telemetry PROVE CallInv'
  BY <1>0, <1>1 DEF CallInv
<1>2. ASSUME NEW p \in Proc, NEW l \in Label \ InCall, Goto(p, l), telemetry' = telemetry,
             \A q \in Reconcilers \ {p} : call'[q] = call[q]
      PROVE  CallInv'
  BY <1>0, <1>2, GotoType DEF CallInv
<1>3. ASSUME NEW p \in Reconcilers, Return(p), telemetry' = telemetry PROVE CallInv'
  BY <1>0, <1>3, ReturnType DEF CallInv, InCall
<1>4. ASSUME NEW p \in Reconcilers, NEW l \in Label, Goto(p, l), pc[p] \in InCall,
             telemetry' = telemetry, call'[p].ts = call[p].ts, call'[p].id = call[p].id,
             \A q \in Reconcilers \ {p} : call'[q] = call[q]
      PROVE  CallInv'
  BY <1>0, <1>4, GotoType DEF CallInv
<1>5. ASSUME NEW w \in Workers, InsertRecord(w) PROVE CallInv'
  BY <1>0, <1>5 DEF CallInv, InsertRecord
<1>6. ASSUME NEW w \in Workers, AttemptFails(w) PROVE CallInv'
  <2>1. CASE pc' = pc
    BY <1>1, <1>6, <2>1 DEF AttemptFails, db
  <2>2. CASE Goto(w, "idle")
    BY <1>2, <1>6, <2>2 DEF AttemptFails, db, Label, InCall
  <2> QED BY <1>6, <2>1, <2>2 DEF AttemptFails
<1>7. ASSUME NEW w \in Workers, StartReconcile(w) PROVE CallInv'
  <2>0. CASE Return(w)
    BY <1>0, <1>7, <2>0, ReturnType DEF CallInv, StartReconcile, db, InCall
  <2> SUFFICES ASSUME ~Return(w) PROVE CallInv'
    BY <2>0
  <2>1. PICK t \in input[w].batch :
          /\ IsNewest(t, input[w].batch)
          /\ call' = [call EXCEPT ![w] = CallFor(t, input[w].id, DecodedState(t))]
    BY <1>7 DEF StartReconcile
  <2>2. t \in Ts /\ input[w].id \in 0..MaxTs /\ DecodedState(t) \in States
    BY <1>0, <2>1 DEF TypeOK, Input, DecodedState, States
  <2>3. /\ input[w].id # NullId => input[w].id \in telemetry /\ input[w].id <= t
        /\ "insert" \notin Faults => t \in telemetry
    BY <1>0, <1>7, <2>1, <2>2 DEF InputInv, StartReconcile, At, IsNewest
  <2>4. call'[w].ts = t /\ call'[w].id = input[w].id
    BY <1>0, <2>1, <2>2, NewCall DEF TypeOK
  <2>5. \A q \in Reconcilers \ {w} : call'[q] = call[q] /\ pc'[q] = pc[q]
    <3>1. Goto(w, "lock")
      BY <1>7 DEF StartReconcile
    <3> QED BY <1>0, <2>1, <3>1 DEF TypeOK, Goto
  <2> QED BY <1>0, <1>7, <2>2, <2>3, <2>4, <2>5 DEF CallInv, StartReconcile, db
<1>8. ASSUME NEW g \in Watchdogs, WatchdogScan(g) PROVE CallInv'
  <2>1. PICK t \in telemetry : call' = [call EXCEPT ![g] = CallFor(t, t, HealedState(t))]
    BY <1>8 DEF WatchdogScan
  <2>2. t \in Ts /\ t \in 0..MaxTs /\ HealedState(t) \in States
    BY <1>0, <2>1 DEF TypeOK, Ts, HealedState, States
  <2>3. call'[g].ts = t /\ call'[g].id = t
    BY <1>0, <2>1, <2>2, NewCall DEF TypeOK
  <2>4. \A q \in Reconcilers \ {g} : call'[q] = call[q] /\ pc'[q] = pc[q]
    BY <1>0, <1>8, <2>1 DEF TypeOK, WatchdogScan, Goto
  <2> QED BY <1>0, <1>8, <2>1, <2>2, <2>3, <2>4 DEF CallInv, WatchdogScan, db, Ts
<1>9. ASSUME NEW p \in Reconcilers, LockRow(p) PROVE CallInv'
  <2>1. CASE Return(p)
    BY <1>3, <1>9, <2>1 DEF LockRow
  <2>2. CASE Goto(p, "upsert") /\ call' = [call EXCEPT ![p].saw = row.exists]
    <3>1. call[p] \in Call /\ row.exists \in BOOLEAN
      BY <1>0 DEF TypeOK, Row
    <3>2. call'[p].ts = call[p].ts /\ call'[p].id = call[p].id
      BY <1>0, <2>2, <3>1, CallUpdates DEF TypeOK
    <3>3. \A q \in Reconcilers \ {p} : call'[q] = call[q]
      BY <1>0, <2>2 DEF TypeOK
    <3> QED BY <1>4, <1>9, <2>2, <3>2, <3>3 DEF LockRow, At, InCall, Label
  <2> QED BY <1>9, <2>1, <2>2 DEF LockRow
<1>10. ASSUME NEW p \in Reconcilers, LockTimeout(p) PROVE CallInv'
  BY <1>3, <1>10 DEF LockTimeout, db
<1>11. ASSUME NEW p \in Reconcilers, Upsert(p) PROVE CallInv'
  BY <1>4, <1>11 DEF Upsert, At, InCall, Label
<1>12. ASSUME NEW p \in Reconcilers, Commit(p) PROVE CallInv'
  BY <1>4, <1>12 DEF Commit, At, InCall, Label
<1>13. ASSUME NEW p \in Reconcilers, SetCache(p) PROVE CallInv'
  <2>1. call' \in {call, [call EXCEPT ![p].redis = TRUE]}
    BY <1>13 DEF SetCache
  <2>2. /\ call'[p].ts = call[p].ts /\ call'[p].id = call[p].id
        /\ \A q \in Reconcilers \ {p} : call'[q] = call[q]
    BY <1>0, <2>1, CallUpdates DEF TypeOK
  <2> QED BY <1>4, <1>13, <2>2 DEF SetCache, At, InCall, Label, db
<1>14. ASSUME NEW p \in Reconcilers, Publish(p) PROVE CallInv'
  <2>1. call' \in {call, [call EXCEPT ![p].ws = TRUE]}
    BY <1>14 DEF Publish
  <2>2. /\ call'[p].ts = call[p].ts /\ call'[p].id = call[p].id
        /\ \A q \in Reconcilers \ {p} : call'[q] = call[q]
    BY <1>0, <2>1, CallUpdates DEF TypeOK
  <2> QED BY <1>4, <1>14, <2>2 DEF Publish, At, InCall, Label, db
<1>15. ASSUME NEW p \in Reconcilers, LogCompletion(p) PROVE CallInv'
  BY <1>3, <1>15 DEF LogCompletion
<1>16. ASSUME NEW w \in Workers, NEW B \in SUBSET Ts, Receive(w, B) PROVE CallInv'
  <2>1. CASE pc' = pc
    BY <1>1, <1>16, <2>1 DEF Receive, db
  <2>2. CASE Goto(w, "insert")
    BY <1>2, <1>16, <2>2 DEF Receive, db, Label, InCall
  <2> QED BY <1>16, <2>1, <2>2 DEF Receive
<1>17. ASSUME NEW p \in Proc, Disconnect(p) \/ SweepScan(p) PROVE CallInv'
  BY <1>2, <1>17 DEF Disconnect, SweepScan, db, Label, InCall
<1>18. ASSUME NEW p \in Proc, MarkStep(p) PROVE CallInv'
  BY <1>2, <1>18 DEF MarkStep, MarkRow, ReadCache, db, Label, InCall
<1>19. ASSUME NEW p \in Proc, HealMiss(p) \/ WriteBack(p) PROVE CallInv'
  BY <1>2, <1>19 DEF HealMiss, WriteBack, db, Label, InCall
<1>20. ASSUME NEW p \in Proc, ReadRow(p) PROVE CallInv'
  BY <1>2, <1>20 DEF ReadRow, db, Label, InCall
<1>21. ASSUME Crash PROVE CallInv'
  <2>1. \A p \in Reconcilers : pc'[p] \in {"idle", "startup"}
    BY <1>21 DEF Crash, Reconcilers, Ingestion
  <2> QED BY <2>1 DEF CallInv, InCall
<1>22. CASE \/ RegisterVehicle \/ RowAges \/ Flush \/ PurgeRow \/ UNCHANGED vars
            \/ \E now \in Ts : InitStatusRow(now)
  BY <1>1, <1>22
  DEF RegisterVehicle, RowAges, Flush, PurgeRow, InitStatusRow, vars, db, cache
<1> QED
  BY <1>5, <1>6, <1>7, <1>8, <1>9, <1>10, <1>11, <1>12, <1>13, <1>14, <1>15, <1>16,
     <1>17, <1>18, <1>19, <1>20, <1>21, <1>22 DEF Next, ReconcileStep

LEMMA InputStep == Inv1 /\ [Next]_vars => InputInv'
<1> SUFFICES ASSUME Inv1, [Next]_vars PROVE InputInv'
  OBVIOUS
<1> USE ReconciliationAssumption, ProcSets
<1>0. TypeOK /\ CallInv /\ InputInv
  BY DEF Inv1
<1>1. ASSUME UNCHANGED <<pc, input, telemetry>> PROVE InputInv'
  BY <1>0, <1>1 DEF InputInv
<1>2. ASSUME NEW p \in Proc, NEW l \in Label \ {"insert"}, Goto(p, l), telemetry' = telemetry,
             \A w \in Workers \ {p} : input'[w] = input[w]
      PROVE  InputInv'
  BY <1>0, <1>2, GotoType DEF InputInv
<1>3. ASSUME NEW w \in Workers, NEW B \in SUBSET Ts, Receive(w, B) PROVE InputInv'
  <2>1. CASE UNCHANGED <<pc, input>>
    BY <1>1, <1>3, <2>1 DEF Receive, db
  <2>2. CASE /\ Goto(w, "insert")
             /\ input' = [input EXCEPT ![w] = [batch |-> B, todo |-> B, id |-> NullId, attempt |-> 1]]
    BY <1>0, <1>3, <2>2, GotoType DEF InputInv, TypeOK, Receive, Goto, db
  <2> QED BY <1>3, <2>1, <2>2 DEF Receive
<1>4. ASSUME NEW w \in Workers, InsertRecord(w) PROVE InputInv'
  <2>1. PICK t \in input[w].todo : \E id \in {t, input[w].id} :
          /\ input' = [input EXCEPT ![w] = Tried(@, t, id)]
          /\ telemetry \subseteq telemetry' /\ (id # input[w].id => id = t /\ t \in telemetry')
          /\ "insert" \notin Faults => t \in telemetry'
    BY <1>4 DEF InsertRecord
  <2>2. PICK id \in {t, input[w].id} :
          /\ input' = [input EXCEPT ![w] = Tried(@, t, id)]
          /\ telemetry \subseteq telemetry' /\ (id # input[w].id => id = t /\ t \in telemetry')
          /\ "insert" \notin Faults => t \in telemetry'
    BY <2>1
  <2>3. input[w] \in Input /\ t \in Ts /\ id \in 0..MaxTs
    BY <1>0, <2>1 DEF TypeOK, Input, Ts
  <2>4. /\ input'[w].id = id /\ input'[w].batch = input[w].batch
        /\ input'[w].todo = input[w].todo \ {t}
    <3>1. /\ Tried(input[w], t, id).id = id /\ Tried(input[w], t, id).batch = input[w].batch
          /\ Tried(input[w], t, id).todo = input[w].todo \ {t}
      BY <2>3, InputTried
    <3>2. input'[w] = Tried(input[w], t, id)
      BY <1>0, <2>2 DEF TypeOK
    <3> QED BY <3>1, <3>2
  <2>5. pc' = pc /\ pc[w] = "insert"
    BY <1>4 DEF InsertRecord, At
  <2>6. /\ input[w].todo \subseteq input[w].batch
        /\ input[w].id # NullId => input[w].id \in telemetry \cap input[w].batch
        /\ "insert" \notin Faults => input[w].batch \ input[w].todo \subseteq telemetry
    BY <1>0, <2>5 DEF InputInv
  <2>7. \A v \in Workers \ {w} : input'[v] = input[v]
    BY <1>0, <2>2 DEF TypeOK
  <2> QED BY <1>0, <2>2, <2>4, <2>5, <2>6, <2>7 DEF InputInv
<1>5. ASSUME NEW w \in Workers, AttemptFails(w) PROVE InputInv'
  <2>1. CASE Goto(w, "idle") /\ input' = [input EXCEPT ![w] = NoInput]
    BY <1>0, <1>2, <1>5, <2>1 DEF TypeOK, AttemptFails, db, Label
  <2>2. CASE /\ input[w].attempt < MaxRetries /\ pc' = pc
             /\ input' = [input EXCEPT ![w] = Retried(@)]
    <3>1. /\ input'[w].id = NullId /\ input'[w].todo = input'[w].batch
          /\ \A v \in Workers \ {w} : input'[v] = input[v]
      BY <1>0, <2>2, InputRetried DEF TypeOK
    <3> QED BY <1>0, <1>5, <2>2, <3>1 DEF InputInv, AttemptFails, db
  <2> QED BY <1>5, <2>1, <2>2 DEF AttemptFails
<1>6. ASSUME NEW w \in Workers, StartReconcile(w) PROVE InputInv'
  <2>1. /\ input' = [input EXCEPT ![w] = NoInput] /\ telemetry' = telemetry
        /\ Goto(w, "lock") \/ Goto(w, "idle")
    BY <1>6 DEF StartReconcile, Return, db
  <2> QED BY <1>0, <1>2, <2>1 DEF TypeOK, Label
<1>7. ASSUME NEW p \in Proc, Disconnect(p) \/ SweepScan(p) \/ MarkStep(p) \/ HealMiss(p)
                             \/ ReadRow(p) \/ WriteBack(p)
      PROVE  InputInv'
  BY <1>2, <1>7
  DEF Disconnect, SweepScan, MarkStep, MarkRow, ReadCache, HealMiss, ReadRow, WriteBack, db, Label
<1>8. ASSUME NEW p \in Reconcilers, ReconcileStep(p) \/ LockTimeout(p) \/ WatchdogScan(p)
      PROVE  InputInv'
  BY <1>2, <1>8
  DEF ReconcileStep, LockRow, Upsert, Commit, SetCache, Publish, LogCompletion, LockTimeout,
      WatchdogScan, Return, db, Label
<1>9. ASSUME Crash PROVE InputInv'
  BY <1>9 DEF Crash, InputInv, Ingestion, Proc
<1>10. CASE \/ RegisterVehicle \/ RowAges \/ Flush \/ PurgeRow \/ UNCHANGED vars
            \/ \E now \in Ts : InitStatusRow(now)
  BY <1>1, <1>10
  DEF RegisterVehicle, RowAges, Flush, PurgeRow, InitStatusRow, vars, db, cache
<1> QED
  BY <1>3, <1>4, <1>5, <1>6, <1>7, <1>8, <1>9, <1>10 DEF Next

(* A live call carries a timestamp and an id that is stored and no newer.     *)
LEMMA Step1 == Inv1 /\ [Next]_vars => Inv1'
BY TypeStep, CallStep, InputStep DEF Inv1

LEMMA Inv1Holds == Spec => []Inv1
BY Init1, Step1, PTL DEF Spec

(* Type correctness of the reconciliation, for every instance.                *)
THEOREM TypeCorrect == Spec => []TypeOK
<1>1. Inv1 => TypeOK
  BY DEF Inv1
<1> QED BY <1>1, Inv1Holds, PTL

-----------------------------------------------------------------------------
(* The row lock.  It has one holder, a task that is between its upsert and    *)
(* its commit, or between the SELECT ... FOR UPDATE that found the row and    *)
(* the upsert; and what such a SELECT found is still true at the commit.      *)
LockInv ==
    /\ \A p \in lock : lock = {p} /\ pc[p] \in {"upsert", "commit"}
    /\ \A p \in Reconcilers : pc[p] = "commit" => lock = {p}
    /\ \A p \in Reconcilers : pc[p] \in {"upsert", "commit"} /\ call[p].saw =>
            lock = {p} /\ row.exists /\ row.id # NullId /\ row.ts < call[p].ts

Inv2 == Inv1 /\ LockInv

LEMMA Init2 == Init => LockInv
BY DEF Init, LockInv, Reconcilers, Proc, Ingestion

(* The fields of an updated row.                                              *)
LEMMA RowFields ==
    ASSUME NEW r \in Row
    PROVE  /\ Offlined(r).exists = r.exists /\ Offlined(r).id = r.id
           /\ Offlined(r).ts = r.ts /\ Offlined(r).ver = r.ver
           /\ [r EXCEPT !.fresh = FALSE].exists = r.exists
           /\ [r EXCEPT !.fresh = FALSE].id = r.id
           /\ [r EXCEPT !.fresh = FALSE].ts = r.ts
           /\ [r EXCEPT !.fresh = FALSE].ver = r.ver
           /\ \A c \in Call : /\ Upserted(r, c).exists
                              /\ Upserted(r, c).id = c.id /\ Upserted(r, c).ts = c.ts
                              /\ Upserted(r, c).ver = IF r.exists THEN r.ver + 1 ELSE 1
BY DEF Row, Call, Offlined, Upserted

(* What a step of the whole system may do to the row, once and for all: keep  *)
(* its position, create the placeholder, commit a call, or purge the row.     *)
RowKept == /\ row'.exists = row.exists /\ row'.id = row.id
           /\ row'.ts = row.ts /\ row'.ver = row.ver

LEMMA RowSteps ==
    ASSUME TypeOK, [Next]_vars
    PROVE  \/ RowKept
           \/ \E now \in Ts : InitStatusRow(now) /\ ~row.exists /\ lock = {}
           \/ \E p \in Reconcilers : Commit(p) /\ call[p].id # NullId
           \/ PurgeRow
<1> USE ProcSets
<1>1. row \in Row
  BY DEF TypeOK
<1>2. row' = row => RowKept
  BY DEF RowKept
<1>3. ASSUME NEW now \in Ts, InitStatusRow(now)
      PROVE  RowKept \/ (~row.exists /\ lock = {})
  BY <1>2, <1>3 DEF InitStatusRow
<1>4. ASSUME RowAges PROVE RowKept
  BY <1>1, <1>4, RowFields DEF RowAges, RowKept
<1>5. ASSUME NEW p \in Reconcilers, ReconcileStep(p) \/ LockTimeout(p)
      PROVE  RowKept \/ (Commit(p) /\ call[p].id # NullId)
  <2>1. CASE Commit(p)
    BY <1>2, <2>1 DEF Commit
  <2>2. CASE ~Commit(p)
    BY <1>2, <1>5, <2>2
    DEF ReconcileStep, LockRow, Upsert, SetCache, Publish, LogCompletion, LockTimeout, db
  <2> QED BY <2>1, <2>2
<1>6. ASSUME NEW p \in Markers, MarkStep(p) PROVE RowKept
  <2>1. CASE MarkRow(p)
    BY <1>1, <2>1, RowFields DEF MarkRow, RowKept
  <2>2. CASE ReadCache(p)
    BY <1>2, <2>2 DEF ReadCache, db
  <2> QED BY <1>6, <2>1, <2>2 DEF MarkStep
<1>7. ASSUME NEW w \in Workers,
             (\E B \in SUBSET Ts : Receive(w, B)) \/ InsertRecord(w) \/ AttemptFails(w)
             \/ StartReconcile(w) \/ Disconnect(w)
      PROVE  row' = row
  BY <1>7 DEF Receive, InsertRecord, AttemptFails, StartReconcile, Disconnect, db
<1>8. ASSUME NEW p \in Proc, WatchdogScan(p) \/ SweepScan(p) \/ HealMiss(p) \/ ReadRow(p) \/ WriteBack(p)
      PROVE  row' = row
  BY <1>8 DEF WatchdogScan, SweepScan, HealMiss, ReadRow, WriteBack, db
<1>9. CASE RegisterVehicle \/ Crash \/ Flush \/ UNCHANGED vars
  BY <1>2, <1>9 DEF RegisterVehicle, Crash, Flush, vars, db
<1> QED BY <1>2, <1>3, <1>4, <1>5, <1>6, <1>7, <1>8, <1>9 DEF Next

LEMMA LockStep == Inv2 /\ [Next]_vars => LockInv'
<1> SUFFICES ASSUME Inv2, [Next]_vars PROVE LockInv'
  OBVIOUS
<1> USE ReconciliationAssumption, ProcSets
<1>0. TypeOK /\ LockInv /\ lock \subseteq Reconcilers
  BY DEF Inv1, Inv2, TypeOK
<1>1. row \in Row
  BY <1>0 DEF TypeOK
(* A task that is neither at its upsert nor at its commit moves.              *)
<1>2. ASSUME NEW p \in Proc, NEW l \in Label \ {"upsert", "commit"}, Goto(p, l),
             pc[p] \notin {"upsert", "commit"}, lock' = lock, RowKept,
             \A q \in Reconcilers \ {p} : call'[q] = call[q]
      PROVE  LockInv'
  BY <1>0, <1>2, GotoType DEF LockInv, RowKept
(* Nobody moves, no call changes.                                             *)
<1>3. ASSUME UNCHANGED <<pc, call, lock>>, RowKept PROVE LockInv'
  BY <1>0, <1>3 DEF LockInv, RowKept
(* The row appears or goes while nobody has it.                               *)
<1>4. ASSUME UNCHANGED <<pc, call, lock>>, lock = {} PROVE LockInv'
  BY <1>0, <1>4 DEF LockInv
<1>5. ASSUME NEW p \in Reconcilers, LockRow(p) PROVE LockInv'
  <2>0. row' = row /\ pc[p] = "lock"
    BY <1>5 DEF LockRow, At
  <2>1. CASE Return(p) /\ UNCHANGED lock
    BY <1>0, <2>0, <2>1, ReturnType DEF LockInv
  <2>2. CASE /\ ~IsStale(row, call[p].ts) /\ Goto(p, "upsert")
             /\ call' = [call EXCEPT ![p].saw = row.exists]
             /\ lock' = IF row.exists THEN {p} ELSE lock
    <3>1. call[p] \in Call /\ row.exists \in BOOLEAN
      BY <1>0 DEF TypeOK, Row
    <3>2. /\ call'[p].ts = call[p].ts /\ call'[p].saw = row.exists
          /\ \A q \in Reconcilers \ {p} : call'[q] = call[q]
      BY <1>0, <2>2, <3>1, CallUpdates DEF TypeOK, Call
    <3>3. pc'[p] = "upsert" /\ \A q \in Proc \ {p} : pc'[q] = pc[q]
      BY <1>0, <2>2, GotoType DEF Label
    <3>4. CASE row.exists
      <4>1. lock = {} /\ lock' = {p} /\ row.id # NullId /\ row.ts < call[p].ts
        BY <1>0, <1>1, <1>5, <2>2, <3>1, <3>4 DEF LockRow, IsStale, Row, Call
      <4> QED BY <1>0, <2>0, <3>2, <3>3, <3>4, <4>1 DEF LockInv
    <3>5. CASE ~row.exists
      BY <1>0, <2>0, <2>2, <3>2, <3>3, <3>5 DEF LockInv
    <3> QED BY <3>4, <3>5
  <2> QED BY <1>5, <2>1, <2>2 DEF LockRow
<1>6. ASSUME NEW p \in Reconcilers, LockTimeout(p) PROVE LockInv'
  <2>1. row' = row /\ lock' = lock /\ p \notin lock
    BY <1>0, <1>6 DEF LockTimeout, db, At, LockInv
  <2> QED BY <1>0, <1>6, <2>1, ReturnType DEF LockInv, LockTimeout
<1>7. ASSUME NEW p \in Reconcilers, Upsert(p) PROVE LockInv'
  <2>1. pc'[p] = "commit" /\ \A q \in Proc \ {p} : pc'[q] = pc[q]
    BY <1>0, <1>7, GotoType DEF Upsert, Label
  <2>2. lock' = {p} /\ row' = row /\ call' = call /\ pc[p] = "upsert" /\ lock \in {{}, {p}}
    BY <1>7 DEF Upsert, At
  <2> QED BY <1>0, <2>1, <2>2 DEF LockInv
<1>8. ASSUME NEW p \in Reconcilers, Commit(p) PROVE LockInv'
  <2>1. pc'[p] = "setex" /\ \A q \in Proc \ {p} : pc'[q] = pc[q]
    BY <1>0, <1>8, GotoType DEF Commit, Label
  <2>2. lock = {p} /\ lock' = {} /\ call' = call
    BY <1>0, <1>8 DEF Commit, At, LockInv
  <2> QED BY <1>0, <2>1, <2>2 DEF LockInv
<1>9. ASSUME NEW p \in Reconcilers, SetCache(p) \/ Publish(p) PROVE LockInv'
  <2>1. \A q \in Reconcilers \ {p} : call'[q] = call[q]
    BY <1>0, <1>9 DEF TypeOK, SetCache, Publish
  <2> QED BY <1>2, <1>9, <2>1 DEF SetCache, Publish, At, Label, db, RowKept
<1>10. ASSUME NEW p \in Reconcilers, LogCompletion(p) PROVE LockInv'
  BY <1>0, <1>10, ReturnType DEF LockInv, LogCompletion, At
<1>11. ASSUME NEW p \in Proc, StartReconcile(p) \/ WatchdogScan(p) PROVE LockInv'
  <2>1. /\ pc[p] \in {"idle", "insert"}
        /\ Goto(p, "lock") \/ Goto(p, "idle")
        /\ lock' = lock /\ row' = row
    BY <1>11 DEF StartReconcile, WatchdogScan, Return, At, db
  <2>2. \A q \in Reconcilers \ {p} : call'[q] = call[q]
    BY <1>0, <1>11 DEF TypeOK, StartReconcile, WatchdogScan, Return
  <2> QED BY <1>2, <2>1, <2>2 DEF Label, RowKept
<1>12. ASSUME NEW p \in Workers, NEW B \in SUBSET Ts, Receive(p, B) PROVE LockInv'
  BY <1>2, <1>3, <1>12 DEF Receive, At, Label, db, RowKept
<1>13. ASSUME NEW p \in Workers, InsertRecord(p) PROVE LockInv'
  BY <1>3, <1>13 DEF InsertRecord, RowKept
<1>14. ASSUME NEW p \in Workers, AttemptFails(p) PROVE LockInv'
  BY <1>2, <1>3, <1>14 DEF AttemptFails, At, Label, db, RowKept
<1>15. ASSUME NEW p \in Proc, Disconnect(p) \/ SweepScan(p) \/ ReadCache(p) \/ HealMiss(p)
                              \/ ReadRow(p) \/ WriteBack(p)
       PROVE  LockInv'
  BY <1>2, <1>15 DEF Disconnect, SweepScan, ReadCache, HealMiss, ReadRow, WriteBack, At, Label, db, RowKept
<1>16. ASSUME NEW p \in Markers, MarkRow(p) PROVE LockInv'
  <2>1. RowKept
    BY <1>1, <1>16, RowFields DEF MarkRow, RowKept
  <2> QED BY <1>2, <1>16, <2>1 DEF MarkRow, At, Label
<1>17. ASSUME RowAges PROVE LockInv'
  <2>1. RowKept
    BY <1>1, <1>17, RowFields DEF RowAges, RowKept
  <2> QED BY <1>3, <1>17, <2>1 DEF RowAges
<1>18. ASSUME NEW now \in Ts, InitStatusRow(now) PROVE LockInv'
  BY <1>3, <1>4, <1>18 DEF InitStatusRow, RowKept
<1>19. ASSUME Crash PROVE LockInv'
  <2>1. \A p \in Reconcilers : pc'[p] \in {"idle", "startup"}
    BY <1>19 DEF Crash, Reconcilers, Ingestion
  <2> QED BY <1>19, <2>1 DEF LockInv, Crash
<1>20. ASSUME PurgeRow PROVE LockInv'
  BY <1>4, <1>20 DEF PurgeRow
<1>21. CASE RegisterVehicle \/ Flush \/ UNCHANGED vars
  BY <1>3, <1>21 DEF RegisterVehicle, Flush, vars, db, RowKept
<1> QED
  BY <1>5, <1>6, <1>7, <1>8, <1>9, <1>10, <1>11, <1>12, <1>13, <1>14, <1>15, <1>16,
     <1>17, <1>18, <1>19, <1>20, <1>21 DEF Next, ReconcileStep, MarkStep

LEMMA Inv2Holds == Spec => []Inv2
<1>1. Init => Inv2
  BY Init1, Init2 DEF Inv2
<1>2. Inv2 /\ [Next]_vars => Inv2'
  BY Step1, LockStep DEF Inv2
<1> QED BY <1>1, <1>2, PTL DEF Spec

(* reconcile_position: the lock taken by SELECT ... FOR UPDATE makes every    *)
(* overwrite of an existing row a move forward, and keeps the placeholder of  *)
(* the registration, but for the commit of a call that had found no row and   *)
(* so had locked nothing.                                                     *)
THEOREM FirstContactIsTheOnlyRegress == Spec => OnlyFirstContactRegresses
<1> DEFINE Unlocked == \E p \in Reconcilers : At(p, "commit") /\ ~call[p].saw
           Guard == row.exists /\ row'.exists /\ (row'.ts < row.ts \/ GivesPlaceholderId) => Unlocked
<1>1. ASSUME Inv2, [Next]_vars PROVE Guard
  <2>1. TypeOK /\ LockInv /\ row \in Row
    BY <1>1 DEF Inv1, Inv2, TypeOK
  <2>2. CASE RowKept
    BY <2>1, <2>2 DEF RowKept, Row, GivesPlaceholderId
  <2>3. ASSUME NEW p \in Reconcilers, Commit(p), call[p].id # NullId PROVE Guard
    <3>1. call[p] \in Call /\ row' = Upserted(row, call[p]) /\ At(p, "commit")
      BY <2>1, <2>3 DEF TypeOK, Commit
    <3>2. row'.ts = call[p].ts
      BY <2>1, <3>1, RowFields
    <3>3. CASE call[p].saw
      <4>1. row.exists /\ row'.exists => ~(row'.ts < row.ts)
        BY <2>1, <3>1, <3>2, <3>3 DEF LockInv, At, Row, Call
      <4>2. row.exists => row.id # NullId
        BY <2>1, <3>1, <3>3 DEF LockInv, At
      <4> QED BY <4>1, <4>2 DEF GivesPlaceholderId
    <3>4. CASE ~call[p].saw
      BY <3>1, <3>4
    <3> QED BY <3>3, <3>4
  <2>4. CASE PurgeRow
    BY <2>4 DEF PurgeRow, NoRow
  <2> QED BY <1>1, <2>1, <2>2, <2>3, <2>4, RowSteps
<1> QED BY <1>1, Inv2Holds, PTL DEF Spec, OnlyFirstContactRegresses

-----------------------------------------------------------------------------
(* reconcile_position and save_telemetry: the row always names a stored       *)
(* record that is no newer than the timestamp it shows.                       *)
THEOREM LiveRowIsBacked == Spec => []LiveRowBacked
<1>1. Init => LiveRowBacked
  BY DEF Init, LiveRowBacked, HasPosition, KnownRow, NoRow
<1>2. ASSUME Inv2, LiveRowBacked, [Next]_vars PROVE LiveRowBacked'
  <2>1. TypeOK /\ CallInv /\ row \in Row
    BY <1>2 DEF Inv1, Inv2, TypeOK
  <2>2. telemetry \subseteq telemetry'
    <3>1. ASSUME NEW w \in Workers, InsertRecord(w) PROVE telemetry \subseteq telemetry'
      BY <3>1 DEF InsertRecord
    <3>2. CASE ~ \E w \in Workers : InsertRecord(w)
      BY <1>2, <3>2
      DEF Next, RegisterVehicle, InitStatusRow, RowAges, Receive, AttemptFails, StartReconcile,
          Disconnect, WatchdogScan, ReconcileStep, LockRow, Upsert, Commit, SetCache, Publish,
          LogCompletion, LockTimeout, SweepScan, MarkStep, MarkRow, ReadCache, HealMiss, ReadRow,
          WriteBack, Crash, Flush, PurgeRow, db, vars
    <3> QED BY <3>1, <3>2
  <2>3. CASE RowKept
    BY <1>2, <2>2, <2>3 DEF RowKept, LiveRowBacked, HasPosition
  <2>4. ASSUME NEW now \in Ts, InitStatusRow(now), ~row.exists PROVE LiveRowBacked'
    BY <2>4 DEF InitStatusRow, LiveRowBacked, HasPosition
  <2>5. ASSUME NEW p \in Reconcilers, Commit(p), call[p].id # NullId PROVE LiveRowBacked'
    <3>1. call[p] \in Call /\ row' = Upserted(row, call[p])
      BY <2>1, <2>5 DEF TypeOK, Commit
    <3>2. row'.ts = call[p].ts /\ row'.id = call[p].id
      BY <2>1, <3>1, RowFields
    <3>3. call[p].id \in telemetry /\ call[p].id <= call[p].ts
      BY <2>1, <2>5 DEF CallInv, Commit, At, InCall
    <3> QED BY <2>2, <3>2, <3>3 DEF LiveRowBacked
  <2>6. CASE PurgeRow
    BY <2>6 DEF PurgeRow, NoRow, LiveRowBacked, HasPosition
  <2> QED BY <1>2, <2>1, <2>3, <2>4, <2>5, <2>6, RowSteps
<1> QED BY <1>1, <1>2, Inv2Holds, PTL DEF Spec

-----------------------------------------------------------------------------
(* A vehicle that has a row from the start, and keeps it: every call at its   *)
(* upsert or commit had found it.                                             *)
AllSaw == \A p \in Reconcilers : pc[p] \in {"upsert", "commit"} => call[p].saw
SawInv == row.exists /\ AllSaw

LEMMA SawHolds ==
    ASSUME Starts = {"known"}, "purge" \notin Faults
    PROVE  Spec => []SawInv
<1>1. Init => SawInv
  BY ProcSets DEF Init, SawInv, AllSaw, KnownRow
<1>2. ASSUME Inv2, SawInv, [Next]_vars PROVE SawInv'
  <2> USE ProcSets
  <2>0. TypeOK /\ row \in Row
    BY <1>2 DEF Inv1, Inv2, TypeOK
  <2>1. row'.exists
    <3>1. ASSUME NEW p \in Reconcilers, Commit(p), call[p].id # NullId PROVE row'.exists
      BY <2>0, <3>1, RowFields DEF TypeOK, Commit
    <3> QED BY <1>2, <2>0, <3>1, RowSteps DEF RowKept, SawInv, PurgeRow
  <2>2. ASSUME NEW p \in Proc, NEW l \in Label \ {"upsert", "commit"}, Goto(p, l),
               \A q \in Reconcilers \ {p} : call'[q] = call[q]
        PROVE  AllSaw'
    BY <1>2, <2>0, <2>2, GotoType DEF SawInv, AllSaw
  <2>3. ASSUME pc' = pc, call' = call PROVE AllSaw'
    BY <1>2, <2>3 DEF SawInv, AllSaw
  <2>4. ASSUME NEW p \in Reconcilers, ReconcileStep(p) PROVE AllSaw'
    <3>1. CASE LockRow(p)
      <4>1. CASE Return(p)
        BY <1>2, <2>0, <4>1, ReturnType DEF SawInv, AllSaw
      <4>2. CASE Goto(p, "upsert") /\ call' = [call EXCEPT ![p].saw = row.exists]
        <5>1. call[p] \in Call
          BY <2>0 DEF TypeOK
        <5>2. call'[p].saw /\ \A q \in Reconcilers \ {p} : call'[q] = call[q]
          BY <1>2, <2>0, <4>2, <5>1 DEF TypeOK, Call, SawInv
        <5> QED BY <1>2, <2>0, <4>2, <5>2, GotoType DEF SawInv, AllSaw, Label
      <4> QED BY <3>1, <4>1, <4>2 DEF LockRow
    <3>2. CASE Upsert(p)
      BY <1>2, <2>0, <3>2, GotoType DEF SawInv, AllSaw, Upsert, At, Label
    <3>3. CASE Commit(p)
      BY <2>2, <3>3 DEF Commit, Label
    <3>4. CASE SetCache(p) \/ Publish(p)
      <4>1. \A q \in Reconcilers \ {p} : call'[q] = call[q]
        BY <2>0, <3>4 DEF TypeOK, SetCache, Publish
      <4> QED BY <2>2, <3>4, <4>1 DEF SetCache, Publish, Label
    <3>5. CASE LogCompletion(p)
      BY <1>2, <2>0, <3>5, ReturnType DEF SawInv, AllSaw, LogCompletion
    <3> QED BY <2>4, <3>1, <3>2, <3>3, <3>4, <3>5 DEF ReconcileStep
  <2>5. ASSUME NEW p \in Reconcilers, LockTimeout(p) PROVE AllSaw'
    BY <1>2, <2>0, <2>5, ReturnType DEF SawInv, AllSaw, LockTimeout
  <2>6. ASSUME NEW p \in Proc, StartReconcile(p) \/ WatchdogScan(p) PROVE AllSaw'
    <3>1. /\ Goto(p, "lock") \/ Goto(p, "idle")
          /\ \A q \in Reconcilers \ {p} : call'[q] = call[q]
      BY <2>0, <2>6 DEF TypeOK, StartReconcile, WatchdogScan, Return
    <3> QED BY <2>2, <3>1 DEF Label
  <2>7. ASSUME NEW p \in Workers,
               (\E B \in SUBSET Ts : Receive(p, B)) \/ InsertRecord(p) \/ AttemptFails(p)
        PROVE  AllSaw'
    BY <2>2, <2>3, <2>7 DEF Receive, InsertRecord, AttemptFails, Label
  <2>8. ASSUME NEW p \in Proc, Disconnect(p) \/ SweepScan(p) \/ MarkStep(p) \/ HealMiss(p)
                               \/ ReadRow(p) \/ WriteBack(p)
        PROVE  AllSaw'
    BY <2>2, <2>8
    DEF Disconnect, SweepScan, MarkStep, MarkRow, ReadCache, HealMiss, ReadRow, WriteBack, Label
  <2>9. ASSUME Crash PROVE AllSaw'
    <3>1. \A p \in Reconcilers : pc'[p] \in {"idle", "startup"}
      BY <2>9 DEF Crash, Reconcilers, Ingestion
    <3> QED BY <3>1 DEF AllSaw
  <2>10. ASSUME \/ RegisterVehicle \/ RowAges \/ Flush \/ PurgeRow \/ UNCHANGED vars
                \/ \E now \in Ts : InitStatusRow(now)
         PROVE  AllSaw'
    BY <2>3, <2>10 DEF RegisterVehicle, RowAges, Flush, PurgeRow, InitStatusRow, vars, db, cache
  <2>11. AllSaw'
    BY <1>2, <2>4, <2>5, <2>6, <2>7, <2>8, <2>9, <2>10 DEF Next
  <2> QED BY <2>1, <2>11 DEF SawInv
<1> QED BY <1>1, <1>2, Inv2Holds, PTL DEF Spec

(* "Stale packets never corrupt runtime state": for a vehicle whose position  *)
(* was reconciled once and whose row is not purged, no step of any task moves *)
(* the row back in time, whatever else fails.                                 *)
THEOREM KnownVehicleNeverRegresses ==
    ASSUME Starts = {"known"}, "purge" \notin Faults
    PROVE  Spec => NoRegress
<1> DEFINE Guard == row.exists /\ row'.exists /\ (row'.ts < row.ts \/ GivesPlaceholderId)
                        => \E p \in Reconcilers : At(p, "commit") /\ ~call[p].saw
           Back  == row.exists /\ row'.exists => row'.ts >= row.ts
<1>1. ASSUME Inv2, Inv2', SawInv, [Guard]_vars PROVE [Back]_vars
  <2>1. row.ts \in Int /\ row'.ts \in Int
    BY <1>1 DEF Inv1, Inv2, TypeOK, Row
  <2> QED BY <1>1, <2>1 DEF SawInv, AllSaw, At
<1>2. Spec => [][Guard]_vars
  BY FirstContactIsTheOnlyRegress DEF OnlyFirstContactRegresses
<1> QED BY <1>1, <1>2, Inv2Holds, SawHolds, PTL DEF NoRegress

-----------------------------------------------------------------------------
(* The audit trail.                                                           *)
LastIsRow == audit # <<>> /\ audit[Len(audit)].id = row.id /\ audit[Len(audit)].ts = row.ts

AuditInv ==
    /\ HasPosition => LastIsRow
    /\ "purge" \notin Faults => /\ ~row.exists => audit = <<>>
                                /\ row.exists => row.ver - Len(audit) \in {0, 1}

LEMMA AuditSteps ==
    ASSUME [Next]_vars
    PROVE  \/ audit' = audit
           \/ \E p \in Reconcilers : LogCompletion(p)
           \/ \E p \in Reconcilers : Commit(p) /\ call[p].id # NullId
<1>1. ASSUME NEW p \in Reconcilers, ReconcileStep(p), ~LogCompletion(p)
      PROVE  audit' = audit \/ (Commit(p) /\ call[p].id # NullId)
  BY <1>1 DEF ReconcileStep, LockRow, Upsert, Commit, SetCache, Publish, db
<1>2. CASE \E p \in Reconcilers : ReconcileStep(p)
  BY <1>1, <1>2
<1>3. CASE ~ \E p \in Reconcilers : ReconcileStep(p)
  BY <1>3
  DEF Next, RegisterVehicle, InitStatusRow, RowAges, Receive, InsertRecord, AttemptFails,
      StartReconcile, Disconnect, WatchdogScan, LockTimeout, SweepScan, MarkStep, MarkRow,
      ReadCache, HealMiss, ReadRow, WriteBack, Crash, Flush, PurgeRow, db, vars
<1> QED BY <1>2, <1>3

(* reconcile_position writes the row and the audit trail in one transaction:  *)
(* the last audit entry is always the position the row shows, and no committed*)
(* position is missing from the trail.                                        *)
THEOREM AuditMatchesLive == Spec => []LiveMatchesAudit
<1>1. Init => AuditInv
  <2> SUFFICES ASSUME Init PROVE AuditInv
    OBVIOUS
  <2>1. \/ row = NoRow /\ audit = <<>>
        \/ row = KnownRow /\ audit = <<[id |-> 1, ts |-> 1, ws |-> TRUE, redis |-> TRUE]>>
    BY DEF Init
  <2> QED BY <2>1 DEF AuditInv, HasPosition, LastIsRow, NoRow, KnownRow, NullId
<1>2. ASSUME Inv2, AuditInv, [Next]_vars PROVE AuditInv'
  <2>1. TypeOK /\ row \in Row /\ audit \in Seq(Audit)
    BY <1>2 DEF Inv1, Inv2, TypeOK
  <2>2. ASSUME NEW p \in Reconcilers, Commit(p), call[p].id # NullId PROVE AuditInv'
    <3>1. call[p] \in Call /\ row' = Upserted(row, call[p])
      BY <2>1, <2>2 DEF TypeOK, Commit
    <3>2. /\ row'.exists /\ row'.ts = call[p].ts /\ row'.id = call[p].id
          /\ row'.ver = IF row.exists THEN row.ver + 1 ELSE 1
      BY <2>1, <3>1, RowFields
    <3>3. DEFINE e == [id |-> call[p].id, ts |-> call[p].ts, ws |-> FALSE, redis |-> FALSE]
    <3>4. audit' = Append(audit, e)
      BY <2>2 DEF Commit
    <3>5. Len(audit') = Len(audit) + 1 /\ audit'[Len(audit')] = e /\ Len(audit) \in Nat
      BY <2>1, <3>4
    <3>6. LastIsRow'
      BY <3>2, <3>5 DEF LastIsRow
    <3>7. "purge" \notin Faults => row'.ver - Len(audit') \in {0, 1}
      BY <1>2, <2>1, <3>2, <3>5 DEF AuditInv, Row
    <3> QED BY <3>2, <3>6, <3>7 DEF AuditInv
  <2>3. ASSUME NEW p \in Reconcilers, LogCompletion(p) PROVE AuditInv'
    <3>1. row' = row /\ call[p] \in Call
      BY <2>1, <2>3 DEF LogCompletion, TypeOK
    <3>2. \/ audit' = audit
          \/ audit' = [i \in DOMAIN audit |-> Flagged(audit[i], call[p])]
      BY <2>3 DEF LogCompletion
    <3>3. CASE audit' = [i \in DOMAIN audit |-> Flagged(audit[i], call[p])]
      <4>1. Len(audit) \in Nat /\ DOMAIN audit = 1..Len(audit)
        BY <2>1
      <4>2. Len(audit') = Len(audit)
        BY <2>1, <3>3, <4>1
      <4>3. \A i \in DOMAIN audit : audit'[i].id = audit[i].id /\ audit'[i].ts = audit[i].ts
        BY <2>1, <3>1, <3>3, FlaggedType
      <4>4. audit = <<>> <=> Len(audit) = 0
        BY <2>1
      <4>5. audit' = <<>> <=> Len(audit) = 0
        BY <2>1, <3>3, <4>1, <4>2
      <4>6. HasPosition' => LastIsRow'
        BY <1>2, <3>1, <4>1, <4>2, <4>3, <4>4, <4>5 DEF AuditInv, HasPosition, LastIsRow
      <4> QED BY <1>2, <3>1, <4>2, <4>4, <4>5, <4>6 DEF AuditInv
    <3>4. CASE audit' = audit
      BY <1>2, <3>1, <3>4 DEF AuditInv, HasPosition, LastIsRow
    <3> QED BY <3>2, <3>3, <3>4
  <2>4. ASSUME audit' = audit, RowKept PROVE AuditInv'
    BY <1>2, <2>4 DEF AuditInv, HasPosition, LastIsRow, RowKept
  <2>5. ASSUME audit' = audit, NEW now \in Ts, InitStatusRow(now), ~row.exists PROVE AuditInv'
    <3>1. row'.exists /\ row'.id = NullId /\ row'.ver = 1
      BY <2>5 DEF InitStatusRow
    <3>2. "purge" \notin Faults => Len(audit') = 0
      BY <1>2, <2>5 DEF AuditInv
    <3> QED BY <3>1, <3>2 DEF AuditInv, HasPosition
  <2>6. CASE audit' = audit /\ PurgeRow
    BY <2>6 DEF AuditInv, HasPosition, PurgeRow, NoRow
  <2> QED BY <1>2, <2>1, <2>2, <2>3, <2>4, <2>5, <2>6, RowSteps, AuditSteps
<1>3. AuditInv /\ LiveRowBacked => LiveMatchesAudit
  BY DEF AuditInv, LiveMatchesAudit, LastIsRow, HasPosition
<1> QED BY <1>1, <1>2, <1>3, Inv2Holds, LiveRowIsBacked, PTL DEF Spec

-----------------------------------------------------------------------------
(* How the telemetry table changes: one record at a time, by an insert.       *)
LEMMA TelemetrySteps ==
    ASSUME [Next]_vars
    PROVE  \/ telemetry' = telemetry
           \/ \E w \in Workers : InsertRecord(w)
BY DEF Next, RegisterVehicle, InitStatusRow, RowAges, Receive, AttemptFails, StartReconcile,
       Disconnect, WatchdogScan, ReconcileStep, LockRow, Upsert, Commit, SetCache, Publish,
       LogCompletion, LockTimeout, SweepScan, MarkStep, MarkRow, ReadCache, HealMiss, ReadRow,
       WriteBack, Crash, Flush, PurgeRow, db, vars

HasId == row.id # NullId

(* The whole protocol, with its lock, transaction, retries, timeouts and      *)
(* crashes, implements the register of LivePosition for a known vehicle whose *)
(* inserts succeed and whose row is not purged: every step stores a record,   *)
(* moves the live position to a newer stored record, or does neither.         *)
THEOREM ImplementsNewestWins ==
    ASSUME Starts = {"known"}, "purge" \notin Faults, "insert" \notin Faults
    PROVE  Spec => NewestWins
<1> DEFINE Pos == IF HasPosition THEN row.ts ELSE 0
           Abs == LP!Next \/ (telemetry' = telemetry /\ Pos' = Pos)
<1>1. Init => LP!Init /\ HasId
  BY ReconciliationAssumption DEF Init, LP!Init, HasId, HasPosition, KnownRow, NullId
<1>2. ASSUME Inv2, SawInv, HasId, [Next]_vars PROVE HasId' /\ Abs
  <2>1. TypeOK /\ CallInv /\ LockInv /\ row \in Row /\ row.exists /\ AllSaw
    BY <1>2 DEF Inv1, Inv2, TypeOK, SawInv
  <2>2. Pos = row.ts /\ HasPosition
    BY <1>2, <2>1 DEF HasPosition, HasId
  <2>3. ASSUME NEW p \in Reconcilers, Commit(p), call[p].id # NullId PROVE HasId' /\ Abs
    <3>1. call[p] \in Call /\ row' = Upserted(row, call[p]) /\ pc[p] = "commit" /\ telemetry' = telemetry
      BY <2>1, <2>3 DEF TypeOK, Commit, At
    <3>2. row'.exists /\ row'.ts = call[p].ts /\ row'.id = call[p].id
      BY <2>1, <3>1, RowFields
    <3>3. call[p].ts \in telemetry /\ row.ts < call[p].ts /\ call[p].ts \in Ts
      BY <2>1, <3>1 DEF CallInv, InCall, LockInv, AllSaw
    <3>4. Pos' = call[p].ts
      BY <2>3, <3>2 DEF HasPosition
    <3>5. LP!Advance(call[p].ts)
      BY <2>2, <3>1, <3>3, <3>4 DEF LP!Advance
    <3> QED BY <2>3, <3>2, <3>3, <3>5 DEF LP!Next, HasId, Ts
  <2>4. ASSUME RowKept PROVE HasId' /\ Abs
    <3>1. Pos' = Pos /\ HasId'
      BY <1>2, <2>4 DEF RowKept, HasPosition, HasId
    <3>2. ASSUME NEW w \in Workers, InsertRecord(w) PROVE Abs
      <4>1. PICK t \in input[w].todo : telemetry' = telemetry \/ telemetry' = telemetry \cup {t}
        BY <3>2 DEF InsertRecord
      <4>2. t \in Ts
        BY <2>1, <4>1 DEF TypeOK, Input
      <4> QED BY <3>1, <4>1, <4>2 DEF LP!Next, LP!Store, Ts
    <3> QED BY <1>2, <3>1, <3>2, TelemetrySteps
  <2> QED BY <1>2, <2>1, <2>3, <2>4, RowSteps DEF PurgeRow
<1>3. Spec => []HasId
  BY <1>1, <1>2, Inv2Holds, SawHolds, PTL DEF Spec
<1>4. Abs => [LP!Next]_(LP!posVars)
  BY DEF LP!posVars
<1> QED BY <1>1, <1>2, <1>3, <1>4, Inv2Holds, SawHolds, PTL DEF Spec, NewestWins, LP!Spec

-----------------------------------------------------------------------------
(* A step is a step of one task, and leaves the others where they are.        *)
Stays(q) == pc'[q] = pc[q] /\ call'[q] = call[q] /\ (q \in Workers => input'[q] = input[q])

OwnStep(q) ==
    \/ ReconcileStep(q) \/ LockTimeout(q) \/ WriteBack(q)
    \/ q \in Watchdogs /\ WatchdogScan(q)
    \/ q \in Workers /\ \/ \E B \in (SUBSET Ts) \ {{}} : Receive(q, B)
                        \/ InsertRecord(q) \/ AttemptFails(q) \/ StartReconcile(q)
                        \/ Disconnect(q) \/ MarkStep(q)

LEMMA TaskSteps ==
    ASSUME TypeOK, [Next]_vars, ~Crash, NEW q \in Reconcilers
    PROVE  Stays(q) \/ OwnStep(q)
<1> USE ProcSets
<1>1. ASSUME NEW p \in Reconcilers, ReconcileStep(p) PROVE p = q \/ Stays(q)
  <2>1. /\ \A r \in Proc \ {p} : pc'[r] = pc[r]
        /\ \A r \in Reconcilers \ {p} : call'[r] = call[r]
        /\ input' = input
    BY <1>1 DEF ReconcileStep, LockRow, Upsert, Commit, SetCache, Publish, LogCompletion, Return,
                Goto, TypeOK
  <2> QED BY <2>1 DEF Stays
<1>2. ASSUME NEW p \in Reconcilers, LockTimeout(p) PROVE p = q \/ Stays(q)
  BY <1>2, ReturnType DEF LockTimeout, Stays
<1>3. ASSUME NEW w \in Workers,
             \/ \E B \in (SUBSET Ts) \ {{}} : Receive(w, B)
             \/ InsertRecord(w) \/ AttemptFails(w) \/ StartReconcile(w) \/ Disconnect(w)
      PROVE  w = q \/ Stays(q)
  <2>1. /\ \A r \in Proc \ {w} : pc'[r] = pc[r]
        /\ \A r \in Reconcilers \ {w} : call'[r] = call[r]
        /\ \A r \in Workers \ {w} : input'[r] = input[r]
    BY <1>3 DEF Receive, InsertRecord, AttemptFails, StartReconcile, Disconnect, Return, Goto, TypeOK
  <2> QED BY <2>1 DEF Stays
<1>4. ASSUME NEW g \in Watchdogs, WatchdogScan(g) PROVE g = q \/ Stays(q)
  BY <1>4 DEF WatchdogScan, Goto, TypeOK, Stays
<1>5. ASSUME NEW p \in Proc,
             SweepScan(p) \/ MarkStep(p) \/ HealMiss(p) \/ ReadRow(p) \/ WriteBack(p)
      PROVE  p = q \/ Stays(q)
  <2>1. call' = call /\ input' = input /\ \A r \in Proc \ {p} : pc'[r] = pc[r]
    BY <1>5 DEF SweepScan, MarkStep, MarkRow, ReadCache, HealMiss, ReadRow, WriteBack, Goto, TypeOK
  <2> QED BY <2>1 DEF Stays
<1>6. CASE \/ RegisterVehicle \/ RowAges \/ Flush \/ PurgeRow \/ UNCHANGED vars
           \/ \E now \in Ts : InitStatusRow(now)
  BY <1>6 DEF RegisterVehicle, RowAges, Flush, PurgeRow, InitStatusRow, vars, Stays
<1>8. q \notin Sweepers \cup Rebuilders \cup Healers /\ (q \in Markers => q \in Workers)
  BY ReconciliationAssumption DEF Reconcilers, Markers
<1>9. ASSUME \/ \E p \in Reconcilers : ReconcileStep(p) \/ LockTimeout(p)
             \/ \E p \in Watchdogs : WatchdogScan(p)
             \/ \E p \in Proc : WriteBack(p)
      PROVE  Stays(q) \/ OwnStep(q)
  BY <1>1, <1>2, <1>4, <1>5, <1>9 DEF OwnStep
<1>10. ASSUME NEW w \in Workers,
              \/ \E B \in (SUBSET Ts) \ {{}} : Receive(w, B)
              \/ InsertRecord(w) \/ AttemptFails(w) \/ StartReconcile(w) \/ Disconnect(w)
       PROVE  Stays(q) \/ OwnStep(q)
  BY <1>3, <1>10 DEF OwnStep
<1>11. ASSUME \/ \E p \in Sweepers : SweepScan(p)
              \/ \E p \in Markers : MarkStep(p)
              \/ \E p \in Healers : HealMiss(p)
              \/ \E p \in Rebuilders \cup Healers : ReadRow(p)
       PROVE  Stays(q) \/ OwnStep(q)
  BY <1>5, <1>8, <1>11 DEF OwnStep
<1> QED BY <1>6, <1>9, <1>10, <1>11 DEF Next

(* Between a commit and its announcement only the call itself moves on.       *)
LEMMA CallGoesOn ==
    ASSUME TypeOK, [Next]_vars, "crash" \notin Faults,
           NEW a \in Reconcilers, pc[a] \in {"setex", "publish", "log"}
    PROVE  \/ pc'[a] = pc[a] /\ call'[a] = call[a]
           \/ SetCache(a) \/ Publish(a) \/ LogCompletion(a)
<1>1. ASSUME OwnStep(a) PROVE SetCache(a) \/ Publish(a) \/ LogCompletion(a)
  BY <1>1 DEF OwnStep, ReconcileStep, LockRow, Upsert, Commit, LockTimeout, WriteBack, WatchdogScan,
              Receive, InsertRecord, AttemptFails, StartReconcile, Disconnect, MarkStep, MarkRow,
              ReadCache, At
<1>2. ~Crash
  BY DEF Crash
<1> QED BY <1>1, <1>2, TaskSteps DEF Stays

(* How announcements are made, and that none is taken back.                   *)
LEMMA PublishedSteps ==
    ASSUME [Next]_vars
    PROVE  published' = published \/ \E p \in Reconcilers : Publish(p)
BY DEF Next, RegisterVehicle, InitStatusRow, RowAges, Receive, InsertRecord, AttemptFails,
       StartReconcile, Disconnect, WatchdogScan, ReconcileStep, LockRow, Upsert, Commit, SetCache,
       LogCompletion, LockTimeout, SweepScan, MarkStep, MarkRow, ReadCache, HealMiss, ReadRow,
       WriteBack, Crash, Flush, PurgeRow, db, cache, vars

(* A live position was announced, or the call that committed it will do so.   *)
Announcing ==
    HasPosition =>
        \/ row.ts \in published
        \/ \E p \in Reconcilers : pc[p] \in {"setex", "publish"} /\ call[p].ts = row.ts

(* reconcile_position announces what it commits: unless Redis fails or the    *)
(* process dies, the live position was announced when all tasks are at rest,  *)
(* however many calls overlap.                                                *)
THEOREM LivePositionIsAnnounced ==
    ASSUME "redis" \notin Faults, "crash" \notin Faults
    PROVE  Spec => []LiveIsAnnounced
<1>1. Init => Announcing
  BY DEF Init, Announcing, HasPosition, KnownRow, NoRow
<1>2. ASSUME Inv2, Announcing, [Next]_vars PROVE Announcing'
  <2>1. TypeOK /\ row \in Row
    BY <1>2 DEF Inv1, Inv2, TypeOK
  <2>2. ASSUME NEW p \in Reconcilers, Commit(p), call[p].id # NullId PROVE Announcing'
    <3>1. call[p] \in Call /\ row' = Upserted(row, call[p]) /\ call' = call
      BY <2>1, <2>2 DEF TypeOK, Commit
    <3>2. row'.ts = call'[p].ts
      BY <2>1, <3>1, RowFields
    <3>3. pc'[p] = "setex"
      BY <2>1, <2>2, ProcSets DEF Commit, Goto, TypeOK
    <3> QED BY <3>2, <3>3 DEF Announcing
  <2>3. CASE RowKept
    <3>1. published \subseteq published'
      BY <1>2, PublishedSteps DEF Publish
    <3>2. (HasPosition <=> HasPosition') /\ row'.ts = row.ts
      BY <2>3 DEF RowKept, HasPosition
    <3>3. ASSUME NEW p \in Reconcilers, pc[p] \in {"setex", "publish"}, call[p].ts = row.ts
          PROVE  \/ row.ts \in published'
                 \/ pc'[p] \in {"setex", "publish"} /\ call'[p].ts = row.ts
      <4>1. call[p] \in Call
        BY <2>1 DEF TypeOK
      <4>2. CASE SetCache(p)
        <5>1. pc'[p] = "publish"
          BY <2>1, <4>2, ProcSets DEF SetCache, Goto, TypeOK
        <5>2. call'[p].ts = call[p].ts
          BY <2>1, <4>1, <4>2 DEF SetCache, TypeOK, Call
        <5> QED BY <3>3, <5>1, <5>2
      <4>3. CASE Publish(p)
        BY <3>3, <4>3 DEF Publish
      <4>4. ~LogCompletion(p)
        BY <3>3 DEF LogCompletion, At
      <4> QED BY <1>2, <2>1, <3>3, <4>2, <4>3, <4>4, CallGoesOn
    <3> QED BY <1>2, <3>1, <3>2, <3>3 DEF Announcing
  <2>4. CASE PurgeRow \/ \E now \in Ts : InitStatusRow(now) /\ ~row.exists
    <3>1. row'.id = NullId
      BY <2>4 DEF PurgeRow, InitStatusRow, NoRow
    <3> QED BY <3>1 DEF Announcing, HasPosition
  <2> QED BY <1>2, <2>1, <2>2, <2>3, <2>4, RowSteps
<1>3. Announcing => LiveIsAnnounced
  BY ProcSets DEF Announcing, LiveIsAnnounced, Quiet, At
<1> QED BY <1>1, <1>2, <1>3, Inv2Holds, PTL DEF Spec

-----------------------------------------------------------------------------
(* A known vehicle: its row has a position, and the position moves forward.   *)
KnownInv == Inv2 /\ SawInv /\ HasId

LEMMA RowForward ==
    ASSUME "purge" \notin Faults, KnownInv, [Next]_vars
    PROVE  HasId' /\ row.ts \in Nat /\ row'.ts \in Nat /\ row.ts <= row'.ts
<1>1. TypeOK /\ CallInv /\ LockInv /\ row \in Row /\ row.exists /\ AllSaw
  BY DEF KnownInv, Inv1, Inv2, TypeOK, SawInv
<1>2. row.ts \in Nat
  BY <1>1, ReconciliationAssumption DEF Row
<1>3. ASSUME NEW p \in Reconcilers, Commit(p), call[p].id # NullId
      PROVE  HasId' /\ row'.ts \in Nat /\ row.ts <= row'.ts
  <2>1. call[p] \in Call /\ row' = Upserted(row, call[p]) /\ pc[p] = "commit"
    BY <1>1, <1>3 DEF TypeOK, Commit, At
  <2>2. row'.ts = call[p].ts /\ row'.id = call[p].id
    BY <1>1, <2>1, RowFields
  <2>3. row.ts < call[p].ts /\ call[p].ts \in Nat
    BY <1>1, <2>1, ReconciliationAssumption DEF LockInv, AllSaw, Call
  <2> QED BY <1>2, <1>3, <2>2, <2>3 DEF HasId
<1>4. CASE RowKept
  BY <1>2, <1>4 DEF RowKept, HasId, KnownInv
<1> QED BY <1>1, <1>2, <1>3, <1>4, RowSteps DEF PurgeRow

LEMMA KnownHolds ==
    ASSUME Starts = {"known"}, "purge" \notin Faults
    PROVE  Spec => []KnownInv
<1>1. Init => HasId
  BY DEF Init, HasId, KnownRow, NullId
<1>2. Inv2 /\ SawInv /\ HasId /\ [Next]_vars => HasId'
  BY RowForward DEF KnownInv
<1>3. Inv2 /\ SawInv /\ HasId => KnownInv
  BY DEF KnownInv
<1> QED BY <1>1, <1>2, <1>3, Inv2Holds, SawHolds, PTL DEF Spec

(* A record that is stored and newer than the row is on its way: it was       *)
(* stored by a save_telemetry that has not come to its commit.                *)
Underway(w, u) ==
    \/ pc[w] = "insert" /\ input[w].id # NullId /\ u \in input[w].batch
    \/ pc[w] \in {"lock", "upsert", "commit"} /\ call[w].id # NullId /\ u <= call[w].ts

CaughtUp == \A u \in telemetry : u <= row.ts \/ \E w \in Workers : Underway(w, u)

(* What the watchdog heals is stored, so that its commit succeeds; and what   *)
(* any call writes to the cache after its commit is no newer than the row.    *)
HealsStored == \A g \in Watchdogs : pc[g] \in InCall => call[g].id # NullId
Committed   == \A p \in Reconcilers : pc[p] \in {"setex", "publish", "log"} => call[p].ts <= row.ts
Snapped     == \A p \in Proc : snap[p].ts <= row.ts

AheadInv == CacheNeverAhead /\ CaughtUp /\ HealsStored /\ Committed /\ Snapped

(* Every change of the cache, and of an entry read to be written back, takes  *)
(* the row's time, that of the other, or that of a call which writes it.      *)
LEMMA CopiesTaken ==
    ASSUME TypeOK, [Next]_vars, redis.ts <= row.ts, Snapped,
           \A p \in Reconcilers : At(p, "setex") /\ redis' # redis => call[p].ts <= row.ts
    PROVE  /\ redis' \in {redis, Miss} \/ redis'.ts <= row.ts
           /\ \/ snap' = snap
              \/ \E p \in Proc, e \in Entry : snap' = [snap EXCEPT ![p] = e] /\ e.ts <= row.ts
              \/ \A p \in Proc : snap'[p] \in {snap[p], Miss}
<1> USE ProcSets
<1>0. /\ row \in Row /\ redis \in Entry /\ snap \in [Proc -> Entry]
      /\ row.ts \in Int /\ redis.ts \in Int /\ Miss.ts = 0
      /\ \A p \in Proc : snap[p].ts \in Int
  BY ReconciliationAssumption DEF TypeOK, Row, Entry, Miss
<1>1. ASSUME NEW p \in Proc, SweepScan(p) \/ ReadRow(p)
      PROVE  /\ redis' = redis
             /\ snap' = snap \/ \E e \in Entry : snap' = [snap EXCEPT ![p] = e] /\ e.ts <= row.ts
  <2>1. redis' = redis
    BY <1>1 DEF SweepScan, ReadRow, cache
  <2>2. \/ snap' = snap
        \/ \E s \in States \cup {"unknown"} : snap' = [snap EXCEPT ![p] = [ts |-> row.ts, state |-> s]]
    BY <1>0, <1>1 DEF SweepScan, ReadRow, States, Row
  <2>3. \A s \in States \cup {"unknown"} :
             [ts |-> row.ts, state |-> s] \in Entry /\ [ts |-> row.ts, state |-> s].ts <= row.ts
    BY <1>0 DEF Entry, Row
  <2> QED BY <2>1, <2>2, <2>3
<1>2. ASSUME NEW p \in Proc, ReadCache(p)
      PROVE  /\ redis' = redis
             /\ \E e \in Entry : snap' = [snap EXCEPT ![p] = e] /\ e.ts <= row.ts
  <2> DEFINE e == [ts |-> IF redis = Miss THEN snap[p].ts ELSE redis.ts, state |-> "offline"]
  <2>1. snap' = [snap EXCEPT ![p] = e] \/ snap' = [snap EXCEPT ![p] = Miss]
    BY <1>2 DEF ReadCache
  <2>2. e \in Entry /\ e.ts <= row.ts
    BY <1>0 DEF Snapped, Entry, States
  <2>3. Miss \in Entry /\ Miss.ts <= row.ts
    BY <1>0, ReconciliationAssumption DEF Miss, Entry, Row
  <2>4. redis' = redis
    BY <1>2 DEF ReadCache, cache
  <2> HIDE DEF e
  <2> QED BY <2>1, <2>2, <2>3, <2>4
<1>3. ASSUME NEW p \in Proc, WriteBack(p)
      PROVE  redis'.ts <= row.ts /\ \A q \in Proc : snap'[q] \in {snap[q], Miss}
  BY <1>0, <1>3 DEF WriteBack, Snapped
<1>4. ASSUME NEW w \in Workers, Disconnect(w)
      PROVE  redis' = redis /\ \A q \in Proc : snap'[q] \in {snap[q], Miss}
  BY <1>0, <1>4 DEF Disconnect, cache
<1>5. ASSUME NEW p \in Reconcilers, ReconcileStep(p)
      PROVE  (redis' = redis \/ redis'.ts <= row.ts) /\ snap' = snap
  <2>1. CASE SetCache(p)
    BY <2>1 DEF SetCache
  <2>2. CASE ~SetCache(p)
    BY <1>5, <2>2 DEF ReconcileStep, LockRow, Upsert, Commit, Publish, LogCompletion, cache
  <2> QED BY <2>1, <2>2
<1>6. CASE Crash \/ Flush
  BY <1>6 DEF Crash, Flush, cache
<1>7. ASSUME \/ RegisterVehicle \/ RowAges \/ PurgeRow \/ UNCHANGED vars
             \/ \E now \in Ts : InitStatusRow(now)
             \/ \E w \in Workers : \/ \E B \in SUBSET Ts : Receive(w, B)
                                   \/ InsertRecord(w) \/ AttemptFails(w) \/ StartReconcile(w)
             \/ \E g \in Watchdogs : WatchdogScan(g)
             \/ \E p \in Reconcilers : LockTimeout(p)
             \/ \E p \in Markers : MarkRow(p)
             \/ \E h \in Healers : HealMiss(h)
      PROVE  redis' = redis /\ snap' = snap
  BY <1>7 DEF RegisterVehicle, RowAges, PurgeRow, vars, InitStatusRow, Receive, InsertRecord,
              AttemptFails, StartReconcile, WatchdogScan, LockTimeout, MarkRow, HealMiss, cache
<1> QED BY <1>1, <1>2, <1>3, <1>4, <1>5, <1>6, <1>7 DEF Next, MarkStep

(* So both stay behind a row that does not move back.                         *)
LEMMA CopiesBehind ==
    ASSUME Inv1, [Next]_vars, redis.ts <= row.ts, Snapped, row.ts <= row'.ts,
           \A p \in Reconcilers : At(p, "setex") /\ redis' # redis => call[p].ts <= row.ts
    PROVE  redis'.ts <= row'.ts /\ Snapped'
<1>1. TypeOK /\ TypeOK' /\ Miss.ts = 0
  BY Step1 DEF Inv1, Miss
<1>2. /\ row.ts \in Nat /\ row'.ts \in Nat /\ redis.ts \in Nat /\ redis'.ts \in Nat
      /\ \A p \in Proc : snap[p].ts \in Nat
      /\ \A p \in Proc : snap'[p].ts \in Nat
  BY <1>1, ReconciliationAssumption DEF TypeOK, Row, Entry
<1>3. /\ redis' \in {redis, Miss} \/ redis'.ts <= row.ts
      /\ \/ snap' = snap
         \/ \E p \in Proc, e \in Entry : snap' = [snap EXCEPT ![p] = e] /\ e.ts <= row.ts
         \/ \A p \in Proc : snap'[p] \in {snap[p], Miss}
  BY <1>1, CopiesTaken
<1>4. redis'.ts <= row.ts
  BY <1>1, <1>2, <1>3
<1>5. Snapped'
  <2> SUFFICES ASSUME NEW p \in Proc PROVE snap'[p].ts <= row'.ts
    BY DEF Snapped
  <2>1. snap'[p].ts <= row.ts
    <3>1. /\ snap[p].ts <= row.ts /\ Miss.ts <= row.ts
          /\ snap \in [Proc -> Entry]
      BY <1>1, <1>2 DEF Snapped, TypeOK
    <3> QED BY <1>3, <3>1
  <2> QED BY <1>2, <2>1
<1> QED BY <1>2, <1>4, <1>5

(* The cache and the snapshots are copies of what the row was, or of what a   *)
(* call has committed.                                                        *)
LEMMA CopiesStep ==
    ASSUME KnownInv, AheadInv, [Next]_vars, "purge" \notin Faults
    PROVE  CacheNeverAhead' /\ Snapped'
<1>1. Inv1 /\ row.ts <= row'.ts
  BY RowForward DEF KnownInv, Inv2
<1>2. /\ redis.ts <= row.ts /\ Snapped
      /\ \A p \in Reconcilers : At(p, "setex") => call[p].ts <= row.ts
  BY DEF AheadInv, CacheNeverAhead, Committed, At
<1> QED BY <1>1, <1>2, CopiesBehind DEF CacheNeverAhead

(* The only way to the commit's aftermath is the commit.                      *)
LEMMA CommitFirst ==
    ASSUME TypeOK, [Next]_vars, NEW p \in Reconcilers, pc'[p] \in {"setex", "publish", "log"}
    PROVE  \/ pc[p] \in {"setex", "publish", "log"} /\ call'[p].ts = call[p].ts
           \/ Commit(p)
<1>1. call[p] \in Call /\ p \in Proc
  BY ProcSets DEF TypeOK
<1>2. CASE Stays(p)
  BY <1>2 DEF Stays
<1>3. CASE SetCache(p) \/ Publish(p)
  <2>1. call'[p].ts = call[p].ts
    BY <1>1, <1>3 DEF SetCache, Publish, TypeOK, Call
  <2> QED BY <1>3, <2>1 DEF SetCache, Publish, At
<1>4. CASE OwnStep(p) /\ ~(SetCache(p) \/ Publish(p) \/ Commit(p) \/ InsertRecord(p) \/ AttemptFails(p))
  <2>1. pc'[p] \notin {"setex", "publish", "log"}
    <3>1. pc \in [Proc -> Label]
      BY DEF TypeOK
    <3>2. CASE ReconcileStep(p) \/ LockTimeout(p) \/ WriteBack(p) \/ WatchdogScan(p)
      BY <1>1, <1>4, <3>1, <3>2
      DEF ReconcileStep, LockRow, Upsert, LogCompletion, LockTimeout, WriteBack, WatchdogScan,
          Return, Goto
    <3>3. CASE \/ \E B \in (SUBSET Ts) \ {{}} : Receive(p, B)
               \/ StartReconcile(p) \/ Disconnect(p) \/ MarkStep(p)
      BY <1>1, <3>1, <3>3
      DEF Receive, StartReconcile, Disconnect, MarkStep, MarkRow, ReadCache, Return, Goto, At
    <3> QED BY <1>4, <3>2, <3>3 DEF OwnStep
  <2> QED BY <2>1
<1>5. CASE InsertRecord(p) \/ AttemptFails(p)
  <2>1. pc[p] = "insert" /\ pc'[p] \in {"insert", "idle"}
    BY <1>1, <1>5 DEF InsertRecord, AttemptFails, At, Goto, TypeOK
  <2> QED BY <2>1
<1>6. ~Crash
  BY <1>1, ReconciliationAssumption DEF Crash, Reconcilers, Ingestion
<1> QED BY <1>2, <1>3, <1>4, <1>5, <1>6, TaskSteps

LEMMA CommittedStep ==
    ASSUME KnownInv, AheadInv, [Next]_vars, \A v, w \in Workers : v = w,
           "purge" \notin Faults, "insert" \notin Faults
    PROVE  Committed'
<1> SUFFICES ASSUME NEW p \in Reconcilers, pc'[p] \in {"setex", "publish", "log"}
             PROVE  call'[p].ts <= row'.ts
  BY DEF Committed
<1>1. /\ TypeOK /\ CallInv /\ call[p] \in Call /\ row \in Row
      /\ row.ts \in Nat /\ row'.ts \in Nat /\ row.ts <= row'.ts
  BY RowForward DEF KnownInv, Inv2, Inv1, TypeOK
<1>2. call[p].ts \in Nat
  BY <1>1, ReconciliationAssumption DEF Call
<1>3. CASE pc[p] \in {"setex", "publish", "log"} /\ call'[p].ts = call[p].ts
  BY <1>1, <1>2, <1>3 DEF AheadInv, Committed
<1>4. CASE Commit(p)
  <2>1. call' = call /\ pc[p] = "commit"
    BY <1>4 DEF Commit, At
  <2>2. CASE call[p].id # NullId
    <3>1. row' = Upserted(row, call[p])
      BY <1>4, <2>2 DEF Commit
    <3>2. row'.ts = call[p].ts
      BY <1>1, <3>1, RowFields
    <3> QED BY <1>2, <2>1, <3>2
  <2>3. CASE call[p].id = NullId
    <3>1. row' = row
      BY <1>4, <2>3 DEF Commit
    <3>2. p \notin Watchdogs
      BY <2>1, <2>3 DEF AheadInv, HealsStored, InCall
    <3>3. call[p].ts \in telemetry
      BY <1>1, <2>1 DEF CallInv, InCall
    <3>4. \A w \in Workers : w = p
      BY <3>2 DEF Reconcilers
    <3>5. \A w \in Workers : ~Underway(w, call[p].ts)
      BY <2>1, <2>3, <3>4 DEF Underway
    <3> QED BY <2>1, <3>1, <3>3, <3>5 DEF AheadInv, CaughtUp
  <2> QED BY <2>2, <2>3
<1> QED BY <1>1, <1>3, <1>4, CommitFirst DEF KnownInv, Inv2, Inv1

LEMMA HealsStep ==
    ASSUME KnownInv, AheadInv, [Next]_vars, "crash" \notin Faults
    PROVE  HealsStored'
<1> SUFFICES ASSUME NEW g \in Watchdogs, pc'[g] \in InCall PROVE call'[g].id # NullId
  BY DEF HealsStored
<1>1. /\ TypeOK /\ g \in Reconcilers /\ g \in Proc /\ call[g] \in Call /\ g \notin Workers
      /\ pc \in [Proc -> Label] /\ call \in [Reconcilers -> Call] /\ telemetry \subseteq Ts
  BY ProcSets, ReconciliationAssumption DEF KnownInv, Inv2, Inv1, TypeOK
<1>2. pc[g] \in InCall => call[g].id # NullId
  BY DEF AheadInv, HealsStored
<1>3. CASE Stays(g)
  BY <1>2, <1>3 DEF Stays
<1>4. CASE WatchdogScan(g)
  <2>1. PICK t \in telemetry : call' = [call EXCEPT ![g] = CallFor(t, t, HealedState(t))]
    BY <1>4 DEF WatchdogScan
  <2>2. call'[g].id = t /\ t \in Ts
    BY <1>1, <2>1 DEF CallFor
  <2> QED BY <2>2, ReconciliationAssumption DEF Ts, NullId
<1>5. CASE ReconcileStep(g)
  <2>1. pc[g] \in InCall
    BY <1>5 DEF ReconcileStep, LockRow, Upsert, Commit, SetCache, Publish, LogCompletion, At, InCall
  <2>2. CASE Return(g)
    BY <1>1, <2>2 DEF Return, Goto, InCall
  <2>3. CASE ~Return(g)
    <3>1. call'[g].id = call[g].id
      BY <1>1, <1>5, <2>3 DEF ReconcileStep, LockRow, Upsert, Commit, SetCache, Publish,
                              LogCompletion, Call
    <3> QED BY <1>2, <2>1, <3>1
  <2> QED BY <2>2, <2>3
<1>6. CASE LockTimeout(g) \/ WriteBack(g)
  BY <1>1, <1>6 DEF LockTimeout, WriteBack, Return, Goto, InCall
<1>7. ~Crash
  BY DEF Crash
<1> QED BY <1>1, <1>3, <1>4, <1>5, <1>6, <1>7, TaskSteps DEF OwnStep

(* A record underway stays so until the commit of its call, which moves the   *)
(* row past it, or until the call finds the row past it.                      *)
LEMMA UnderwayStep ==
    ASSUME KnownInv, [Next]_vars, Faults \cap {"crash", "purge", "attempt", "timeout", "redis"} = {},
           NEW w \in Workers, NEW u \in telemetry, Underway(w, u)
    PROVE  u <= row'.ts \/ Underway(w, u)'
<1>1. /\ TypeOK /\ w \in Reconcilers /\ w \in Proc /\ call[w] \in Call /\ input[w] \in Input
      /\ pc \in [Proc -> Label] /\ call \in [Reconcilers -> Call] /\ input \in [Workers -> Input]
      /\ row \in Row /\ row.exists /\ row.id # NullId
      /\ row.ts \in Nat /\ row'.ts \in Nat /\ row.ts <= row'.ts
      /\ u \in Nat /\ call[w].ts \in Nat
  <2>1. TypeOK /\ w \in Reconcilers /\ w \in Proc /\ row.exists /\ row.id # NullId
    BY ProcSets DEF KnownInv, Inv2, Inv1, SawInv, HasId
  <2>2. u \in Nat /\ call[w].ts \in Nat
    BY <2>1, ReconciliationAssumption DEF TypeOK, Ts, Call
  <2> QED BY <2>1, <2>2, RowForward DEF TypeOK
<1>2. CASE Stays(w)
  BY <1>2 DEF Stays, Underway
<1>3. CASE InsertRecord(w)
  <2>0. PICK t \in input[w].todo :
            \E id \in {t, input[w].id} : input' = [input EXCEPT ![w] = Tried(input[w], t, id)]
    BY <1>3 DEF InsertRecord
  <2>1. PICK id \in {t, input[w].id} : input' = [input EXCEPT ![w] = Tried(input[w], t, id)]
    BY <2>0
  <2>2. t \in Ts /\ id \in 0..MaxTs /\ input[w].id # NullId /\ u \in input[w].batch
    BY <1>1, <1>3, <2>1 DEF Input, Ts, Underway, InsertRecord, At
  <2>3. id # NullId
    BY <2>1, <2>2 DEF Ts, NullId
  <2>4. input'[w].id = id /\ input'[w].batch = input[w].batch
    BY <1>1, <2>1, <2>2, InputTried
  <2>5. pc'[w] = "insert"
    BY <1>3 DEF InsertRecord, At
  <2> QED BY <2>2, <2>3, <2>4, <2>5 DEF Underway
<1>4. CASE StartReconcile(w)
  <2>1. PICK t \in input[w].batch : /\ IsNewest(t, input[w].batch)
                                    /\ call' = [call EXCEPT ![w] = CallFor(t, input[w].id, DecodedState(t))]
    BY <1>4 DEF StartReconcile
  <2>2. call'[w].ts = t /\ call'[w].id = input[w].id
    BY <1>1, <2>1 DEF CallFor
  <2>3. input[w].id # NullId /\ u <= t
    BY <1>4, <2>1 DEF Underway, IsNewest, StartReconcile, At
  <2>4. pc'[w] = "lock"
    BY <1>1, <1>4 DEF StartReconcile, Goto
  <2> QED BY <2>2, <2>3, <2>4 DEF Underway
<1>5. CASE LockRow(w)
  <2>1. call[w].id # NullId /\ u <= call[w].ts
    BY <1>5 DEF Underway, LockRow, At
  <2>2. CASE IsStale(row, call[w].ts)
    <3>1. call[w].ts <= row.ts
      BY <1>1, <2>2 DEF IsStale
    <3> QED BY <1>1, <2>1, <3>1
  <2>3. CASE ~IsStale(row, call[w].ts)
    <3>1. pc'[w] = "upsert" /\ call' = [call EXCEPT ![w].saw = row.exists]
      BY <1>1, <1>5, <2>3 DEF LockRow, Goto
    <3>2. call'[w].id = call[w].id /\ call'[w].ts = call[w].ts
      BY <1>1, <3>1 DEF Call
    <3> QED BY <2>1, <3>1, <3>2 DEF Underway
  <2> QED BY <2>2, <2>3
<1>6. CASE Upsert(w)
  <2>1. pc'[w] = "commit" /\ call' = call /\ pc[w] = "upsert"
    BY <1>1, <1>6 DEF Upsert, Goto, At
  <2> QED BY <2>1 DEF Underway
<1>7. CASE Commit(w)
  <2>1. call[w].id # NullId /\ u <= call[w].ts
    BY <1>7 DEF Underway, Commit, At
  <2>2. row' = Upserted(row, call[w])
    BY <1>7, <2>1 DEF Commit
  <2>3. row'.ts = call[w].ts
    BY <1>1, <2>2, RowFields
  <2> QED BY <2>1, <2>3
<1>8. CASE \/ SetCache(w) \/ Publish(w) \/ LogCompletion(w) \/ LockTimeout(w) \/ WriteBack(w)
           \/ AttemptFails(w) \/ Disconnect(w) \/ MarkStep(w)
           \/ \E B \in (SUBSET Ts) \ {{}} : Receive(w, B)
  BY <1>8 DEF Underway, SetCache, Publish, LogCompletion, LockTimeout, WriteBack, AttemptFails,
              Disconnect, MarkStep, MarkRow, ReadCache, Receive, At
<1>9. ~WatchdogScan(w) \/ w \notin Watchdogs
  BY ReconciliationAssumption
<1>10. ~Crash
  BY DEF Crash
<1> QED
  BY <1>1, <1>2, <1>3, <1>4, <1>5, <1>6, <1>7, <1>8, <1>9, <1>10, TaskSteps DEF OwnStep, ReconcileStep

LEMMA CaughtUpStep ==
    ASSUME KnownInv, AheadInv, [Next]_vars, Faults \cap {"crash", "purge", "attempt", "timeout", "redis"} = {}
    PROVE  CaughtUp'
<1>1. ASSUME NEW u \in telemetry PROVE u <= row'.ts \/ \E w \in Workers : Underway(w, u)'
  <2>1. u \in Nat /\ row.ts \in Nat /\ row'.ts \in Nat /\ row.ts <= row'.ts
    BY RowForward, ReconciliationAssumption DEF KnownInv, Inv2, Inv1, TypeOK, Ts
  <2>2. CASE u <= row.ts
    BY <2>1, <2>2
  <2>3. ASSUME NEW w \in Workers, Underway(w, u) PROVE u <= row'.ts \/ \E v \in Workers : Underway(v, u)'
    BY <2>3, UnderwayStep
  <2> QED BY <2>2, <2>3 DEF AheadInv, CaughtUp
<1>2. ASSUME NEW w \in Workers, InsertRecord(w), NEW u \in telemetry' \ telemetry
      PROVE  Underway(w, u)'
  <2>1. PICK t \in input[w].todo : \/ /\ telemetry' = telemetry \cup {t}
                                      /\ input' = [input EXCEPT ![w] = Tried(input[w], t, t)]
                                   \/ telemetry' = telemetry
    BY <1>2 DEF InsertRecord
  <2>2. u = t /\ input' = [input EXCEPT ![w] = Tried(input[w], t, t)]
    BY <2>1
  <2>3. /\ input \in [Workers -> Input] /\ input[w] \in Input /\ input[w].todo \subseteq input[w].batch
        /\ pc[w] = "insert" /\ pc' = pc
    BY <1>2 DEF KnownInv, Inv2, Inv1, TypeOK, InputInv, InsertRecord, At
  <2>4. t \in Ts /\ t \in 0..MaxTs /\ t # NullId
    BY <2>3 DEF Input, Ts, NullId
  <2>5. input'[w].id = t /\ input'[w].batch = input[w].batch
    BY <2>2, <2>3, <2>4, InputTried
  <2> QED BY <2>2, <2>3, <2>4, <2>5 DEF Underway
<1> QED BY <1>1, <1>2, TelemetrySteps DEF CaughtUp

(* save_telemetry, reconcile_position, the sweeper, the rebuilds and the heal *)
(* together: the cache never shows a position newer than the committed row of *)
(* a known vehicle that one worker serves, even when entries are lost and     *)
(* rebuilt, as long as no attempt fails, times out or is skipped half way.    *)
THEOREM CacheIsNeverAhead ==
    ASSUME Starts = {"known"}, \A v, w \in Workers : v = w,
           Faults \cap {"insert", "attempt", "timeout", "redis", "crash", "purge"} = {}
    PROVE  Spec => []CacheNeverAhead
<1>0. /\ Faults \cap {"crash", "purge", "attempt", "timeout", "redis"} = {}
      /\ "purge" \notin Faults /\ "crash" \notin Faults /\ "insert" \notin Faults
  OBVIOUS
<1>1. Init => AheadInv
  <2> SUFFICES ASSUME Init PROVE AheadInv
    OBVIOUS
  <2>1. row = KnownRow /\ telemetry = {1} /\ redis = [ts |-> 1, state |-> "off"]
    BY DEF Init
  <2>2. CacheNeverAhead /\ CaughtUp
    BY <2>1 DEF CacheNeverAhead, CaughtUp, KnownRow
  <2>3. Snapped
    BY <2>1 DEF Init, Snapped, KnownRow, Miss
  <2>4. \A p \in Proc : pc[p] = "idle"
    BY DEF Init
  <2>5. HealsStored /\ Committed
    BY <2>4, ProcSets DEF HealsStored, Committed, InCall
  <2> QED BY <2>2, <2>3, <2>5 DEF AheadInv
<1>2. KnownInv /\ AheadInv /\ [Next]_vars => AheadInv'
  BY <1>0, CopiesStep, CommittedStep, HealsStep, CaughtUpStep DEF AheadInv
<1>3. AheadInv => CacheNeverAhead
  BY DEF AheadInv
<1>4. Spec => []KnownInv
  BY <1>0, KnownHolds
<1> QED BY <1>1, <1>2, <1>3, <1>4, PTL DEF Spec
-----------------------------------------------------------------------------
(* What is not there has no time.                                             *)
EmptyInv == ~row.exists => row.ts = 0

LEMMA EmptyHolds == Spec => []EmptyInv
<1>1. Init => EmptyInv
  BY DEF Init, EmptyInv, KnownRow, NoRow
<1>2. ASSUME Inv2, EmptyInv, [Next]_vars PROVE EmptyInv'
  <2>1. TypeOK /\ row \in Row
    BY <1>2 DEF Inv2, Inv1, TypeOK
  <2>2. CASE RowKept
    BY <1>2, <2>2 DEF RowKept, EmptyInv
  <2>3. ASSUME NEW now \in Ts, InitStatusRow(now), ~row.exists PROVE EmptyInv'
    BY <2>3 DEF InitStatusRow, EmptyInv
  <2>4. ASSUME NEW p \in Reconcilers, Commit(p), call[p].id # NullId PROVE EmptyInv'
    <3>1. call[p] \in Call /\ row' = Upserted(row, call[p])
      BY <2>1, <2>4 DEF TypeOK, Commit
    <3> QED BY <2>1, <3>1, RowFields DEF EmptyInv
  <2>5. CASE PurgeRow
    BY <2>5 DEF PurgeRow, NoRow, EmptyInv
  <2> QED BY <1>2, <2>1, <2>2, <2>3, <2>4, <2>5, RowSteps
<1> QED BY <1>1, <1>2, Inv2Holds, PTL DEF Spec

(* A row moves back only when it is purged or by a commit on first contact.   *)
LEMMA RowMovesBack ==
    ASSUME Inv2, EmptyInv, [Next]_vars, row'.exists,
           \A p \in Reconcilers : At(p, "commit") => call[p].saw
    PROVE  row.ts <= row'.ts
<1>1. TypeOK /\ LockInv /\ row \in Row /\ row.ts \in Nat
  BY ReconciliationAssumption DEF Inv2, Inv1, TypeOK, Row
<1>2. CASE RowKept
  BY <1>1, <1>2 DEF RowKept
<1>3. ASSUME NEW now \in Ts, InitStatusRow(now), ~row.exists PROVE row.ts <= row'.ts
  BY <1>3 DEF InitStatusRow, EmptyInv, Ts
<1>4. ASSUME NEW p \in Reconcilers, Commit(p), call[p].id # NullId PROVE row.ts <= row'.ts
  <2>1. call[p] \in Call /\ row' = Upserted(row, call[p]) /\ At(p, "commit")
    BY <1>1, <1>4 DEF TypeOK, Commit
  <2>2. row'.ts = call[p].ts /\ call[p].ts \in Nat
    BY <1>1, <2>1, RowFields, ReconciliationAssumption DEF Call
  <2>3. row.ts < call[p].ts
    BY <1>1, <2>1 DEF LockInv, At
  <2> QED BY <1>1, <2>2, <2>3
<1>5. ~PurgeRow
  BY DEF PurgeRow, NoRow
<1> QED BY <1>1, <1>2, <1>3, <1>4, <1>5, RowSteps

(* A call is about to write the cache where it was, or by its commit.         *)
LEMMA SetexFirst ==
    ASSUME TypeOK, [Next]_vars, NEW p \in Reconcilers, pc'[p] = "setex"
    PROVE  Stays(p) \/ Commit(p)
<1>1. p \in Proc /\ pc \in [Proc -> Label]
  BY ProcSets DEF TypeOK
<1>2. ~Crash
  BY <1>1, ReconciliationAssumption DEF Crash, Reconcilers, Ingestion
<1>3. CASE ReconcileStep(p) \/ LockTimeout(p) \/ WriteBack(p) \/ WatchdogScan(p)
  BY <1>1, <1>3
  DEF ReconcileStep, LockRow, Upsert, SetCache, Publish, LogCompletion, LockTimeout, WriteBack,
      WatchdogScan, Return, Goto
<1>4. CASE p \in Workers /\ \/ \E B \in (SUBSET Ts) \ {{}} : Receive(p, B)
                            \/ InsertRecord(p) \/ AttemptFails(p) \/ StartReconcile(p)
                            \/ Disconnect(p) \/ MarkStep(p)
  BY <1>1, <1>4
  DEF Receive, InsertRecord, AttemptFails, StartReconcile, Disconnect, MarkStep, MarkRow, ReadCache,
      Return, Goto, At
<1> QED BY <1>2, <1>3, <1>4, TaskSteps DEF OwnStep

(* reconcile_position, the sweeper, the rebuilds and the heal, under every    *)
(* failure: the cache gets ahead of the row, at once or through what is on    *)
(* its way to it, only because the row was purged or set back on first        *)
(* contact, or because a call wrote it whose commit had been rolled back.     *)
THEOREM OvertakenForAReason == Spec => OnlyRollbackOvertakes
<1> DEFINE Reason == \/ ~row'.exists
                     \/ \E p \in Reconcilers : At(p, "commit") /\ ~call[p].saw
                     \/ \E p \in Reconcilers : At(p, "setex") /\ call[p].id = NullId
<1>1. ASSUME Inv2, EmptyInv, [Next]_vars, InStep, ~Reason PROVE InStep'
  <2>1. Inv1 /\ Inv1' /\ TypeOK /\ row \in Row /\ TypeOK'
    BY <1>1, Step1 DEF Inv2, Inv1, TypeOK
  <2>2. row.ts <= row'.ts /\ row.ts \in Nat /\ row'.ts \in Nat
    <3>1. row.ts <= row'.ts
      BY <1>1, RowMovesBack
    <3> QED BY <2>1, <3>1, ReconciliationAssumption DEF TypeOK, Row
  <2>3. redis'.ts <= row'.ts /\ Snapped'
    <3>1. redis.ts <= row.ts /\ Snapped
      BY <1>1 DEF InStep, Snapped
    <3>2. \A p \in Reconcilers : At(p, "setex") => call[p].ts <= row.ts
      BY <1>1 DEF InStep
    <3> QED BY <1>1, <2>1, <2>2, <3>1, <3>2, CopiesBehind
  <2>4. ASSUME NEW p \in Reconcilers, pc'[p] = "setex", call'[p].id # NullId
        PROVE  call'[p].ts <= row'.ts
    <3>1. call[p] \in Call /\ call[p].ts \in Nat
      BY <2>1, ReconciliationAssumption DEF TypeOK, Call
    <3>2. CASE Commit(p)
      <4>1. call' = call
        BY <3>2 DEF Commit
      <4>2. row' = Upserted(row, call[p])
        BY <2>4, <3>2, <4>1 DEF Commit
      <4>3. row'.ts = call[p].ts
        BY <2>1, <3>1, <4>2, RowFields
      <4> QED BY <2>2, <4>1, <4>3
    <3>3. CASE Stays(p)
      <4>1. pc[p] = "setex" /\ call'[p] = call[p]
        BY <2>4, <3>3 DEF Stays
      <4>2. call[p].ts <= row.ts
        BY <1>1, <2>4, <4>1 DEF InStep, At
      <4> QED BY <2>2, <3>1, <4>1, <4>2
    <3> QED BY <1>1, <2>1, <2>4, <3>2, <3>3, SetexFirst
  <2> QED BY <2>3, <2>4 DEF InStep, Snapped, At
<1> QED BY <1>1, Inv2Holds, EmptyHolds, PTL DEF Spec, OnlyRollbackOvertakes
==============================================================================
