--------------------------- MODULE TelemetryProofs ---------------------------
(* Theorems about what a device sends and what is derived from it, each for   *)
(* any number of tasks, packets, bytes and faults: the motion hysteresis and  *)
(* its Redis lock, the control of event storms, trips, driver sessions, the   *)
(* filters of a packet's records, and the framing of packets in a stream.     *)
EXTENDS MotionHysteresis, EventStorm, TripAnalytics, DriverSessions, RecordIntake,
        PacketFraming, Counting, SequenceTheorems, TLAPS

-----------------------------------------------------------------------------
(* Motion hysteresis and its lock.                                            *)

Inside(e) == hPc[e] \in {"read", "save", "unlock"}

(* As long as nothing has failed, a task inside holds the lock's key, one     *)
(* task at most does, and the key is set while it does.                       *)
LockInv ==
    /\ hFaults \in Nat
    /\ hFaults = 0 => /\ \A e \in HEvaluators : Inside(e) => hHeld[e]
                      /\ \A d, e \in HEvaluators : hHeld[d] /\ hHeld[e] => d = e
                      /\ \A e \in HEvaluators : hHeld[e] => hLock

HInductive ==
    /\ hPc \in [HEvaluators -> {"idle", "read", "save", "unlock"}]
    /\ hHeld \in [HEvaluators -> BOOLEAN] /\ hLock \in BOOLEAN
    /\ LockInv

LEMMA HInitInductive == HInit => HInductive
<1> SUFFICES ASSUME HInit PROVE HInductive
  OBVIOUS
<1>1. /\ hPc = [e \in HEvaluators |-> "idle"] /\ hHeld = [e \in HEvaluators |-> FALSE]
      /\ hLock = FALSE /\ hFaults = 0
  BY DEF HInit
<1>2. \A e \in HEvaluators : hPc[e] = "idle" /\ ~hHeld[e]
  BY <1>1
<1> QED BY <1>1, <1>2 DEF HInductive, LockInv, Inside

(* Entering with the key: nobody held it, as it was not set.                  *)
LEMMA AcquireKeeps ==
    ASSUME HInductive, NEW e \in HEvaluators, HAcquire(e) PROVE HInductive'
<1>1. PICK p \in HPacket : hPc' = [hPc EXCEPT ![e] = IF p.sort = "off" THEN "save" ELSE "read"]
  BY DEF HAcquire, HEnter, HGoto
<1>2. /\ ~hLock /\ hLock' = TRUE /\ hHeld' = [hHeld EXCEPT ![e] = TRUE]
      /\ hFaults' = hFaults
  BY DEF HAcquire
<1>3. hPc' \in [HEvaluators -> {"idle", "read", "save", "unlock"}]
  BY <1>1 DEF HInductive
<1>4. hHeld' \in [HEvaluators -> BOOLEAN] /\ hLock' \in BOOLEAN
  BY <1>2 DEF HInductive
<1>5. ASSUME hFaults' = 0 PROVE /\ \A d \in HEvaluators : Inside(d)' => hHeld'[d]
                                /\ \A c, d \in HEvaluators : hHeld'[c] /\ hHeld'[d] => c = d
  <2>1. \A d \in HEvaluators : ~hHeld[d]
    BY <1>2, <1>5 DEF HInductive, LockInv
  <2>2. \A d \in HEvaluators : hHeld'[d] <=> d = e
    BY <1>2, <2>1 DEF HInductive
  <2>3. \A d \in HEvaluators \ {e} : hPc'[d] = hPc[d]
    BY <1>1 DEF HInductive
  <2> QED BY <1>2, <1>5, <2>1, <2>2, <2>3 DEF HInductive, LockInv, Inside
<1> QED BY <1>2, <1>3, <1>4, <1>5 DEF HInductive, LockInv

(* A step inside the section changes neither the key nor who is inside.       *)
LEMMA InsideKeeps ==
    ASSUME HInductive, NEW e \in HEvaluators, HRead(e) \/ HSave(e) PROVE HInductive'
<1>1. /\ Inside(e)
      /\ \E l \in {"save", "unlock"} : hPc' = [hPc EXCEPT ![e] = l]
      /\ hLock' = hLock /\ hHeld' = hHeld
      /\ hFaults' = hFaults \/ hFaults' = hFaults + 1
  BY DEF HRead, HSave, HGoto, HFault, Inside
<1>2. hPc' \in [HEvaluators -> {"idle", "read", "save", "unlock"}]
  BY <1>1 DEF HInductive
<1>3. \A d \in HEvaluators : Inside(d)' => Inside(d)
  BY <1>1 DEF HInductive, Inside
<1> QED BY <1>1, <1>2, <1>3 DEF HInductive, LockInv

(* Leaving: the key that is deleted is the task's own, as nobody else has one.*)
LEMMA ReleaseKeeps ==
    ASSUME HInductive, NEW e \in HEvaluators, HRelease(e) PROVE HInductive'
<1>1. /\ hPc' = [hPc EXCEPT ![e] = "idle"] /\ hHeld' = [hHeld EXCEPT ![e] = FALSE]
      /\ hLock' = (hLock /\ ~hHeld[e]) \/ hLock' = hLock
      /\ hFaults' = hFaults
  BY DEF HRelease, HGoto
<1>2. /\ hPc' \in [HEvaluators -> {"idle", "read", "save", "unlock"}]
      /\ hHeld' \in [HEvaluators -> BOOLEAN]
  BY <1>1 DEF HInductive
<1>3. hLock' \in BOOLEAN
  BY <1>1 DEF HInductive
<1>4. \A d \in HEvaluators : /\ Inside(d)' => d # e /\ Inside(d)
                             /\ hHeld'[d] => d # e /\ hHeld[d]
                             /\ d # e => hHeld'[d] = hHeld[d]
  BY <1>1 DEF HInductive, Inside
<1>5. ASSUME hFaults' = 0, NEW d \in HEvaluators, hHeld'[d] PROVE hLock'
  <2>1. d # e /\ hHeld[d] /\ hLock
    BY <1>1, <1>4, <1>5 DEF HInductive, LockInv
  <2>2. ~hHeld[e]
    BY <1>1, <1>5, <2>1 DEF HInductive, LockInv
  <2> QED BY <1>1, <2>1, <2>2
<1> QED BY <1>1, <1>2, <1>3, <1>4, <1>5 DEF HInductive, LockInv

LEMMA FaultKeeps ==
    ASSUME HInductive, HFault,
           hPc' \in [HEvaluators -> {"idle", "read", "save", "unlock"}],
           hHeld' \in [HEvaluators -> BOOLEAN], hLock' \in BOOLEAN
    PROVE  HInductive'
BY DEF HInductive, LockInv, HFault

LEMMA HStepInductive == HInductive /\ [HNext]_hysteresis => HInductive'
<1> SUFFICES ASSUME HInductive, [HNext]_hysteresis PROVE HInductive'
  OBVIOUS
<1>1. ASSUME NEW e \in HEvaluators, HStep(e) PROVE HInductive'
  BY <1>1, AcquireKeeps, InsideKeeps, ReleaseKeeps DEF HStep
<1>2. ASSUME NEW e \in HEvaluators, HProceedUnlocked(e) PROVE HInductive'
  <2>1. \E p \in HPacket : hPc' = [hPc EXCEPT ![e] = IF p.sort = "off" THEN "save" ELSE "read"]
    BY <1>2 DEF HProceedUnlocked, HEnter, HGoto
  <2>2. hPc' \in [HEvaluators -> {"idle", "read", "save", "unlock"}]
    BY <2>1 DEF HInductive
  <2>3. HFault /\ hLock' = hLock /\ hHeld' = hHeld
    BY <1>2 DEF HProceedUnlocked
  <2> QED BY <2>2, <2>3, FaultKeeps DEF HInductive
<1>3. ASSUME HLockExpires PROVE HInductive'
  <2>1. hLock' = FALSE /\ hPc' = hPc /\ hHeld' = hHeld
    BY <1>3 DEF HLockExpires
  <2>2. CASE \E e \in HEvaluators : hHeld[e]
    BY <1>3, <2>1, <2>2, FaultKeeps DEF HLockExpires, HInductive
  <2>3. CASE ~ \E e \in HEvaluators : hHeld[e]
    BY <1>3, <2>1, <2>3 DEF HLockExpires, HInductive, LockInv, Inside
  <2> QED BY <2>2, <2>3
<1>4. ASSUME HResetOffline PROVE HInductive'
  BY <1>4 DEF HResetOffline, HInductive, LockInv, Inside
<1>5. ASSUME HRestart PROVE HInductive'
  <2>1. /\ hPc' \in [HEvaluators -> {"idle", "read", "save", "unlock"}]
        /\ hHeld' \in [HEvaluators -> BOOLEAN] /\ hLock' = hLock /\ HFault
    BY <1>5 DEF HRestart
  <2> QED BY <2>1, FaultKeeps DEF HInductive
<1>6. CASE UNCHANGED hysteresis
  BY <1>6 DEF hysteresis, HInductive, LockInv, Inside
<1> QED BY <1>1, <1>2, <1>3, <1>4, <1>5, <1>6 DEF HNext

(* Two tasks are inside the section of one device only after a fault, however *)
(* many evaluate its packets: hysteresis.py, RedisLock.                       *)
THEOREM SectionExcludes == HSpec => []EvaluationsExclude
<1>1. HInductive => EvaluationsExclude
  BY DEF HInductive, LockInv, EvaluationsExclude, Inside
<1> QED BY <1>1, HInitInductive, HStepInductive, PTL DEF HSpec

-----------------------------------------------------------------------------
(* The packets behind a pending transition: those written since, all of the   *)
(* kind it needs, span from before it began to pend.                          *)
RunType == [kind : {"none", "fast", "slow"}, lo : HTime, hi : HTime]

Evident(m, r) ==
    /\ m.pending = "moving"  => r.kind = "fast" /\ r.lo <= m.since /\ m.since <= r.hi
    /\ m.pending = "stopped" => r.kind = "slow" /\ r.lo <= m.since /\ m.since <= r.hi

(* What a step from m to n on the evidence r may be.                          *)
Earned(m, n, r) ==
    /\ (m.state # "moving" /\ n.state = "moving") => r.kind = "fast" /\ r.hi - r.lo >= HStart
    /\ (m.state = "moving" /\ n.state = "idle")   => r.kind = "slow" /\ r.hi - r.lo >= HStop

LEMMA SettledType ==
    ASSUME NEW s \in {"idle", "moving", "ignition_off", "offline"}
    PROVE  /\ HSettled(s) \in HMotion
           /\ HSettled(s).pending = "none" /\ HSettled(s).state = s
BY HAssumption DEF HSettled, HMotion, HTime

LEMMA EvidenceType ==
    ASSUME NEW r \in RunType, NEW p \in HPacket
    PROVE  /\ HEvidence(r, p) \in RunType
           /\ p.sort \in {"fast", "slow"} =>
                 /\ HEvidence(r, p).kind = p.sort
                 /\ HEvidence(r, p).lo <= p.ts /\ p.ts <= HEvidence(r, p).hi
                 /\ r.kind = p.sort => HEvidence(r, p).lo <= r.lo /\ r.hi <= HEvidence(r, p).hi
           /\ p.sort = "zone" => HEvidence(r, p) = r
<1>1. p.ts \in HTime /\ p.sort \in {"off", "zone", "fast", "slow"}
  BY HAssumption DEF HPacket, HTime
<1>2. CASE p.sort = "off"
  BY <1>2, HAssumption DEF HEvidence, RunType, HTime, NoRun
<1>3. CASE p.sort = "zone"
  <2>1. HEvidence(r, p) = r
    BY <1>3 DEF HEvidence, RunType
  <2> QED BY <1>3, <2>1
<1>4. CASE p.sort \in {"fast", "slow"} /\ p.sort = r.kind
  <2>1. HEvidence(r, p) = [r EXCEPT !.lo = IF p.ts < @ THEN p.ts ELSE @,
                                    !.hi = IF p.ts > @ THEN p.ts ELSE @]
    BY <1>4 DEF HEvidence
  <2>2. /\ HEvidence(r, p).lo = IF p.ts < r.lo THEN p.ts ELSE r.lo
        /\ HEvidence(r, p).hi = IF p.ts > r.hi THEN p.ts ELSE r.hi
        /\ HEvidence(r, p).kind = r.kind
    BY <2>1 DEF RunType
  <2>3. HEvidence(r, p) \in RunType
    BY <1>1, <2>1 DEF RunType
  <2>4. r.lo \in Int /\ r.hi \in Int /\ p.ts \in Int
    BY <1>1, HAssumption DEF RunType, HTime
  <2> QED BY <1>4, <2>2, <2>3, <2>4
<1>5. CASE p.sort \in {"fast", "slow"} /\ p.sort # r.kind
  <2>1. HEvidence(r, p) = [kind |-> p.sort, lo |-> p.ts, hi |-> p.ts]
    BY <1>5 DEF HEvidence
  <2> QED BY <1>1, <1>5, <2>1, HAssumption DEF RunType, HTime
<1> QED BY <1>1, <1>2, <1>3, <1>4, <1>5

(* One application of the rules keeps the evidence and earns its transition.  *)
LEMMA RulesAreEarned ==
    ASSUME NEW m \in HMotion, NEW p \in HPacket, NEW r \in RunType, Evident(m, r)
    PROVE  /\ HRules(m, p) \in HMotion
           /\ Evident(HRules(m, p), HEvidence(r, p))
           /\ Earned(m, HRules(m, p), HEvidence(r, p))
<1> DEFINE q == HEvidence(r, p)
<1>1. /\ q \in RunType
      /\ p.sort \in {"fast", "slow"} =>
            /\ q.kind = p.sort /\ q.lo <= p.ts /\ p.ts <= q.hi
            /\ r.kind = p.sort => q.lo <= r.lo /\ r.hi <= q.hi
      /\ p.sort = "zone" => q = r
  BY EvidenceType
<1> HIDE DEF q
<1>2. CASE p.sort = "off"
  <2>1. HRules(m, p) = HSettled("ignition_off")
    BY <1>2 DEF HRules
  <2> QED BY <2>1, SettledType DEF Evident, Earned, q
<1>3. CASE p.sort = "zone"
  <2>1. HRules(m, p) = m /\ q = r
    BY <1>1, <1>3 DEF HRules
  <2> QED BY <2>1 DEF Earned, q
<1>4. CASE p.sort = "fast"
  <2>1. HRules(m, p) = HFast(m, p.ts) /\ p.ts \in HTime
    BY <1>4 DEF HRules, HPacket
  <2>2. CASE m.state = "moving"
    <3>1. HRules(m, p) = HSettled("moving")
      BY <2>1, <2>2 DEF HFast
    <3> QED BY <2>2, <3>1, SettledType DEF Evident, Earned, q
  <2>3. CASE m.state # "moving" /\ m.pending # "moving"
    <3>1. HRules(m, p) = [m EXCEPT !.pending = "moving", !.since = p.ts]
      BY <2>1, <2>3 DEF HFast
    <3>2. /\ HRules(m, p) \in HMotion /\ HRules(m, p).pending = "moving"
          /\ HRules(m, p).since = p.ts /\ HRules(m, p).state = m.state
      BY <2>1, <3>1 DEF HMotion
    <3> QED BY <1>1, <1>4, <2>3, <3>2 DEF Evident, Earned, q
  <2>4. CASE m.state # "moving" /\ m.pending = "moving"
    <3>1. r.kind = "fast" /\ r.lo <= m.since /\ m.since <= r.hi
      BY <2>4 DEF Evident
    <3>2. q.kind = "fast" /\ q.lo <= m.since /\ m.since <= q.hi /\ p.ts <= q.hi
      BY <1>1, <1>4, <3>1, HAssumption, <2>1 DEF RunType, HMotion, HTime
    <3>3. CASE p.ts - m.since >= HStart
      <4>1. HRules(m, p) = HSettled("moving")
        BY <2>1, <2>4, <3>3 DEF HFast
      <4>2. q.hi - q.lo >= HStart
        BY <1>1, <2>1, <3>2, <3>3, HAssumption DEF RunType, HMotion, HTime
      <4> QED BY <2>4, <3>2, <4>1, <4>2, SettledType DEF Evident, Earned, q
    <3>4. CASE ~(p.ts - m.since >= HStart)
      <4>1. HRules(m, p) = m
        BY <2>1, <2>4, <3>4 DEF HFast
      <4> QED BY <2>4, <3>2, <4>1 DEF Evident, Earned, q
    <3> QED BY <3>3, <3>4
  <2> QED BY <2>2, <2>3, <2>4
<1>5. CASE p.sort = "slow"
  <2>1. HRules(m, p) = HSlow(m, p.ts) /\ p.ts \in HTime
    BY <1>5 DEF HRules, HPacket
  <2>2. CASE m.state \in {"idle", "ignition_off"}
    <3>1. HRules(m, p) = HSettled("idle")
      BY <2>1, <2>2 DEF HSlow
    <3> QED BY <2>2, <3>1, SettledType DEF Evident, Earned, q
  <2>3. CASE m.state \in {"moving", "offline"} /\ m.pending # "stopped"
    <3>1. HRules(m, p) = [m EXCEPT !.pending = "stopped", !.since = p.ts]
      BY <2>1, <2>3 DEF HSlow
    <3>2. /\ HRules(m, p) \in HMotion /\ HRules(m, p).pending = "stopped"
          /\ HRules(m, p).since = p.ts /\ HRules(m, p).state = m.state
      BY <2>1, <3>1 DEF HMotion
    <3> QED BY <1>1, <1>5, <2>3, <3>2 DEF Evident, Earned, q
  <2>4. CASE m.state \in {"moving", "offline"} /\ m.pending = "stopped"
    <3>1. r.kind = "slow" /\ r.lo <= m.since /\ m.since <= r.hi
      BY <2>4 DEF Evident
    <3>2. q.kind = "slow" /\ q.lo <= m.since /\ m.since <= q.hi /\ p.ts <= q.hi
      BY <1>1, <1>5, <3>1, HAssumption, <2>1 DEF RunType, HMotion, HTime
    <3>3. CASE p.ts - m.since >= HStop
      <4>1. HRules(m, p) = HSettled("idle")
        BY <2>1, <2>4, <3>3 DEF HSlow
      <4>2. q.hi - q.lo >= HStop
        BY <1>1, <2>1, <3>2, <3>3, HAssumption DEF RunType, HMotion, HTime
      <4> QED BY <2>4, <3>2, <4>1, <4>2, SettledType DEF Evident, Earned, q
    <3>4. CASE ~(p.ts - m.since >= HStop)
      <4>1. HRules(m, p) = m
        BY <2>1, <2>4, <3>4 DEF HSlow
      <4> QED BY <2>4, <3>2, <4>1 DEF Evident, Earned, q
    <3> QED BY <3>3, <3>4
  <2> QED BY <2>2, <2>3, <2>4 DEF HMotion
<1> QED BY <1>2, <1>3, <1>4, <1>5 DEF HPacket

LEMMA RulesType ==
    ASSUME NEW m \in HMotion, NEW p \in HPacket
    PROVE  HRules(m, p) \in HMotion
<1>1. p.ts \in HTime /\ p.sort \in {"off", "zone", "fast", "slow"}
  BY HAssumption DEF HPacket, HTime
<1>2. /\ [m EXCEPT !.pending = "moving", !.since = p.ts] \in HMotion
      /\ [m EXCEPT !.pending = "stopped", !.since = p.ts] \in HMotion
  BY <1>1 DEF HMotion
<1>3. HFast(m, p.ts) \in HMotion
  BY <1>2, SettledType DEF HFast
<1>4. HSlow(m, p.ts) \in HMotion
  BY <1>2, SettledType DEF HSlow
<1> QED BY <1>1, <1>3, <1>4, SettledType DEF HRules

-----------------------------------------------------------------------------
HTypes ==
    /\ hMotion \in HMotion /\ hRun \in RunType
    /\ hPacket \in [HEvaluators -> HPacket] /\ hSeen \in [HEvaluators -> HMotion]
    /\ hTorn \in [readers : SUBSET HEvaluators, wrote : BOOLEAN]

(* As long as nothing has failed, a task about to write has read what is      *)
(* still there, unless the state was reset under it.                          *)
ReadIsCurrent ==
    hFaults = 0 => \A e \in HEvaluators :
        hPc[e] = "save" /\ hPacket[e].sort # "off" /\ e \notin hTorn.readers
        => hSeen[e] = hMotion

PendingIsEvident == hFaults = 0 /\ ~hTorn.wrote => Evident(hMotion, hRun)

SustainedInv == HInductive /\ HTypes /\ ReadIsCurrent /\ PendingIsEvident

Sustained ==
    hFaults' > 0 \/ hTorn'.wrote
       \/ /\ (hMotion.state # "moving" /\ hMotion'.state = "moving")
             => hRun'.kind = "fast" /\ hRun'.hi - hRun'.lo >= HStart
          /\ (hMotion.state = "moving" /\ hMotion'.state = "idle")
             => hRun'.kind = "slow" /\ hRun'.hi - hRun'.lo >= HStop

LEMMA EarnedIsSustained == Earned(hMotion, hMotion', hRun') => Sustained
BY DEF Earned, Sustained

LEMMA UnmovedIsEarned == hMotion' = hMotion => Sustained
BY DEF Sustained

LEMMA SustainedInit == HInit => SustainedInv
<1> SUFFICES ASSUME HInit PROVE SustainedInv
  OBVIOUS
<1>1. HInductive
  BY HInitInductive
<1>2. HUndecided \in HMotion /\ HUndecided.pending = "none"
  BY SettledType DEF HUndecided
<1>3. NoRun \in RunType /\ NoPacket \in HPacket
  BY HAssumption DEF NoRun, RunType, NoPacket, HPacket, HTime
<1>4. HTypes
  BY <1>2, <1>3 DEF HInit, HTypes
<1>5. ReadIsCurrent
  BY DEF HInit, ReadIsCurrent
<1>6. PendingIsEvident
  BY <1>2 DEF HInit, PendingIsEvident, Evident
<1> QED BY <1>1, <1>4, <1>5, <1>6 DEF SustainedInv

(* The invariant survives every step that leaves the motion state alone and   *)
(* in which no task that has just come to its write may have read another.    *)
LEMMA UnmovedKeeps ==
    ASSUME SustainedInv, HInductive', HTypes', hMotion' = hMotion, hRun' = hRun,
           hTorn'.wrote = hTorn.wrote, hFaults' \in {hFaults, hFaults + 1},
           hFaults' = 0 => \A e \in HEvaluators :
               hPc'[e] = "save" /\ hPacket'[e].sort # "off" /\ e \notin hTorn'.readers
               => \/ hSeen'[e] = hMotion
                  \/ /\ hPc[e] = "save" /\ hPacket[e].sort # "off" /\ e \notin hTorn.readers
                     /\ hSeen'[e] = hSeen[e]
    PROVE  SustainedInv' /\ Sustained
<1>1. hFaults' = 0 => hFaults = 0
  BY DEF SustainedInv, HInductive, LockInv
<1>2. ReadIsCurrent'
  BY <1>1 DEF SustainedInv, ReadIsCurrent
<1>3. PendingIsEvident'
  BY <1>1 DEF SustainedInv, PendingIsEvident, Evident
<1> QED BY <1>2, <1>3, UnmovedIsEarned DEF SustainedInv

(* A task that enters has a packet; with the ignition off it reads nothing.   *)
LEMMA EnterKeeps ==
    ASSUME SustainedInv, HInductive', NEW e \in HEvaluators, HEnter(e),
           hFaults' \in {hFaults, hFaults + 1}
    PROVE  SustainedInv' /\ Sustained
<1>1. PICK p \in HPacket :
         /\ hPacket' = [hPacket EXCEPT ![e] = p]
         /\ hPc' = [hPc EXCEPT ![e] = IF p.sort = "off" THEN "save" ELSE "read"]
  BY DEF HEnter, HGoto
<1>2. hMotion' = hMotion /\ hSeen' = hSeen /\ hRun' = hRun /\ hTorn' = hTorn
  BY DEF HEnter
<1>3. HTypes'
  BY <1>1, <1>2 DEF SustainedInv, HTypes
<1>4. ASSUME NEW d \in HEvaluators, hPc'[d] = "save", hPacket'[d].sort # "off"
      PROVE  d # e /\ hPc[d] = "save" /\ hPacket[d].sort # "off"
  BY <1>1, <1>4 DEF SustainedInv, HTypes, HInductive
<1> QED BY <1>2, <1>3, <1>4, UnmovedKeeps

LEMMA ReadKeeps ==
    ASSUME SustainedInv, HInductive', NEW e \in HEvaluators, HRead(e)
    PROVE  SustainedInv' /\ Sustained
<1>1. /\ hPc' = [hPc EXCEPT ![e] = "save"] /\ hPacket' = hPacket
      /\ hMotion' = hMotion /\ hRun' = hRun /\ hTorn' = hTorn
  BY DEF HRead, HGoto
<1>2. \/ hSeen' = [hSeen EXCEPT ![e] = hMotion] /\ hFaults' = hFaults
      \/ hSeen' = [hSeen EXCEPT ![e] = HUndecided] /\ hFaults' = hFaults + 1
  BY DEF HRead, HFault
<1>3. HTypes'
  BY <1>1, <1>2, SettledType DEF SustainedInv, HTypes, HUndecided
<1>4. hFaults' = 0 => hSeen'[e] = hMotion
  BY <1>2 DEF SustainedInv, HInductive, LockInv, HTypes
<1>5. \A d \in HEvaluators \ {e} : hPc'[d] = hPc[d] /\ hSeen'[d] = hSeen[d]
  BY <1>1, <1>2 DEF SustainedInv, HInductive, HTypes
<1> QED BY <1>1, <1>2, <1>3, <1>4, <1>5, UnmovedKeeps

(* The write: without a fault and a reset the rules are applied to what is    *)
(* there, for the one task inside.                                            *)
LEMMA SaveKeeps ==
    ASSUME SustainedInv, HInductive', NEW e \in HEvaluators, HSave(e)
    PROVE  SustainedInv' /\ Sustained
<1>1. /\ hPc[e] = "save" /\ hPc' = [hPc EXCEPT ![e] = "unlock"]
      /\ hPacket' = hPacket /\ hSeen' = hSeen /\ hFaults' = hFaults
  BY DEF HSave, HGoto
<1>2. hPacket[e] \in HPacket /\ hSeen[e] \in HMotion /\ hRun \in RunType /\ hMotion \in HMotion
  BY DEF SustainedInv, HTypes
<1>3. hFaults = 0 => \A d \in HEvaluators : hPc'[d] # "save"
  <2>1. hFaults = 0 => \A d \in HEvaluators \ {e} : ~Inside(d)
    BY <1>1 DEF SustainedInv, HInductive, LockInv, Inside
  <2> QED BY <1>1, <2>1 DEF Inside, SustainedInv, HInductive
<1>4. CASE /\ hMotion' = HRules(hSeen[e], hPacket[e]) /\ hRun' = HEvidence(hRun, hPacket[e])
           /\ hTorn' = [readers |-> hTorn.readers \ {e},
                        wrote |-> hTorn.wrote \/ e \in hTorn.readers]
  <2>1. HTypes'
    <3>1. hTorn.readers \in SUBSET HEvaluators /\ hTorn.wrote \in BOOLEAN
      BY DEF SustainedInv, HTypes
    <3>2. hTorn' \in [readers : SUBSET HEvaluators, wrote : BOOLEAN]
      BY <1>4, <3>1
    <3> QED BY <1>1, <1>2, <1>4, <3>2, RulesType, EvidenceType DEF SustainedInv, HTypes
  <2>2. ReadIsCurrent'
    BY <1>1, <1>3 DEF ReadIsCurrent
  <2>3. hTorn'.wrote <=> hTorn.wrote \/ e \in hTorn.readers
    BY <1>4
  <2>4. CASE hFaults = 0 /\ ~hTorn'.wrote
    <3>1. ~hTorn.wrote /\ e \notin hTorn.readers
      BY <2>3, <2>4
    <3>2. HRules(hSeen[e], hPacket[e]) = HRules(hMotion, hPacket[e])
      <4>1. CASE hPacket[e].sort = "off"
        BY <4>1 DEF HRules
      <4>2. CASE hPacket[e].sort # "off"
        BY <1>1, <2>4, <3>1, <4>2 DEF SustainedInv, ReadIsCurrent
      <4> QED BY <4>1, <4>2
    <3>3. Evident(hMotion, hRun)
      BY <2>4, <3>1 DEF SustainedInv, PendingIsEvident
    <3>4. Evident(hMotion', hRun') /\ Earned(hMotion, hMotion', hRun')
      BY <1>2, <1>4, <3>2, <3>3, RulesAreEarned
    <3>5. PendingIsEvident'
      BY <3>4 DEF PendingIsEvident, Evident
    <3> QED BY <2>1, <2>2, <3>4, <3>5, EarnedIsSustained DEF SustainedInv
  <2>5. CASE ~(hFaults = 0 /\ ~hTorn'.wrote)
    <3>1. PendingIsEvident' /\ Sustained
      BY <1>1, <2>5 DEF PendingIsEvident, Sustained, SustainedInv, HInductive, LockInv
    <3> QED BY <2>1, <2>2, <3>1 DEF SustainedInv
  <2> QED BY <2>4, <2>5
<1>5. CASE hTorn' = [hTorn EXCEPT !.readers = @ \ {e}] /\ hMotion' = hMotion /\ hRun' = hRun
  <2>1. /\ hTorn' \in [readers : SUBSET HEvaluators, wrote : BOOLEAN]
        /\ hTorn'.wrote = hTorn.wrote
    BY <1>5 DEF SustainedInv, HTypes
  <2>2. HTypes'
    BY <1>1, <1>5, <2>1 DEF SustainedInv, HTypes
  <2> QED BY <1>1, <1>3, <1>5, <2>1, <2>2, UnmovedKeeps
<1> QED BY <1>4, <1>5 DEF HSave

LEMMA ReleaseSustains ==
    ASSUME SustainedInv, HInductive', NEW e \in HEvaluators, HRelease(e)
    PROVE  SustainedInv' /\ Sustained
<1>1. /\ hPc' = [hPc EXCEPT ![e] = "idle"] /\ hPacket' = [hPacket EXCEPT ![e] = NoPacket]
      /\ hSeen' = [hSeen EXCEPT ![e] = HUndecided]
      /\ hMotion' = hMotion /\ hRun' = hRun /\ hTorn' = hTorn /\ hFaults' = hFaults
  BY DEF HRelease, HGoto
<1>2. NoPacket \in HPacket
  BY HAssumption DEF NoPacket, HPacket
<1>3. HTypes'
  BY <1>1, <1>2, SettledType DEF SustainedInv, HTypes, HUndecided
<1>4. ASSUME NEW d \in HEvaluators, hPc'[d] = "save"
      PROVE  d # e /\ hPc[d] = "save" /\ hPacket'[d] = hPacket[d] /\ hSeen'[d] = hSeen[d]
  BY <1>1, <1>4 DEF SustainedInv, HInductive, HTypes
<1> QED BY <1>1, <1>3, <1>4, UnmovedKeeps

(* The reset: who has read before is remembered, and nothing is pending.      *)
LEMMA ResetKeeps ==
    ASSUME SustainedInv, HInductive', HResetOffline
    PROVE  SustainedInv' /\ Sustained
<1>1. /\ hMotion' = HSettled("offline") /\ hRun' = NoRun
      /\ hTorn' = [readers |-> {e \in HEvaluators : hPc[e] = "save"}, wrote |-> FALSE]
      /\ hPc' = hPc /\ hPacket' = hPacket /\ hSeen' = hSeen /\ hFaults' = hFaults
  BY DEF HResetOffline
<1>2. NoRun \in RunType
  BY HAssumption DEF NoRun, RunType, HTime
<1>3. hTorn' \in [readers : SUBSET HEvaluators, wrote : BOOLEAN]
  BY <1>1
<1>4. HTypes'
  BY <1>1, <1>2, <1>3, SettledType DEF SustainedInv, HTypes
<1>5. ReadIsCurrent'
  BY <1>1 DEF ReadIsCurrent
<1>6. PendingIsEvident' /\ Sustained
  BY <1>1, SettledType DEF PendingIsEvident, Evident, Sustained
<1> QED BY <1>4, <1>5, <1>6 DEF SustainedInv

LEMMA SustainedStep == SustainedInv /\ [HNext]_hysteresis => SustainedInv' /\ (Sustained \/ UNCHANGED hysteresis)
<1> SUFFICES ASSUME SustainedInv, [HNext]_hysteresis PROVE SustainedInv' /\ Sustained
  OBVIOUS
<1>0. HInductive'
  BY HStepInductive DEF SustainedInv
<1>1. ASSUME NEW e \in HEvaluators, HStep(e) PROVE SustainedInv' /\ Sustained
  <2>1. ASSUME HAcquire(e) PROVE SustainedInv' /\ Sustained
    BY <1>0, <2>1, EnterKeeps DEF HAcquire
  <2> QED BY <1>0, <1>1, <2>1, ReadKeeps, SaveKeeps, ReleaseSustains DEF HStep
<1>2. ASSUME NEW e \in HEvaluators, HProceedUnlocked(e) PROVE SustainedInv' /\ Sustained
  BY <1>0, <1>2, EnterKeeps DEF HProceedUnlocked, HFault
<1>3. ASSUME HLockExpires PROVE SustainedInv' /\ Sustained
  <2>1. /\ hMotion' = hMotion /\ hPc' = hPc /\ hPacket' = hPacket /\ hSeen' = hSeen
        /\ hRun' = hRun /\ hTorn' = hTorn /\ hFaults' \in {hFaults, hFaults + 1}
    BY <1>3 DEF HLockExpires, HFault
  <2>2. HTypes'
    BY <2>1 DEF SustainedInv, HTypes
  <2> QED BY <1>0, <2>1, <2>2, UnmovedKeeps
<1>4. ASSUME HResetOffline PROVE SustainedInv' /\ Sustained
  BY <1>0, <1>4, ResetKeeps
<1>5. ASSUME HRestart PROVE SustainedInv' /\ Sustained
  <2>1. /\ hMotion' = hMotion /\ hRun' = hRun /\ hFaults' = hFaults + 1
        /\ hPc' = [e \in HEvaluators |-> "idle"] /\ hTorn' = [hTorn EXCEPT !.readers = {}]
        /\ hSeen' = [e \in HEvaluators |-> HUndecided]
        /\ hPacket' = [e \in HEvaluators |-> NoPacket]
    BY <1>5 DEF HRestart, HFault
  <2>2. NoPacket \in HPacket /\ HUndecided \in HMotion
    BY HAssumption, SettledType DEF NoPacket, HPacket, HUndecided
  <2>3. /\ hTorn' \in [readers : SUBSET HEvaluators, wrote : BOOLEAN]
        /\ hTorn'.wrote = hTorn.wrote
    BY <2>1 DEF SustainedInv, HTypes
  <2>4. HTypes'
    BY <2>1, <2>2, <2>3 DEF SustainedInv, HTypes
  <2> QED BY <1>0, <2>1, <2>3, <2>4, UnmovedKeeps
<1>6. CASE UNCHANGED hysteresis
  <2>1. /\ hMotion' = hMotion /\ hPc' = hPc /\ hPacket' = hPacket /\ hSeen' = hSeen
        /\ hRun' = hRun /\ hTorn' = hTorn /\ hFaults' = hFaults
    BY <1>6 DEF hysteresis
  <2>2. HTypes'
    BY <2>1 DEF SustainedInv, HTypes
  <2> QED BY <1>0, <2>1, <2>2, UnmovedKeeps
<1> QED BY <1>1, <1>2, <1>3, <1>4, <1>5, <1>6 DEF HNext

(* Every variable of the hysteresis keeps its type.                           *)
THEOREM HysteresisTypeCorrect == HSpec => []HTypeOK
<1> DEFINE Bounded == hFaults \in 0..HMaxFaults
<1>1. HInit => Bounded
  BY HAssumption DEF HInit
<1>2. Bounded /\ [HNext]_hysteresis => Bounded'
  <2> SUFFICES ASSUME Bounded, [HNext]_hysteresis PROVE Bounded'
    OBVIOUS
  <2>1. hFaults' = hFaults \/ (hFaults < HMaxFaults /\ hFaults' = hFaults + 1)
    <3>1. ASSUME NEW e \in HEvaluators, HStep(e) PROVE hFaults' = hFaults \/ HFault
      BY <3>1 DEF HStep, HAcquire, HRead, HSave, HRelease
    <3>2. ASSUME \/ \E e \in HEvaluators : HProceedUnlocked(e)
                 \/ HLockExpires \/ HResetOffline \/ HRestart \/ UNCHANGED hysteresis
          PROVE  hFaults' = hFaults \/ HFault
      BY <3>2 DEF HProceedUnlocked, HLockExpires, HResetOffline, HRestart, hysteresis
    <3> QED BY <3>1, <3>2 DEF HNext, HFault
  <2> QED BY <2>1, HAssumption
<1>3. SustainedInv /\ Bounded => HTypeOK
  BY DEF SustainedInv, HInductive, HTypes, HTypeOK, RunType
<1> QED BY <1>1, <1>2, <1>3, SustainedInit, SustainedStep, PTL DEF HSpec

(* A device starts and stops moving only on packets that span the durations,  *)
(* late ones included, but for faults and an evaluation that takes back an    *)
(* offline reset: hysteresis.py, evaluate_state.                              *)
THEOREM MotionIsSustained == HSpec => TransitionIsSustained
<1>1. SustainedInv /\ [HNext]_hysteresis => [Sustained]_hysteresis
  BY SustainedStep
<1>2. [][Sustained]_hysteresis => TransitionIsSustained
  BY DEF TransitionIsSustained, Sustained
<1> QED BY <1>1, <1>2, SustainedInit, SustainedStep, PTL DEF HSpec

-----------------------------------------------------------------------------
(* Event storms.                                                              *)

EvCarriedType == [sev : {"INFO", "WARNING", "CRITICAL"}, at : 0..EvMaxClock, series : Seq(0..EvMaxClock)]

EvTypes ==
    /\ evClock \in 0..EvMaxClock /\ evCooldown \in Nat
    /\ evCount \in Nat /\ evCountTill \in Nat /\ evReports \in Nat
    /\ evPc \in [EvReporters -> {"idle", "arm", "store"}]
    /\ evCarried \in [EvReporters -> EvCarriedType]
    /\ evSeries \in Seq(0..EvMaxClock) /\ evRaced \in BOOLEAN
    /\ evStored \in [0..EvMaxClock -> Nat]
    /\ evEscalated \subseteq Seq(0..EvMaxClock)

EvPlain(r, s) == evPc[r] = s /\ evCarried[r].series = <<>>

(* A task that passed a gap between cooldowns is alone before the cooldown is *)
(* set: any other that is counted needs a cooldown, any other that passes     *)
(* finds it there.                                                            *)
EvAlone ==
    \A r \in EvReporters : EvPlain(r, "arm") =>
        /\ evCooldown <= evClock
        /\ \A q \in EvReporters \ {r} : evPc[q] # "arm"

(* Each plain event, stored or about to be, has the time of its cooldown for  *)
(* itself.                                                                    *)
EvApart ==
    /\ evCooldown <= evClock + 1
    /\ \A t \in 0..EvMaxClock : evStored[t] <= 1 /\ (evStored[t] = 1 => t < evCooldown)
    /\ \A r \in EvReporters : EvPlain(r, "store") =>
           /\ evCarried[r].at < evCooldown /\ evStored[evCarried[r].at] = 0
           /\ \A q \in EvReporters \ {r} : EvPlain(q, "store") => evCarried[q].at # evCarried[r].at

EvInv == EvTypes /\ (~evRaced => EvAlone /\ EvApart)

LEMMA EvInitInv == EvInit => EvInv
<1> SUFFICES ASSUME EvInit PROVE EvInv
  OBVIOUS
<1>1. EvTypes
  BY EvAssumption DEF EvInit, EvTypes, EvNone, EvCarriedType
<1>2. EvAlone
  BY DEF EvInit, EvAlone, EvPlain
<1>3. EvApart
  BY DEF EvInit, EvApart, EvPlain
<1> QED BY <1>1, <1>2, <1>3 DEF EvInv

LEMMA EvReportTypes == ASSUME EvTypes, NEW r \in EvReporters, EvReport(r) PROVE EvTypes'
<1>1. PICK s \in EvSeverity : EvPass(r, s) \/ EvSuppress(r, s)
  BY DEF EvReport
<1>2. s \in {"INFO", "WARNING"} /\ evClock \in 0..EvMaxClock /\ evClock \in Nat
  BY <1>1, EvAssumption DEF EvSeverity, EvTypes
<1>3. CASE EvPass(r, s)
  <2>1. EvEvent(s, <<>>) \in EvCarriedType
    BY <1>2 DEF EvEvent, EvCarriedType
  <2>2. evCarried' \in [EvReporters -> EvCarriedType]
    BY <1>3, <2>1 DEF EvPass, EvCarry, EvTypes
  <2>3. evPc' \in [EvReporters -> {"idle", "arm", "store"}]
    BY <1>3 DEF EvPass, EvCarry, EvTypes
  <2> QED BY <1>3, <2>2, <2>3 DEF EvPass, EvReport, EvTypes
<1>4. CASE EvSuppress(r, s)
  <2>1. evSeries' \in Seq(0..EvMaxClock)
    <3> DEFINE sofar == IF EvLiveCount = 0 THEN <<>> ELSE evSeries
    <3>1. sofar \in Seq(0..EvMaxClock)
      <4>1. <<>> \in Seq(0..EvMaxClock) /\ evSeries \in Seq(0..EvMaxClock)
        BY DEF EvTypes
      <4> QED BY <4>1, Zenon
    <3>2. evSeries' = Append(sofar, evClock)
      BY <1>4 DEF EvSuppress, EvCountOne
    <3> QED BY <1>2, <3>1, <3>2
  <2>2. evCount' \in Nat /\ evCountTill' \in Nat
    BY <1>2, <1>4, EvAssumption DEF EvSuppress, EvCountOne, EvLiveCount, EvTypes
  <2>3. evCarried' \in [EvReporters -> EvCarriedType] /\ evPc' \in [EvReporters -> {"idle", "arm", "store"}]
    <3>1. EvEvent("CRITICAL", evSeries') \in EvCarriedType
      BY <1>2, <2>1 DEF EvEvent, EvCarriedType
    <3>2. CASE EvCarry(r, EvEvent("CRITICAL", evSeries'))
      <4>1. evCarried' \in [EvReporters -> EvCarriedType]
        BY <3>1, <3>2 DEF EvCarry, EvTypes
      <4> QED BY <3>2, <4>1 DEF EvCarry, EvTypes
    <3>3. CASE UNCHANGED <<evPc, evCarried>>
      BY <3>3 DEF EvTypes
    <3> QED BY <1>4, <3>2, <3>3 DEF EvSuppress
  <2> QED BY <1>4, <2>1, <2>2, <2>3 DEF EvSuppress, EvReport, EvTypes
<1> QED BY <1>1, <1>3, <1>4

LEMMA EvPassKeeps ==
    ASSUME EvInv, NEW r \in EvReporters, evPc[r] = "idle", NEW s \in EvSeverity, EvPass(r, s),
           UNCHANGED <<evClock, evCooldown, evStored>>, ~evRaced'
    PROVE  EvAlone' /\ EvApart'
<1>1. ~evRaced /\ \A q \in EvReporters \ {r} : evPc[q] # "arm"
  BY DEF EvPass
<1>2. EvTypes /\ EvAlone /\ EvApart
  BY <1>1 DEF EvInv
<1>3. evCooldown <= evClock
  BY <1>2, EvAssumption DEF EvPass, EvCooling, EvTypes
<1>4. evPc' = [evPc EXCEPT ![r] = "arm"] /\ evCarried' = [evCarried EXCEPT ![r] = EvEvent(s, <<>>)]
  BY DEF EvPass, EvCarry
<1>5. EvAlone'
  BY <1>1, <1>2, <1>3, <1>4 DEF EvAlone, EvPlain, EvTypes
<1>6. EvApart'
  BY <1>2, <1>4 DEF EvApart, EvPlain, EvTypes
<1> QED BY <1>5, <1>6

LEMMA EvSuppressKeeps ==
    ASSUME EvInv, NEW r \in EvReporters, evPc[r] = "idle", NEW s \in EvSeverity, EvSuppress(r, s),
           UNCHANGED <<evClock, evCooldown, evStored>>, ~evRaced'
    PROVE  EvAlone' /\ EvApart'
<1>1. EvTypes /\ EvAlone /\ EvApart
  BY DEF EvInv, EvSuppress
<1>2. CASE UNCHANGED <<evPc, evCarried>>
  BY <1>1, <1>2 DEF EvAlone, EvApart, EvPlain
<1>3. CASE EvCarry(r, EvEvent("CRITICAL", evSeries'))
  <2>1. evPc' = [evPc EXCEPT ![r] = "arm"]
        /\ evCarried' = [evCarried EXCEPT ![r] = EvEvent("CRITICAL", evSeries')]
    BY <1>3 DEF EvCarry
  <2>2. evCooldown > evClock
    BY DEF EvSuppress, EvCooling
  <2>3. evSeries' # <<>>
    BY <1>1 DEF EvSuppress, EvCountOne, EvTypes
  <2>4. evCarried'[r].series # <<>>
    BY <1>1, <2>1, <2>3 DEF EvEvent, EvTypes
  <2>5. \A q \in EvReporters : q # r => evCarried'[q] = evCarried[q] /\ evPc'[q] = evPc[q]
    BY <1>1, <2>1 DEF EvTypes
  <2>6. \A q \in EvReporters : ~EvPlain(q, "arm")
    BY <1>1, <2>2, EvAssumption DEF EvAlone, EvTypes
  <2>7. EvAlone'
    BY <2>4, <2>5, <2>6 DEF EvAlone, EvPlain
  <2>8. EvApart'
    BY <1>1, <2>4, <2>5 DEF EvApart, EvPlain
  <2> QED BY <2>7, <2>8
<1> QED BY <1>2, <1>3 DEF EvSuppress

(* The cooldown is set: what is stored, or about to be, has an earlier time.  *)
LEMMA EvArmKeeps == ASSUME EvInv, NEW r \in EvReporters, EvArm(r) PROVE EvInv'
<1>1. EvTypes /\ evClock \in Nat /\ evClock \in 0..EvMaxClock
  BY EvAssumption DEF EvInv, EvTypes
<1>2. evCarried'[r].at = evClock /\ evCarried'[r].series = evCarried[r].series
  BY <1>1 DEF EvArm, EvTypes, EvCarriedType
<1>3. /\ evPc' = [evPc EXCEPT ![r] = "store"]
      /\ \A q \in EvReporters : q # r => evCarried'[q] = evCarried[q]
  BY <1>1 DEF EvArm, EvTypes
<1>4. evCarried' \in [EvReporters -> EvCarriedType]
  BY <1>1 DEF EvArm, EvTypes, EvCarriedType
<1>5. EvTypes'
  BY <1>1, <1>3, <1>4 DEF EvArm, EvTypes
<1>6. ASSUME ~evRaced PROVE EvAlone' /\ EvApart'
  <2>1. EvAlone /\ EvApart
    BY <1>6 DEF EvInv
  <2>2. \A q \in EvReporters \ {r} : ~EvPlain(q, "arm")
    BY <2>1 DEF EvAlone, EvArm
  <2>3. EvAlone'
    BY <1>1, <1>3, <2>2 DEF EvAlone, EvPlain, EvTypes
  <2>4. evCooldown' = evClock + 1 /\ evClock' = evClock /\ evCooldown <= evCooldown' /\ evStored' = evStored
    BY <1>1, <2>1 DEF EvArm, EvApart, EvTypes
  <2>5. \A q \in EvReporters \ {r} : EvPlain(q, "store")' <=> EvPlain(q, "store")
    BY <1>1, <1>3 DEF EvPlain, EvTypes
  <2>6. \A t \in 0..EvMaxClock : evStored'[t] <= 1 /\ (evStored'[t] = 1 => t < evCooldown')
    BY <1>1, <2>1, <2>4 DEF EvApart, EvTypes
  <2>7. CASE EvPlain(r, "arm")
    <3>1. evCooldown <= evClock
      BY <2>1, <2>7 DEF EvAlone
    <3>2. evStored[evClock] = 0
      BY <1>1, <2>1, <3>1 DEF EvApart, EvTypes
    <3>3. \A q \in EvReporters \ {r} : EvPlain(q, "store") => evCarried[q].at # evClock
      BY <1>1, <2>1, <3>1 DEF EvApart, EvTypes, EvCarriedType
    <3>4. ASSUME NEW q \in EvReporters, EvPlain(q, "store")'
          PROVE  /\ evCarried'[q].at < evCooldown' /\ evStored'[evCarried'[q].at] = 0
                 /\ \A p \in EvReporters \ {q} : EvPlain(p, "store")' => evCarried'[p].at # evCarried'[q].at
      <4>1. CASE q = r
        BY <1>1, <1>2, <1>3, <2>4, <2>5, <3>2, <3>3, <4>1
      <4>2. CASE q # r
        <5>1. EvPlain(q, "store") /\ evCarried'[q] = evCarried[q]
          BY <1>3, <2>5, <3>4, <4>2
        <5>2. evCarried[q].at < evCooldown /\ evStored[evCarried[q].at] = 0 /\ evCarried[q].at # evClock
          BY <2>1, <3>3, <4>2, <5>1 DEF EvApart
        <5>3. \A p \in EvReporters \ {q} : EvPlain(p, "store") => evCarried[p].at # evCarried[q].at
          BY <2>1, <5>1 DEF EvApart
        <5>4. evCarried[q].at \in Nat /\ evCooldown \in Nat /\ evCooldown' \in Nat
          BY <1>1, <1>5, EvAssumption DEF EvTypes, EvCarriedType
        <5> QED BY <1>2, <1>3, <2>4, <2>5, <5>1, <5>2, <5>3, <5>4
      <4> QED BY <4>1, <4>2
    <3> QED BY <1>1, <2>3, <2>4, <2>6, <3>4 DEF EvApart
  <2>8. CASE ~EvPlain(r, "arm")
    <3>1. ~EvPlain(r, "store")'
      BY <1>2, <2>8 DEF EvPlain, EvArm
    <3>2. ASSUME NEW q \in EvReporters, EvPlain(q, "store")'
          PROVE  /\ evCarried'[q].at < evCooldown' /\ evStored'[evCarried'[q].at] = 0
                 /\ \A p \in EvReporters \ {q} : EvPlain(p, "store")' => evCarried'[p].at # evCarried'[q].at
      <4>1. q # r /\ EvPlain(q, "store") /\ evCarried'[q] = evCarried[q]
        BY <1>3, <2>5, <3>1, <3>2
      <4>2. /\ evCarried[q].at < evCooldown /\ evStored[evCarried[q].at] = 0
            /\ \A p \in EvReporters \ {q} : EvPlain(p, "store") => evCarried[p].at # evCarried[q].at
        BY <2>1, <4>1 DEF EvApart
      <4>3. evCarried[q].at \in Nat /\ evCooldown \in Nat /\ evCooldown' \in Nat
        BY <1>1, <1>5, EvAssumption DEF EvTypes, EvCarriedType
      <4> QED BY <1>3, <2>4, <2>5, <3>1, <4>1, <4>2, <4>3
    <3> QED BY <1>1, <2>3, <2>4, <2>6, <3>2 DEF EvApart
  <2> QED BY <2>7, <2>8
<1>7. evRaced' = evRaced
  BY DEF EvArm
<1> QED BY <1>5, <1>6, <1>7 DEF EvInv

LEMMA EvStoreKeeps == ASSUME EvInv, NEW r \in EvReporters, EvStore(r) PROVE EvInv'
<1>1. EvTypes /\ evPc' = [evPc EXCEPT ![r] = "idle"] /\ evCarried' = [evCarried EXCEPT ![r] = EvNone]
  BY DEF EvInv, EvStore
<1>2. EvNone \in EvCarriedType
  BY EvAssumption DEF EvNone, EvCarriedType
<1>3. evCarried' \in [EvReporters -> EvCarriedType]
  BY <1>1, <1>2 DEF EvTypes
<1>4. evCarried[r].at \in 0..EvMaxClock /\ evCarried[r].series \in Seq(0..EvMaxClock)
  BY <1>1 DEF EvTypes, EvCarriedType
<1>5. evStored' \in [0..EvMaxClock -> Nat] /\ evEscalated' \subseteq Seq(0..EvMaxClock)
  <2>1. CASE UNCHANGED <<evStored, evEscalated>>
    BY <1>1, <2>1 DEF EvTypes
  <2>2. CASE evStored' = [evStored EXCEPT ![evCarried[r].at] = @ + 1] /\ UNCHANGED evEscalated
    BY <1>1, <1>4, <2>2 DEF EvTypes
  <2>3. CASE evEscalated' = evEscalated \cup {evCarried[r].series} /\ UNCHANGED evStored
    BY <1>1, <1>4, <2>3 DEF EvTypes
  <2> QED BY <2>1, <2>2, <2>3 DEF EvStore
<1>6. EvTypes'
  BY <1>1, <1>3, <1>5 DEF EvStore, EvTypes
<1>7. ASSUME ~evRaced PROVE EvAlone' /\ EvApart'
  <2>1. EvAlone /\ EvApart /\ evPc[r] = "store" /\ UNCHANGED <<evClock, evCooldown>>
    BY <1>7 DEF EvInv, EvStore
  <2>2. \A q \in EvReporters : q # r => evCarried'[q] = evCarried[q] /\ evPc'[q] = evPc[q]
    BY <1>1 DEF EvTypes
  <2>3. evPc'[r] = "idle"
    BY <1>1 DEF EvTypes
  <2>4. EvAlone'
    BY <2>1, <2>2, <2>3 DEF EvAlone, EvPlain
  <2>5. CASE evStored' = evStored
    <3>1. \A q \in EvReporters : EvPlain(q, "store")' => /\ EvPlain(q, "store") /\ q # r
                                                          /\ evCarried'[q] = evCarried[q]
      BY <2>2, <2>3 DEF EvPlain
    <3>2. ASSUME NEW q \in EvReporters, EvPlain(q, "store")'
          PROVE  /\ evCarried'[q].at < evCooldown' /\ evStored'[evCarried'[q].at] = 0
                 /\ \A p \in EvReporters \ {q} : EvPlain(p, "store")' => evCarried'[p].at # evCarried'[q].at
      <4>1. EvPlain(q, "store") /\ evCarried'[q] = evCarried[q]
        BY <3>1, <3>2
      <4>2. /\ evCarried[q].at < evCooldown /\ evStored[evCarried[q].at] = 0
            /\ \A p \in EvReporters \ {q} : EvPlain(p, "store") => evCarried[p].at # evCarried[q].at
        BY <2>1, <4>1 DEF EvApart
      <4> QED BY <2>1, <2>5, <3>1, <4>1, <4>2
    <3>3. /\ evCooldown' <= evClock' + 1
          /\ \A t \in 0..EvMaxClock : evStored'[t] <= 1 /\ (evStored'[t] = 1 => t < evCooldown')
      BY <2>1, <2>5 DEF EvApart
    <3> QED BY <2>4, <3>2, <3>3 DEF EvApart
  <2>6. CASE evCarried[r].series = <<>> /\ evStored' = [evStored EXCEPT ![evCarried[r].at] = @ + 1]
    <3>1. EvPlain(r, "store")
      BY <2>1, <2>6 DEF EvPlain
    <3>2. evStored'[evCarried[r].at] = 1 /\ \A t \in 0..EvMaxClock : t # evCarried[r].at => evStored'[t] = evStored[t]
      BY <1>1, <1>4, <2>1, <2>6, <3>1 DEF EvApart, EvTypes
    <3>3. \A q \in EvReporters \ {r} : EvPlain(q, "store") => /\ evCarried[q].at # evCarried[r].at
                                                             /\ evCarried[q].at \in 0..EvMaxClock
      BY <1>1, <2>1, <3>1 DEF EvApart, EvTypes, EvCarriedType
    <3>4. \A q \in EvReporters : EvPlain(q, "store")' => /\ EvPlain(q, "store") /\ q # r
                                                          /\ evCarried'[q] = evCarried[q]
      BY <2>2, <2>3 DEF EvPlain
    <3>5. \A t \in 0..EvMaxClock : evStored'[t] <= 1 /\ (evStored'[t] = 1 => t < evCooldown')
      BY <1>1, <1>4, <2>1, <3>1, <3>2 DEF EvApart
    <3>6. ASSUME NEW q \in EvReporters, EvPlain(q, "store")'
          PROVE  /\ evCarried'[q].at < evCooldown' /\ evStored'[evCarried'[q].at] = 0
                 /\ \A p \in EvReporters \ {q} : EvPlain(p, "store")' => evCarried'[p].at # evCarried'[q].at
      <4>1. EvPlain(q, "store") /\ q # r /\ evCarried'[q] = evCarried[q]
        BY <3>4, <3>6
      <4>2. /\ evCarried[q].at < evCooldown /\ evStored[evCarried[q].at] = 0
            /\ \A p \in EvReporters \ {q} : EvPlain(p, "store") => evCarried[p].at # evCarried[q].at
        BY <2>1, <4>1 DEF EvApart
      <4>3. evStored'[evCarried[q].at] = 0
        BY <3>2, <3>3, <4>1, <4>2
      <4> QED BY <2>1, <3>4, <4>1, <4>2, <4>3
    <3>7. evCooldown' <= evClock' + 1
      BY <2>1 DEF EvApart
    <3> QED BY <2>4, <3>5, <3>6, <3>7 DEF EvApart
  <2> QED BY <2>4, <2>5, <2>6 DEF EvStore
<1>8. evRaced' = evRaced
  BY DEF EvStore
<1> QED BY <1>6, <1>7, <1>8 DEF EvInv

LEMMA EvTickKeeps == ASSUME EvInv, EvTick PROVE EvInv'
<1>1. EvTypes'
  BY EvAssumption DEF EvInv, EvTick, EvTypes
<1>2. ASSUME EvAlone /\ EvApart PROVE EvAlone' /\ EvApart'
  BY <1>2, EvAssumption DEF EvInv, EvTick, EvTypes, EvAlone, EvApart, EvPlain
<1>3. evRaced' = evRaced
  BY DEF EvTick
<1> QED BY <1>1, <1>2, <1>3 DEF EvInv

LEMMA EvStepInv == EvInv /\ [EvNext]_storm => EvInv'
<1> SUFFICES ASSUME EvInv, [EvNext]_storm PROVE EvInv'
  OBVIOUS
<1>1. ASSUME NEW r \in EvReporters, EvReport(r) PROVE EvInv'
  <2>1. EvTypes'
    BY <1>1, EvReportTypes DEF EvInv
  <2>2. PICK s \in EvSeverity : EvPass(r, s) \/ EvSuppress(r, s)
    BY <1>1 DEF EvReport
  <2>3. ~evRaced' => EvAlone' /\ EvApart'
    BY <1>1, <2>2, EvPassKeeps, EvSuppressKeeps DEF EvReport
  <2> QED BY <2>1, <2>3 DEF EvInv
<1>2. CASE UNCHANGED storm
  BY <1>2 DEF storm, EvInv, EvTypes, EvAlone, EvApart, EvPlain
<1> QED BY <1>1, <1>2, EvArmKeeps, EvStoreKeeps, EvTickKeeps DEF EvNext

(* Storm control stores one plain event per cooldown at most, however reports *)
(* and times to live interleave, unless two tasks passed one gap together.    *)
THEOREM StormsAreHeld == EvSpec => []OneEventPerCooldown
<1>1. EvSpec => []EvInv
  BY EvInitInv, EvStepInv, PTL DEF EvSpec
<1>2. EvInv => OneEventPerCooldown
  BY DEF EvInv, EvApart, OneEventPerCooldown
<1> QED BY <1>1, <1>2, PTL

(* The clock, keys and counters of the storm control, and the severity of     *)
(* what every task carries, keep their types.                                 *)
THEOREM StormTypeCorrect == EvSpec => []EvTypeOK
<1>1. EvInv => EvTypeOK
  <2> SUFFICES ASSUME EvTypes PROVE EvTypeOK
    BY DEF EvInv
  <2>1. evClock \in Nat
    BY EvAssumption DEF EvTypes
  <2>2. ASSUME NEW r \in EvReporters PROVE evCarried[r].sev \in {"INFO", "WARNING", "CRITICAL"}
    BY DEF EvTypes, EvCarriedType
  <2> QED BY <2>1, <2>2 DEF EvTypes, EvTypeOK
<1> QED BY <1>1, EvInitInv, EvStepInv, PTL DEF EvSpec

-----------------------------------------------------------------------------
(* Trips.                                                                     *)

TTrip == [from : TTime, to : TTime]

(* What the trips depend on: the stage, the packet, edges, rows and trips.    *)
TTypes ==
    /\ tStage \in TStages /\ tPacket \in TPacket /\ tRows \subseteq TTime
    /\ tEdges \subseteq [kind : {"trip_start", "trip_end"}, ts : TTime, n : Nat]
    /\ tTrips \in Seq(TTrip)
    /\ tNewest \in TTime \cup {TNever} /\ tCount \in Nat

(* No edge is newer than the packet in hand, and none is its own before the   *)
(* edges of the ignition are looked at.                                       *)
EdgesPast ==
    /\ \A e \in tEdges : e.ts <= tNewest /\ e.n <= tCount /\ (tStage = "edge" => e.n < tCount)
    /\ tStage # "ready" => tPacket.ts = tNewest

(* A trip is summed up for a falling edge that was just stored.               *)
JustEnded ==
    tStage = "summary" =>
        \E e \in tEdges : e.kind = "trip_end" /\ e.ts = tNewest /\ e.n = tCount

(* Every trip ended with an edge, an earlier one if a trip is being summed up.*)
TripsEnded ==
    \A i \in DOMAIN tTrips :
        \E e \in tEdges : /\ e.kind = "trip_end" /\ e.ts = tTrips[i].to
                          /\ tStage = "summary" => e.n < tCount

TTripsInv == EdgesPast /\ JustEnded /\ TripsEnded /\ TripsDisjoint

TInv == TTypes /\ (~tLate => TTripsInv)

LEMMA TTimes == TTime \subseteq Nat /\ TNever \in Int
BY TAssumption DEF TTime, TNever

LEMMA TNumbers ==
    ASSUME TTypes
    PROVE  /\ \A e \in tEdges : e.ts \in Int /\ e.n \in Nat
           /\ tNewest \in Int /\ tCount \in Nat
<1>1. ASSUME NEW e \in tEdges PROVE e.ts \in Int /\ e.n \in Nat
  <2>1. e \in [kind : {"trip_start", "trip_end"}, ts : TTime, n : Nat]
    BY DEF TTypes
  <2>2. e.ts \in TTime /\ e.n \in Nat
    BY <2>1
  <2>3. e.ts \in Nat
    BY <2>2, TTimes, Zenon
  <2> QED BY <2>2, <2>3
<1>2. tNewest \in TTime \cup {TNever} /\ tCount \in Nat
  BY DEF TTypes
<1> QED BY <1>1, <1>2, TTimes

LEMMA TInitInv == TInit => TInv
<1> SUFFICES ASSUME TInit PROVE TInv
  OBVIOUS
<1>1. TNothing \in TPacket
  BY TAssumption DEF TNothing, TPacket, TTime
<1>2. TTypes
  BY <1>1 DEF TInit, TTypes, TStages
<1>3. TTripsInv
  BY DEF TInit, TTripsInv, EdgesPast, JustEnded, TripsEnded, TripsDisjoint
<1> QED BY <1>2, <1>3 DEF TInv

LEMMA TTakeKeeps == ASSUME TInv, NEW p \in TPackets, TTake(p) PROVE TInv'
<1>1. p \in TPacket /\ p.ts \in TTime
  BY DEF TPackets, TPacket
<1>2. TTypes'
  BY <1>1 DEF TInv, TTypes, TTake, TGoto, TStages
<1>3. ASSUME ~tLate' PROVE TTripsInv'
  <2>1. ~tLate /\ ~(p.ts < tNewest)
    BY <1>3 DEF TTake
  <2>2. /\ TTypes /\ TTripsInv /\ tNewest' = p.ts /\ tCount' = tCount + 1 /\ tStage' = "edge"
        /\ UNCHANGED <<tEdges, tTrips>> /\ tPacket' = p
    BY <2>1 DEF TInv, TTake, TGoto
  <2>3. p.ts \in Int /\ tNewest \in Int /\ tCount \in Nat /\ \A e \in tEdges : e.ts \in Int /\ e.n \in Nat
    <3>1. p.ts \in Nat
      BY <1>1, TTimes, Zenon
    <3> QED BY <2>2, <3>1, TNumbers
  <2>4. EdgesPast'
    BY <2>1, <2>2, <2>3 DEF TTripsInv, EdgesPast
  <2>5. JustEnded' /\ TripsEnded'
    BY <2>2 DEF TTripsInv, JustEnded, TripsEnded
  <2>6. TripsDisjoint'
    BY <1>3, <2>1, <2>2 DEF TTripsInv, TripsDisjoint
  <2> QED BY <2>4, <2>5, <2>6 DEF TTripsInv
<1> QED BY <1>2, <1>3 DEF TInv

LEMMA TEdgeKeeps == ASSUME TInv, TEdge PROVE TInv'
<1>1. PICK kind \in {"trip_start", "trip_end"}, s \in {"idle", "summary"} :
          /\ tStage = "edge" /\ tStage' = s
          /\ tEdges' = tEdges \/ TRecord(kind)
          /\ s = "summary" => kind = "trip_end" /\ TRecord(kind)
          /\ UNCHANGED <<tPacket, tRows, tTrips, tLate, tNewest, tCount>>
  BY DEF TEdge, TGoto
<1>2. TTypes /\ tPacket.ts \in TTime
  BY DEF TInv, TTypes, TPacket
<1>3. tEdges' \subseteq [kind : {"trip_start", "trip_end"}, ts : TTime, n : Nat]
  BY <1>1, <1>2 DEF TTypes, TRecord
<1>4. TTypes'
  BY <1>1, <1>2, <1>3 DEF TTypes, TStages
<1>5. ASSUME ~tLate PROVE TTripsInv'
  <2>1. EdgesPast /\ TripsEnded /\ TripsDisjoint /\ tPacket.ts = tNewest /\ tEdges \subseteq tEdges'
    BY <1>1, <1>5 DEF TInv, TTripsInv, EdgesPast, TRecord
  <2>2. \A e \in tEdges : e.ts \in Int /\ e.n \in Nat /\ e.n < tCount
    BY <1>1, <1>2, <2>1, TNumbers DEF EdgesPast
  <2>3. tNewest \in Int /\ tCount \in Nat
    BY <1>2, TNumbers
  <2>4. EdgesPast'
    <3>1. \A e \in tEdges' : e \in tEdges \/ e = [kind |-> kind, ts |-> tPacket.ts, n |-> tCount]
      BY <1>1 DEF TRecord
    <3>2. \A e \in tEdges' : e.ts <= tNewest /\ e.n <= tCount
      BY <2>1, <2>2, <2>3, <3>1 DEF EdgesPast
    <3> QED BY <1>1, <2>1, <3>2 DEF EdgesPast
  <2>5. JustEnded'
    <3>1. CASE s = "summary"
      <4>1. [kind |-> "trip_end", ts |-> tPacket.ts, n |-> tCount] \in tEdges'
        BY <1>1, <3>1 DEF TRecord
      <4> QED BY <1>1, <2>1, <4>1 DEF JustEnded
    <3> QED BY <1>1, <3>1 DEF JustEnded
  <2>6. TripsEnded'
    BY <1>1, <2>1, <2>2 DEF TripsEnded
  <2>7. TripsDisjoint'
    BY <1>1, <2>1 DEF TripsDisjoint
  <2> QED BY <2>4, <2>5, <2>6, <2>7 DEF TTripsInv
<1> QED BY <1>1, <1>4, <1>5 DEF TInv

(* The trip that is summed up starts after every other has ended.             *)
LEMMA TSummaryKeeps == ASSUME TInv, TSummary PROVE TInv'
<1>1. TTypes /\ tStage = "summary" /\ tStage' = "idle"
      /\ UNCHANGED <<tPacket, tRows, tEdges, tLate, tNewest, tCount>>
  BY DEF TInv, TSummary, TGoto
<1>2. CASE UNCHANGED tTrips
  <2>1. TTypes'
    BY <1>1, <1>2 DEF TTypes, TStages
  <2>2. ~tLate => TTripsInv'
    BY <1>1, <1>2 DEF TInv, TTripsInv, EdgesPast, JustEnded, TripsEnded, TripsDisjoint
  <2> QED BY <1>1, <2>1, <2>2 DEF TInv
<1>3. ASSUME NEW pair \in TLatestPairs, TIsTrip(pair),
             tTrips' = Append(tTrips, [from |-> pair[1].ts, to |-> pair[2].ts])
      PROVE  TInv'
  <2>1. PICK f \in tEdges, e \in tEdges :
            /\ pair = <<f, e>> /\ f.ts <= e.ts /\ \A g \in tEdges \ {e, f} : g.ts <= f.ts
            /\ f.kind = "trip_start" /\ e.kind = "trip_end"
    BY <1>3 DEF TLatestPairs, TIsTrip
  <2>2. tTrips' = Append(tTrips, [from |-> f.ts, to |-> e.ts])
    BY <1>3, <2>1
  <2>3. /\ f.ts \in TTime /\ e.ts \in TTime /\ f.ts \in Int /\ e.ts \in Int
        /\ \A g \in tEdges : g.ts \in Int /\ g.n \in Nat
    <3>1. f \in [kind : {"trip_start", "trip_end"}, ts : TTime, n : Nat]
          /\ e \in [kind : {"trip_start", "trip_end"}, ts : TTime, n : Nat]
      BY <1>1 DEF TTypes
    <3> QED BY <1>1, <3>1, TNumbers
  <2>4. [from |-> f.ts, to |-> e.ts] \in TTrip /\ tTrips \in Seq(TTrip) /\ tTrips' \in Seq(TTrip)
    BY <1>1, <2>2, <2>3 DEF TTypes, TTrip
  <2>5. /\ Len(tTrips') = Len(tTrips) + 1 /\ Len(tTrips) \in Nat
        /\ DOMAIN tTrips = 1..Len(tTrips) /\ DOMAIN tTrips' = 1..Len(tTrips')
        /\ \A i \in DOMAIN tTrips : tTrips'[i] = tTrips[i]
        /\ tTrips'[Len(tTrips')] = [from |-> f.ts, to |-> e.ts]
    BY <2>2, <2>4
  <2>6. TTypes'
    BY <1>1, <2>4 DEF TTypes, TStages
  <2>7. ASSUME ~tLate PROVE TTripsInv'
    <3>1. EdgesPast /\ JustEnded /\ TripsEnded /\ TripsDisjoint
      BY <2>7 DEF TInv, TTripsInv
    <3>2. \A i \in DOMAIN tTrips : tTrips[i].to <= f.ts
      <4> TAKE i \in DOMAIN tTrips
      <4>1. PICK g \in tEdges : g.kind = "trip_end" /\ g.ts = tTrips[i].to /\ g.n < tCount
        BY <1>1, <3>1 DEF TripsEnded
      <4>2. PICK h \in tEdges : h.kind = "trip_end" /\ h.ts = tNewest /\ h.n = tCount
        BY <1>1, <3>1 DEF JustEnded
      <4>3. g.ts <= tNewest /\ e.ts <= tNewest /\ tNewest \in Int /\ tCount \in Int
        BY <1>1, <3>1, TNumbers DEF EdgesPast
      <4>4. CASE g # e
        BY <2>1, <4>1, <4>4
      <4>5. CASE g = e
        <5>1. h # e /\ h # f
          BY <2>1, <2>3, <4>1, <4>2, <4>3, <4>5
        <5>2. h.ts <= f.ts
          BY <2>1, <5>1
        <5> QED BY <2>3, <4>1, <4>2, <4>3, <5>2
      <4> QED BY <4>4, <4>5
    <3>3. TripsDisjoint'
      <4>1. ASSUME NEW i \in DOMAIN tTrips', NEW j \in DOMAIN tTrips', i < j
            PROVE  tTrips'[i].to <= tTrips'[j].from
        <5>1. i \in DOMAIN tTrips
          BY <2>5, <4>1
        <5>2. CASE j \in DOMAIN tTrips
          BY <2>5, <2>7, <3>1, <4>1, <5>1, <5>2 DEF TripsDisjoint
        <5>3. CASE j \notin DOMAIN tTrips
          <6>1. j = Len(tTrips')
            BY <2>5, <4>1, <5>3
          <6> QED BY <2>5, <3>2, <5>1, <6>1
        <5> QED BY <5>2, <5>3
      <4> QED BY <4>1 DEF TripsDisjoint
    <3>4. TripsEnded'
      <4>1. ASSUME NEW i \in DOMAIN tTrips'
            PROVE  \E g \in tEdges : g.kind = "trip_end" /\ g.ts = tTrips'[i].to
        <5>1. CASE i \in DOMAIN tTrips
          BY <2>5, <3>1, <5>1 DEF TripsEnded
        <5>2. CASE i \notin DOMAIN tTrips
          <6>1. i = Len(tTrips')
            BY <2>5, <4>1, <5>2
          <6> QED BY <2>1, <2>5, <6>1
        <5> QED BY <5>1, <5>2
      <4> QED BY <1>1, <4>1 DEF TripsEnded
    <3>5. EdgesPast' /\ JustEnded'
      BY <1>1, <3>1 DEF EdgesPast, JustEnded
    <3> QED BY <3>3, <3>4, <3>5 DEF TTripsInv
  <2> QED BY <1>1, <2>6, <2>7 DEF TInv
<1> QED BY <1>2, <1>3 DEF TSummary

(* The later stages and the end of a packet leave edges and trips.            *)
LEMMA TRestKeeps == ASSUME TInv, TIdling \/ TViolations \/ TRemember \/ TGiveUp PROVE TInv'
<1>1. /\ UNCHANGED <<tRows, tEdges, tTrips, tLate, tNewest, tCount>>
      /\ \/ tStage' \in {"violations", "remember"} /\ tStage # "ready" /\ UNCHANGED tPacket
         \/ tStage' = "ready" /\ tPacket' = TNothing
  BY DEF TIdling, TViolations, TRemember, TGiveUp, TDone, TGoto
<1>2. TNothing \in TPacket
  BY TAssumption DEF TNothing, TPacket, TTime
<1>3. TTypes'
  BY <1>1, <1>2 DEF TInv, TTypes, TStages
<1>4. ~tLate => TTripsInv'
  BY <1>1 DEF TInv, TTripsInv, EdgesPast, JustEnded, TripsEnded, TripsDisjoint
<1> QED BY <1>1, <1>3, <1>4 DEF TInv

LEMMA TStepInv == TInv /\ [TNext]_analytics => TInv'
<1>1. CASE UNCHANGED analytics
  BY <1>1 DEF analytics, TInv, TTypes, TTripsInv, EdgesPast, JustEnded, TripsEnded, TripsDisjoint
<1> QED BY <1>1, TTakeKeeps, TEdgeKeeps, TSummaryKeeps, TRestKeeps DEF TNext

(* While no packet is older than one before it, a device's trips do not       *)
(* overlap and none is summed up twice, whatever is lost to errors.           *)
THEOREM TripsDoNotOverlap == TSpec => []TripsDisjoint
<1>1. TSpec => []TInv
  BY TInitInv, TStepInv, PTL DEF TSpec
<1>2. TInv => TripsDisjoint
  BY DEF TInv, TTripsInv, TripsDisjoint
<1> QED BY <1>1, <1>2, PTL

(* A packet in hand was counted.                                              *)
TTypedInv == TTypeOK /\ (tStage # "ready" => tCount > 0)

LEMMA TTypedStep == TTypedInv /\ [TNext]_analytics => TTypedInv'
<1> SUFFICES ASSUME TTypedInv, [TNext]_analytics PROVE TTypedInv'
  OBVIOUS
<1> USE TAssumption DEF TTypedInv, TTypeOK, TGoto
<1>1. ASSUME NEW p \in TPackets, TTake(p) PROVE TTypedInv'
  <2>1. p \in TPacket /\ p.ts \in TTime
    BY DEF TPackets, TPacket
  <2>2. tCount' \in 0..TMaxPackets /\ tCount' > 0
    BY <1>1 DEF TTake
  <2> QED BY <1>1, <2>1, <2>2 DEF TTake, TStages
<1>2. CASE TEdge
  <2>1. tPacket.ts \in TTime /\ tCount \in 1..TMaxPackets
    BY <1>2 DEF TEdge, TPacket
  <2>2. \A k \in {"trip_start", "trip_end"} : [kind |-> k, ts |-> tPacket.ts, n |-> tCount] \in TEdges
    BY <2>1 DEF TEdges
  <2>3. tEdges' \subseteq TEdges /\ tStage' \in {"idle", "summary"}
    BY <1>2, <2>2 DEF TEdge, TRecord
  <2> QED BY <1>2, <2>1, <2>3 DEF TEdge, TStages
<1>3. CASE TSummary
  <2>1. ASSUME NEW pair \in TLatestPairs PROVE [from |-> pair[1].ts, to |-> pair[2].ts] \in TTrip
    <3>1. pair[1] \in TEdges /\ pair[2] \in TEdges
      BY DEF TLatestPairs
    <3> QED BY <3>1 DEF TEdges, TTrip
  <2>2. tTrips' = tTrips \/ \E t \in TTrip : tTrips' = Append(tTrips, t)
    BY <1>3, <2>1 DEF TSummary
  <2>3. tTrips \in Seq(TTrip)
    BY DEF TTrip
  <2>4. tTrips' \in Seq(TTrip)
    BY <2>2, <2>3
  <2> QED BY <1>3, <2>4 DEF TSummary, TStages, TTrip
<1>4. CASE TIdling
  <2>1. tPacket.ts \in TTime /\ tWork.idle \in TTime \cup {TNever}
    BY DEF TPacket, TState
  <2>2. tWork' \in TState
    BY <1>4, <2>1 DEF TIdling, TState
  <2>3. \A k \in {"idle", "idle_summary"} : tWork.idle # TNever =>
            [kind |-> k, from |-> tWork.idle, to |-> tPacket.ts] \in TFlags
    BY <2>1 DEF TFlags
  <2>4. tFlags' \subseteq TFlags
    BY <1>4, <2>3 DEF TIdling, TFlag
  <2> QED BY <1>4, <2>2, <2>4 DEF TIdling, TStages
<1>5. CASE TViolations
  <2>1. tPacket.ts \in TTime /\ tWork.over \in TTime \cup {TNever}
    BY DEF TPacket, TState
  <2>2. tWork' \in TState
    BY <1>5, <2>1 DEF TViolations, TState
  <2>3. tWork.over # TNever => [kind |-> "over", from |-> tWork.over, to |-> tPacket.ts] \in TFlags
    BY <2>1 DEF TFlags
  <2>4. tFlags' \subseteq TFlags
    BY <1>5, <2>3 DEF TViolations, TFlag
  <2> QED BY <1>5, <2>2, <2>4 DEF TViolations, TStages
<1>6. CASE TRemember \/ TGiveUp
  <2>1. TNothing \in TPacket /\ TFresh \in TState
    BY DEF TNothing, TPacket, TTime, TFresh, TState
  <2>2. tPrev' \in TState
    BY <1>6 DEF TRemember, TGiveUp, TState, TPacket
  <2> QED BY <1>6, <2>1, <2>2 DEF TRemember, TGiveUp, TDone, TStages
<1>7. CASE UNCHANGED analytics
  BY <1>7 DEF analytics
<1> QED BY <1>1, <1>2, <1>3, <1>4, <1>5, <1>6, <1>7 DEF TNext

(* The saved state, the packet in hand and what is recorded of it stay within *)
(* their types, through every failure between the stages.                     *)
THEOREM AnalyticsTypeCorrect == TSpec => []TTypeOK
<1>1. TInit => TTypedInv
  <2>1. TNothing \in TPacket /\ TFresh \in TState
    BY TAssumption DEF TNothing, TPacket, TTime, TFresh, TState
  <2>2. 0 \in 0..TMaxPackets
    BY TAssumption
  <2>3. /\ \A S : <<>> \in Seq(S) /\ {} \subseteq S
        /\ "ready" \in TStages
    BY DEF TStages
  <2> SUFFICES ASSUME TInit PROVE TTypedInv
    OBVIOUS
  <2>4. tPrev \in TState /\ tWork \in TState /\ tPacket \in TPacket /\ tStage \in TStages /\ tCount \in 0..TMaxPackets
    BY <2>1, <2>2, <2>3 DEF TInit
  <2>5. /\ tRows \subseteq TTime /\ tEdges \subseteq TEdges /\ tFlags \subseteq TFlags
        /\ tTrips \in Seq([from : TTime, to : TTime])
    BY <2>3 DEF TInit
  <2> QED BY <2>4, <2>5 DEF TInit, TTypedInv, TTypeOK
<1>2. TTypedInv => TTypeOK
  BY DEF TTypedInv
<1> QED BY <1>1, <1>2, TTypedStep, PTL DEF TSpec

-----------------------------------------------------------------------------
(* Driver sessions.                                                           *)

Types ==
    /\ dSessions \in Seq(DSession)
    /\ dStage \in {"ready", "select", "close", "open"}
    /\ dPacket.ts \in DTime /\ dLast \in DTime /\ dLate \in BOOLEAN
    /\ DOMAIN dDrivers \subseteq DDrivers
    /\ dStage # "ready" => dPacket.driver \in DDrivers /\ dPacket.ts = dLast

(* Only the newest session may be open, and while a packet is in hand what    *)
(* was read of it is still so: nobody else writes sessions.                   *)
OnlyLastOpen ==
    /\ \A i \in OpenSessions : i = Len(dSessions)
    /\ dStage = "close" => dActive \in OpenSessions
    /\ dStage = "open"  => OpenSessions = {}

(* While no packet is late, nothing in the table is newer than the last one.  *)
Past ==
    ~dLate => \A i \in DOMAIN dSessions :
        /\ dSessions[i].login <= dLast /\ dSessions[i].login <= dSessions[i].logout
        /\ dSessions[i].logout # DOpen => dSessions[i].logout <= dLast

Ordered ==
    ~dLate => \A i, j \in DOMAIN dSessions :
        i < j => dSessions[i].logout <= dSessions[j].login

DInv == Types /\ OnlyLastOpen /\ Past /\ Ordered

LEMMA Times == DTime \subseteq Int /\ DOpen \in Int /\ \A t \in DTime : t < DOpen /\ 0 <= t
BY DAssumption DEF DTime, DOpen

LEMMA DInitInv == DInit => DInv
<1> SUFFICES ASSUME DInit PROVE DInv
  OBVIOUS
<1>1. dSessions = <<>> /\ dSessions \in Seq(DSession) /\ DOMAIN dSessions = {}
  BY DEF DInit
<1>2. 0 \in DTime
  BY DAssumption DEF DTime
<1>3. DOMAIN dDrivers = {}
  BY DEF DInit
<1>4. Types
  BY <1>1, <1>2, <1>3 DEF DInit, DNothing, Types
<1> QED BY <1>1, <1>4 DEF DInit, DInv, OnlyLastOpen, OpenSessions, Past, Ordered

(* A session has a driver, a login and a logout that is a time or open.       *)
LEMMA SessionFields ==
    ASSUME DInv, NEW i \in DOMAIN dSessions
    PROVE  /\ dSessions[i] \in DSession
           /\ dSessions[i].login \in DTime /\ dSessions[i].logout \in DTime \cup {DOpen}
           /\ i \in 1..Len(dSessions)
<1>1. dSessions \in Seq(DSession)
  BY DEF DInv, Types
<1>2. dSessions[i] \in DSession /\ i \in 1..Len(dSessions)
  BY <1>1
<1> QED BY <1>2 DEF DSession

(* The registry's handlers leave the sessions alone.                          *)
LEMMA EditKeeps ==
    ASSUME DInv, DEdit, DOMAIN dDrivers' \subseteq DDrivers PROVE DInv'
BY DEF DInv, DEdit, driving, Types, OnlyLastOpen, OpenSessions, Past, Ordered

LEMMA SwipeKeeps ==
    ASSUME DInv, NEW t \in DTags, NEW ts \in DTime, Swipe(t, ts) PROVE DInv'
<1>1. /\ dStage = "ready" /\ dLast' = ts /\ dLate' = (dLate \/ ts < dLast)
      /\ dSessions' = dSessions /\ dActive' = dActive /\ dDrivers' = dDrivers
  BY DEF Swipe, registry
<1>2. \/ /\ dStage' = "select"
         /\ \E d \in DOMAIN dDrivers : dPacket' = [tag |-> t, ts |-> ts, driver |-> d]
      \/ dStage' = "ready" /\ dPacket' = dPacket
  BY <1>1 DEF Swipe, DGoto
<1>3. Types'
  BY <1>1, <1>2 DEF DInv, Types
<1>4. OnlyLastOpen'
  BY <1>1, <1>2 DEF DInv, OnlyLastOpen, OpenSessions
<1>5. ~dLate' => ~dLate /\ dLast <= ts
  <2>1. ~dLate' => ~dLate /\ ~(ts < dLast)
    BY <1>1
  <2>2. ts \in Int /\ dLast \in Int
    BY Times DEF DInv, Types
  <2> QED BY <2>1, <2>2
<1>6. Past'
  <2> SUFFICES ASSUME ~dLate', NEW i \in DOMAIN dSessions
               PROVE  /\ dSessions[i].login <= ts /\ dSessions[i].login <= dSessions[i].logout
                      /\ dSessions[i].logout # DOpen => dSessions[i].logout <= ts
    BY <1>1 DEF Past
  <2>1. dSessions[i].login \in Int /\ dSessions[i].logout \in Int /\ dLast \in Int /\ ts \in Int
    BY SessionFields, Times DEF DInv, Types
  <2> QED BY <1>5, <2>1 DEF DInv, Past
<1>7. Ordered'
  BY <1>1, <1>5 DEF DInv, Ordered
<1> QED BY <1>3, <1>4, <1>6, <1>7 DEF DInv

(* The end of a packet: nothing is known of the sessions any more.            *)
LEMMA DoneKeeps ==
    ASSUME DInv, DDone, dSessions' = dSessions, dDrivers' = dDrivers,
           UNCHANGED <<dLate, dLast>>
    PROVE  DInv'
<1>1. dStage' = "ready" /\ dPacket'.ts \in DTime
  BY DAssumption DEF DDone, DGoto, DNothing, DTime
<1> QED BY <1>1 DEF DInv, Types, OnlyLastOpen, OpenSessions, Past, Ordered

LEMMA SelectActiveKeeps == ASSUME DInv, SelectActive PROVE DInv'
<1>1. dStage = "select" /\ UNCHANGED <<dSessions, dLate, dLast, dDrivers>>
  BY DEF SelectActive, registry
<1>2. CASE DDone
  BY <1>1, <1>2, DoneKeeps
<1>3. CASE \E i \in OpenSessions : dActive' = i /\ dStage' = "close" /\ dPacket' = dPacket
  BY <1>1, <1>3 DEF DInv, Types, OnlyLastOpen, OpenSessions, Past, Ordered
<1>4. CASE OpenSessions = {} /\ dStage' = "open" /\ dPacket' = dPacket
  BY <1>1, <1>4 DEF DInv, Types, OnlyLastOpen, OpenSessions, Past, Ordered
<1> QED BY <1>2, <1>3, <1>4 DEF SelectActive, DGoto

(* The open session, which is the newest, ends with the packet's time.        *)
LEMMA CloseKeeps == ASSUME DInv, CloseOther PROVE DInv'
<1>1. /\ dStage = "close" /\ dStage' = "open"
      /\ dSessions' = [dSessions EXCEPT ![dActive].logout = dPacket.ts]
      /\ UNCHANGED <<dPacket, dActive, dLate, dLast, dDrivers>>
  BY DEF CloseOther, DGoto, registry
<1> DEFINE n == Len(dSessions)
<1>2. dActive = n /\ n \in DOMAIN dSessions /\ dSessions[n].logout = DOpen
  BY <1>1 DEF DInv, OnlyLastOpen, OpenSessions
<1>3. dPacket.ts = dLast /\ dLast \in DTime
  BY <1>1 DEF DInv, Types
<1>4. /\ dSessions[n] \in DSession
      /\ [dSessions[n] EXCEPT !.logout = dLast] \in DSession
      /\ [dSessions[n] EXCEPT !.logout = dLast].login = dSessions[n].login
      /\ [dSessions[n] EXCEPT !.logout = dLast].logout = dLast
  BY <1>2, <1>3, SessionFields DEF DSession
<1>5. dSessions' = [dSessions EXCEPT ![n] = [dSessions[n] EXCEPT !.logout = dLast]]
  BY <1>1, <1>2, <1>3
<1> HIDE DEF n
<1>6. /\ dSessions' \in Seq(DSession) /\ DOMAIN dSessions' = DOMAIN dSessions
      /\ Len(dSessions') = n
      /\ dSessions'[n] = [dSessions[n] EXCEPT !.logout = dLast]
      /\ \A i \in DOMAIN dSessions \ {n} : dSessions'[i] = dSessions[i]
  <2>1. dSessions \in Seq(DSession) /\ Len(dSessions) = n
    BY DEF DInv, Types, n
  <2> QED BY <1>2, <1>4, <1>5, <2>1
<1>7. /\ \A i \in DOMAIN dSessions : dSessions'[i].login = dSessions[i].login
      /\ \A i \in DOMAIN dSessions \ {n} : dSessions'[i].logout = dSessions[i].logout
      /\ dSessions'[n].logout = dLast
  BY <1>2, <1>4, <1>6
<1>8. Types'
  BY <1>1, <1>6 DEF DInv, Types
<1>9. OpenSessions' = {}
  <2> SUFFICES ASSUME NEW i \in DOMAIN dSessions, dSessions'[i].logout = DOpen PROVE FALSE
    BY <1>6 DEF OpenSessions
  <2>1. i # n
    BY <1>3, <1>7, Times
  <2>2. i \in OpenSessions
    BY <1>7, <2>1 DEF OpenSessions
  <2> QED BY <2>1, <2>2 DEF DInv, OnlyLastOpen, n
<1>10. OnlyLastOpen'
  BY <1>1, <1>9 DEF OnlyLastOpen
<1>11. Past'
  <2> SUFFICES ASSUME ~dLate, NEW i \in DOMAIN dSessions
               PROVE  /\ dSessions'[i].login <= dLast
                      /\ dSessions'[i].login <= dSessions'[i].logout
                      /\ dSessions'[i].logout # DOpen => dSessions'[i].logout <= dLast
    BY <1>1, <1>6 DEF Past
  <2>1. dSessions[i].login <= dLast /\ dLast <= dLast
    BY <1>3, Times DEF DInv, Past
  <2>2. CASE i = n
    BY <1>7, <2>1, <2>2
  <2>3. CASE i # n
    BY <1>7, <2>3 DEF DInv, Past
  <2> QED BY <2>2, <2>3
<1>12. Ordered'
  <2> SUFFICES ASSUME ~dLate, NEW i \in DOMAIN dSessions, NEW j \in DOMAIN dSessions, i < j
               PROVE  dSessions'[i].logout <= dSessions'[j].login
    BY <1>1, <1>6 DEF Ordered
  <2>1. i # n
    <3>1. i \in 1..n /\ j \in 1..n /\ n \in Nat
      BY SessionFields DEF n, DInv, Types
    <3> QED BY <3>1
  <2> QED BY <1>7, <2>1 DEF DInv, Ordered
<1> QED BY <1>8, <1>10, <1>11, <1>12 DEF DInv

(* A session begins when none is open: all that went before have ended.       *)
LEMMA OpenKeeps == ASSUME DInv, OpenSession PROVE DInv'
<1> DEFINE s == [driver |-> dPacket.driver, login |-> dPacket.ts, logout |-> DOpen]
           n == Len(dSessions)
<1>1. /\ dStage = "open" /\ dStage' = "ready" /\ dSessions' = Append(dSessions, s)
      /\ dPacket' = DNothing /\ UNCHANGED <<dLate, dLast, dDrivers>>
  BY DEF OpenSession, DDone, DGoto, registry
<1>2. dPacket.ts = dLast /\ dLast \in DTime /\ dPacket.driver \in DDrivers
  BY <1>1 DEF DInv, Types
<1>3. s \in DSession /\ s.login = dLast /\ s.logout = DOpen
  BY <1>2 DEF DSession
<1> HIDE DEF s
<1>4. /\ dSessions' \in Seq(DSession) /\ n \in Nat /\ Len(dSessions') = n + 1
      /\ DOMAIN dSessions = 1..n /\ DOMAIN dSessions' = 1..n + 1
      /\ dSessions'[n + 1] = s
      /\ \A i \in 1..n : dSessions'[i] = dSessions[i]
  <2>1. dSessions \in Seq(DSession)
    BY DEF DInv, Types
  <2> QED BY <1>1, <1>3, <2>1
<1> HIDE DEF n
<1>5. \A i \in 1..n : dSessions[i].logout # DOpen
  BY <1>1, <1>4 DEF DInv, OnlyLastOpen, OpenSessions
<1>6. Types'
  <2>1. DNothing.ts \in DTime
    BY DAssumption DEF DNothing, DTime
  <2> QED BY <1>1, <1>4, <2>1 DEF DInv, Types
<1>7. OnlyLastOpen'
  <2> SUFFICES ASSUME NEW i \in 1..n + 1, dSessions'[i].logout = DOpen PROVE i = n + 1
    BY <1>1, <1>4 DEF OnlyLastOpen, OpenSessions
  <2>1. i \notin 1..n
    BY <1>4, <1>5
  <2> QED BY <1>4, <2>1
<1>8. Past'
  <2> SUFFICES ASSUME ~dLate, NEW i \in 1..n + 1
               PROVE  /\ dSessions'[i].login <= dLast
                      /\ dSessions'[i].login <= dSessions'[i].logout
                      /\ dSessions'[i].logout # DOpen => dSessions'[i].logout <= dLast
    BY <1>1, <1>4 DEF Past
  <2>1. CASE i \in 1..n
    BY <1>4, <2>1 DEF DInv, Past
  <2>2. CASE i = n + 1
    <3>1. dLast \in Int /\ dLast < DOpen /\ DOpen \in Int
      BY <1>2, Times
    <3> QED BY <1>3, <1>4, <2>2, <3>1
  <2> QED BY <1>4, <2>1, <2>2
<1>9. Ordered'
  <2> SUFFICES ASSUME ~dLate, NEW i \in 1..n + 1, NEW j \in 1..n + 1, i < j
               PROVE  dSessions'[i].logout <= dSessions'[j].login
    BY <1>1, <1>4 DEF Ordered
  <2>1. i \in 1..n
    BY <1>4
  <2>2. CASE j \in 1..n
    BY <1>4, <2>1, <2>2 DEF DInv, Ordered
  <2>3. CASE j = n + 1
    BY <1>3, <1>4, <1>5, <2>1, <2>3 DEF DInv, Past
  <2> QED BY <1>4, <2>2, <2>3
<1> QED BY <1>6, <1>7, <1>8, <1>9 DEF DInv

LEMMA DStepInv == DInv /\ [DNext]_dvars => DInv'
<1> SUFFICES ASSUME DInv, [DNext]_dvars PROVE DInv'
  OBVIOUS
<1>1. ASSUME NEW d \in DDrivers, NEW t \in DTags \cup {DNone},
             CreateDriver(d, t) \/ UpdateDriver(d, t)
      PROVE  DInv'
  <2>1. DEdit /\ dDrivers' = DWith(dDrivers, d, t)
    BY <1>1 DEF CreateDriver, UpdateDriver
  <2>2. DOMAIN dDrivers' \subseteq DDrivers
    BY <2>1 DEF DWith, DInv, Types
  <2> QED BY <2>1, <2>2, EditKeeps
<1>2. ASSUME NEW d \in DDrivers, DeleteDriver(d) PROVE DInv'
  <2>1. DEdit /\ dDrivers' = DWithout(dDrivers, d)
    BY <1>2 DEF DeleteDriver
  <2>2. DOMAIN dDrivers' \subseteq DDrivers
    BY <2>1 DEF DWithout, DInv, Types
  <2> QED BY <2>1, <2>2, EditKeeps
<1>3. ASSUME NEW t \in DTags, CreateTag(t) PROVE DInv'
  BY <1>3, EditKeeps DEF CreateTag, DInv, Types
<1>4. ASSUME NEW t \in DTags, NEW ts \in DTime, Swipe(t, ts) PROVE DInv'
  BY <1>4, SwipeKeeps
<1>5. ASSUME GiveUpPacket PROVE DInv'
  BY <1>5, DoneKeeps DEF GiveUpPacket, registry
<1>6. CASE UNCHANGED dvars
  BY <1>6 DEF dvars, driving, registry, DInv, Types, OnlyLastOpen, OpenSessions, Past, Ordered
<1> QED BY <1>1, <1>2, <1>3, <1>4, <1>5, <1>6, SelectActiveKeeps, CloseKeeps, OpenKeeps DEF DNext

(* A vehicle has one driver at a time, after errors between any two of the    *)
(* statements and edits of the registry at any moment; sessions follow one    *)
(* another while no packet is late: handler.py, sync_driver_session.          *)
THEOREM DriversTakeTurns == DSpec => []OneDriverAtATime
<1>1. DInv => OneDriverAtATime
  BY DEF DInv, OnlyLastOpen, Past, Ordered, OneDriverAtATime
<1> QED BY <1>1, DInitInv, DStepInv, PTL DEF DSpec

(* The registry's two maps stay maps between drivers, tags and statuses.      *)
RegistryTypes ==
    /\ DOMAIN dDrivers \subseteq DDrivers /\ DOMAIN dTags \subseteq DTags
    /\ \A d \in DOMAIN dDrivers : dDrivers[d] \in DTags \cup {DNone}
    /\ \A t \in DOMAIN dTags : dTags[t] \in {"available", "assigned"}

(* What the map functions of the registry build.                              *)
LEMMA WithIs ==
    ASSUME NEW f, NEW x, NEW v, NEW D, NEW R,
           DOMAIN f \subseteq D, \A y \in DOMAIN f : f[y] \in R
    PROVE  /\ x \in D /\ v \in R =>
                 DOMAIN DWith(f, x, v) \subseteq D /\ \A y \in DOMAIN DWith(f, x, v) : DWith(f, x, v)[y] \in R
           /\ DOMAIN DWithout(f, x) \subseteq D /\ \A y \in DOMAIN DWithout(f, x) : DWithout(f, x)[y] \in R
BY DEF DWith, DWithout

LEMMA DTypedStep == DInv /\ DTypeOK /\ [DNext]_dvars => DTypeOK'
<1> SUFFICES ASSUME DInv, DTypeOK, [DNext]_dvars PROVE DTypeOK'
  OBVIOUS
<1>0. RegistryTypes /\ dEdits \in 0..DMaxEdits /\ dPackets \in 0..DMaxPackets /\ dActive \in Nat
  BY DEF DTypeOK, RegistryTypes
<1>1. Types'
  BY DStepInv DEF DInv
<1>2. RegistryTypes' /\ dEdits' \in 0..DMaxEdits
  <2> DEFINE Kinds == {"available", "assigned"}
  <2>0. "available" \in Kinds /\ "assigned" \in Kinds /\ \A t \in DOMAIN dTags : dTags[t] \in Kinds
    BY <1>0 DEF RegistryTypes
  <2> HIDE DEF Kinds
  <2>1. CASE DEdit
    <3>1. dEdits' \in 0..DMaxEdits
      BY <1>0, <2>1, DAssumption DEF DEdit
    <3>2. ASSUME NEW d \in DDrivers, NEW t \in DTags \cup {DNone}, CreateDriver(d, t) \/ UpdateDriver(d, t)
          PROVE  RegistryTypes'
      <4>1. dDrivers' = DWith(dDrivers, d, t)
        BY <3>2 DEF CreateDriver, UpdateDriver
      <4>2. dTags' = dTags \/ (t \in DTags /\ dTags' = DWith(dTags, t, "assigned"))
        BY <3>2 DEF CreateDriver, UpdateDriver
      <4>3. DOMAIN dDrivers' \subseteq DDrivers /\ \A y \in DOMAIN dDrivers' : dDrivers'[y] \in DTags \cup {DNone}
        BY <1>0, <4>1, WithIs DEF RegistryTypes
      <4>4. DOMAIN dTags' \subseteq DTags /\ \A y \in DOMAIN dTags' : dTags'[y] \in Kinds
        BY <1>0, <2>0, <4>2, WithIs DEF RegistryTypes
      <4> QED BY <4>3, <4>4 DEF RegistryTypes, Kinds
    <3>3. ASSUME NEW d \in DDrivers, DeleteDriver(d) PROVE RegistryTypes'
      <4>1. dDrivers' = DWithout(dDrivers, d)
        BY <3>3 DEF DeleteDriver
      <4>2. dTags' = dTags \/ (dDrivers[d] \in DTags /\ dTags' = DWith(dTags, dDrivers[d], "available"))
        BY <1>0, <3>3 DEF DeleteDriver, RegistryTypes
      <4>3. DOMAIN dDrivers' \subseteq DDrivers /\ \A y \in DOMAIN dDrivers' : dDrivers'[y] \in DTags \cup {DNone}
        BY <1>0, <4>1, WithIs DEF RegistryTypes
      <4>4. DOMAIN dTags' \subseteq DTags /\ \A y \in DOMAIN dTags' : dTags'[y] \in Kinds
        BY <1>0, <2>0, <4>2, WithIs DEF RegistryTypes
      <4> QED BY <4>3, <4>4 DEF RegistryTypes, Kinds
    <3>4. ASSUME NEW t \in DTags, CreateTag(t) PROVE RegistryTypes'
      <4>1. dTags' = DWith(dTags, t, "available") /\ dDrivers' = dDrivers
        BY <3>4 DEF CreateTag
      <4>2. DOMAIN dTags' \subseteq DTags /\ \A y \in DOMAIN dTags' : dTags'[y] \in Kinds
        BY <1>0, <2>0, <4>1, WithIs DEF RegistryTypes
      <4> QED BY <1>0, <4>1, <4>2 DEF RegistryTypes, Kinds
    <3>5. ASSUME dDrivers' = dDrivers, dTags' = dTags PROVE RegistryTypes'
      BY <1>0, <3>5, Zenon DEF RegistryTypes
    <3>6. \/ \E d \in DDrivers, t \in DTags \cup {DNone} : CreateDriver(d, t) \/ UpdateDriver(d, t)
          \/ \E d \in DDrivers : DeleteDriver(d)
          \/ \E t \in DTags : CreateTag(t)
          \/ dDrivers' = dDrivers /\ dTags' = dTags
      BY DEF DNext, Swipe, SelectActive, GiveUpPacket, CloseOther, OpenSession, registry, dvars
    <3> QED BY <3>1, <3>2, <3>3, <3>4, <3>5, <3>6
  <2>2. CASE ~DEdit
    <3>1. UNCHANGED registry
      BY <2>2 DEF DNext, CreateDriver, UpdateDriver, DeleteDriver, CreateTag, Swipe, SelectActive,
                  GiveUpPacket, CloseOther, OpenSession, registry, dvars
    <3> QED BY <1>0, <3>1 DEF registry, RegistryTypes
  <2> QED BY <2>1, <2>2
<1>3. dPackets' \in 0..DMaxPackets /\ dActive' \in Nat
  <2>1. ASSUME NEW t \in DTags, NEW ts \in DTime, Swipe(t, ts) PROVE <1>3!:
    BY <1>0, <2>1, DAssumption DEF Swipe
  <2>2. CASE SelectActive
    <3>1. \A i \in OpenSessions : i \in Nat
      BY DEF DInv, Types, OpenSessions
    <3> QED BY <1>0, <2>2, <3>1 DEF SelectActive, DDone
  <2>3. CASE GiveUpPacket \/ CloseOther \/ OpenSession
    BY <1>0, <2>3 DEF GiveUpPacket, CloseOther, OpenSession, DDone
  <2>4. CASE UNCHANGED driving
    BY <1>0, <2>4 DEF driving
  <2> QED BY <2>1, <2>2, <2>3, <2>4 DEF DNext, CreateDriver, UpdateDriver, DeleteDriver, CreateTag, DEdit, dvars
<1> QED BY <1>1, <1>2, <1>3 DEF DTypeOK, RegistryTypes, Types

(* Edits of the registry and the processing of packets keep the types of the  *)
(* sessions and of the registry: a deleted driver leaves no other value.      *)
THEOREM DriversTypeCorrect == DSpec => []DTypeOK
<1>1. DInit => DTypeOK
  BY DInitInv, DAssumption DEF DInit, DTypeOK, DInv, Types
<1> QED BY <1>1, DInitInv, DStepInv, DTypedStep, PTL DEF DSpec

-----------------------------------------------------------------------------
(* The filters of a packet's records.                                         *)

(* A record that parses has a time; what a filter lets pass has a position,   *)
(* or none yet.                                                               *)
Parsed == [ts : Nat, pos : Nat, speed : Nat, weak : BOOLEAN]
Kept   == [ts : Nat, pos : Nat \cup {RNull}, speed : Nat, weak : BOOLEAN]

(* The last of a track, and what a track of kept records promises.            *)
EndsWith(track, last) == last = IF track = <<>> THEN RNone ELSE track[Len(track)]
Trusted(track) ==
    /\ \A i \in DOMAIN track : /\ track[i].speed <= RMaxSpeed /\ RTimeOk(track[i])
                               /\ track[i].pos # 0
    /\ \A i \in DOMAIN track : track[i].pos = RNull =>
                                  \A j \in 1..i : track[j].pos = RNull
    /\ \A i \in DOMAIN track : i > 1 => ~(/\ track[i].ts = track[i - 1].ts
                                          /\ track[i].pos = track[i - 1].pos)

LEMMA RNumbers == /\ RNow \in Nat /\ RMaxFuture \in Nat /\ RMaxPast \in Nat /\ RMaxSpeed \in Nat
                  /\ \A p \in RPackets : p.records \in Seq(RRecord) /\ p.sound \in BOOLEAN
<1>1. \A p \in RPackets : p \in [sound : BOOLEAN, records : Seq(RRecord)]
  BY RAssumption
<1>2. \A p \in [sound : BOOLEAN, records : Seq(RRecord)] :
         p.records \in Seq(RRecord) /\ p.sound \in BOOLEAN
  BY Zenon
<1> QED BY RAssumption, <1>1, <1>2

LEMMA RecordsAreRecords ==
    ASSUME NEW p \in RPackets PROVE RRecords(p) \in Seq(Parsed)
<1> DEFINE s == p.records
           bad == {i \in DOMAIN s : ~RParses(s[i])}
<1>1. s \in Seq(RRecord) /\ p.sound \in BOOLEAN
  BY RNumbers
<1>2. Len(s) \in Nat /\ DOMAIN s = 1..Len(s)
  BY <1>1
<1>3. ASSUME NEW i \in DOMAIN s, RParses(s[i]) PROVE s[i] \in Parsed
  <2>1. s[i] \in RRecord
    BY <1>1
  <2>2. \A r \in RRecord : RParses(r) => r \in Parsed
    BY DEF RParses, RRecord, Parsed
  <2> QED BY <1>3, <2>1, <2>2
<1>4. CASE p.sound /\ bad # {}
  <2>1. bad \in SUBSET Nat
    BY <1>2
  <2>2. \E m \in bad : \A k \in bad : m <= k
    BY <1>4, <2>1, LeastNatural
  <2>3. Min(bad) \in bad /\ \A k \in bad : Min(bad) <= k
    BY <2>2 DEF Min
  <2> DEFINE m == Min(bad)
             last == m - 1
             t == SubSeq(s, 1, last)
  <2>4. last \in 0..Len(s) /\ last + 1 \in bad /\ \A k \in bad : last + 1 <= k
    <3>1. m \in 1..Len(s) /\ m \in bad /\ \A k \in bad : m <= k
      BY <1>2, <2>3
    <3> HIDE DEF m, bad
    <3>2. last \in 0..Len(s) /\ last + 1 = m
      BY <1>2, <3>1
    <3> QED BY <3>1, <3>2
  <2> HIDE DEF last
  <2>5. t \in Seq(RRecord) /\ Len(t) = last /\ \A i \in 1..last : t[i] = s[i]
    BY <1>1, <1>2, <2>4
  <2>6. ASSUME NEW i \in 1..last PROVE t[i] \in Parsed
    <3>1. i \in DOMAIN s /\ ~(last + 1 <= i)
      BY <1>2, <2>4
    <3>2. i \notin bad
      BY <2>4, <3>1
    <3> QED BY <1>3, <2>5, <3>1, <3>2
  <2>7. t = [i \in 1..last |-> t[i]]
    BY <2>5
  <2> HIDE DEF t
  <2>8. t \in Seq(Parsed)
    BY <2>4, <2>6, <2>7
  <2> QED BY <1>4, <2>8 DEF RRecords, last, m, t
<1>5. CASE p.sound /\ bad = {}
  <2>1. \A i \in 1..Len(s) : s[i] \in Parsed
    BY <1>2, <1>3, <1>5
  <2>2. s = [i \in 1..Len(s) |-> s[i]]
    BY <1>1
  <2>3. s \in Seq(Parsed)
    BY <1>2, <2>1, <2>2
  <2> QED BY <1>5, <2>3 DEF RRecords
<1>6. CASE ~p.sound
  BY <1>6 DEF RRecords
<1> QED BY <1>1, <1>4, <1>5, <1>6

LEMMA PlacedIsRecords ==
    ASSUME NEW t \in Seq(Parsed), NEW r \in Parsed
    PROVE  RPlaced(t, r) \in Seq(Parsed)
<1> DEFINE before == {i \in DOMAIN t : t[i].ts <= r.ts}
           at == Cardinality(before) + 1
<1>1. Len(t) \in Nat /\ DOMAIN t = 1..Len(t)
  OBVIOUS
<1>2. IsFiniteSet(1..Len(t)) /\ Cardinality(1..Len(t)) = Len(t)
  BY <1>1, FS_Interval
<1>3. before \subseteq 1..Len(t)
  BY <1>1
<1> HIDE DEF before
<1>4. Cardinality(before) \in Nat /\ Cardinality(before) <= Len(t)
  BY <1>2, <1>3, PartIsSmaller
<1>5. at \in 1..Len(t) + 1
  BY <1>1, <1>4
<1>6. RPlaced(t, r) = SubSeq(t, 1, at - 1) \o <<r>> \o SubSeq(t, at, Len(t))
  BY DEF RPlaced, InsertAt, before
<1> HIDE DEF at
<1>7. SubSeq(t, 1, at - 1) \in Seq(Parsed) /\ SubSeq(t, at, Len(t)) \in Seq(Parsed)
  BY <1>1, <1>5
<1> QED BY <1>6, <1>7

LEMMA SortedIsRecords ==
    ASSUME NEW s \in Seq(Parsed)
    PROVE  RSorted(s) \in Seq(Parsed)
<1> DEFINE L == Len(s)
           G == Seq(Parsed)
           step == [n \in 1..L |-> [t \in G |-> RPlaced(t, s[n])]]
           Walk(f) == f = [n \in 0..L |-> IF n = 0 THEN <<>> ELSE RPlaced(f[n - 1], s[n])]
<1>1. L \in Nat /\ <<>> \in G /\ \A n \in 1..L : s[n] \in Parsed
  OBVIOUS
<1>2. step \in [1..L -> [G -> G]]
  BY <1>1, PlacedIsRecords
<1> HIDE DEF L, G
<1>3. PICK f \in [0..L -> G] : Walks(f, L, <<>>, step)
  <2> HIDE DEF step
  <2> QED BY <1>1, <1>2, StepsExist
<1>4. \A n \in 1..L : f[n] = RPlaced(f[n - 1], s[n])
  <2> TAKE n \in 1..L
  <2>1. n - 1 \in 0..L
    BY <1>1
  <2>2. f[n - 1] \in G
    BY <1>3, <2>1
  <2> QED BY <1>3, <2>2 DEF Walks
<1>5. Walk(f)
  <2>1. \A n \in 0..L : f[n] = IF n = 0 THEN <<>> ELSE RPlaced(f[n - 1], s[n])
    BY <1>1, <1>3, <1>4 DEF Walks
  <2> QED BY <1>3, <2>1
<1> DEFINE sorted == CHOOSE g : Walk(g)
<1>6. Walk(sorted) /\ RSorted(s) = sorted[L]
  BY <1>5 DEF RSorted, L
<1> HIDE DEF sorted
<1>7. sorted[0] = <<>> /\ \A n \in 1..L : sorted[n] = RPlaced(sorted[n - 1], s[n])
  BY <1>1, <1>6
<1>8. sorted[0] \in G /\ \A n \in 1..L : sorted[n - 1] \in G => sorted[n] \in G
  BY <1>1, <1>7, PlacedIsRecords DEF G
<1>9. \A n \in 0..L : sorted[n] \in G
  BY <1>1, <1>8, StepsKeep
<1> QED BY <1>1, <1>6, <1>9 DEF G

-----------------------------------------------------------------------------
(* The filter, going on from a track that can be trusted.                     *)

LEMMA StepKeeps ==
    ASSUME NEW track \in Seq(Kept), NEW last \in Kept, NEW passed \in Seq(Kept), NEW r \in Parsed,
           Trusted(track \o passed), EndsWith(track \o passed, last)
    PROVE  LET n == RStep([passed |-> passed, last |-> last], r) IN
           /\ n.passed \in Seq(Kept) /\ n.last \in Kept
           /\ Trusted(track \o n.passed) /\ EndsWith(track \o n.passed, n.last)
           /\ n = [passed |-> n.passed, last |-> n.last]
<1> DEFINE it == RLocate(r, last)
           all == track \o passed
           long == Append(all, it)
<1>1. all \in Seq(Kept) /\ Len(all) \in Nat /\ DOMAIN all = 1..Len(all)
  OBVIOUS
<1>2. r.ts \in Nat /\ r.pos \in Nat /\ r.speed \in Nat /\ r.weak \in BOOLEAN
  BY DEF Parsed
<1>3. last.pos \in Nat \cup {RNull}
  BY DEF Kept
<1>4. it \in Kept
  BY <1>2, <1>3 DEF RLocate, Kept, Parsed, RNull
<1>5. CASE ~RPasses(it, last)
  BY <1>5 DEF RStep
<1>6. CASE RPasses(it, last)
  <2>1. RTold(last) <=> all # <<>>
    <3>1. all # <<>> => last = all[Len(all)] /\ Len(all) \in DOMAIN all
      BY <1>1 DEF EndsWith
    <3>2. all # <<>> => last.pos # 0
      BY <3>1 DEF Trusted
    <3> QED BY <3>2 DEF EndsWith, RTold, RNone
  <2>2. it.pos # 0 /\ (it.pos = RNull => all = <<>> \/ last.pos = RNull)
    <3>1. it.pos = IF r.pos # 0 THEN r.pos ELSE IF RTold(last) THEN last.pos ELSE RNull
      BY DEF RLocate, Parsed
    <3>2. RTold(last) => last.pos # 0
      BY <1>1, <2>1 DEF EndsWith, Trusted
    <3> QED BY <1>2, <1>3, <2>1, <3>1, <3>2 DEF RNull
  <2>3. it.speed <= RMaxSpeed /\ RTimeOk(it)
    BY <1>6 DEF RPasses, RSpeedOk
  <2>4. all # <<>> => ~(it.ts = last.ts /\ it.pos = last.pos)
    BY <1>6, <2>1 DEF RPasses, RNewOk
  <2>5. all # <<>> => last = all[Len(all)] /\ Len(all) \in 1..Len(all)
    BY <1>1 DEF EndsWith
  <2> HIDE DEF it, all
  <2>6. /\ Len(long) = Len(all) + 1 /\ DOMAIN long = 1..Len(all) + 1
        /\ long[Len(all) + 1] = it /\ \A i \in 1..Len(all) : long[i] = all[i]
    BY <1>1
  <2> HIDE DEF long
  <2>7. Trusted(all)
    BY DEF all
  <2>8. ASSUME NEW i \in 1..Len(all) + 1
        PROVE  long[i].speed <= RMaxSpeed /\ RTimeOk(long[i]) /\ long[i].pos # 0
    <3>1. CASE i = Len(all) + 1
      BY <2>2, <2>3, <2>6, <3>1
    <3>2. CASE i # Len(all) + 1
      <4>1. i \in 1..Len(all)
        BY <1>1, <3>2
      <4> QED BY <1>1, <2>6, <2>7, <4>1 DEF Trusted
    <3> QED BY <3>1, <3>2
  <2>9. ASSUME NEW i \in 1..Len(all) + 1, long[i].pos = RNull, NEW j \in 1..i
        PROVE  long[j].pos = RNull
    <3>1. CASE i = Len(all) + 1 /\ j = i
      BY <2>9, <3>1
    <3>2. CASE i = Len(all) + 1 /\ j # i
      <4>1. j \in 1..Len(all) /\ all # <<>>
        BY <1>1, <3>2
      <4>2. all[Len(all)].pos = RNull
        BY <2>2, <2>5, <2>6, <2>9, <3>2, <4>1
      <4> QED BY <1>1, <2>5, <2>6, <2>7, <4>1, <4>2 DEF Trusted
    <3>3. CASE i # Len(all) + 1
      <4>1. i \in 1..Len(all) /\ j \in 1..Len(all)
        BY <1>1, <3>3
      <4> QED BY <1>1, <2>6, <2>7, <2>9, <4>1 DEF Trusted
    <3> QED BY <3>1, <3>2, <3>3
  <2>10. ASSUME NEW i \in 1..Len(all) + 1, i > 1
         PROVE  ~(long[i].ts = long[i - 1].ts /\ long[i].pos = long[i - 1].pos)
    <3>1. CASE i = Len(all) + 1
      <4>1. all # <<>> /\ i - 1 = Len(all)
        BY <1>1, <2>10, <3>1
      <4> QED BY <2>4, <2>5, <2>6, <3>1, <4>1
    <3>2. CASE i # Len(all) + 1
      <4>1. i \in 1..Len(all) /\ i - 1 \in 1..Len(all)
        BY <1>1, <2>10, <3>2
      <4> QED BY <1>1, <2>6, <2>7, <2>10, <4>1 DEF Trusted
    <3> QED BY <3>1, <3>2
  <2>11. Trusted(long)
    BY <2>6, <2>8, <2>9, <2>10 DEF Trusted
  <2>12. EndsWith(long, it)
    BY <1>1, <2>6 DEF EndsWith
  <2>13. long = track \o Append(passed, it)
    BY <1>4 DEF long, all
  <2>14. RStep([passed |-> passed, last |-> last], r) = [passed |-> Append(passed, it), last |-> it]
    BY <1>6 DEF RStep, it
  <2>15. Append(passed, it) \in Seq(Kept)
    BY <1>4
  <2> DEFINE n == RStep([passed |-> passed, last |-> last], r)
  <2>16. n.passed = Append(passed, it) /\ n.last = it /\ n = [passed |-> n.passed, last |-> n.last]
    BY <2>14
  <2> HIDE DEF n
  <2>17. /\ n.passed \in Seq(Kept) /\ n.last \in Kept
         /\ Trusted(track \o n.passed) /\ EndsWith(track \o n.passed, n.last)
    BY <1>4, <2>11, <2>12, <2>13, <2>15, <2>16
  <2> QED BY <2>16, <2>17 DEF n
<1> QED BY <1>5, <1>6

LEMMA FilterKeeps ==
    ASSUME NEW track \in Seq(Kept), NEW last \in Kept, NEW s \in Seq(Parsed),
           Trusted(track), EndsWith(track, last)
    PROVE  RFilter(s, last) \in Seq(Kept) /\ Trusted(track \o RFilter(s, last))
<1> DEFINE L == Len(s)
           Sure(acc) == Trusted(track \o acc.passed) /\ EndsWith(track \o acc.passed, acc.last)
           G == {acc \in [passed : Seq(Kept), last : Kept] : Sure(acc)}
           none == [passed |-> <<>>, last |-> last]
           step == [n \in 1..L |-> [acc \in G |-> RStep(acc, s[n])]]
           Walk(f) == f = [n \in 0..L |-> IF n = 0 THEN none ELSE RStep(f[n - 1], s[n])]
<1>1. L \in Nat /\ \A n \in 1..L : s[n] \in Parsed
  OBVIOUS
<1>2. none \in G
  <2>1. track \o <<>> = track /\ none \in [passed : Seq(Kept), last : Kept]
    OBVIOUS
  <2> QED BY <2>1
<1>3. ASSUME NEW acc \in G, NEW r \in Parsed PROVE RStep(acc, r) \in G
  <2>1. /\ acc.passed \in Seq(Kept) /\ acc.last \in Kept
        /\ acc = [passed |-> acc.passed, last |-> acc.last]
    OBVIOUS
  <2>2. Trusted(track \o acc.passed) /\ EndsWith(track \o acc.passed, acc.last)
    OBVIOUS
  <2> DEFINE n == RStep(acc, r)
             passed == acc.passed
             end == acc.last
  <2>3. n = RStep([passed |-> passed, last |-> end], r)
    BY <2>1
  <2> HIDE DEF n, passed, end, G
  <2>4. /\ n.passed \in Seq(Kept) /\ n.last \in Kept
        /\ Trusted(track \o n.passed) /\ EndsWith(track \o n.passed, n.last)
        /\ n = [passed |-> n.passed, last |-> n.last]
    <3>1. /\ passed \in Seq(Kept) /\ end \in Kept
          /\ Trusted(track \o passed) /\ EndsWith(track \o passed, end)
      BY <2>1, <2>2 DEF passed, end
    <3> QED BY <2>3, <3>1, StepKeeps
  <2>5. n \in [passed : Seq(Kept), last : Kept]
    BY <2>4
  <2>6. Sure(n)
    BY <2>4
  <2> QED BY <2>5, <2>6 DEF n, G
<1>4. step \in [1..L -> [G -> G]]
  <2> HIDE DEF G, L
  <2> QED BY <1>1, <1>3
<1> HIDE DEF L, G, none
<1>5. PICK f \in [0..L -> G] : Walks(f, L, none, step)
  <2> HIDE DEF step
  <2> QED BY <1>1, <1>2, <1>4, StepsExist
<1>6. \A n \in 1..L : f[n] = RStep(f[n - 1], s[n])
  <2> TAKE n \in 1..L
  <2>1. n - 1 \in 0..L
    BY <1>1
  <2>2. f[n - 1] \in G
    BY <1>5, <2>1
  <2> QED BY <1>5, <2>2 DEF Walks
<1>7. Walk(f)
  <2>1. \A n \in 0..L : f[n] = IF n = 0 THEN none ELSE RStep(f[n - 1], s[n])
    BY <1>1, <1>5, <1>6 DEF Walks
  <2> QED BY <1>5, <2>1
<1> DEFINE after == CHOOSE g : Walk(g)
<1>8. Walk(after) /\ RFilter(s, last) = after[L].passed
  BY <1>7 DEF RFilter, L, none
<1> HIDE DEF after
<1>9. after[0] = none /\ \A n \in 1..L : after[n] = RStep(after[n - 1], s[n])
  BY <1>1, <1>8
<1>10. after[0] \in G /\ \A n \in 1..L : after[n - 1] \in G => after[n] \in G
  BY <1>1, <1>2, <1>3, <1>9
<1>11. \A n \in 0..L : after[n] \in G
  BY <1>1, <1>10, StepsKeep
<1>12. after[L] \in G
  BY <1>1, <1>11
<1> QED BY <1>8, <1>12 DEF G

-----------------------------------------------------------------------------
(* The session's last record is the last of what is on the queue and what is  *)
(* about to be put there, but while the acknowledgement is waited for.        *)
RTypes == /\ rUnacked \in RPackets \cup {RNothing} /\ rStage \in {"read", "drain", "put"}
          /\ rBatch \in Seq(Kept) /\ rQueued \in Seq(Kept) /\ rLast \in Kept
          /\ Trusted(rQueued) /\ Trusted(rQueued \o rBatch)
RLine == /\ rStage = "read" => rBatch = <<>>
         /\ rStage \in {"read", "drain"} => EndsWith(rQueued, rLast)
         /\ rStage = "put" => EndsWith(rQueued \o rBatch, rLast)
RInv == RTypes /\ RLine

LEMMA NoTrack ==
    /\ RNone \in Kept /\ <<>> \in Seq(Kept) /\ <<>> \o <<>> = <<>>
    /\ Trusted(<<>>) /\ EndsWith(<<>>, RNone)
<1>1. RNone \in Kept
  BY DEF RNone, Kept
<1>2. DOMAIN <<>> = {} /\ <<>> \o <<>> = <<>>
  OBVIOUS
<1>3. Trusted(<<>>)
  BY <1>2 DEF Trusted
<1> QED BY <1>1, <1>2, <1>3 DEF EndsWith

LEMMA RInitInv == RInit => RInv
BY NoTrack DEF RInit, RInv, RTypes, RLine

LEMMA RHandleKeeps ==
    ASSUME RInv, NEW p \in RPackets, RHandle(p) PROVE RInv'
<1> DEFINE s == RSorted(RRecords(p))
<1>1. s \in Seq(Parsed)
  BY RecordsAreRecords, SortedIsRecords
<1> HIDE DEF s
<1>2. rBatch = <<>> /\ EndsWith(rQueued, rLast) /\ Trusted(rQueued)
  BY DEF RInv, RTypes, RLine, RHandle
<1>3. RFilter(s, rLast) \in Seq(Kept) /\ Trusted(rQueued \o RFilter(s, rLast))
  BY <1>1, <1>2, FilterKeeps DEF RInv, RTypes
<1>4. UNCHANGED <<rLast, rQueued>> /\ rUnacked' = p
  BY DEF RHandle
<1>5. CASE RRecords(p) = <<>>
  BY <1>4, <1>5 DEF RHandle, RInv, RTypes, RLine
<1>6. CASE RRecords(p) # <<>>
  <2>1. rStage' = "drain" /\ rBatch' = RFilter(s, rLast)
    BY <1>6 DEF RHandle, s
  <2> QED BY <1>2, <1>3, <1>4, <2>1 DEF RInv, RTypes, RLine
<1> QED BY <1>5, <1>6

LEMMA RAckKeeps == ASSUME RInv, RAck PROVE RInv'
<1>1. UNCHANGED <<rBatch, rQueued>> /\ rUnacked' \in RPackets \cup {RNothing}
  BY DEF RAck, RInv, RTypes
<1>2. rBatch \in Seq(Kept) /\ rQueued \in Seq(Kept) /\ rLast \in Kept /\ rStage = "drain"
  BY DEF RAck, RInv, RTypes
<1>3. CASE rBatch = <<>>
  <2>1. rStage' = "read" /\ rLast' = rLast
    BY <1>3 DEF RAck
  <2> QED BY <1>1, <1>2, <1>3, <2>1 DEF RInv, RTypes, RLine
<1>4. CASE rBatch # <<>>
  <2>1. rStage' = "put" /\ rLast' = Last(rBatch)
    BY <1>4 DEF RAck
  <2>2. Len(rBatch) \in 1..Len(rBatch) /\ Last(rBatch) = rBatch[Len(rBatch)]
    BY <1>2, <1>4 DEF Last
  <2>3. Last(rBatch) \in Kept
    BY <1>2, <2>2
  <2>4. /\ rQueued \o rBatch # <<>> /\ Len(rQueued \o rBatch) = Len(rQueued) + Len(rBatch)
        /\ (rQueued \o rBatch)[Len(rQueued) + Len(rBatch)] = rBatch[Len(rBatch)]
    BY <1>2, <1>4, <2>2
  <2>5. EndsWith(rQueued \o rBatch, Last(rBatch))
    BY <2>2, <2>4 DEF EndsWith
  <2> QED BY <1>1, <1>2, <2>1, <2>3, <2>5 DEF RInv, RTypes, RLine
<1> QED BY <1>3, <1>4

LEMMA RStepInv == RInv /\ [RNext]_intake => RInv'
<1> SUFFICES ASSUME RInv, [RNext]_intake PROVE RInv'
  OBVIOUS
<1>1. CASE \E p \in RPackets : RHandle(p)
  BY <1>1, RHandleKeeps
<1>2. CASE RAck
  BY <1>2, RAckKeeps
<1>3. CASE RPut
  <2>1. rQueued \o rBatch \in Seq(Kept) /\ (rQueued \o rBatch) \o <<>> = rQueued \o rBatch
    BY DEF RInv, RTypes
  <2> QED BY <1>3, <2>1, NoTrack DEF RPut, RInv, RTypes, RLine
<1>4. CASE RAbandon
  BY <1>4 DEF RAbandon, RInv, RTypes, RLine
<1>5. CASE RBreak
  BY <1>5, NoTrack DEF RBreak, RInv, RTypes, RLine
<1>6. CASE UNCHANGED intake
  BY <1>6 DEF intake, RInv, RTypes, RLine
<1> QED BY <1>1, <1>2, <1>3, <1>4, <1>5, <1>6 DEF RNext

(* What a session puts on the queue is a track that can be trusted, for any   *)
(* packets, limits and losses of the connection: _handle_packet() compares    *)
(* each record with the last that passed, across packets and rejected records.*)
THEOREM TracksAreConsistent == RSpec => []TrackIsConsistent
<1>1. RInv => TrackIsConsistent
  BY DEF RInv, RTypes, Trusted, TrackIsConsistent
<1> QED BY <1>1, RInitInv, RStepInv, PTL DEF RSpec

(* What the session keeps of a packet, and the records it filtered and put on *)
(* the queue, which all parse.                                                *)
THEOREM IntakeTypeCorrect == RSpec => []RTypeOK
<1>1. ASSUME RInv PROVE \A r \in Range(rBatch) \cup Range(rQueued) : RParses(r)
  <2>1. \A t \in Seq(Kept) : \A r \in Range(t) : r \in Kept
    BY DEF Range
  <2>2. \A r \in Kept : RParses(r)
    BY DEF Kept, RParses, RNull
  <2> QED BY <1>1, <2>1, <2>2 DEF RInv, RTypes
<1> DEFINE Counted == rSends \in 0..RMaxSends
<1>2. RInit => Counted
  BY RAssumption DEF RInit
<1>3. Counted /\ [RNext]_intake => Counted'
  BY RAssumption DEF RNext, RHandle, RAck, RPut, RAbandon, RBreak, intake
<1>4. RInv /\ Counted => RTypeOK
  BY <1>1 DEF RInv, RTypes, RTypeOK
<1> HIDE DEF Counted
<1> QED BY <1>2, <1>3, <1>4, RInitInv, RStepInv, PTL DEF RSpec

-----------------------------------------------------------------------------
(* The framing of packets.                                                    *)

LEMMA FSizes == /\ FZeros \in Nat /\ FZeros > 0 /\ FTooLong \in Nat
                /\ FHeader = 2 * FZeros /\ FHeader \in Nat /\ FSum = 1
BY FAssumption DEF FHeader, FSum

LEMMA FWords == /\ \A n \in FNoise : n \in Seq(FByte)
                /\ \A b \in FBodies : b \in Seq(FByte) /\ Len(b) \in Nat
<1>1. \A n \in FBodies \cup FNoise : n \in Seq(FByte)
  BY FAssumption
<1>2. ASSUME NEW b \in FBodies PROVE Len(b) \in Nat
  <2>1. b \in Seq(FByte)
    BY <1>1
  <2> QED BY <2>1
<1> QED BY <1>1, <1>2

LEMMA FDigits == 0 \in FByte /\ 1 \in FByte
BY FAssumption DEF FByte

(* The field of a body's length has its bytes and its value.                  *)
LEMMA FieldHolds ==
    ASSUME NEW b \in FBodies
    PROVE  FField(Len(b)) \in [1..FZeros -> FByte] /\ FValue(FField(Len(b))) = Len(b)
<1>1. PICK h \in FFields : FValue(h) = Len(b)
  BY FAssumption
<1>2. FField(Len(b)) \in FFields /\ FValue(FField(Len(b))) = Len(b)
  BY <1>1 DEF FField
<1> QED BY <1>2 DEF FFields

LEMMA Associates ==
    ASSUME NEW a, NEW b, NEW c, NEW S, a \in Seq(S), b \in Seq(S), c \in Seq(S)
    PROVE  (a \o b) \o c = a \o (b \o c) /\ a \o b \in Seq(S)
<1>1. (a \o b) \o c = a \o (b \o c)
  OBVIOUS
<1>2. a \o b \in Seq(S)
  OBVIOUS
<1> QED BY <1>1, <1>2

LEMMA BytesJoin ==
    ASSUME NEW a, NEW b, NEW c, a \in Seq(FByte), b \in Seq(FByte), c \in Seq(FByte)
    PROVE  (a \o b) \o c = a \o (b \o c) /\ a \o b \in Seq(FByte)
BY Associates

LEMMA BytesAre ==
    ASSUME NEW S, NEW n \in Nat, NEW f \in [1..n -> S]
    PROVE  f \in Seq(S) /\ Len(f) = n
OBVIOUS

(* The length field of a buffer that has all of its header.                   *)
LEMMA FieldIs ==
    ASSUME NEW t \in Seq(FByte), Len(t) >= FHeader
    PROVE  /\ SubSeq(t, FZeros + 1, FHeader) \in Seq(FByte)
           /\ Len(SubSeq(t, FZeros + 1, FHeader)) = FZeros
           /\ \A k \in 1..FZeros : SubSeq(t, FZeros + 1, FHeader)[k] = t[FZeros + k]
<1> DEFINE m == FZeros + 1
           g == SubSeq(t, m, FHeader)
<1>1. FZeros \in Nat /\ FZeros > 0 /\ FHeader = 2 * FZeros
  BY FSizes
<1>2. \A k \in m..FHeader : t[k] \in FByte
  <2> TAKE k \in m..FHeader
  <2>1. k \in 1..Len(t)
    <3>1. Len(t) \in Nat
      BY LenProperties
    <3> QED BY <1>1, <3>1
  <2> QED BY <2>1, ElementOfSeq
<1>3. m \in Int /\ FHeader \in Int /\ m <= FHeader /\ FHeader - m + 1 = FZeros
  BY <1>1
<1> HIDE DEF m
<1>4. /\ g \in Seq(FByte) /\ Len(g) = IF m <= FHeader THEN FHeader - m + 1 ELSE 0
      /\ \A k \in 1..FHeader - m + 1 : g[k] = t[m + k - 1]
  BY <1>2, <1>3, SubSeqProperties
<1> HIDE DEF g
<1>5. \A k \in 1..FZeros : g[k] = t[FZeros + k]
  <2> TAKE k \in 1..FZeros
  <2>1. m + k - 1 = FZeros + k
    BY <1>1 DEF m
  <2> QED BY <1>3, <1>4, <2>1
<1> QED BY <1>3, <1>4, <1>5 DEF g, m

(* A packet: a preamble, a header that says its length, and more.             *)
Packet(p) == /\ p \in Seq(FByte) /\ Len(p) > FHeader
             /\ \A k \in 1..FZeros : p[k] = 0
             /\ FFull(p) = Len(p)

LEMMA SentIsPacket == ASSUME NEW b \in FBodies PROVE Packet(FPacket(b))
<1> DEFINE h == FField(Len(b))
           p == FPacket(b)
<1>0. b \in Seq(FByte) /\ Len(b) \in Nat
  BY FWords
<1>1. FZeros \in Nat /\ FZeros > 0 /\ FHeader = 2 * FZeros
  BY FSizes
<1>2. FZero \in Seq(FByte) /\ Len(FZero) = FZeros /\ \A k \in 1..FZeros : FZero[k] = 0
  <2>1. FZero \in [1..FZeros -> FByte] /\ \A k \in 1..FZeros : FZero[k] = 0
    BY FDigits DEF FZero
  <2> QED BY <1>1, <2>1, BytesAre
<1>3. /\ h \in Seq(FByte) /\ Len(h) = FZeros
      /\ FValue(h) = Len(b)
  <2>1. h \in [1..FZeros -> FByte] /\ FValue(h) = Len(b)
    BY FieldHolds
  <2> HIDE DEF h
  <2> QED BY <1>1, <2>1, BytesAre
<1> DEFINE front == FZero \o h
           one == <<1>>
           rest == b \o one
<1>4. p = (front \o b) \o one
  BY DEF FPacket
<1> HIDE DEF p
<1>8. /\ one \in Seq(FByte) /\ Len(one) = 1
      /\ front \in Seq(FByte) /\ Len(front) = FZeros + FZeros
      /\ \A k \in 1..FZeros + FZeros : front[k] = IF k <= FZeros THEN FZero[k] ELSE h[k - FZeros]
  <2>1. one \in Seq(FByte) /\ Len(one) = 1
    BY FDigits
  <2> HIDE DEF one, h
  <2>2. /\ front \in Seq(FByte) /\ Len(front) = Len(FZero) + Len(h)
        /\ \A k \in 1..Len(FZero) + Len(h) :
              front[k] = IF k <= Len(FZero) THEN FZero[k] ELSE h[k - Len(FZero)]
    BY <1>2, <1>3, ConcatProperties
  <2> QED BY <1>2, <1>3, <2>1, <2>2
<1> HIDE DEF h
<1> HIDE DEF front, one
<1>6. /\ p \in Seq(FByte) /\ Len(p) = FHeader + Len(b) + 1
      /\ \A k \in 1..FHeader : p[k] = front[k]
  <2>1. p = front \o rest
    <3>1. (front \o b) \o one = front \o (b \o one)
      <4>1. front \in Seq(FByte) /\ b \in Seq(FByte) /\ one \in Seq(FByte)
        BY <1>0, <1>8
      <4> QED BY <4>1
    <3> QED BY <1>4, <3>1
  <2>2. rest \in Seq(FByte) /\ Len(rest) = Len(b) + 1
    <3>1. b \o one \in Seq(FByte) /\ Len(b \o one) = Len(b) + Len(one)
      BY <1>0, <1>8, ConcatProperties
    <3> QED BY <1>8, <3>1
  <2> HIDE DEF rest
  <2>3. /\ p \in Seq(FByte) /\ Len(p) = Len(front) + Len(rest)
        /\ \A k \in 1..Len(front) + Len(rest) :
              p[k] = IF k <= Len(front) THEN front[k] ELSE rest[k - Len(front)]
    BY <1>8, <2>1, <2>2, ConcatProperties
  <2>4. Len(front) = FHeader
    <3>1. Len(front) = FZeros + FZeros
      BY <1>8
    <3> QED BY <1>1, <3>1
  <2>5. Len(p) = FHeader + Len(b) + 1
    <3>1. Len(p) = Len(front) + Len(rest) /\ Len(rest) = Len(b) + 1 /\ Len(b) \in Nat
      BY <1>0, <2>2, <2>3
    <3> DEFINE l == Len(b)
               r == Len(rest)
    <3>2. l \in Nat /\ r = l + 1 /\ Len(p) = FHeader + r
      BY <2>4, <3>1
    <3> HIDE DEF l, r
    <3>3. Len(p) = FHeader + l + 1
      BY <1>1, <3>2
    <3> QED BY <3>3 DEF l
  <2>6. \A k \in 1..FHeader : p[k] = front[k]
    <3> TAKE k \in 1..FHeader
    <3>1. Len(rest) \in Nat
      BY <2>2, LenProperties
    <3>2. k \in 1..Len(front) + Len(rest) /\ k <= Len(front)
      BY <1>1, <2>4, <3>1
    <3> QED BY <2>3, <3>2
  <2> QED BY <2>3, <2>5, <2>6
<1>7. ASSUME NEW k \in 1..FZeros PROVE p[k] = 0 /\ p[FZeros + k] = h[k]
  <2>1. k \in 1..FHeader /\ FZeros + k \in 1..FHeader
    BY <1>1
  <2>2. front[k] = FZero[k] /\ front[FZeros + k] = h[k]
    <3> DEFINE j == FZeros + k
    <3>1. /\ k \in 1..FZeros + FZeros /\ j \in 1..FZeros + FZeros /\ k <= FZeros
          /\ ~(j <= FZeros) /\ j - FZeros = k
      BY <1>1
    <3> HIDE DEF j
    <3>2. front[k] = FZero[k] /\ front[j] = h[k]
      BY <1>8, <3>1
    <3> QED BY <3>2 DEF j
  <2> QED BY <1>2, <1>6, <2>1, <2>2
<1>9. FLength(p) = Len(b)
  <2> DEFINE g == SubSeq(p, FZeros + 1, FHeader)
  <2>1. g \in Seq(FByte) /\ Len(g) = FZeros /\ \A k \in 1..FZeros : g[k] = p[FZeros + k]
    <3> DEFINE l == Len(b)
    <3>1. l \in Nat /\ Len(p) = FHeader + l + 1
      BY <1>0, <1>6
    <3> HIDE DEF l
    <3>2. Len(p) >= FHeader
      BY <1>1, <3>1
    <3> QED BY <1>6, <3>2, FieldIs
  <2> HIDE DEF g
  <2>2. \A k \in 1..FZeros : g[k] = h[k]
    BY <1>7, <2>1
  <2>3. g = h
    BY <1>3, <2>1, <2>2, SeqEqual
  <2> QED BY <1>3, <2>3 DEF FLength, g
<1>10. FFull(p) = Len(p) /\ Len(p) > FHeader
  <2>1. FSum = 1 /\ FFull(p) = FHeader + FLength(p) + FSum
    BY FSizes DEF FFull
  <2>2. Len(p) = FHeader + Len(b) + 1 /\ Len(b) \in Nat
    BY <1>0, <1>6
  <2> DEFINE l == Len(b)
  <2>3. l \in Nat /\ Len(p) = FHeader + l + 1 /\ FFull(p) = FHeader + l + 1
    BY <1>9, <2>1, <2>2
  <2> HIDE DEF l
  <2> QED BY <1>1, <2>3
<1> QED BY <1>6, <1>7, <1>10 DEF Packet, p

(* A buffer that starts with all of a packet's header says its length.        *)
LEMMA FullIsLocal ==
    ASSUME NEW s \in Seq(FByte), NEW p, Packet(p), Len(s) >= FHeader,
           \A k \in 1..FHeader : s[k] = p[k]
    PROVE  FFull(s) = Len(p)
<1>1. FZeros \in Nat /\ FZeros > 0 /\ FHeader = 2 * FZeros
  BY FSizes
<1>2. p \in Seq(FByte) /\ Len(p) \in Nat /\ Len(p) > FHeader
  BY DEF Packet
<1>3. SubSeq(s, FZeros + 1, FHeader) = SubSeq(p, FZeros + 1, FHeader)
  <2> DEFINE g == SubSeq(s, FZeros + 1, FHeader)
             h == SubSeq(p, FZeros + 1, FHeader)
  <2>1. /\ g \in Seq(FByte) /\ Len(g) = FZeros /\ \A k \in 1..FZeros : g[k] = s[FZeros + k]
        /\ h \in Seq(FByte) /\ Len(h) = FZeros /\ \A k \in 1..FZeros : h[k] = p[FZeros + k]
    <3>1. Len(p) >= FHeader
      BY <1>1, <1>2
    <3> QED BY <1>2, <3>1, FieldIs
  <2> HIDE DEF g, h
  <2>2. \A k \in 1..FZeros : g[k] = h[k]
    <3> TAKE k \in 1..FZeros
    <3>1. FZeros + k \in 1..FHeader
      BY <1>1
    <3> QED BY <2>1, <3>1
  <2>3. g = h
    BY <2>1, <2>2, SeqEqual
  <2> QED BY <2>3 DEF g, h
<1>4. FLength(s) = FLength(p)
  BY <1>3 DEF FLength
<1> QED BY <1>4 DEF Packet, FFull

-----------------------------------------------------------------------------
(* The stream s carries the packets ps at the positions `at`: apart, in their *)
(* order, and with every zero of the stream in one of them.                   *)
Carries(s, ps, at) ==
    /\ \A i \in 1..Len(ps) : at[i] \in Nat \ {0} /\ at[i] + Len(ps[i]) - 1 <= Len(s)
    /\ \A i \in 1..Len(ps) : \A k \in 1..Len(ps[i]) : s[at[i] + k - 1] = ps[i][k]
    /\ \A i \in 1..Len(ps) : \A j \in i + 1..Len(ps) : at[i] + Len(ps[i]) <= at[j]
    /\ \A x \in 1..Len(s) : s[x] = 0 => \E i \in 1..Len(ps) : at[i] <= x /\ x < at[i] + Len(ps[i])

WholePackets(ps) == ps \in Seq(Seq(FByte)) /\ \A i \in 1..Len(ps) : Packet(ps[i])

LEMMA Later ==
    ASSUME NEW a \in Int, NEW l \in Int, NEW n \in Int, NEW m \in Int, n < a, a + l - 1 <= m
    PROVE  a - n \in Nat \ {0} /\ (a - n) + l - 1 <= m - n
OBVIOUS

LEMMA Apart ==
    ASSUME NEW a \in Int, NEW l \in Int, NEW n \in Int, NEW b \in Int, a + l <= b
    PROVE  (a - n) + l <= b - n
OBVIOUS

LEMMA Moves ==
    ASSUME NEW a \in Int, NEW l \in Int, NEW n \in Int, NEW m \in Int, NEW k \in Int,
           n < a, a + l - 1 <= m, 1 <= k, k <= l, 0 <= n
    PROVE  (a - n) + k - 1 \in 1..m - n /\ n + ((a - n) + k - 1) = a + k - 1
OBVIOUS

LEMMA FromIs ==
    ASSUME NEW S, NEW s \in Seq(S), NEW n \in 0..Len(s)
    PROVE  /\ FFrom(s, n + 1) \in Seq(S) /\ Len(FFrom(s, n + 1)) = Len(s) - n
           /\ \A k \in 1..Len(s) - n : FFrom(s, n + 1)[k] = s[n + k]
<1> DEFINE m == n + 1
           L == Len(s)
<1>1. L \in Nat /\ n \in 0..L
  OBVIOUS
<1>2. \A k \in m..L : s[k] \in S
  BY <1>1, ElementOfSeq
<1>3. m \in Int /\ L \in Int
  BY <1>1
<1> HIDE DEF m, L
<1>4. /\ SubSeq(s, m, L) \in Seq(S) /\ Len(SubSeq(s, m, L)) = IF m <= L THEN L - m + 1 ELSE 0
      /\ \A k \in 1..L - m + 1 : SubSeq(s, m, L)[k] = s[m + k - 1]
  BY <1>2, <1>3, SubSeqProperties
<1>5. Len(SubSeq(s, m, L)) = L - n
  BY <1>1, <1>4 DEF m
<1>6. \A k \in 1..L - n : SubSeq(s, m, L)[k] = s[n + k]
  <2> TAKE k \in 1..L - n
  <2>1. k \in 1..L - m + 1 /\ m + k - 1 = n + k
    BY <1>1 DEF m
  <2> QED BY <1>4, <2>1
<1> QED BY <1>4, <1>5, <1>6 DEF FFrom, m, L

(* Bytes before the first packet can be left out.                             *)
LEMMA SkipCarries ==
    ASSUME NEW s \in Seq(FByte), NEW ps, WholePackets(ps), NEW at, Carries(s, ps, at),
           NEW n \in 0..Len(s), \A i \in 1..Len(ps) : at[i] > n
    PROVE  Carries(FFrom(s, n + 1), ps, [i \in 1..Len(ps) |-> at[i] - n])
<1> DEFINE t == FFrom(s, n + 1)
           to == [i \in 1..Len(ps) |-> at[i] - n]
<1>1. Len(s) \in Nat /\ n \in Nat /\ n <= Len(s) /\ Len(ps) \in Nat
  BY DEF WholePackets
<1>2. Len(t) = Len(s) - n /\ \A k \in 1..Len(s) - n : t[k] = s[n + k]
  BY FromIs
<1>3. \A i \in 1..Len(ps) : at[i] \in Nat /\ at[i] > n /\ Len(ps[i]) \in Nat
  <2>1. \A i \in 1..Len(ps) : ps[i] \in Seq(FByte)
    BY DEF WholePackets, Packet
  <2> QED BY <2>1 DEF Carries
<1>4. \A i \in 1..Len(ps) : to[i] = at[i] - n
  OBVIOUS
<1> HIDE DEF t, to
<1>5. ASSUME NEW i \in 1..Len(ps) PROVE to[i] \in Nat \ {0} /\ to[i] + Len(ps[i]) - 1 <= Len(t)
  <2>1. at[i] + Len(ps[i]) - 1 <= Len(s)
    BY DEF Carries
  <2> DEFINE a == at[i]
             l == Len(ps[i])
             m == Len(s)
  <2>2. /\ a \in Int /\ l \in Int /\ n \in Int /\ m \in Int /\ n < a /\ a + l - 1 <= m
        /\ to[i] = a - n /\ Len(t) = m - n
    <3>1. at[i] \in Nat /\ at[i] > n /\ Len(ps[i]) \in Nat /\ to[i] = at[i] - n
      BY <1>3, <1>4
    <3>2. Len(t) = Len(s) - n
      BY <1>2
    <3> QED BY <1>1, <2>1, <3>1, <3>2
  <2> HIDE DEF a, l, m
  <2>3. a - n \in Nat \ {0} /\ (a - n) + l - 1 <= m - n
    BY <2>2, Later
  <2> QED BY <2>2, <2>3 DEF l
<1>6. ASSUME NEW i \in 1..Len(ps), NEW k \in 1..Len(ps[i]) PROVE t[to[i] + k - 1] = ps[i][k]
  <2>0. /\ to[i] \in Nat \ {0} /\ to[i] + Len(ps[i]) - 1 <= Len(t) /\ to[i] = at[i] - n
        /\ at[i] \in Nat /\ Len(ps[i]) \in Nat /\ Len(t) = Len(s) - n
    BY <1>2, <1>3, <1>4, <1>5
  <2>1. to[i] + k - 1 \in 1..Len(s) - n /\ n + (to[i] + k - 1) = at[i] + k - 1
    <3> DEFINE a == at[i]
               l == Len(ps[i])
               m == Len(s)
    <3>1. /\ a \in Int /\ l \in Int /\ n \in Int /\ m \in Int /\ k \in Int
          /\ n < a /\ a + l - 1 <= m /\ 1 <= k /\ k <= l /\ 0 <= n
      BY <1>1, <1>3, <2>0 DEF Carries
    <3> HIDE DEF a, l, m
    <3>2. (a - n) + k - 1 \in 1..m - n /\ n + ((a - n) + k - 1) = a + k - 1
      BY <3>1, Moves
    <3> QED BY <2>0, <3>2 DEF a, m
  <2>2. t[to[i] + k - 1] = s[at[i] + k - 1]
    BY <1>2, <2>1
  <2> QED BY <2>2 DEF Carries
<1>7. ASSUME NEW i \in 1..Len(ps), NEW j \in i + 1..Len(ps) PROVE to[i] + Len(ps[i]) <= to[j]
  <2>1. at[i] + Len(ps[i]) <= at[j] /\ j \in 1..Len(ps)
    BY <1>1 DEF Carries
  <2> DEFINE a == at[i]
             l == Len(ps[i])
             b == at[j]
  <2>2. /\ a \in Int /\ l \in Int /\ n \in Int /\ b \in Int /\ a + l <= b
        /\ to[i] = a - n /\ to[j] = b - n
    <3>1. /\ at[i] \in Nat /\ Len(ps[i]) \in Nat /\ to[i] = at[i] - n
          /\ at[j] \in Nat /\ to[j] = at[j] - n
      BY <1>3, <1>4, <2>1
    <3> QED BY <1>1, <2>1, <3>1
  <2> HIDE DEF a, l, b
  <2>3. (a - n) + l <= b - n
    BY <2>2, Apart
  <2> QED BY <2>2, <2>3 DEF l
<1>8. ASSUME NEW x \in 1..Len(t), t[x] = 0
      PROVE  \E i \in 1..Len(ps) : to[i] <= x /\ x < to[i] + Len(ps[i])
  <2>1. n + x \in 1..Len(s) /\ x \in Nat /\ s[n + x] = 0
    BY <1>1, <1>2, <1>8
  <2>2. PICK i \in 1..Len(ps) : at[i] <= n + x /\ n + x < at[i] + Len(ps[i])
    BY <2>1 DEF Carries
  <2>3. to[i] <= x /\ x < to[i] + Len(ps[i])
    BY <1>1, <1>3, <1>4, <2>1, <2>2
  <2> QED BY <2>3
<1>9. Carries(t, ps, to)
  BY <1>5, <1>6, <1>7, <1>8 DEF Carries
<1> QED BY <1>9 DEF t, to

(* A packet at the head of the stream is the first, and can be taken away.    *)
LEMMA TakeCarries ==
    ASSUME NEW s \in Seq(FByte), NEW ps, WholePackets(ps), ps # <<>>, NEW at, Carries(s, ps, at), at[1] = 1
    PROVE  /\ Len(ps[1]) \in 1..Len(s) /\ WholePackets(Tail(ps))
           /\ Carries(FFrom(s, Len(ps[1]) + 1), Tail(ps),
                      [i \in 1..Len(ps) - 1 |-> at[i + 1] - Len(ps[1])])
<1> DEFINE n == Len(ps[1])
           t == FFrom(s, n + 1)
           qs == Tail(ps)
           to == [i \in 1..Len(ps) - 1 |-> at[i + 1] - n]
<1>1. /\ Len(s) \in Nat /\ Len(ps) \in Nat /\ Len(ps) > 0
      /\ \A i \in 1..Len(ps) : Len(ps[i]) \in Nat /\ Len(ps[i]) > 0
  <2>1. ps \in Seq(Seq(FByte)) /\ FHeader \in Nat
    BY FSizes DEF WholePackets
  <2> QED BY <2>1 DEF WholePackets, Packet
<1>2. n \in 1..Len(s)
  BY <1>1 DEF Carries
<1>3. /\ Len(qs) = Len(ps) - 1 /\ qs \in Seq(Seq(FByte))
      /\ \A i \in 1..Len(ps) - 1 : qs[i] = ps[i + 1]
  BY <1>1 DEF WholePackets
<1>4. WholePackets(qs)
  <2>1. \A i \in 1..Len(qs) : i + 1 \in 1..Len(ps)
    BY <1>1, <1>3
  <2> QED BY <1>3, <2>1 DEF WholePackets
<1> HIDE DEF n
<1>5. Len(t) = Len(s) - n /\ \A k \in 1..Len(s) - n : t[k] = s[n + k]
  BY <1>2, FromIs
<1>6. \A i \in 1..Len(qs) : /\ i + 1 \in 1..Len(ps) /\ to[i] = at[i + 1] - n
                            /\ qs[i] = ps[i + 1]
  BY <1>1, <1>3
<1> HIDE DEF t, to, qs
<1>7. \A j \in 2..Len(ps) : at[j] \in Nat /\ 1 + n <= at[j]
  BY <1>1 DEF Carries, n
<1>8. ASSUME NEW i \in 1..Len(qs) PROVE to[i] \in Nat \ {0} /\ to[i] + Len(qs[i]) - 1 <= Len(t)
  <2>1. at[i + 1] + Len(ps[i + 1]) - 1 <= Len(s) /\ Len(ps[i + 1]) \in Nat
    BY <1>1, <1>6 DEF Carries
  <2>2. i + 1 \in 2..Len(ps)
    BY <1>1, <1>3
  <2>3. /\ at[i + 1] \in Nat /\ 1 + n <= at[i + 1] /\ to[i] = at[i + 1] - n
        /\ qs[i] = ps[i + 1] /\ n \in Nat /\ Len(t) = Len(s) - n
    BY <1>2, <1>5, <1>6, <1>7, <2>2
  <2>4. Len(s) \in Nat
    BY <1>1
  <2> DEFINE a == at[i + 1]
             l == Len(ps[i + 1])
             m == Len(s)
  <2>5. /\ a \in Nat /\ l \in Nat /\ m \in Nat /\ n \in Nat /\ 1 + n <= a /\ a + l - 1 <= m
        /\ to[i] = a - n /\ Len(qs[i]) = l /\ Len(t) = m - n
    BY <2>1, <2>3, <2>4
  <2> HIDE DEF a, l, m
  <2>6. a - n \in Nat \ {0} /\ (a - n) + l - 1 <= m - n
    BY <2>5
  <2> QED BY <2>5, <2>6
<1>9. ASSUME NEW i \in 1..Len(qs), NEW k \in 1..Len(qs[i]) PROVE t[to[i] + k - 1] = qs[i][k]
  <2>1. i + 1 \in 2..Len(ps) /\ Len(qs[i]) \in Nat /\ k \in Nat
    BY <1>1, <1>3, <1>6
  <2>0. /\ at[i + 1] \in Nat /\ to[i] = at[i + 1] - n /\ n \in Nat /\ Len(t) = Len(s) - n
        /\ to[i] \in Nat \ {0} /\ to[i] + Len(qs[i]) - 1 <= Len(t)
    BY <1>2, <1>5, <1>6, <1>7, <1>8, <2>1
  <2>2. to[i] + k - 1 \in 1..Len(s) - n /\ n + (to[i] + k - 1) = at[i + 1] + k - 1
    <3> DEFINE a == at[i + 1]
               l == Len(qs[i])
               m == Len(s)
    <3>1. /\ a \in Int /\ l \in Int /\ n \in Int /\ m \in Int /\ k \in Int
          /\ n < a /\ a + l - 1 <= m /\ 1 <= k /\ k <= l /\ 0 <= n
      <4>1. m \in Int
        BY <1>1
      <4>2. a - n \in Nat /\ a - n # 0 /\ (a - n) + l - 1 <= m - n
        BY <2>0
      <4> HIDE DEF a, l, m
      <4>3. a \in Int /\ l \in Int /\ n \in Nat /\ k \in 1..l
        BY <2>0, <2>1 DEF a, l
      <4> QED BY <4>1, <4>2, <4>3
    <3> HIDE DEF a, l, m
    <3>2. (a - n) + k - 1 \in 1..m - n /\ n + ((a - n) + k - 1) = a + k - 1
      BY <3>1, Moves
    <3> QED BY <2>0, <3>2 DEF a, m
  <2>3. t[to[i] + k - 1] = s[at[i + 1] + k - 1]
    BY <1>5, <2>2
  <2>4. qs[i] = ps[i + 1] /\ i + 1 \in 1..Len(ps)
    BY <1>6
  <2>5. s[at[i + 1] + k - 1] = ps[i + 1][k]
    BY <2>4 DEF Carries
  <2> QED BY <2>3, <2>4, <2>5
<1>10. ASSUME NEW i \in 1..Len(qs), NEW j \in i + 1..Len(qs) PROVE to[i] + Len(qs[i]) <= to[j]
  <2>1. i + 1 \in 1..Len(ps) /\ j + 1 \in (i + 1) + 1..Len(ps) /\ j \in 1..Len(qs)
    BY <1>1, <1>3
  <2>2. at[i + 1] + Len(ps[i + 1]) <= at[j + 1] /\ Len(ps[i + 1]) \in Nat
    BY <1>1, <2>1 DEF Carries
  <2>3. i + 1 \in 2..Len(ps) /\ j + 1 \in 2..Len(ps)
    BY <1>1, <1>3
  <2>4. at[i + 1] \in Nat /\ at[j + 1] \in Nat /\ n \in Nat
    BY <1>2, <1>7, <2>3
  <2>5. to[i] = at[i + 1] - n /\ to[j] = at[j + 1] - n /\ qs[i] = ps[i + 1]
    BY <1>6, <2>1
  <2> DEFINE a == at[i + 1]
             l == Len(ps[i + 1])
             b == at[j + 1]
  <2>6. /\ a \in Int /\ l \in Int /\ n \in Int /\ b \in Int /\ a + l <= b
        /\ to[i] = a - n /\ to[j] = b - n /\ Len(qs[i]) = l
    BY <2>2, <2>4, <2>5
  <2> HIDE DEF a, l, b
  <2>7. (a - n) + l <= b - n
    BY <2>6, Apart
  <2> QED BY <2>6, <2>7
<1>11. ASSUME NEW x \in 1..Len(t), t[x] = 0
       PROVE  \E i \in 1..Len(qs) : to[i] <= x /\ x < to[i] + Len(qs[i])
  <2>1. n + x \in 1..Len(s) /\ x \in Nat /\ x > 0 /\ s[n + x] = 0 /\ n \in Nat
    BY <1>1, <1>2, <1>5, <1>11
  <2>2. PICK i \in 1..Len(ps) : at[i] <= n + x /\ n + x < at[i] + Len(ps[i])
    BY <2>1 DEF Carries
  <2>3. i # 1
    BY <2>1, <2>2 DEF n
  <2>4. i - 1 \in 1..Len(qs) /\ i \in 2..Len(ps) /\ (i - 1) + 1 = i
    BY <1>1, <1>3, <2>3
  <2>5. to[i - 1] = at[i] - n /\ qs[i - 1] = ps[i] /\ at[i] \in Nat /\ Len(ps[i]) \in Nat
    BY <1>1, <1>6, <1>7, <2>4
  <2>6. to[i - 1] <= x /\ x < to[i - 1] + Len(qs[i - 1])
    BY <2>1, <2>2, <2>5
  <2> QED BY <2>4, <2>6
<1>12. Carries(t, qs, to)
  BY <1>8, <1>9, <1>10, <1>11 DEF Carries
<1> QED BY <1>2, <1>4, <1>12 DEF t, qs, to, n

(* A packet behind the stream, and bytes behind it none of which is zero.     *)
LEMMA AddCarries ==
    ASSUME NEW s \in Seq(FByte), NEW ps, WholePackets(ps), NEW at, Carries(s, ps, at),
           NEW p, Packet(p)
    PROVE  /\ WholePackets(Append(ps, p))
           /\ \E to : Carries(s \o p, Append(ps, p), to)
<1> DEFINE n == Len(ps)
           t == s \o p
           qs == Append(ps, p)
           to == [i \in 1..n + 1 |-> IF i = n + 1 THEN Len(s) + 1 ELSE at[i]]
<1>1. /\ p \in Seq(FByte) /\ ps \in Seq(Seq(FByte)) /\ n \in Nat /\ Len(s) \in Nat
      /\ Len(p) \in Nat /\ Len(p) > 0
  <2>1. FHeader \in Nat
    BY FSizes
  <2> QED BY <2>1 DEF Packet, WholePackets
<1>2. /\ qs \in Seq(Seq(FByte)) /\ Len(qs) = n + 1 /\ qs[n + 1] = p
      /\ \A i \in 1..n : qs[i] = ps[i]
  BY <1>1
<1>3. WholePackets(qs)
  <2>1. ASSUME NEW i \in 1..n + 1 PROVE Packet(qs[i])
    <3>1. CASE i = n + 1
      BY <1>2, <3>1
    <3>2. CASE i # n + 1
      <4>1. i \in 1..n
        BY <1>1, <3>2
      <4> QED BY <1>2, <4>1 DEF WholePackets
    <3> QED BY <3>1, <3>2
  <2> QED BY <1>2, <2>1 DEF WholePackets
<1>4. /\ t \in Seq(FByte) /\ Len(t) = Len(s) + Len(p)
      /\ \A k \in 1..Len(s) + Len(p) : t[k] = IF k <= Len(s) THEN s[k] ELSE p[k - Len(s)]
  BY <1>1, ConcatProperties
<1>5. to[n + 1] = Len(s) + 1 /\ \A i \in 1..n : to[i] = at[i]
  BY <1>1
<1> HIDE DEF t, qs, to, n
<1>6. \A i \in 1..n : /\ at[i] \in Nat \ {0} /\ at[i] + Len(ps[i]) - 1 <= Len(s)
                      /\ Len(ps[i]) \in Nat
  BY <1>1 DEF Carries, n
<1>7. ASSUME NEW i \in 1..n + 1 PROVE to[i] \in Nat \ {0} /\ to[i] + Len(qs[i]) - 1 <= Len(t)
  <2>1. CASE i = n + 1
    BY <1>1, <1>2, <1>4, <1>5, <2>1
  <2>2. CASE i # n + 1
    <3>1. i \in 1..n
      BY <1>1, <2>2
    <3>2. to[i] = at[i] /\ qs[i] = ps[i]
      BY <1>2, <1>5, <3>1
    <3> DEFINE a == at[i]
               l == Len(ps[i])
    <3>3. /\ a \in Nat \ {0} /\ l \in Nat /\ a + l - 1 <= Len(s)
          /\ to[i] = a /\ Len(qs[i]) = l /\ Len(t) = Len(s) + Len(p)
      BY <1>4, <1>6, <3>1, <3>2
    <3>4. Len(s) \in Nat /\ Len(p) \in Nat
      BY <1>1
    <3> HIDE DEF a, l
    <3> QED BY <3>3, <3>4
  <2> QED BY <2>1, <2>2
<1>8. ASSUME NEW i \in 1..n + 1, NEW k \in 1..Len(qs[i]) PROVE t[to[i] + k - 1] = qs[i][k]
  <2>1. CASE i = n + 1
    <3>1. to[i] + k - 1 = Len(s) + k /\ k \in 1..Len(p)
      BY <1>1, <1>2, <1>5, <2>1
    <3>2. Len(s) + k \in 1..Len(s) + Len(p) /\ ~(Len(s) + k <= Len(s)) /\ (Len(s) + k) - Len(s) = k
      BY <1>1, <3>1
    <3> QED BY <1>2, <1>4, <2>1, <3>1, <3>2
  <2>2. CASE i # n + 1
    <3>1. i \in 1..n
      BY <1>1, <2>2
    <3>2. to[i] = at[i] /\ qs[i] = ps[i]
      BY <1>2, <1>5, <3>1
    <3>3. s[at[i] + k - 1] = ps[i][k]
      BY <3>1, <3>2 DEF Carries, n
    <3>4. at[i] + k - 1 \in 1..Len(s)
      <4>1. /\ at[i] \in Nat /\ at[i] # 0 /\ at[i] + Len(ps[i]) - 1 <= Len(s)
            /\ Len(ps[i]) \in Nat /\ k \in 1..Len(ps[i])
        BY <1>6, <3>1, <3>2
      <4>2. Len(s) \in Nat
        BY <1>1
      <4> DEFINE a == at[i]
                 l == Len(ps[i])
      <4>3. a \in Nat /\ a # 0 /\ a + l - 1 <= Len(s) /\ l \in Nat /\ k \in 1..l
        BY <4>1
      <4> HIDE DEF a, l
      <4>4. a + k - 1 \in 1..Len(s)
        BY <4>2, <4>3
      <4> QED BY <4>4 DEF a
    <3>5. t[at[i] + k - 1] = s[at[i] + k - 1]
      <4> DEFINE x == at[i] + k - 1
      <4>1. x \in 1..Len(s) + Len(p) /\ x <= Len(s)
        BY <1>1, <3>4
      <4> HIDE DEF x
      <4>2. t[x] = s[x]
        BY <1>4, <4>1
      <4> QED BY <4>2 DEF x
    <3> QED BY <3>2, <3>3, <3>5
  <2> QED BY <2>1, <2>2
<1>9. ASSUME NEW i \in 1..n + 1, NEW j \in i + 1..n + 1 PROVE to[i] + Len(qs[i]) <= to[j]
  <2>1. i \in 1..n
    BY <1>1
  <2>2. to[i] = at[i] /\ qs[i] = ps[i]
    BY <1>2, <1>5, <2>1
  <2>3. CASE j = n + 1
    <3>1. to[j] = Len(s) + 1 /\ Len(s) \in Nat
      BY <1>1, <1>5, <2>3
    <3> DEFINE a == at[i]
               l == Len(ps[i])
    <3>2. a \in Nat /\ l \in Nat /\ a + l - 1 <= Len(s)
      BY <1>6, <2>1
    <3>3. to[i] = a /\ Len(qs[i]) = l
      BY <2>2
    <3> HIDE DEF a, l
    <3> QED BY <3>1, <3>2, <3>3
  <2>4. CASE j # n + 1
    <3>1. j \in i + 1..n /\ j \in 1..n
      BY <1>1, <2>4
    <3>2. to[j] = at[j] /\ at[i] + Len(ps[i]) <= at[j]
      BY <1>5, <2>1, <3>1 DEF Carries, n
    <3> QED BY <2>2, <3>2
  <2> QED BY <2>3, <2>4
<1>10. ASSUME NEW x \in 1..Len(t), t[x] = 0
       PROVE  \E i \in 1..n + 1 : to[i] <= x /\ x < to[i] + Len(qs[i])
  <2>1. CASE x <= Len(s)
    <3>1. x \in 1..Len(s) /\ s[x] = 0
      BY <1>1, <1>4, <1>10, <2>1
    <3>2. PICK i \in 1..n : at[i] <= x /\ x < at[i] + Len(ps[i])
      BY <3>1 DEF Carries, n
    <3>3. to[i] = at[i] /\ qs[i] = ps[i] /\ i \in 1..n + 1
      <4>1. i \in 1..n + 1
        BY <1>1
      <4> QED BY <1>2, <1>5, <4>1
    <3> QED BY <3>2, <3>3
  <2>2. CASE ~(x <= Len(s))
    <3>1. to[n + 1] <= x /\ x < to[n + 1] + Len(qs[n + 1]) /\ n + 1 \in 1..n + 1
      <4>1. to[n + 1] = Len(s) + 1 /\ qs[n + 1] = p /\ Len(t) = Len(s) + Len(p)
        BY <1>1, <1>2, <1>4, <1>5
      <4>2. Len(s) \in Nat /\ Len(p) \in Nat /\ n \in Nat
        BY <1>1
      <4> QED BY <2>2, <4>1, <4>2
    <3> QED BY <3>1
  <2> QED BY <2>1, <2>2
<1>11. Carries(t, qs, to)
  BY <1>2, <1>7, <1>8, <1>9, <1>10 DEF Carries
<1> QED BY <1>3, <1>11 DEF t, qs

LEMMA NoiseCarries ==
    ASSUME NEW s \in Seq(FByte), NEW ps, WholePackets(ps), NEW at, Carries(s, ps, at),
           NEW q \in Seq(FByte), ~Contains(q, 0)
    PROVE  Carries(s \o q, ps, at)
<1> DEFINE t == s \o q
           n == Len(ps)
<1>1. Len(s) \in Nat /\ Len(q) \in Nat /\ n \in Nat
  BY DEF WholePackets
<1>2. /\ Len(t) = Len(s) + Len(q)
      /\ \A k \in 1..Len(s) + Len(q) : t[k] = IF k <= Len(s) THEN s[k] ELSE q[k - Len(s)]
  BY ConcatProperties
<1> HIDE DEF t, n
<1>3. \A i \in 1..n : /\ at[i] \in Nat \ {0} /\ at[i] + Len(ps[i]) - 1 <= Len(s)
                      /\ Len(ps[i]) \in Nat
  <2>1. \A i \in 1..Len(ps) : at[i] \in Nat \ {0} /\ at[i] + Len(ps[i]) - 1 <= Len(s)
    BY DEF Carries
  <2>2. ASSUME NEW i \in 1..Len(ps) PROVE Len(ps[i]) \in Nat
    <3>1. ps[i] \in Seq(FByte)
      BY DEF WholePackets
    <3> QED BY <3>1, LenProperties
  <2> QED BY <2>1, <2>2 DEF n
<1>4. ASSUME NEW i \in 1..n
      PROVE  at[i] \in Nat \ {0} /\ at[i] + Len(ps[i]) - 1 <= Len(t)
  <2> DEFINE a == at[i]
             l == Len(ps[i])
  <2>1. a \in Nat \ {0} /\ a + l - 1 <= Len(s) /\ l \in Nat
    BY <1>3
  <2>2. Len(t) = Len(s) + Len(q)
    BY <1>2
  <2> HIDE DEF a, l
  <2>3. a \in Nat \ {0} /\ a + l - 1 <= Len(t)
    BY <1>1, <2>1, <2>2
  <2> QED BY <2>3 DEF a, l
<1>5. ASSUME NEW i \in 1..n, NEW k \in 1..Len(ps[i]) PROVE t[at[i] + k - 1] = ps[i][k]
  <2> DEFINE x == at[i] + k - 1
  <2>1. x \in 1..Len(s)
    <3>1. /\ at[i] \in Nat /\ at[i] # 0 /\ at[i] + Len(ps[i]) - 1 <= Len(s)
          /\ Len(ps[i]) \in Nat
      BY <1>3
    <3> QED BY <1>1, <3>1
  <2>2. s[x] = ps[i][k]
    BY DEF Carries, n
  <2> HIDE DEF x
  <2>3. t[x] = s[x]
    BY <1>1, <1>2, <2>1
  <2> QED BY <2>2, <2>3 DEF x
<1>6. ASSUME NEW x \in 1..Len(t), t[x] = 0
      PROVE  \E i \in 1..n : at[i] <= x /\ x < at[i] + Len(ps[i])
  <2>1. x <= Len(s)
    <3>1. SUFFICES ASSUME ~(x <= Len(s)) PROVE FALSE
      OBVIOUS
    <3>2. x - Len(s) \in 1..Len(q) /\ x \in 1..Len(s) + Len(q)
      BY <1>1, <1>2, <3>1
    <3>3. q[x - Len(s)] = 0
      BY <1>2, <1>6, <3>1, <3>2
    <3> QED BY <3>2, <3>3 DEF Contains
  <2>2. x \in 1..Len(s) /\ s[x] = 0
    BY <1>1, <1>2, <1>6, <2>1
  <2> QED BY <2>2 DEF Carries, n
<1>7. Carries(t, ps, at)
  BY <1>4, <1>5, <1>6 DEF Carries, n
<1> QED BY <1>7 DEF t

-----------------------------------------------------------------------------
(* The loop.                                                                  *)

LEMMA StartIs ==
    ASSUME NEW s \in Seq(FByte), NEW i \in 1..Len(s) - FZeros + 1
    PROVE  FStart(s, i) <=> \A k \in 1..FZeros : s[i + k - 1] = 0
<1> DEFINE e == i + FZeros - 1
           t == SubSeq(s, i, e)
<1>1. FZeros \in Nat /\ FZeros > 0 /\ Len(s) \in Nat
  BY FSizes
<1>2. i \in Int /\ e \in Int /\ i <= e /\ e - i + 1 = FZeros /\ i > 0 /\ e <= Len(s)
  BY <1>1
<1>3. \A k \in i..e : s[k] \in FByte
  <2> TAKE k \in i..e
  <2>1. k \in 1..Len(s)
    BY <1>1, <1>2
  <2> QED BY <2>1, ElementOfSeq
<1>4. FZero \in Seq(FByte) /\ Len(FZero) = FZeros /\ \A k \in 1..FZeros : FZero[k] = 0
  BY <1>1, FDigits DEF FZero
<1> HIDE DEF e
<1>5. /\ t \in Seq(FByte) /\ Len(t) = IF i <= e THEN e - i + 1 ELSE 0
      /\ \A k \in 1..e - i + 1 : t[k] = s[i + k - 1]
  BY <1>2, <1>3, SubSeqProperties
<1>6. FStart(s, i) <=> t = FZero
  BY DEF FStart, e
<1> HIDE DEF t
<1>7. Len(t) = FZeros /\ \A k \in 1..FZeros : t[k] = s[i + k - 1]
  BY <1>2, <1>5
<1>8. (\A k \in 1..FZeros : s[i + k - 1] = 0) => t = FZero
  <2>1. SUFFICES ASSUME \A k \in 1..FZeros : s[i + k - 1] = 0 PROVE t = FZero
    OBVIOUS
  <2>2. \A k \in 1..Len(t) : t[k] = FZero[k]
    BY <1>4, <1>7, <2>1
  <2> QED BY <1>4, <1>5, <1>7, <2>2, SeqEqual
<1>9. t = FZero => \A k \in 1..FZeros : s[i + k - 1] = 0
  BY <1>4, <1>7
<1> QED BY <1>6, <1>8, <1>9

LEMMA JoinFrom ==
    ASSUME NEW S, NEW s \in Seq(S), NEW w \in Seq(S), NEW n \in 0..Len(s)
    PROVE  FFrom(s, n + 1) \o w = FFrom(s \o w, n + 1)
<1> DEFINE t == FFrom(s, n + 1)
           all == s \o w
           u == FFrom(all, n + 1)
           v == t \o w
<1>1. Len(s) \in Nat /\ Len(w) \in Nat /\ n \in Nat /\ n <= Len(s)
  OBVIOUS
<1>2. /\ t \in Seq(S) /\ Len(t) = Len(s) - n
      /\ \A k \in 1..Len(s) - n : t[k] = s[n + k]
  BY FromIs
<1> HIDE DEF t
<1>3. /\ v \in Seq(S) /\ Len(v) = Len(t) + Len(w)
      /\ \A k \in 1..Len(t) + Len(w) : v[k] = IF k <= Len(t) THEN t[k] ELSE w[k - Len(t)]
  BY <1>2, ConcatProperties
<1>4. /\ all \in Seq(S) /\ Len(all) = Len(s) + Len(w)
      /\ \A k \in 1..Len(s) + Len(w) : all[k] = IF k <= Len(s) THEN s[k] ELSE w[k - Len(s)]
  BY ConcatProperties
<1> HIDE DEF v, all
<1>5. /\ u \in Seq(S) /\ Len(u) = Len(all) - n
      /\ \A k \in 1..Len(all) - n : u[k] = all[n + k]
  <2>0. all \in Seq(S) /\ Len(all) = Len(s) + Len(w)
    BY <1>4
  <2>1. n \in 0..Len(all)
    BY <1>1, <2>0
  <2> QED BY <2>0, <2>1, FromIs
<1> HIDE DEF u
<1>6. Len(u) = Len(v)
  BY <1>1, <1>2, <1>3, <1>4, <1>5
<1>7. ASSUME NEW k \in 1..Len(v) PROVE v[k] = u[k]
  <2>1. k \in Nat /\ k > 0 /\ k <= Len(s) - n + Len(w)
    BY <1>1, <1>2, <1>3
  <2>2. k \in 1..Len(t) + Len(w) /\ k \in 1..Len(all) - n /\ n + k \in 1..Len(s) + Len(w)
    BY <1>1, <1>2, <1>4, <2>1
  <2>3. u[k] = IF n + k <= Len(s) THEN s[n + k] ELSE w[(n + k) - Len(s)]
    BY <1>4, <1>5, <2>2
  <2>4. v[k] = IF k <= Len(t) THEN t[k] ELSE w[k - Len(t)]
    BY <1>3, <2>2
  <2>5. CASE k <= Len(s) - n
    <3>1. k \in 1..Len(s) - n /\ n + k <= Len(s)
      BY <1>1, <2>1, <2>5
    <3> QED BY <1>2, <2>3, <2>4, <3>1
  <2>6. CASE ~(k <= Len(s) - n)
    <3>1. ~(n + k <= Len(s)) /\ ~(k <= Len(t)) /\ (n + k) - Len(s) = k - Len(t)
      BY <1>1, <1>2, <2>1, <2>6
    <3> QED BY <2>3, <2>4, <3>1
  <2> QED BY <2>5, <2>6
<1>8. v = u
  BY <1>3, <1>5, <1>6, <1>7, SeqEqual
<1> QED BY <1>8 DEF v, u, t, all

(* In what is read of a stream: where a packet is, and what says so.          *)
LEMMA ReadIs ==
    ASSUME NEW s \in Seq(FByte), NEW w \in Seq(FByte), NEW ps, WholePackets(ps),
           NEW at, Carries(s \o w, ps, at)
    PROVE  /\ s \o w \in Seq(FByte) /\ Len(s \o w) = Len(s) + Len(w)
           /\ \A x \in 1..Len(s) : (s \o w)[x] = s[x]
           /\ \A i \in 1..Len(ps) :
                 /\ Packet(ps[i]) /\ at[i] \in Nat /\ at[i] > 0 /\ Len(ps[i]) \in Nat
                 /\ at[i] + Len(ps[i]) - 1 <= Len(s) + Len(w) /\ Len(ps[i]) > FHeader
                 /\ at[i] \in 1..Len(s) => s[at[i]] = 0
                 /\ at[i] \in 1..Len(s) - FZeros + 1 => at[i] \in FStarts(s)
<1>1. Len(s) \in Nat /\ Len(w) \in Nat /\ FZeros \in Nat /\ FZeros > 0 /\ FHeader = 2 * FZeros
  BY FSizes
<1> DEFINE t == s \o w
<1>2. t \in Seq(FByte) /\ Len(t) = Len(s) + Len(w) /\ \A x \in 1..Len(s) : t[x] = s[x]
  <2>1. /\ t \in Seq(FByte) /\ Len(t) = Len(s) + Len(w)
        /\ \A x \in 1..Len(s) + Len(w) : t[x] = IF x <= Len(s) THEN s[x] ELSE w[x - Len(s)]
    BY ConcatProperties
  <2>2. \A x \in 1..Len(s) : x \in 1..Len(s) + Len(w) /\ x <= Len(s)
    BY <1>1
  <2> QED BY <2>1, <2>2
<1> HIDE DEF t
<1>3. ASSUME NEW i \in 1..Len(ps)
      PROVE  /\ Packet(ps[i]) /\ at[i] \in Nat /\ at[i] > 0 /\ Len(ps[i]) \in Nat
             /\ at[i] + Len(ps[i]) - 1 <= Len(s) + Len(w) /\ Len(ps[i]) > FHeader
             /\ at[i] \in 1..Len(s) => s[at[i]] = 0
             /\ at[i] \in 1..Len(s) - FZeros + 1 => at[i] \in FStarts(s)
  <2>1. Packet(ps[i])
    BY DEF WholePackets
  <2>2. Len(ps[i]) \in Nat /\ Len(ps[i]) > FHeader /\ \A k \in 1..FZeros : ps[i][k] = 0
    BY <2>1 DEF Packet
  <2>3. at[i] \in Nat /\ at[i] > 0 /\ at[i] + Len(ps[i]) - 1 <= Len(s) + Len(w)
    BY <1>2 DEF Carries, t
  <2>4. ASSUME NEW k \in 1..FZeros PROVE t[at[i] + k - 1] = 0
    <3>1. k \in 1..Len(ps[i])
      BY <1>1, <2>2
    <3> QED BY <2>2, <3>1 DEF Carries, t
  <2>5. ASSUME at[i] \in 1..Len(s) PROVE s[at[i]] = 0
    <3>1. 1 \in 1..FZeros /\ at[i] + 1 - 1 = at[i]
      BY <1>1, <2>3
    <3>2. t[at[i]] = 0
      BY <2>4, <3>1
    <3> QED BY <1>2, <2>5, <3>2
  <2>6. ASSUME at[i] \in 1..Len(s) - FZeros + 1 PROVE at[i] \in FStarts(s)
    <3> DEFINE x == at[i]
    <3>1. x \in 1..Len(s) - FZeros + 1
      BY <2>6
    <3>2. ASSUME NEW k \in 1..FZeros PROVE s[x + k - 1] = 0
      <4>1. t[x + k - 1] = 0
        BY <2>4
      <4> HIDE DEF x
      <4>2. x + k - 1 \in 1..Len(s)
        BY <1>1, <3>1
      <4> QED BY <1>2, <4>1, <4>2
    <3> HIDE DEF x
    <3>3. FStart(s, x)
      BY <3>1, <3>2, StartIs
    <3>4. x \in FStarts(s)
      BY <3>1, <3>3 DEF FStarts
    <3> QED BY <3>4 DEF x
  <2> QED BY <2>1, <2>2, <2>3, <2>5, <2>6
<1> QED BY <1>2, <1>3 DEF t

LEMMA HeadIs ==
    ASSUME NEW s \in Seq(FByte), NEW w \in Seq(FByte), NEW ps, WholePackets(ps),
           NEW at, Carries(s \o w, ps, at), Len(s) > 0, s[1] = 0
    PROVE  ps # <<>> /\ at[1] = 1
<1>1. Len(s) \in Nat /\ Len(w) \in Nat /\ 1 \in 1..Len(s) /\ ps \in Seq(Seq(FByte)) /\ FHeader \in Nat
  BY FSizes DEF WholePackets
<1>2. Len(s \o w) = Len(s) + Len(w) /\ (s \o w)[1] = s[1]
  BY <1>1, ReadIs
<1>3. 1 \in 1..Len(s \o w) /\ (s \o w)[1] = 0
  BY <1>1, <1>2
<1>4. PICK i \in 1..Len(ps) : at[i] <= 1 /\ 1 < at[i] + Len(ps[i])
  BY <1>3 DEF Carries
<1>5. at[i] = 1
  <2>1. at[i] \in Nat /\ at[i] > 0
    BY ReadIs
  <2> QED BY <1>4, <2>1
<1>6. i = 1
  <2>1. SUFFICES ASSUME i # 1 PROVE FALSE
    OBVIOUS
  <2>2. Len(ps) \in Nat
    BY <1>1
  <2>3. 1 \in 1..Len(ps) /\ i \in 1 + 1..Len(ps)
    BY <2>1, <2>2
  <2>4. at[1] + Len(ps[1]) <= at[i]
    BY <2>3 DEF Carries
  <2>5. at[1] \in Nat /\ at[1] > 0 /\ Len(ps[1]) \in Nat /\ Len(ps[1]) > FHeader
    BY <2>3, ReadIs
  <2> QED BY <1>1, <1>5, <2>4, <2>5
<1> QED BY <1>4, <1>5, <1>6

(* What was cut off, and what the rest of the stream carries, is what was sent.*)
Owes(frames, s, sent) ==
    \E ps : WholePackets(ps) /\ sent = frames \o ps /\ \E at : Carries(s, ps, at)

FLoops == [frames : Seq(Seq(FByte)), rest : Seq(FByte), dropped : Seq(FByte), on : BOOLEAN]

(* A loop that began with the frames `before`, while w is not yet read.       *)
Settles(l, before, w, sent) ==
    /\ l \in FLoops /\ (l.on => l.dropped = <<>>)
    /\ ~Contains(l.dropped, 0) =>
           /\ Owes(before \o l.frames, l.rest \o w, sent)
           /\ ~l.on /\ w = <<>> => before \o l.frames = sent

LEMMA NothingOwed ==
    ASSUME NEW frames \in Seq(Seq(FByte)), NEW ps, NEW sent, sent = frames \o ps, ps = <<>>
    PROVE  frames = sent
OBVIOUS

(* The loop ends with the buffer as it is.                                    *)
LEMMA PassedOver ==
    ASSUME NEW before \in Seq(Seq(FByte)), NEW w \in Seq(FByte), NEW sent,
           NEW l, Settles(l, before, w, sent), l.on,
           ASSUME NEW ps, WholePackets(ps), NEW at, Carries(l.rest \o w, ps, at), w = <<>>
           PROVE  ps = <<>>
    PROVE  Settles([l EXCEPT !.on = FALSE], before, w, sent)
<1> DEFINE m == [l EXCEPT !.on = FALSE]
<1>1. l \in FLoops
  BY DEF Settles
<1>2. /\ m \in FLoops /\ m.frames = l.frames /\ m.rest = l.rest /\ m.dropped = l.dropped
      /\ ~m.on
  BY <1>1 DEF FLoops
<1>3. l.frames \in Seq(Seq(FByte)) /\ l.dropped = <<>>
  BY <1>1 DEF FLoops, Settles
<1>4. ~Contains(l.dropped, 0)
  BY <1>3 DEF Contains
<1>5. Owes(before \o l.frames, l.rest \o w, sent)
  BY <1>4 DEF Settles
<1>6. ASSUME w = <<>> PROVE before \o l.frames = sent
  <2> DEFINE done == before \o l.frames
  <2>1. PICK ps : WholePackets(ps) /\ sent = done \o ps /\ \E at : Carries(l.rest \o w, ps, at)
    BY <1>5 DEF Owes
  <2>2. ps = <<>>
    BY <1>6, <2>1
  <2>3. done \in Seq(Seq(FByte))
    BY <1>3, ConcatProperties
  <2> HIDE DEF done
  <2>4. done = sent
    BY <2>1, <2>2, <2>3, NothingOwed
  <2> QED BY <2>4 DEF done
<1> HIDE DEF m
<1>7. Settles(m, before, w, sent)
  BY <1>2, <1>5, <1>6 DEF Settles
<1> QED BY <1>7 DEF m

(* The first preamble of what was read is where the next packet is.           *)
LEMMA SkipKeeps ==
    ASSUME NEW s \in Seq(FByte), NEW w \in Seq(FByte), NEW frames, NEW sent,
           Owes(frames, s \o w, sent), Len(s) >= FHeader, ~FStart(s, 1), FStarts(s) # {}
    PROVE  /\ FFrom(s, FFirst(s)) \in Seq(FByte) /\ Len(FFrom(s, FFirst(s))) < Len(s)
           /\ Owes(frames, FFrom(s, FFirst(s)) \o w, sent)
<1>1. Len(s) \in Nat /\ FZeros \in Nat /\ FZeros > 0 /\ FHeader = 2 * FZeros
  BY FSizes
<1>2. FStarts(s) \in SUBSET Nat /\ \A i \in FStarts(s) : i \in 1..Len(s) - FZeros + 1 /\ FStart(s, i)
  BY <1>1 DEF FStarts
<1>3. \E m \in FStarts(s) : \A k \in FStarts(s) : m <= k
  BY <1>2, LeastNatural
<1> DEFINE f == FFirst(s)
           n == f - 1
<1>4. f \in FStarts(s) /\ \A k \in FStarts(s) : f <= k
  BY <1>3 DEF FFirst
<1> HIDE DEF f
<1>5. f \in 1..Len(s) - FZeros + 1 /\ f # 1
  BY <1>2, <1>4
<1>6. n \in 0..Len(s) /\ n > 0 /\ n + 1 = f /\ n \in Nat
  BY <1>1, <1>5
<1> HIDE DEF n
<1>7. FFrom(s, f) \in Seq(FByte) /\ Len(FFrom(s, f)) = Len(s) - n
  BY <1>6, FromIs
<1>8. PICK ps : WholePackets(ps) /\ sent = frames \o ps /\ \E at : Carries(s \o w, ps, at)
  BY DEF Owes
<1>9. PICK at : Carries(s \o w, ps, at)
  BY <1>8
<1>10. ASSUME NEW i \in 1..Len(ps) PROVE at[i] > n
  <2>1. SUFFICES ASSUME ~(at[i] > n) PROVE FALSE
    OBVIOUS
  <2>2. at[i] \in Nat /\ at[i] > 0 /\ (at[i] \in 1..Len(s) - FZeros + 1 => at[i] \in FStarts(s))
    BY <1>8, <1>9, ReadIs
  <2>3. at[i] \in 1..Len(s) - FZeros + 1 /\ at[i] < f
    BY <1>1, <1>5, <1>6, <2>1, <2>2
  <2> QED BY <1>4, <1>5, <2>2, <2>3
<1>11. s \o w \in Seq(FByte) /\ n \in 0..Len(s \o w)
  <2>1. s \o w \in Seq(FByte) /\ Len(s \o w) = Len(s) + Len(w) /\ Len(w) \in Nat
    BY ConcatProperties
  <2> QED BY <1>1, <1>6, <2>1
<1>12. Carries(FFrom(s \o w, n + 1), ps, [i \in 1..Len(ps) |-> at[i] - n])
  BY <1>8, <1>9, <1>10, <1>11, SkipCarries
<1>13. FFrom(s, n + 1) \o w = FFrom(s \o w, n + 1)
  BY <1>6, JoinFrom
<1>14. Owes(frames, FFrom(s, f) \o w, sent)
  BY <1>6, <1>8, <1>12, <1>13 DEF Owes
<1> QED BY <1>1, <1>6, <1>7, <1>14 DEF f

(* A buffer without a preamble that is too long for one may be dropped, when  *)
(* no packet starts in it.                                                    *)
LEMMA DropKeeps ==
    ASSUME NEW s \in Seq(FByte), NEW w \in Seq(FByte), NEW frames \in Seq(Seq(FByte)), NEW sent,
           Owes(frames, s \o w, sent), ~Contains(s, 0)
    PROVE  /\ Owes(frames, <<>> \o w, sent)
           /\ w = <<>> => frames = sent
<1> DEFINE n == Len(s)
<1>1. n \in Nat /\ n \in 0..Len(s) /\ Len(w) \in Nat
  OBVIOUS
<1>2. PICK ps : WholePackets(ps) /\ sent = frames \o ps /\ \E at : Carries(s \o w, ps, at)
  BY DEF Owes
<1>3. PICK at : Carries(s \o w, ps, at)
  BY <1>2
<1>4. ASSUME NEW i \in 1..Len(ps)
      PROVE  at[i] > n /\ at[i] + Len(ps[i]) - 1 <= n + Len(w) /\ Len(ps[i]) \in Nat /\ at[i] \in Nat
             /\ Len(ps[i]) > 0
  <2>1. /\ at[i] \in Nat /\ at[i] > 0 /\ (at[i] \in 1..Len(s) => s[at[i]] = 0)
        /\ at[i] + Len(ps[i]) - 1 <= Len(s) + Len(w) /\ Len(ps[i]) \in Nat /\ Len(ps[i]) > FHeader
    BY <1>2, <1>3, ReadIs
  <2>2. at[i] \notin 1..Len(s)
    BY <2>1 DEF Contains
  <2>3. FHeader \in Nat
    BY FSizes
  <2> DEFINE a == at[i]
             l == Len(ps[i])
             m == Len(w)
  <2>4. /\ a \in Nat /\ a > 0 /\ a \notin 1..n /\ a + l - 1 <= n + m
        /\ l \in Nat /\ l > FHeader /\ n \in Nat
    BY <1>1, <2>1, <2>2
  <2> HIDE DEF a, l, m, n
  <2>5. a > n /\ a + l - 1 <= n + m /\ l \in Nat /\ a \in Nat /\ l > 0
    BY <2>3, <2>4
  <2> QED BY <2>5 DEF a, l, m
<1>5. s \o w \in Seq(FByte) /\ n \in 0..Len(s \o w)
  <2>1. s \o w \in Seq(FByte) /\ Len(s \o w) = Len(s) + Len(w)
    BY ConcatProperties
  <2> QED BY <1>1, <2>1
<1> HIDE DEF n
<1>6. Carries(FFrom(s \o w, n + 1), ps, [i \in 1..Len(ps) |-> at[i] - n])
  BY <1>2, <1>3, <1>4, <1>5, SkipCarries
<1>7. FFrom(s, n + 1) \o w = FFrom(s \o w, n + 1)
  BY <1>1, JoinFrom
<1>8. FFrom(s, n + 1) = <<>>
  <2>1. FFrom(s, n + 1) \in Seq(FByte) /\ Len(FFrom(s, n + 1)) = 0
    BY <1>1, FromIs DEF n
  <2> QED BY <2>1
<1>9. Owes(frames, <<>> \o w, sent)
  BY <1>2, <1>6, <1>7, <1>8 DEF Owes
<1>10. ASSUME w = <<>> PROVE frames = sent
  <2>1. ps = <<>>
    <3>1. SUFFICES ASSUME ps # <<>> PROVE FALSE
      OBVIOUS
    <3>2. 1 \in 1..Len(ps)
      BY <1>2, <3>1 DEF WholePackets
    <3>3. Len(w) = 0
      BY <1>10
    <3>4. /\ at[1] > n /\ at[1] + Len(ps[1]) - 1 <= n + Len(w) /\ Len(ps[1]) \in Nat
          /\ at[1] \in Nat /\ Len(ps[1]) > 0
      BY <1>4, <3>2
    <3> DEFINE a == at[1]
               l == Len(ps[1])
    <3>5. a > n /\ a + l - 1 <= n /\ l \in Nat /\ a \in Nat /\ l > 0 /\ n \in Nat
      BY <1>1, <3>3, <3>4
    <3> HIDE DEF a, l
    <3> QED BY <3>5
  <2> QED BY <1>2, <2>1, NothingOwed
<1> QED BY <1>9, <1>10

(* After a preamble comes the first packet, as long as its header says.       *)
LEMMA CutIs ==
    ASSUME NEW s \in Seq(FByte), NEW w \in Seq(FByte), NEW ps, WholePackets(ps),
           NEW at, Carries(s \o w, ps, at), Len(s) >= FHeader, FStart(s, 1)
    PROVE  ps # <<>> /\ at[1] = 1 /\ FFull(s) = Len(ps[1])
<1>1. /\ Len(s) \in Nat /\ FZeros \in Nat /\ FZeros > 0 /\ FHeader = 2 * FZeros
      /\ ps \in Seq(Seq(FByte))
  BY FSizes DEF WholePackets
<1>2. Len(s) > 0 /\ s[1] = 0
  <2>1. 1 \in 1..Len(s) - FZeros + 1 /\ 1 \in 1..FZeros /\ 1 + 1 - 1 = 1
    BY <1>1
  <2>2. s[1 + 1 - 1] = 0
    BY <2>1, StartIs
  <2> QED BY <1>1, <2>1, <2>2
<1>3. ps # <<>> /\ at[1] = 1
  BY <1>2, HeadIs
<1>4. 1 \in 1..Len(ps)
  BY <1>1, <1>3
<1>5. Packet(ps[1]) /\ Len(ps[1]) > FHeader /\ Len(ps[1]) \in Nat
  BY <1>4, ReadIs
<1>6. ASSUME NEW k \in 1..FHeader PROVE s[k] = ps[1][k]
  <2>1. k \in 1..Len(ps[1]) /\ k \in 1..Len(s) /\ 1 + k - 1 = k
    BY <1>1, <1>5
  <2>2. (s \o w)[1 + k - 1] = ps[1][k]
    BY <1>3, <1>4, <2>1 DEF Carries
  <2>3. (s \o w)[k] = s[k]
    BY <2>1, ReadIs
  <2> QED BY <2>1, <2>2, <2>3
<1> DEFINE p == ps[1]
<1>7. Packet(p) /\ \A k \in 1..FHeader : s[k] = p[k]
  BY <1>5, <1>6
<1> HIDE DEF p
<1>8. FFull(s) = Len(p)
  BY <1>7, FullIsLocal
<1> QED BY <1>3, <1>8 DEF p

LEMMA CutKeeps ==
    ASSUME NEW s \in Seq(FByte), NEW w \in Seq(FByte), NEW frames \in Seq(Seq(FByte)), NEW sent,
           Owes(frames, s \o w, sent), Len(s) >= FHeader, FStart(s, 1), Len(s) >= FFull(s)
    PROVE  /\ SubSeq(s, 1, FFull(s)) \in Seq(FByte)
           /\ FFrom(s, FFull(s) + 1) \in Seq(FByte) /\ Len(FFrom(s, FFull(s) + 1)) < Len(s)
           /\ Owes(Append(frames, SubSeq(s, 1, FFull(s))), FFrom(s, FFull(s) + 1) \o w, sent)
<1>1. PICK ps : WholePackets(ps) /\ sent = frames \o ps /\ \E at : Carries(s \o w, ps, at)
  BY DEF Owes
<1>2. PICK at : Carries(s \o w, ps, at)
  BY <1>1
<1> DEFINE p == ps[1]
           n == FFull(s)
           qs == Tail(ps)
<1>3. ps # <<>> /\ at[1] = 1 /\ n = Len(p)
  BY <1>1, <1>2, CutIs
<1>4. /\ ps \in Seq(Seq(FByte)) /\ 1 \in 1..Len(ps) /\ p \in Seq(FByte) /\ qs \in Seq(Seq(FByte))
      /\ ps = <<p>> \o qs
  BY <1>1, <1>3 DEF WholePackets
<1>5. /\ Len(p) \in 1..Len(s \o w) /\ WholePackets(qs)
      /\ Carries(FFrom(s \o w, Len(p) + 1), qs, [i \in 1..Len(ps) - 1 |-> at[i + 1] - Len(p)])
  <2>1. s \o w \in Seq(FByte)
    BY ConcatProperties
  <2> QED BY <1>1, <1>2, <1>3, <2>1, TakeCarries
<1> HIDE DEF n, qs
<1>6. Len(s) \in Nat /\ n \in 1..Len(s) /\ n \in 0..Len(s)
  <2>1. Len(s) \in Nat /\ Len(s) >= n
    BY DEF n
  <2> QED BY <1>3, <1>5, <2>1
<1>7. /\ SubSeq(s, 1, n) \in Seq(FByte) /\ Len(SubSeq(s, 1, n)) = n
      /\ \A k \in 1..n : SubSeq(s, 1, n)[k] = s[k]
  BY <1>6
<1>8. SubSeq(s, 1, n) = p
  <2>1. ASSUME NEW k \in 1..n PROVE s[k] = p[k]
    <3>1. k \in 1..Len(p) /\ k \in 1..Len(s) /\ 1 + k - 1 = k
      BY <1>3, <1>6
    <3>2. (s \o w)[1 + k - 1] = p[k]
      BY <1>2, <1>3, <1>4, <3>1 DEF Carries
    <3>3. (s \o w)[k] = s[k]
      BY <1>1, <1>2, <3>1, ReadIs
    <3> QED BY <3>1, <3>2, <3>3
  <2> DEFINE u == SubSeq(s, 1, n)
  <2>2. u \in Seq(FByte) /\ Len(u) = Len(p) /\ \A k \in 1..Len(u) : u[k] = p[k]
    BY <1>3, <1>7, <2>1
  <2> HIDE DEF u, p
  <2>3. u = p
    BY <1>4, <2>2, SeqEqual
  <2> QED BY <2>3 DEF u
<1>9. FFrom(s, n + 1) \in Seq(FByte) /\ Len(FFrom(s, n + 1)) = Len(s) - n
  BY <1>6, FromIs
<1>10. FFrom(s, n + 1) \o w = FFrom(s \o w, n + 1)
  BY <1>6, JoinFrom
<1>11. sent = Append(frames, p) \o qs
  <2> DEFINE one == <<p>>
  <2> HIDE DEF p
  <2>1. one \in Seq(Seq(FByte)) /\ Append(frames, p) = frames \o one
    BY <1>4
  <2> HIDE DEF one
  <2>2. (frames \o one) \o qs = frames \o (one \o qs)
    <3> DEFINE S == Seq(FByte)
    <3>1. frames \in Seq(S) /\ one \in Seq(S) /\ qs \in Seq(S)
      BY <1>4, <2>1
    <3> HIDE DEF S
    <3> QED BY <3>1, Associates
  <2> QED BY <1>1, <1>4, <2>1, <2>2 DEF one
<1>12. Owes(Append(frames, p), FFrom(s, n + 1) \o w, sent)
  BY <1>3, <1>5, <1>10, <1>11 DEF Owes
<1>13. Owes(Append(frames, SubSeq(s, 1, n)), FFrom(s, n + 1) \o w, sent)
  BY <1>8, <1>12
<1>14. Len(FFrom(s, n + 1)) < Len(s)
  BY <1>6, <1>9
<1> QED BY <1>7, <1>9, <1>13, <1>14 DEF n

LEMMA RoundKeeps ==
    ASSUME NEW before \in Seq(Seq(FByte)), NEW w \in Seq(FByte), NEW sent,
           NEW l, Settles(l, before, w, sent)
    PROVE  /\ Settles(FRound(l), before, w, sent)
           /\ FRound(l).on => l.on /\ Len(FRound(l).rest) < Len(l.rest)
<1> DEFINE s == l.rest
           frames == before \o l.frames
           done == [l EXCEPT !.on = FALSE]
<1>1. /\ l \in FLoops /\ s \in Seq(FByte) /\ l.frames \in Seq(Seq(FByte)) /\ l.on \in BOOLEAN
      /\ Len(s) \in Nat /\ Len(w) \in Nat
  BY DEF Settles, FLoops
<1>2. frames \in Seq(Seq(FByte))
  BY <1>1, ConcatProperties
<1>3. FZeros \in Nat /\ FZeros > 0 /\ FHeader = 2 * FZeros
  BY FSizes
<1>4. CASE ~l.on
  <2>1. FRound(l) = l
    BY <1>1, <1>4 DEF FRound, FLoops
  <2> QED BY <1>4, <2>1
<1>5. CASE l.on
  <2>1. l.dropped = <<>> /\ ~Contains(l.dropped, 0)
    BY <1>5 DEF Settles, Contains
  <2>2. Owes(frames, s \o w, sent)
    BY <2>1 DEF Settles
  <2>3. done.on = FALSE
    BY <1>1 DEF FLoops
  <2>4. CASE Len(s) < FHeader
    <3>1. ASSUME NEW ps, WholePackets(ps), NEW at, Carries(l.rest \o w, ps, at), w = <<>> PROVE ps = <<>>
      <4>1. SUFFICES ASSUME ps # <<>> PROVE FALSE
        OBVIOUS
      <4>2. 1 \in 1..Len(ps)
        BY <3>1, <4>1 DEF WholePackets
      <4>3. /\ at[1] + Len(ps[1]) - 1 <= Len(s) + Len(w) /\ at[1] \in Nat /\ at[1] > 0
            /\ Len(ps[1]) > FHeader /\ Len(ps[1]) \in Nat
        BY <1>1, <3>1, <4>2, ReadIs
      <4>4. Len(w) = 0
        BY <3>1
      <4> QED BY <1>1, <1>3, <2>4, <4>3, <4>4
    <3>2. FRound(l) = done
      BY <1>1, <1>3, <1>5, <2>4 DEF FRound
    <3>3. Settles(done, before, w, sent)
      BY <1>5, <3>1, PassedOver
    <3> QED BY <2>3, <3>2, <3>3
  <2>5. CASE Len(s) >= FHeader /\ ~FStart(s, 1) /\ FStarts(s) # {}
    <3> DEFINE rest == FFrom(s, FFirst(s))
               m == [l EXCEPT !.rest = rest]
    <3>1. rest \in Seq(FByte) /\ Len(rest) < Len(s) /\ Owes(frames, rest \o w, sent)
      BY <1>1, <2>2, <2>5, SkipKeeps
    <3>2. FRound(l) = m
      BY <1>1, <1>3, <1>5, <2>5 DEF FRound
    <3> HIDE DEF rest
    <3>3. /\ m \in FLoops /\ m.frames = l.frames /\ m.rest = rest /\ m.dropped = l.dropped
          /\ m.on = l.on
      BY <1>1, <3>1 DEF FLoops
    <3> HIDE DEF m
    <3>4. Settles(m, before, w, sent)
      BY <1>5, <2>1, <3>1, <3>3 DEF Settles
    <3> QED BY <1>5, <3>1, <3>2, <3>3, <3>4
  <2>6. CASE Len(s) >= FHeader /\ ~FStart(s, 1) /\ FStarts(s) = {} /\ Len(s) > FTooLong
    <3> DEFINE m == [done EXCEPT !.rest = <<>>, !.dropped = s]
    <3>1. FRound(l) = m
      BY <1>1, <1>3, <1>5, <2>6 DEF FRound
    <3>2. /\ m \in FLoops /\ m.frames = l.frames /\ m.rest = <<>> /\ m.dropped = s /\ ~m.on
      <4>1. done \in FLoops /\ done.frames = l.frames /\ ~done.on
        BY <1>1 DEF FLoops
      <4>2. <<>> \in Seq(FByte)
        OBVIOUS
      <4> HIDE DEF done, s
      <4> QED BY <1>1, <4>1, <4>2 DEF FLoops
    <3> HIDE DEF m
    <3>3. ASSUME ~Contains(s, 0)
          PROVE  Owes(frames, <<>> \o w, sent) /\ (w = <<>> => frames = sent)
      BY <1>1, <1>2, <2>2, <3>3, DropKeeps
    <3>4. Settles(m, before, w, sent)
      BY <3>2, <3>3 DEF Settles
    <3> QED BY <3>1, <3>2, <3>4
  <2>7. CASE Len(s) >= FHeader /\ ~FStart(s, 1) /\ FStarts(s) = {} /\ ~(Len(s) > FTooLong)
    <3>1. ASSUME NEW ps, WholePackets(ps), NEW at, Carries(l.rest \o w, ps, at), w = <<>> PROVE ps = <<>>
      <4>1. SUFFICES ASSUME ps # <<>> PROVE FALSE
        OBVIOUS
      <4>2. 1 \in 1..Len(ps)
        BY <3>1, <4>1 DEF WholePackets
      <4>3. /\ at[1] + Len(ps[1]) - 1 <= Len(s) + Len(w) /\ at[1] \in Nat /\ at[1] > 0
            /\ Len(ps[1]) > FHeader /\ Len(ps[1]) \in Nat
            /\ at[1] \in 1..Len(s) - FZeros + 1 => at[1] \in FStarts(s)
        BY <1>1, <3>1, <4>2, ReadIs
      <4>4. Len(w) = 0
        BY <3>1
      <4>5. at[1] \in 1..Len(s) - FZeros + 1
        BY <1>1, <1>3, <4>3, <4>4
      <4> QED BY <2>7, <4>3, <4>5
    <3>2. FRound(l) = done
      BY <1>1, <1>3, <1>5, <2>7 DEF FRound
    <3>3. Settles(done, before, w, sent)
      BY <1>5, <3>1, PassedOver
    <3> QED BY <2>3, <3>2, <3>3
  <2>8. CASE Len(s) >= FHeader /\ FStart(s, 1) /\ Len(s) < FFull(s)
    <3>1. ASSUME NEW ps, WholePackets(ps), NEW at, Carries(l.rest \o w, ps, at), w = <<>> PROVE ps = <<>>
      <4>1. SUFFICES ASSUME ps # <<>> PROVE FALSE
        OBVIOUS
      <4>2. at[1] = 1 /\ FFull(s) = Len(ps[1])
        BY <1>1, <2>8, <3>1, CutIs
      <4>3. 1 \in 1..Len(ps)
        BY <3>1, <4>1 DEF WholePackets
      <4>4. at[1] + Len(ps[1]) - 1 <= Len(s) + Len(w) /\ Len(ps[1]) \in Nat
        BY <1>1, <3>1, <4>3, ReadIs
      <4>5. Len(w) = 0
        BY <3>1
      <4> QED BY <1>1, <2>8, <4>2, <4>4, <4>5
    <3>2. FRound(l) = done
      BY <1>1, <1>3, <1>5, <2>8 DEF FRound
    <3>3. Settles(done, before, w, sent)
      BY <1>5, <3>1, PassedOver
    <3> QED BY <2>3, <3>2, <3>3
  <2>9. CASE Len(s) >= FHeader /\ FStart(s, 1) /\ ~(Len(s) < FFull(s))
    <3> DEFINE rest == FFrom(s, FFull(s) + 1)
               p == SubSeq(s, 1, FFull(s))
               m == [l EXCEPT !.frames = Append(l.frames, p), !.rest = rest]
    <3>0. Len(s) >= FFull(s)
      <4>1. PICK ps : WholePackets(ps) /\ \E at : Carries(s \o w, ps, at)
        BY <2>2 DEF Owes
      <4>2. ps # <<>> /\ FFull(s) = Len(ps[1]) /\ 1 \in 1..Len(ps)
        <5>1. ps # <<>> /\ FFull(s) = Len(ps[1])
          BY <1>1, <2>9, <4>1, CutIs
        <5> QED BY <4>1, <5>1 DEF WholePackets
      <4>3. Len(ps[1]) \in Nat
        BY <1>1, <4>1, <4>2, ReadIs
      <4> QED BY <1>1, <2>9, <4>2, <4>3
    <3>1. /\ p \in Seq(FByte) /\ rest \in Seq(FByte) /\ Len(rest) < Len(s)
          /\ Owes(Append(frames, p), rest \o w, sent)
      BY <1>1, <1>2, <2>2, <2>9, <3>0, CutKeeps
    <3>2. FRound(l) = m
      BY <1>1, <1>3, <1>5, <2>9 DEF FRound
    <3> HIDE DEF rest, p
    <3>3. /\ m \in FLoops /\ m.frames = Append(l.frames, p) /\ m.rest = rest
          /\ m.dropped = l.dropped /\ m.on = l.on
      <4> DEFINE fs == Append(l.frames, p)
      <4>1. fs \in Seq(Seq(FByte))
        BY <1>1, <3>1
      <4> HIDE DEF fs
      <4>2. /\ [l EXCEPT !.frames = fs, !.rest = rest] \in FLoops
            /\ [l EXCEPT !.frames = fs, !.rest = rest].frames = fs
            /\ [l EXCEPT !.frames = fs, !.rest = rest].rest = rest
            /\ [l EXCEPT !.frames = fs, !.rest = rest].dropped = l.dropped
            /\ [l EXCEPT !.frames = fs, !.rest = rest].on = l.on
        BY <1>1, <3>1, <4>1 DEF FLoops
      <4> QED BY <4>2 DEF fs
    <3>4. before \o Append(l.frames, p) = Append(frames, p)
      <4> DEFINE S == Seq(FByte)
      <4>1. before \in Seq(S) /\ l.frames \in Seq(S) /\ p \in S
        BY <1>1, <3>1
      <4> HIDE DEF S
      <4> QED BY <4>1
    <3> HIDE DEF m
    <3>5. Owes(before \o m.frames, m.rest \o w, sent)
      BY <3>1, <3>3, <3>4
    <3>6. Settles(m, before, w, sent)
      BY <1>5, <2>1, <3>3, <3>5 DEF Settles
    <3> QED BY <1>5, <3>1, <3>2, <3>3, <3>6
  <2> QED BY <1>1, <1>3, <2>4, <2>5, <2>6, <2>7, <2>8, <2>9
<1> QED BY <1>1, <1>4, <1>5

(* By induction over the rounds, once the recursive function is shown to      *)
(* exist; and as a round that goes on shortens the buffer, the loop has ended *)
(* after as many rounds as there are bytes and one.                           *)
LEMMA ProcessKeeps ==
    ASSUME NEW before \in Seq(Seq(FByte)), NEW s \in Seq(FByte), NEW w \in Seq(FByte), NEW sent,
           Owes(before, s \o w, sent)
    PROVE  LET done == FProcess(s) IN
           /\ Settles(done, before, w, sent) /\ ~done.on
<1> DEFINE start == [frames |-> <<>>, rest |-> s, dropped |-> <<>>, on |-> TRUE]
           L == Len(s) + 1
           G == {l \in FLoops : Settles(l, before, w, sent)}
           step == [n \in 1..L |-> [l \in G |-> FRound(l)]]
           Walk(f) == f = [n \in 0..L |-> IF n = 0 THEN start ELSE FRound(f[n - 1])]
<1>1. L \in Nat /\ Len(s) \in Nat
  OBVIOUS
<1>2. start \in G /\ start.rest = s
  <2>1. start \in FLoops /\ before \o <<>> = before
    BY DEF FLoops
  <2> QED BY <2>1 DEF Settles
<1>3. ASSUME NEW l \in G
      PROVE  FRound(l) \in G /\ (FRound(l).on => l.on /\ Len(FRound(l).rest) < Len(l.rest))
  <2>1. Settles(l, before, w, sent)
    OBVIOUS
  <2>2. /\ Settles(FRound(l), before, w, sent)
        /\ FRound(l).on => l.on /\ Len(FRound(l).rest) < Len(l.rest)
    BY <2>1, RoundKeeps
  <2>3. FRound(l) \in FLoops
    BY <2>2 DEF Settles
  <2> QED BY <2>2, <2>3
<1>4. step \in [1..L -> [G -> G]]
  <2> HIDE DEF G, L
  <2> QED BY <1>3
<1> HIDE DEF L, G, start
<1>5. PICK f \in [0..L -> G] : Walks(f, L, start, step)
  <2> HIDE DEF step
  <2> QED BY <1>1, <1>2, <1>4, StepsExist
<1>6. \A n \in 1..L : f[n] = FRound(f[n - 1])
  <2> TAKE n \in 1..L
  <2>1. n - 1 \in 0..L
    BY <1>1
  <2>2. f[n - 1] \in G
    BY <1>5, <2>1
  <2> QED BY <1>5, <2>2 DEF Walks
<1>7. Walk(f)
  <2>1. \A n \in 0..L : f[n] = IF n = 0 THEN start ELSE FRound(f[n - 1])
    BY <1>1, <1>5, <1>6 DEF Walks
  <2> QED BY <1>5, <2>1
<1> DEFINE after == CHOOSE g : Walk(g)
<1>8. Walk(after) /\ FProcess(s) = after[L]
  BY <1>7 DEF FProcess, L, start
<1> HIDE DEF after
<1>9. after[0] = start /\ \A n \in 1..L : after[n] = FRound(after[n - 1])
  BY <1>1, <1>8
<1> DEFINE Behind(n) == after[n] \in G /\ (after[n].on => Len(after[n].rest) + n <= Len(s))
           T == {n \in Nat : n <= L => Behind(n)}
<1>10. 0 \in T
  BY <1>1, <1>2, <1>9
<1>11. \A l \in G : Len(l.rest) \in Nat
  BY DEF G, FLoops
<1>12. ASSUME NEW n \in T PROVE n + 1 \in T
  <2> SUFFICES ASSUME n + 1 <= L PROVE Behind(n + 1)
    <3> HIDE DEF Behind
    <3> QED OBVIOUS
  <2>2. n \in Nat /\ n + 1 \in 1..L /\ (n + 1) - 1 = n /\ Behind(n)
    BY <1>1, <1>12
  <2>3. after[n + 1] = FRound(after[n])
    BY <1>9, <2>2
  <2>4. /\ after[n + 1] \in G
        /\ after[n + 1].on => after[n].on /\ Len(after[n + 1].rest) < Len(after[n].rest)
    BY <1>3, <2>2, <2>3
  <2> DEFINE a == Len(after[n].rest)
             b == Len(after[n + 1].rest)
  <2>5. a \in Nat /\ b \in Nat
    BY <1>11, <2>2, <2>4
  <2>6. ASSUME after[n + 1].on PROVE b + (n + 1) <= Len(s)
    <3>1. b < a /\ a + n <= Len(s)
      BY <2>2, <2>4, <2>6
    <3> HIDE DEF a, b
    <3> QED BY <1>1, <2>2, <2>5, <3>1
  <2> QED BY <2>4, <2>6
<1>13. \A n \in Nat : n \in T
  <2>1. T \in SUBSET Nat
    OBVIOUS
  <2> HIDE DEF T
  <2> QED BY <1>10, <1>12, <2>1, AllNaturals
<1>14. Behind(L)
  BY <1>1, <1>13
<1>15. Settles(after[L], before, w, sent) /\ Len(after[L].rest) \in Nat
  BY <1>14, <1>11 DEF G
<1>16. ~after[L].on
  <2> DEFINE a == Len(after[L].rest)
  <2>1. after[L].on => a + L <= Len(s)
    BY <1>14
  <2>2. a \in Nat /\ L = Len(s) + 1
    BY <1>15 DEF L
  <2> HIDE DEF a
  <2> QED BY <1>1, <2>1, <2>2
<1> QED BY <1>8, <1>15, <1>16

-----------------------------------------------------------------------------
(* The stream is what is in the buffer and what is on the wire.               *)
FInv ==
    /\ fClean \in BOOLEAN
    /\ fClean => /\ fWire \in Seq(FByte) /\ fBuffer \in Seq(FByte) /\ fFrames \in Seq(Seq(FByte))
                 /\ Owes(fFrames, fBuffer \o fWire, fSent)
                 /\ fWire = <<>> => fFrames = fSent

LEMMA FInitInv == FInit => FInv
<1> SUFFICES ASSUME FInit PROVE FInv
  OBVIOUS
<1> DEFINE none == <<>>
<1>1. WholePackets(none) /\ Carries(none, none, none)
  BY DEF WholePackets, Carries
<1>2. none \o none = none /\ none \in Seq(FByte) /\ none \in Seq(Seq(FByte))
  OBVIOUS
<1>3. Owes(none, none \o none, none)
  <2> HIDE DEF none
  <2> QED BY <1>1, <1>2 DEF Owes
<1> QED BY <1>2, <1>3 DEF FInit, FInv

LEMMA FSendPacketKeeps == ASSUME FInv, FSendPacket PROVE FInv'
<1> SUFFICES ASSUME fClean' PROVE FInv'
  BY DEF FInv, FSendPacket
<1>1. PICK b \in FBodies : fWire' = fWire \o FPacket(b) /\ fSent' = Append(fSent, FPacket(b))
  BY DEF FSendPacket
<1> DEFINE p == FPacket(b)
<1>2. UNCHANGED <<fBuffer, fFrames, fClean>> /\ Packet(p)
  BY SentIsPacket DEF FSendPacket
<1> HIDE DEF p
<1>3. /\ fWire \in Seq(FByte) /\ fBuffer \in Seq(FByte) /\ fFrames \in Seq(Seq(FByte))
      /\ Owes(fFrames, fBuffer \o fWire, fSent) /\ fWire' = fWire \o p /\ fSent' = Append(fSent, p)
  BY <1>1, <1>2 DEF FInv, p
<1>4. p \in Seq(FByte) /\ Len(p) \in Nat /\ Len(p) > 0
  <2>1. FHeader \in Nat
    BY FSizes
  <2> QED BY <1>2, <2>1 DEF Packet
<1> DEFINE s == fBuffer \o fWire
<1>5. s \in Seq(FByte) /\ fBuffer \o (fWire \o p) = s \o p /\ fWire \o p \in Seq(FByte)
  <2>1. fWire \in Seq(FByte) /\ fBuffer \in Seq(FByte) /\ p \in Seq(FByte)
    BY <1>3, <1>4
  <2> QED BY <2>1, BytesJoin, SMTT(30)
<1> HIDE DEF s
<1>6. PICK ps : WholePackets(ps) /\ fSent = fFrames \o ps /\ \E at : Carries(s, ps, at)
  BY <1>3 DEF Owes, s
<1>7. WholePackets(Append(ps, p)) /\ \E to : Carries(s \o p, Append(ps, p), to)
  BY <1>2, <1>5, <1>6, AddCarries
<1>8. Append(fFrames \o ps, p) = fFrames \o Append(ps, p)
  <2> DEFINE S == Seq(FByte)
  <2>1. fFrames \in Seq(S) /\ ps \in Seq(S) /\ p \in S
    BY <1>3, <1>4, <1>6 DEF WholePackets
  <2> HIDE DEF S
  <2> QED BY <2>1
<1>9. Owes(fFrames, s \o p, fSent')
  BY <1>3, <1>6, <1>7, <1>8 DEF Owes
<1>10. fWire' # <<>>
  BY <1>3, <1>4
<1> QED BY <1>2, <1>3, <1>5, <1>9, <1>10 DEF FInv

LEMMA FSendNoiseKeeps == ASSUME FInv, FSendNoise PROVE FInv'
<1>0. fClean' \in BOOLEAN
  BY DEF FInv, FSendNoise
<1> SUFFICES ASSUME fClean' PROVE FInv'
  BY <1>0 DEF FInv
<1>1. PICK q \in FNoise : fWire' = fWire \o q /\ fClean' = (fClean /\ ~Contains(q, 0))
  BY DEF FSendNoise
<1>2. UNCHANGED <<fBuffer, fFrames, fSent>> /\ fClean /\ ~Contains(q, 0) /\ q \in Seq(FByte)
  BY <1>1, FWords DEF FSendNoise
<1>3. /\ fWire \in Seq(FByte) /\ fBuffer \in Seq(FByte) /\ fFrames \in Seq(Seq(FByte))
      /\ Owes(fFrames, fBuffer \o fWire, fSent) /\ (fWire = <<>> => fFrames = fSent)
  BY <1>2 DEF FInv
<1> DEFINE s == fBuffer \o fWire
<1>4. s \in Seq(FByte) /\ fBuffer \o (fWire \o q) = s \o q /\ fWire \o q \in Seq(FByte)
  <2>1. fWire \in Seq(FByte) /\ fBuffer \in Seq(FByte) /\ q \in Seq(FByte)
    BY <1>2, <1>3
  <2> QED BY <2>1, BytesJoin, SMTT(30)
<1>5. fWire \o q = <<>> => fWire = <<>>
  BY <1>2, <1>3, ConcatEqualIffEmpty
<1> HIDE DEF s
<1>6. PICK ps : WholePackets(ps) /\ fSent = fFrames \o ps /\ \E at : Carries(s, ps, at)
  BY <1>3 DEF Owes, s
<1>7. PICK at : Carries(s, ps, at)
  BY <1>6
<1>8. Carries(s \o q, ps, at)
  BY <1>2, <1>4, <1>6, <1>7, NoiseCarries
<1>9. Owes(fFrames, s \o q, fSent)
  BY <1>6, <1>8 DEF Owes
<1> QED BY <1>0, <1>1, <1>2, <1>3, <1>4, <1>5, <1>9 DEF FInv

LEMMA FReadKeeps == ASSUME FInv, FRead PROVE FInv'
<1>0. fClean' \in BOOLEAN
  BY DEF FInv, FRead
<1> SUFFICES ASSUME fClean' PROVE FInv'
  BY <1>0 DEF FInv
<1>1. PICK k \in 1..Len(fWire) :
         LET done == FProcess(fBuffer \o SubSeq(fWire, 1, k)) IN
         /\ fWire' = FFrom(fWire, k + 1) /\ fBuffer' = done.rest
         /\ fFrames' = fFrames \o done.frames /\ fClean' = (fClean /\ ~Contains(done.dropped, 0))
  BY DEF FRead
<1> DEFINE s == fBuffer \o SubSeq(fWire, 1, k)
           w == FFrom(fWire, k + 1)
           done == FProcess(s)
<1>2. /\ fWire' = w /\ fBuffer' = done.rest /\ fFrames' = fFrames \o done.frames
      /\ fClean /\ ~Contains(done.dropped, 0) /\ fSent' = fSent
  BY <1>1 DEF FRead
<1>3. /\ fWire \in Seq(FByte) /\ fBuffer \in Seq(FByte) /\ fFrames \in Seq(Seq(FByte))
      /\ Owes(fFrames, fBuffer \o fWire, fSent)
  BY <1>2 DEF FInv
<1>4. /\ SubSeq(fWire, 1, k) \in Seq(FByte) /\ w \in Seq(FByte)
      /\ SubSeq(fWire, 1, k) \o w = fWire
  <2>1. Len(fWire) \in Nat /\ k \in 0..Len(fWire) /\ 1 \in 1..Len(fWire) + 1
        /\ k \in 1 - 1..Len(fWire) /\ Len(fWire) \in k..Len(fWire)
    BY <1>3
  <2>2. SubSeq(fWire, 1, k) \in Seq(FByte)
    BY <1>3, <2>1
  <2>3. w \in Seq(FByte)
    BY <1>3, <2>1, FromIs
  <2>4. SubSeq(fWire, 1, k) \o SubSeq(fWire, k + 1, Len(fWire)) = SubSeq(fWire, 1, Len(fWire))
    BY <1>3, <2>1, ConcatAdjacentSubSeq
  <2>5. SubSeq(fWire, 1, Len(fWire)) = fWire
    BY <1>3, SubSeqFull
  <2> QED BY <2>2, <2>3, <2>4, <2>5 DEF FFrom
<1>5. s \in Seq(FByte) /\ s \o w = fBuffer \o fWire
  <2> DEFINE u == SubSeq(fWire, 1, k)
  <2>1. u \in Seq(FByte) /\ w \in Seq(FByte) /\ fBuffer \in Seq(FByte) /\ u \o w = fWire
    BY <1>3, <1>4
  <2> HIDE DEF u, w
  <2>2. fBuffer \o u \in Seq(FByte) /\ (fBuffer \o u) \o w = fBuffer \o (u \o w)
    <3>1. fBuffer \in Seq(FByte) /\ u \in Seq(FByte) /\ w \in Seq(FByte)
      BY <2>1
    <3> QED BY <3>1, BytesJoin, SMTT(30)
  <2> QED BY <2>1, <2>2 DEF u
<1> HIDE DEF s, w
<1>6. Settles(done, fFrames, w, fSent) /\ ~done.on
  BY <1>3, <1>4, <1>5, ProcessKeeps
<1> HIDE DEF done
<1>7. done.frames \in Seq(Seq(FByte)) /\ done.rest \in Seq(FByte)
  BY <1>6 DEF Settles, FLoops
<1>8. /\ Owes(fFrames \o done.frames, done.rest \o w, fSent)
      /\ w = <<>> => fFrames \o done.frames = fSent
  BY <1>2, <1>6 DEF Settles
<1>9. fFrames \o done.frames \in Seq(Seq(FByte))
  BY <1>3, <1>7, ConcatProperties
<1> QED BY <1>0, <1>2, <1>4, <1>7, <1>8, <1>9 DEF FInv

(* The packets of a stream without stray zeros are framed as they were sent,  *)
(* in order, whole, and as soon as they are read, for any packets, noise and  *)
(* reads: _process_buffer() finds the next preamble where the next packet is. *)
THEOREM FramingIsExact == FSpec => []FramesArePackets
<1>1. FInv => FramesArePackets
  <2> SUFFICES ASSUME FInv, fClean PROVE IsPrefix(fFrames, fSent) /\ (fWire = <<>> => fFrames = fSent)
    BY DEF FramesArePackets
  <2>1. fFrames \in Seq(Seq(FByte)) /\ Owes(fFrames, fBuffer \o fWire, fSent)
    BY DEF FInv
  <2>2. PICK ps : WholePackets(ps) /\ fSent = fFrames \o ps
    BY <2>1 DEF Owes
  <2> DEFINE S == Seq(FByte)
  <2>3. fFrames \in Seq(S) /\ ps \in Seq(S) /\ fSent \in Seq(S)
    BY <2>1, <2>2 DEF WholePackets
  <2> HIDE DEF S
  <2>4. Len(fFrames) <= Len(fSent)
    BY <2>2, <2>3
  <2>5. SubSeq(fFrames, 1, Len(fFrames)) = SubSeq(fSent, 1, Len(fFrames))
    BY <2>2, <2>3
  <2> QED BY <2>4, <2>5 DEF FInv, IsPrefix
<1>2. FInv /\ [FNext]_framing => FInv'
  <2> SUFFICES ASSUME FInv, [FNext]_framing PROVE FInv'
    OBVIOUS
  <2>1. CASE UNCHANGED framing
    BY <2>1 DEF framing, FInv
  <2> QED BY <2>1, FSendPacketKeeps, FSendNoiseKeeps, FReadKeeps DEF FNext
<1> QED BY <1>1, <1>2, FInitInv, PTL DEF FSpec

(* Whatever its bytes are, a length field has a value.                        *)
LEMMA ValueIsNatural ==
    ASSUME NEW h, \A n \in 1..FZeros : h[n] \in Nat
    PROVE  FValue(h) \in Nat
<1> DEFINE step == [n \in 1..FZeros |-> [x \in Nat |-> FBase * x + h[n]]]
           Walk(g) == g = [n \in 0..FZeros |-> IF n = 0 THEN 0 ELSE FBase * g[n - 1] + h[n]]
           value == CHOOSE g : Walk(g)
<1>1. FZeros \in Nat /\ FBase \in Nat
  BY FSizes, FAssumption
<1>2. step \in [1..FZeros -> [Nat -> Nat]]
  BY <1>1
<1>3. PICK f \in [0..FZeros -> Nat] : Walks(f, FZeros, 0, step)
  <2> HIDE DEF step
  <2> QED BY <1>1, <1>2, StepsExist
<1>4. Walk(f)
  <2>1. \A n \in 1..FZeros : f[n] = FBase * f[n - 1] + h[n]
    <3> TAKE n \in 1..FZeros
    <3>1. n - 1 \in 0..FZeros
      BY <1>1
    <3>2. f[n - 1] \in Nat
      BY <1>3, <3>1
    <3> QED BY <1>3, <3>2 DEF Walks
  <2>2. \A n \in 0..FZeros : f[n] = IF n = 0 THEN 0 ELSE FBase * f[n - 1] + h[n]
    BY <1>1, <1>3, <2>1 DEF Walks
  <2> QED BY <1>3, <2>2
<1>5. Walk(value) /\ FValue(h) = value[FZeros]
  BY <1>4 DEF FValue
<1> HIDE DEF value
<1>6. value[0] = 0 /\ \A n \in 1..FZeros : value[n] = FBase * value[n - 1] + h[n]
  BY <1>1, <1>5
<1>7. \A n \in 1..FZeros : value[n - 1] \in Nat => value[n] \in Nat
  <2> TAKE n \in 1..FZeros
  <2> HAVE value[n - 1] \in Nat
  <2>1. \A x, y \in Nat : FBase * x + y \in Nat
    BY <1>1
  <2> QED BY <1>6, <2>1
<1>8. \A n \in 0..FZeros : value[n] \in Nat
  <2> DEFINE G == Nat
  <2>1. value[0] \in G /\ \A n \in 1..FZeros : value[n - 1] \in G => value[n] \in G
    BY <1>6, <1>7
  <2> HIDE DEF G
  <2>2. \A n \in 0..FZeros : value[n] \in G
    BY <1>1, <2>1, StepsKeep
  <2> QED BY <2>2 DEF G
<1>9. FZeros \in 0..FZeros
  BY <1>1
<1> QED BY <1>5, <1>8, <1>9

LEMMA FullIsNatural ==
    ASSUME NEW s \in Seq(FByte), Len(s) >= FHeader
    PROVE  FFull(s) \in Nat /\ FFull(s) > FHeader
<1> DEFINE h == SubSeq(s, FZeros + 1, FHeader)
<1>1. /\ h \in Seq(FByte) /\ Len(h) = FZeros
  BY FieldIs
<1>2. \A n \in 1..FZeros : h[n] \in Nat
  <2> HIDE DEF h
  <2> TAKE n \in 1..FZeros
  <2>1. n \in 1..Len(h)
    BY <1>1
  <2>2. h[n] \in FByte
    BY <1>1, <2>1, ElementOfSeq
  <2>3. FByte \subseteq Nat
    BY FAssumption DEF FByte
  <2> QED BY <2>2, <2>3
<1>3. FLength(s) \in Nat
  <2>1. FLength(s) = FValue(h)
    BY DEF FLength
  <2> HIDE DEF h
  <2> QED BY <1>2, <2>1, ValueIsNatural
<1> QED BY <1>3, FSizes DEF FFull

(* What is passed over, and what is cut off, leave a buffer of bytes.         *)
LEMMA SkipIsBytes ==
    ASSUME NEW s \in Seq(FByte), FStarts(s) # {}
    PROVE  FFrom(s, FFirst(s)) \in Seq(FByte)
<1>1. FZeros \in Nat /\ FZeros > 0 /\ Len(s) \in Nat
  BY FSizes
<1>2. FStarts(s) \in SUBSET Nat /\ \A i \in FStarts(s) : i \in 1..Len(s)
  BY <1>1 DEF FStarts
<1>3. \E i \in FStarts(s) : \A j \in FStarts(s) : i <= j
  BY <1>2, LeastNatural
<1>4. FFirst(s) \in FStarts(s)
  BY <1>3 DEF FFirst
<1> DEFINE n == FFirst(s) - 1
<1>5. n \in 0..Len(s) /\ FFirst(s) = n + 1
  BY <1>1, <1>2, <1>4
<1> HIDE DEF n
<1>6. FFrom(s, n + 1) \in Seq(FByte)
  BY <1>5, FromIs
<1> QED BY <1>5, <1>6

LEMMA CutIsBytes ==
    ASSUME NEW s \in Seq(FByte), NEW n \in 0..Len(s)
    PROVE  SubSeq(s, 1, n) \in Seq(FByte) /\ FFrom(s, n + 1) \in Seq(FByte)
<1>1. FFrom(s, n + 1) \in Seq(FByte)
  BY FromIs
<1>2. Len(s) \in Nat
  OBVIOUS
<1>3. \A k \in 1..n : s[k] \in FByte
  <2> TAKE k \in 1..n
  <2>1. k \in 1..Len(s)
    BY <1>2
  <2> QED BY <2>1, ElementOfSeq
<1>4. n \in Int /\ 1 \in Int
  OBVIOUS
<1>5. SubSeq(s, 1, n) \in Seq(FByte)
  BY <1>3, <1>4, SubSeqProperties
<1> QED BY <1>1, <1>5

LEMMA RoundIsTyped == ASSUME NEW l \in FLoops PROVE FRound(l) \in FLoops
<1> DEFINE s == l.rest
           done == [l EXCEPT !.on = FALSE]
<1>1. /\ s \in Seq(FByte) /\ l.frames \in Seq(Seq(FByte)) /\ l.on \in BOOLEAN
      /\ Len(s) \in Nat /\ done \in FLoops /\ FHeader \in Nat
  <2>1. s \in Seq(FByte) /\ l.frames \in Seq(Seq(FByte)) /\ l.on \in BOOLEAN
    BY DEF FLoops
  <2>2. done \in FLoops
    BY DEF FLoops
  <2>3. Len(s) \in Nat
    BY <2>1
  <2> QED BY <2>1, <2>2, <2>3, FSizes
<1>2. CASE ~l.on \/ Len(s) < FHeader
  BY <1>1, <1>2 DEF FRound
<1>3. CASE l.on /\ Len(s) >= FHeader /\ ~FStart(s, 1)
  <2>1. CASE FStarts(s) # {}
    <3> DEFINE rest == FFrom(s, FFirst(s))
    <3>1. rest \in Seq(FByte)
      BY <1>1, <2>1, SkipIsBytes
    <3>2. FRound(l) = [l EXCEPT !.rest = rest]
      BY <1>1, <1>3, <2>1 DEF FRound
    <3> HIDE DEF rest
    <3> QED BY <3>1, <3>2 DEF FLoops
  <2>2. CASE FStarts(s) = {} /\ Len(s) > FTooLong
    <3> DEFINE gone == [done EXCEPT !.rest = <<>>, !.dropped = s]
    <3>1. FRound(l) = gone
      BY <1>1, <1>3, <2>2 DEF FRound
    <3>2. <<>> \in Seq(FByte)
      OBVIOUS
    <3> HIDE DEF done, s
    <3> QED BY <1>1, <3>1, <3>2 DEF FLoops
  <2>3. CASE FStarts(s) = {} /\ ~(Len(s) > FTooLong)
    BY <1>1, <1>3, <2>3 DEF FRound
  <2> QED BY <2>1, <2>2, <2>3
<1>4. CASE l.on /\ Len(s) >= FHeader /\ FStart(s, 1)
  <2>0. FFull(s) \in Nat
    BY <1>1, <1>4, FullIsNatural
  <2>1. CASE Len(s) < FFull(s)
    BY <1>1, <1>4, <2>1 DEF FRound
  <2>2. CASE ~(Len(s) < FFull(s))
    <3> DEFINE p == SubSeq(s, 1, FFull(s))
               rest == FFrom(s, FFull(s) + 1)
               fs == Append(l.frames, p)
    <3>1. FFull(s) \in 0..Len(s)
      BY <1>1, <2>0, <2>2
    <3>2. p \in Seq(FByte) /\ rest \in Seq(FByte)
      BY <1>1, <3>1, CutIsBytes
    <3>3. FRound(l) = [l EXCEPT !.frames = fs, !.rest = rest]
      BY <1>1, <1>4, <2>2 DEF FRound
    <3>4. fs \in Seq(Seq(FByte))
      BY <1>1, <3>2
    <3> HIDE DEF p, rest, fs
    <3> QED BY <3>2, <3>3, <3>4 DEF FLoops
  <2> QED BY <2>1, <2>2
<1> QED BY <1>1, <1>2, <1>3, <1>4

(* By induction over the rounds, as in ProcessKeeps.                          *)
LEMMA ProcessIsTyped == ASSUME NEW s \in Seq(FByte) PROVE FProcess(s) \in FLoops
<1> DEFINE start == [frames |-> <<>>, rest |-> s, dropped |-> <<>>, on |-> TRUE]
           L == Len(s) + 1
           step == [n \in 1..L |-> [l \in FLoops |-> FRound(l)]]
           Walk(f) == f = [n \in 0..L |-> IF n = 0 THEN start ELSE FRound(f[n - 1])]
<1>1. L \in Nat /\ L \in 0..L
  OBVIOUS
<1>2. start \in FLoops
  BY DEF FLoops
<1>3. step \in [1..L -> [FLoops -> FLoops]]
  <2> HIDE DEF L
  <2> QED BY RoundIsTyped
<1> HIDE DEF L, start
<1>4. PICK f \in [0..L -> FLoops] : Walks(f, L, start, step)
  <2> HIDE DEF step
  <2> QED BY <1>1, <1>2, <1>3, StepsExist
<1>5. Walk(f)
  <2>1. \A n \in 1..L : f[n] = FRound(f[n - 1])
    <3> TAKE n \in 1..L
    <3>1. n - 1 \in 0..L
      BY <1>1
    <3>2. f[n - 1] \in FLoops
      BY <1>4, <3>1
    <3> QED BY <1>4, <3>2 DEF Walks
  <2>2. \A n \in 0..L : f[n] = IF n = 0 THEN start ELSE FRound(f[n - 1])
    BY <1>1, <1>4, <2>1 DEF Walks
  <2> QED BY <1>4, <2>2
<1> DEFINE after == CHOOSE g : Walk(g)
<1>6. Walk(after) /\ FProcess(s) = after[L]
  BY <1>5 DEF FProcess, L, start
<1> HIDE DEF after
<1>7. after[0] = start /\ \A n \in 1..L : after[n] = FRound(after[n - 1])
  BY <1>1, <1>6
<1>8. \A n \in 0..L : after[n] \in FLoops
  <2>1. \A n \in 1..L : after[n - 1] \in FLoops => after[n] \in FLoops
    BY <1>7, RoundIsTyped
  <2> QED BY <1>1, <1>2, <1>7, <2>1, StepsKeep
<1> QED BY <1>1, <1>6, <1>8

FTyped == /\ fWire \in Seq(FByte) /\ fBuffer \in Seq(FByte)
          /\ fFrames \in Seq(Seq(FByte)) /\ fSent \in Seq(Seq(FByte))
          /\ fClean \in BOOLEAN /\ fCount \in 0..FMaxSent

LEMMA FTypedStep == FTyped /\ [FNext]_framing => FTyped'
<1> SUFFICES ASSUME FTyped, [FNext]_framing PROVE FTyped'
  OBVIOUS
<1>1. CASE FSendPacket
  <2>1. PICK b \in FBodies : fWire' = fWire \o FPacket(b) /\ fSent' = Append(fSent, FPacket(b))
    BY <1>1 DEF FSendPacket
  <2> DEFINE p == FPacket(b)
             S == Seq(FByte)
  <2>2. p \in Seq(FByte)
    BY SentIsPacket DEF Packet
  <2>3. fWire' = fWire \o p /\ fSent' = Append(fSent, p)
    BY <2>1
  <2> HIDE DEF p
  <2>4. fWire \o p \in Seq(FByte)
    BY <2>2, ConcatProperties DEF FTyped
  <2>5. Append(fSent, p) \in Seq(S)
    <3>1. fSent \in Seq(S) /\ p \in S
      BY <2>2 DEF FTyped
    <3> HIDE DEF S
    <3> QED BY <3>1
  <2>6. fCount' \in 0..FMaxSent
    BY <1>1, FAssumption DEF FTyped, FSendPacket
  <2> QED BY <1>1, <2>3, <2>4, <2>5, <2>6 DEF FTyped, FSendPacket
<1>2. CASE FSendNoise
  <2>1. PICK q \in FNoise : fWire' = fWire \o q /\ fClean' = (fClean /\ ~Contains(q, 0))
    BY <1>2 DEF FSendNoise
  <2>2. fWire \o q \in Seq(FByte)
    BY FWords, ConcatProperties DEF FTyped
  <2>3. fCount' \in 0..FMaxSent
    BY <1>2, FAssumption DEF FTyped, FSendNoise
  <2>4. fClean' \in BOOLEAN
    BY <2>1 DEF FTyped
  <2> QED BY <1>2, <2>1, <2>2, <2>3, <2>4 DEF FTyped, FSendNoise
<1>3. CASE FRead
  <2>1. PICK k \in 1..Len(fWire) :
          LET done == FProcess(fBuffer \o SubSeq(fWire, 1, k)) IN
          /\ fWire' = FFrom(fWire, k + 1) /\ fBuffer' = done.rest
          /\ fFrames' = fFrames \o done.frames /\ fClean' = (fClean /\ ~Contains(done.dropped, 0))
    BY <1>3 DEF FRead
  <2> DEFINE u == SubSeq(fWire, 1, k)
             done == FProcess(fBuffer \o u)
  <2>2. fWire \in Seq(FByte) /\ k \in 0..Len(fWire)
    BY DEF FTyped
  <2>3. u \in Seq(FByte) /\ FFrom(fWire, k + 1) \in Seq(FByte)
    BY <2>2, CutIsBytes
  <2>4. /\ fWire' = FFrom(fWire, k + 1) /\ fBuffer' = done.rest /\ fFrames' = fFrames \o done.frames
        /\ fClean' = (fClean /\ ~Contains(done.dropped, 0))
    BY <2>1
  <2> HIDE DEF u
  <2>5. fBuffer \o u \in Seq(FByte)
    BY <2>3, ConcatProperties DEF FTyped
  <2>6. done \in FLoops
    BY <2>5, ProcessIsTyped
  <2> HIDE DEF done
  <2>7. done.rest \in Seq(FByte) /\ done.frames \in Seq(Seq(FByte))
    BY <2>6 DEF FLoops
  <2>8. fFrames \o done.frames \in Seq(Seq(FByte))
    BY <2>7, ConcatProperties DEF FTyped
  <2>9. fClean' \in BOOLEAN
    BY <2>4 DEF FTyped
  <2> QED BY <1>3, <2>3, <2>4, <2>7, <2>8, <2>9 DEF FTyped, FRead
<1>4. CASE UNCHANGED framing
  BY <1>4 DEF FTyped, framing
<1> QED BY <1>1, <1>2, <1>3, <1>4 DEF FNext

(* The buffer, the wire and the frames are bytes whatever the line carries:   *)
(* the length a stray preamble announces is a number, if a wrong one.         *)
THEOREM FramingTypeCorrect == FSpec => []FTypeOK
<1>1. FInit => FTyped
  <2> SUFFICES ASSUME FInit PROVE FTyped
    OBVIOUS
  <2>1. <<>> \in Seq(FByte) /\ <<>> \in Seq(Seq(FByte)) /\ 0 \in 0..FMaxSent
    BY FAssumption
  <2> QED BY <2>1 DEF FInit, FTyped
<1>2. FTyped => FTypeOK
  <2> SUFFICES ASSUME FTyped PROVE FTypeOK
    OBVIOUS
  <2> DEFINE S == Seq(FByte)
  <2>1. ASSUME NEW fs \in Seq(S), NEW p \in Range(fs) PROVE p \in S
    <3> HIDE DEF S
    <3> QED BY DEF Range
  <2>2. fFrames \in Seq(S) /\ fSent \in Seq(S)
    BY DEF FTyped
  <2>3. \A p \in Range(fFrames) \cup Range(fSent) : p \in S
    BY <2>1, <2>2
  <2> QED BY <2>3 DEF FTyped, FTypeOK, FByte
<1> QED BY <1>1, <1>2, FTypedStep, PTL DEF FSpec

=============================================================================
