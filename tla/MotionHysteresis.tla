--------------------------- MODULE MotionHysteresis ---------------------------
(***************************************************************************)
(* The motion state of one device in Redis: evaluate_state() as the worker *)
(* and the watchdog run it for packets, inside RedisLock, and the resets   *)
(* that offline marking writes without that lock.                          *)
(*                                                                         *)
(* A step is what one task does between two awaits.  Packet times may be   *)
(* late.  A speed is "fast" (above SPEED_START), "slow" (below SPEED_STOP) *)
(* or in the "zone" between.  A Redis error, a section that outlives the   *)
(* five seconds others wait or the lock's ten, and a restart of the        *)
(* process are faults; hFaults counts them.                                *)
(***************************************************************************)
EXTENDS Integers

CONSTANTS
    HEvaluators,    \* tasks that call evaluate_state for the device
    HMaxTime,       \* bound on packet times
    HStart, HStop,  \* DURATION_START and DURATION_STOP in units of packet time
    HMaxFaults      \* bound on the faults of a run

ASSUME HAssumption == /\ HStart \in Nat \ {0} /\ HStop \in Nat \ {0}
                      /\ HMaxTime \in Nat /\ HMaxFaults \in Nat

VARIABLES
    hMotion,   \* motion_state:<imei>
    hLock,     \* lock:hysteresis:<imei> is set
    hPc,       \* where each task is
    hPacket,   \* the packet each task evaluates
    hHeld,     \* RedisLock.acquired of each task
    hSeen,     \* what get_state returned to each task
    hRun,      \* the current run of fast or slow packets written so far
    hTorn,     \* evaluators that read before a reset, and whether one wrote since
    hFaults

hysteresis == <<hMotion, hLock, hPc, hPacket, hHeld, hSeen, hRun, hTorn, hFaults>>

HTime    == 0..HMaxTime
HPacket  == [sort : {"fast", "slow"}, ts : HTime] \cup [sort : {"off", "zone"}, ts : {0}]
HMotion  == [state : {"idle", "moving", "ignition_off", "offline"},
             pending : {"none", "moving", "stopped"}, since : HTime]
HSettled(s)    == [state |-> s, pending |-> "none", since |-> 0]
HWaits(m, k)   == m.pending = k
HUndecided     == HSettled("idle")
NoPacket       == [sort |-> "off", ts |-> 0]
NoRun          == [kind |-> "none", lo |-> 0, hi |-> 0]

HInit ==
    /\ hMotion = HUndecided /\ hLock = FALSE
    /\ hPc = [e \in HEvaluators |-> "idle"]
    /\ hPacket = [e \in HEvaluators |-> NoPacket]
    /\ hHeld = [e \in HEvaluators |-> FALSE]
    /\ hSeen = [e \in HEvaluators |-> HUndecided]
    /\ hRun = NoRun
    /\ hTorn = [readers |-> {}, wrote |-> FALSE]
    /\ hFaults = 0

HGoto(e, l) == hPc' = [hPc EXCEPT ![e] = l]
HFault      == hFaults < HMaxFaults /\ hFaults' = hFaults + 1

-----------------------------------------------------------------------------
(* The rules for a packet with the ignition on, on the state read.            *)

(* Bug: the pending state is written over the state.                          *)
HFastStateBug(m, t) ==
    IF m.state = "moving" THEN HSettled("moving") ELSE [m EXCEPT !.state = "moving_pending"]

(* Bug: a pending stop is taken over as the start of the move.                *)
HFastBug(m, t) ==
    CASE m.state = "moving"    -> HSettled("moving")
      [] m.state # "moving" /\ m.pending = "none"
                               -> [m EXCEPT !.pending = "moving", !.since = t]
      [] OTHER                 -> IF t - m.since >= HStart THEN HSettled("moving") ELSE m

(* Rule A: moving only after a pending move of HStart.                        *)
HFast(m, t) ==
    CASE m.state = "moving"    -> HSettled("moving")
      [] m.state # "moving" /\ m.pending # "moving"
                               -> [m EXCEPT !.pending = "moving", !.since = t]
      [] OTHER                 -> IF t - m.since >= HStart THEN HSettled("moving") ELSE m

(* Rule B: idle at once when the engine was off, else after HStop.            *)
HSlow(m, t) ==
    CASE m.state \in {"idle", "ignition_off"} -> HSettled("idle")
      [] m.state \in {"moving", "offline"} /\ m.pending # "stopped"
                               -> [m EXCEPT !.pending = "stopped", !.since = t]
      [] OTHER                 -> IF t - m.since >= HStop THEN HSettled("idle") ELSE m

(* Rule C, the zone between, keeps everything.                                *)
HRules(m, p) ==
    CASE p.sort = "off"  -> HSettled("ignition_off")
      [] p.sort = "fast" -> HFast(m, p.ts)
      [] p.sort = "slow" -> HSlow(m, p.ts)
      [] p.sort = "zone" -> m

(* The evidence a written packet adds: a run of one kind, and its extent.     *)
HEvidence(r, p) ==
    CASE p.sort = "off"  -> NoRun
      [] p.sort = "zone" -> r
      [] p.sort = r.kind -> [r EXCEPT !.lo = IF p.ts < @ THEN p.ts ELSE @,
                                      !.hi = IF p.ts > @ THEN p.ts ELSE @]
      [] OTHER           -> [kind |-> p.sort, lo |-> p.ts, hi |-> p.ts]

-----------------------------------------------------------------------------
(* __aenter__: SET NX EX.  Entering is also possible after 100 attempts that  *)
(* found the key or an error.  An ignition-off packet needs no read.          *)
HEnter(e) ==
    /\ hPc[e] = "idle"
    /\ \E p \in HPacket :
          /\ hPacket' = [hPacket EXCEPT ![e] = p]
          /\ HGoto(e, IF p.sort = "off" THEN "save" ELSE "read")
    /\ UNCHANGED <<hMotion, hSeen, hRun, hTorn>>

(* Bug: SET without NX.                                                       *)
HAcquireBug(e) ==
    /\ hLock' = TRUE
    /\ hHeld' = [hHeld EXCEPT ![e] = TRUE]
    /\ HEnter(e) /\ UNCHANGED hFaults

HAcquire(e) ==
    /\ ~hLock /\ hLock' = TRUE
    /\ hHeld' = [hHeld EXCEPT ![e] = TRUE]
    /\ HEnter(e) /\ UNCHANGED hFaults

HProceedUnlocked(e) == HEnter(e) /\ HFault /\ UNCHANGED <<hLock, hHeld>>

(* The key expires under a section that takes longer than its ten seconds, or *)
(* after one that could not delete it.                                        *)
HLockExpires ==
    /\ hLock
    /\ IF \E e \in HEvaluators : hHeld[e] THEN HFault ELSE UNCHANGED hFaults
    /\ hLock' = FALSE
    /\ UNCHANGED <<hMotion, hPc, hPacket, hHeld, hSeen, hRun, hTorn>>

(* get_state(): the default state when there is an error.                     *)
HRead(e) ==
    /\ hPc[e] = "read"
    /\ \/ hSeen' = [hSeen EXCEPT ![e] = hMotion] /\ UNCHANGED hFaults
       \/ hSeen' = [hSeen EXCEPT ![e] = HUndecided] /\ HFault
    /\ HGoto(e, "save")
    /\ UNCHANGED <<hMotion, hLock, hPacket, hHeld, hRun, hTorn>>

(* save_state(): nothing is written when there is an error.                   *)
HSave(e) ==
    /\ hPc[e] = "save"
    /\ \/ /\ hMotion' = HRules(hSeen[e], hPacket[e])
          /\ hRun' = HEvidence(hRun, hPacket[e])
          /\ hTorn' = [readers |-> hTorn.readers \ {e},
                       wrote |-> hTorn.wrote \/ e \in hTorn.readers]
          /\ UNCHANGED hFaults
       \/ hTorn' = [hTorn EXCEPT !.readers = @ \ {e}] /\ UNCHANGED <<hMotion, hRun, hFaults>>
    /\ HGoto(e, "unlock")
    /\ UNCHANGED <<hLock, hPacket, hHeld, hSeen>>

(* __aexit__: DEL whoever holds the key by now.                               *)
HRelease(e) ==
    /\ hPc[e] = "unlock"
    /\ \/ hLock' = (hLock /\ ~hHeld[e]) /\ UNCHANGED hFaults
       \/ hHeld[e] /\ UNCHANGED <<hLock, hFaults>>
    /\ hHeld' = [hHeld EXCEPT ![e] = FALSE]
    /\ hSeen' = [hSeen EXCEPT ![e] = HUndecided]
    /\ hPacket' = [hPacket EXCEPT ![e] = NoPacket]
    /\ HGoto(e, "idle")
    /\ UNCHANGED <<hMotion, hRun, hTorn>>

(* mark_device_offline() and reconcile_offline_devices(), their last write,   *)
(* which takes no lock.                                                       *)
HResetOffline ==
    /\ hMotion' = HSettled("offline")
    /\ hRun' = NoRun
    /\ hTorn' = [readers |-> {e \in HEvaluators : hPc[e] = "save"}, wrote |-> FALSE]
    /\ UNCHANGED <<hLock, hPc, hPacket, hHeld, hSeen, hFaults>>

(* The process restarts: its tasks are gone, a lock they held is not.         *)
HRestart ==
    /\ HFault
    /\ hPc' = [e \in HEvaluators |-> "idle"]
    /\ hHeld' = [e \in HEvaluators |-> FALSE]
    /\ hSeen' = [e \in HEvaluators |-> HUndecided]
    /\ hPacket' = [e \in HEvaluators |-> NoPacket]
    /\ hTorn' = [hTorn EXCEPT !.readers = {}]
    /\ UNCHANGED <<hMotion, hLock, hRun>>

HStep(e) == HAcquire(e) \/ HRead(e) \/ HSave(e) \/ HRelease(e)

HNext ==
    \/ \E e \in HEvaluators : HStep(e) \/ HProceedUnlocked(e)
    \/ HLockExpires \/ HResetOffline \/ HRestart

HSpec == HInit /\ [][HNext]_hysteresis

-----------------------------------------------------------------------------
HTypeOK ==
    /\ hMotion \in HMotion /\ hLock \in BOOLEAN
    /\ hPc \in [HEvaluators -> {"idle", "read", "save", "unlock"}]
    /\ hPacket \in [HEvaluators -> HPacket]
    /\ hHeld \in [HEvaluators -> BOOLEAN]
    /\ hSeen \in [HEvaluators -> HMotion]
    /\ hRun \in [kind : {"none", "fast", "slow"}, lo : HTime, hi : HTime]
    /\ hTorn \in [readers : SUBSET HEvaluators, wrote : BOOLEAN]
    /\ hFaults \in 0..HMaxFaults

(* Two tasks are inside the section of one device only after a fault: an      *)
(* error of Redis, a section longer than others wait, or a restart.           *)
EvaluationsExclude ==
    \A d, e \in HEvaluators :
        d # e /\ hPc[d] \in {"read", "save", "unlock"} /\ hPc[e] \in {"read", "save", "unlock"}
        => hFaults > 0

(* A device starts moving only on fast packets that span DURATION_START, and  *)
(* stops only on slow ones that span DURATION_STOP; between them only packets *)
(* of the zone were written, and none was before it was marked offline.       *)
(* An evaluation that read before an offline reset and writes after it is     *)
(* the exception: it takes back the reset.                                    *)
TransitionIsSustained ==
    [][hFaults' > 0 \/ hTorn'.wrote
       \/ /\ (hMotion.state # "moving" /\ hMotion'.state = "moving")
             => hRun'.kind = "fast" /\ hRun'.hi - hRun'.lo >= HStart
          /\ (hMotion.state = "moving" /\ hMotion'.state = "idle")
             => hRun'.kind = "slow" /\ hRun'.hi - hRun'.lo >= HStop]_hysteresis
=============================================================================
