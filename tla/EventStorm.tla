------------------------------ MODULE EventStorm ------------------------------
(***************************************************************************)
(* save_system_event(): storm control for the events of one device and one *)
(* category.  Several tasks report at once (the worker, the disconnect     *)
(* handler, the sweeper).  Each reads the cooldown key, counts or passes,  *)
(* sets the cooldown, then stores the event and queues its notification;   *)
(* the keys live in Redis with times to live, the events in PostgreSQL.    *)
(* evClock ticks in units of the cooldown.  A severity other than WARNING  *)
(* is treated as INFO is.                                                  *)
(***************************************************************************)
EXTENDS Integers, Sequences

CONSTANTS
    EvReporters,    \* tasks that report events
    EvCountTTL,     \* life of the counter in cooldowns (600 s to 300 s)
    EvMaxClock,     \* bound on the time of a run
    EvMaxReports    \* bound on the reports of a run

ASSUME EvAssumption == EvCountTTL \in Nat \ {0} /\ EvMaxClock \in Nat /\ EvMaxReports \in Nat

VARIABLES
    evClock,
    evCooldown,   \* when event_cooldown:<imei>:<category> lapses
    evCount,      \* event_count:<imei>:<category>
    evCountTill,  \* when the counter lapses
    evPc,         \* where each task is
    evCarried,    \* the event each task carries past the cooldown
    evSeries,     \* when the reports in the counter were counted
    evRaced,      \* whether two tasks passed one gap between cooldowns
    evStored,     \* how many plain events were stored for each time they passed
    evEscalated,  \* the series of the escalated events that were stored
    evReports     \* reports so far

storm == <<evClock, evCooldown, evCount, evCountTill, evPc, evCarried, evSeries, evRaced,
           evStored, evEscalated, evReports>>

EvSeverity  == {"INFO", "WARNING"}
EvThreshold == 3
EvEvent(s, series) == [sev |-> s, at |-> evClock, series |-> series]
EvNone      == [sev |-> "INFO", at |-> 0, series |-> <<>>]

EvInit ==
    /\ evClock = 0 /\ evCooldown = 0
    /\ evCount = 0 /\ evCountTill = 0
    /\ evPc = [r \in EvReporters |-> "idle"]
    /\ evCarried = [r \in EvReporters |-> EvNone]
    /\ evSeries = <<>> /\ evRaced = FALSE
    /\ evStored = [t \in 0..EvMaxClock |-> 0] /\ evEscalated = {} /\ evReports = 0

EvCooling    == evCooldown > evClock
EvLiveCount  == IF evCountTill > evClock THEN evCount ELSE 0
EvCarry(r, e) == /\ evCarried' = [evCarried EXCEPT ![r] = e]
                 /\ evPc' = [evPc EXCEPT ![r] = "arm"]

(* A report finds no cooldown.  The task that is about to set it has not yet. *)
EvPass(r, s) ==
    /\ ~EvCooling
    /\ EvCarry(r, EvEvent(s, <<>>))
    /\ evRaced' = (evRaced \/ \E q \in EvReporters \ {r} : evPc[q] = "arm")
    /\ UNCHANGED <<evCount, evCountTill, evSeries>>

(* INCR and EXPIRE of the counter.                                            *)
EvCountOne ==
    /\ evCount' = EvLiveCount + 1
    /\ evCountTill' = evClock + EvCountTTL
    /\ evSeries' = Append(IF EvLiveCount = 0 THEN <<>> ELSE evSeries, evClock)

(* A report in the cooldown is counted, and goes no further unless it is a    *)
(* WARNING and the third of its series at least: that one becomes CRITICAL.   *)
EvSuppress(r, s) ==
    /\ EvCooling
    /\ EvCountOne
    /\ IF s = "WARNING" /\ evCount' >= EvThreshold
       THEN EvCarry(r, EvEvent("CRITICAL", evSeries'))
       ELSE UNCHANGED <<evPc, evCarried>>
    /\ UNCHANGED evRaced

EvReport(r) ==
    /\ evPc[r] = "idle" /\ evReports < EvMaxReports
    /\ evReports' = evReports + 1
    /\ \E s \in EvSeverity : EvPass(r, s) \/ EvSuppress(r, s)
    /\ UNCHANGED <<evClock, evCooldown, evStored, evEscalated>>

(* Bug: the cooldown is only set for severities that are notified.            *)
EvArmBug(r) ==
    /\ evPc[r] = "arm"
    /\ evCooldown' = IF evCarried[r].sev # "INFO" THEN evClock + 1 ELSE evCooldown
    /\ evCarried' = [evCarried EXCEPT ![r].at = evClock]
    /\ evPc' = [evPc EXCEPT ![r] = "store"]
    /\ UNCHANGED <<evClock, evCount, evCountTill, evSeries, evRaced, evStored, evEscalated, evReports>>

(* SETEX of the cooldown.                                                     *)
EvArm(r) ==
    /\ evPc[r] = "arm"
    /\ evCooldown' = evClock + 1
    /\ evCarried' = [evCarried EXCEPT ![r].at = evClock]
    /\ evPc' = [evPc EXCEPT ![r] = "store"]
    /\ UNCHANGED <<evClock, evCount, evCountTill, evSeries, evRaced, evStored, evEscalated, evReports>>

(* The event row, its notification and its publication; an error is logged,   *)
(* and leaves the cooldown set.                                               *)
EvStore(r) ==
    /\ evPc[r] = "store"
    /\ \/ UNCHANGED <<evStored, evEscalated>>
       \/ /\ evCarried[r].series = <<>>
          /\ evStored' = [evStored EXCEPT ![evCarried[r].at] = @ + 1]
          /\ UNCHANGED evEscalated
       \/ /\ evCarried[r].series # <<>>
          /\ evEscalated' = evEscalated \cup {evCarried[r].series}
          /\ UNCHANGED evStored
    /\ evCarried' = [evCarried EXCEPT ![r] = EvNone]
    /\ evPc' = [evPc EXCEPT ![r] = "idle"]
    /\ UNCHANGED <<evClock, evCooldown, evCount, evCountTill, evSeries, evRaced, evReports>>

EvTick ==
    /\ evClock < EvMaxClock /\ evClock' = evClock + 1
    /\ UNCHANGED <<evCooldown, evCount, evCountTill, evPc, evCarried, evSeries, evRaced,
                   evStored, evEscalated, evReports>>

EvNext == EvTick \/ \E r \in EvReporters : EvReport(r) \/ EvArm(r) \/ EvStore(r)

EvSpec == EvInit /\ [][EvNext]_storm

-----------------------------------------------------------------------------
EvTypeOK ==
    /\ {evClock, evCooldown, evCount, evCountTill, evReports} \subseteq Nat
    /\ evPc \in [EvReporters -> {"idle", "arm", "store"}]
    /\ \A r \in EvReporters : evCarried[r].sev \in {"INFO", "WARNING", "CRITICAL"}
    /\ evRaced \in BOOLEAN
    /\ evStored \in [0..EvMaxClock -> Nat]
    /\ \A series \in evEscalated : series \in Seq(0..EvMaxClock)

(* In one cooldown one event at most is stored that was not escalated, unless *)
(* two tasks read the cooldown key before either had set it.                  *)
OneEventPerCooldown == evRaced \/ \A t \in 0..EvMaxClock : evStored[t] <= 1
=============================================================================
