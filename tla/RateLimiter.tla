------------------------------ MODULE RateLimiter ------------------------------
(***************************************************************************)
(* The sliding-window rate limiter of the web application for one address. *)
(* A worker reads the clock and then runs its four commands as one Redis   *)
(* transaction; workers do this side by side, so transactions may run in   *)
(* another order than the clock was read.  Every request is entered, also  *)
(* one that is refused, under its time as its member: two of one time      *)
(* count once.  Without Redis, at the start or at any moment, requests are *)
(* let through.  The time to live of the bucket exceeds the window, so its *)
(* expiry removes nothing that counts.                                     *)
(***************************************************************************)
EXTENDS Integers, FiniteSets

CONSTANTS
    LWorkers,   \* worker processes
    LLimit,     \* limit
    LPeriod,    \* period
    LMaxClock   \* bound on the clock

ASSUME LAssumption == {LLimit, LPeriod, LMaxClock} \subseteq Nat /\ IsFiniteSet(LWorkers)

VARIABLES
    lClock,
    lWorker,   \* the time each worker has read, or resting
    lBucket,   \* the sorted set: times entered
    lServed,   \* ghost: requests let through by the limiter: their times
    lLate      \* ghost: a transaction ran after one with a later time

limiter == <<lClock, lWorker, lBucket, lServed, lLate>>

LResting == -1

LInit == /\ lClock = 0 /\ lWorker = [w \in LWorkers |-> LResting]
         /\ lBucket = {} /\ lServed = {} /\ lLate = FALSE

LTick == /\ lClock < LMaxClock /\ lClock' = lClock + 1
         /\ UNCHANGED <<lWorker, lBucket, lServed, lLate>>

(* now = time.time()                                                          *)
ReadClock(w) ==
    /\ lWorker[w] = LResting /\ lWorker' = [lWorker EXCEPT ![w] = lClock]
    /\ UNCHANGED <<lClock, lBucket, lServed, lLate>>

(* Bug: the window is cut one tick short.                                     *)
RecentBug(now) == {t \in lBucket : t > now - LPeriod + 1}

Recent(now) == {t \in lBucket : t > now - LPeriod}

(* zremrangebyscore, zcard, zadd, expire.                                     *)
CheckRateLimit(w) ==
    LET now == lWorker[w] IN
    /\ now # LResting /\ lWorker' = [lWorker EXCEPT ![w] = LResting]
    /\ lBucket' = Recent(now) \cup {now}
    /\ lServed' = IF Cardinality(Recent(now)) > LLimit THEN lServed ELSE lServed \cup {now}
    /\ lLate' = (lLate \/ \E t \in lBucket : t > now)
    /\ UNCHANGED lClock

(* The transaction fails, and the request goes through unentered.             *)
FailOpen(w) ==
    /\ lWorker[w] # LResting /\ lWorker' = [lWorker EXCEPT ![w] = LResting]
    /\ UNCHANGED <<lClock, lBucket, lServed, lLate>>

LNext == LTick \/ \E w \in LWorkers : ReadClock(w) \/ CheckRateLimit(w) \/ FailOpen(w)

LSpec == LInit /\ [][LNext]_limiter

-----------------------------------------------------------------------------
LTypeOK ==
    /\ lClock \in 0..LMaxClock /\ lWorker \in [LWorkers -> LResting..LMaxClock]
    /\ lBucket \subseteq 0..LMaxClock /\ lServed \subseteq 0..LMaxClock /\ lLate \in BOOLEAN

Window(from) == {t \in lServed : from < t /\ t <= from + LPeriod}

(* Requests of different times: in no window does the limiter let more        *)
(* through than one above the limit (the request itself is entered after the  *)
(* count), although refused requests are entered too; and one more for every  *)
(* further worker, when transactions overtake each other.                     *)
WindowIsBounded ==
    \A from \in LResting..LMaxClock :
        Cardinality(Window(from)) <= LLimit + (IF lLate THEN Cardinality(LWorkers) ELSE 1)
=============================================================================
