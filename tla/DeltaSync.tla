------------------------------- MODULE DeltaSync -------------------------------
(***************************************************************************)
(* Delta synchronisation of a mobile client.  A notification is written to *)
(* the history and committed; then, on a connection of its own and at best *)
(* once, a row of sync_changes names it.  The row takes its number when it *)
(* is inserted and is seen when it is committed, so numbers are not seen   *)
(* in their order.                                                         *)
(*                                                                         *)
(* A client starts with sync(): its history, and after it the highest      *)
(* number there is.  From then on it asks for the changes after the last   *)
(* number it has, a page at a time.                                        *)
(***************************************************************************)
EXTENDS Integers, FiniteSets

CONSTANTS
    YNotices,    \* notifications; each is written by a task of its own
    YHistory,    \* the newest rows of the history that sync() returns
    YPage,       \* the limit the client asks changes with
    YMaxSyncs    \* bound on the calls of sync()

ASSUME YAssumption == {YHistory, YPage, YMaxSyncs} \subseteq Nat \ {0} /\ IsFiniteSet(YNotices)

VARIABLES
    yStage,     \* each notification: new, stored, numbered, visible, lost
    ySeq,       \* the number of its row in sync_changes, 0 if none
    yNext,      \* the sequence
    yOrder,     \* how many were stored before it
    yClient,    \* the client: its step, the last number, the notifications it has,
                \* and as a ghost those stored when its history was read
    ySyncs,
    yUnlucky    \* ghost: notifications that came in a way the client cannot notice

delta == <<yStage, ySeq, yNext, yOrder, yClient, ySyncs, yUnlucky>>

YInit ==
    /\ yStage = [n \in YNotices |-> "new"] /\ ySeq = [n \in YNotices |-> 0]
    /\ yNext = 1 /\ yOrder = [n \in YNotices |-> 0]
    /\ yClient = [step |-> "new", last |-> 0, has |-> {}, read |-> {}]
    /\ ySyncs = 0 /\ yUnlucky = {}

Stored  == {n \in YNotices : yStage[n] # "new"}
Visible == {n \in YNotices : yStage[n] = "visible"}
MaxSeq(notices) == IF notices = {} THEN 0 ELSE CHOOSE m \in {ySeq[n] : n \in notices} :
                                               \A n \in notices : ySeq[n] <= m

-----------------------------------------------------------------------------
(* add_notification_history: the history row is committed first ...           *)
AddNotificationHistory(n) ==
    /\ yStage[n] = "new"
    /\ yStage' = [yStage EXCEPT ![n] = "stored"] /\ yOrder' = [yOrder EXCEPT ![n] = Cardinality(Stored)]
    /\ UNCHANGED <<ySeq, yNext, yClient, ySyncs, yUnlucky>>

(* ... then the row of sync_changes is inserted ...                           *)
NumberChange(n) ==
    /\ yStage[n] = "stored"
    /\ yStage' = [yStage EXCEPT ![n] = "numbered"]
    /\ ySeq' = [ySeq EXCEPT ![n] = yNext] /\ yNext' = yNext + 1
    /\ UNCHANGED <<yOrder, yClient, ySyncs, yUnlucky>>

(* ... and committed, maybe after a client has seen a higher number ...       *)
CommitChange(n) ==
    /\ yStage[n] = "numbered"
    /\ yStage' = [yStage EXCEPT ![n] = "visible"]
    /\ yUnlucky' = IF ySeq[n] < yClient.last THEN yUnlucky \cup {n} ELSE yUnlucky
    /\ UNCHANGED <<ySeq, yNext, yOrder, yClient, ySyncs>>

(* ... unless one of the two fails, which is swallowed.                       *)
LoseChange(n) ==
    /\ yStage[n] \in {"stored", "numbered"}
    /\ yStage' = [yStage EXCEPT ![n] = "lost"]
    /\ UNCHANGED <<ySeq, yNext, yOrder, yClient, ySyncs, yUnlucky>>

-----------------------------------------------------------------------------
(* sync() reads the newest notifications ...                                  *)
Newest == {n \in Stored : Cardinality(Stored) - yOrder[n] <= YHistory}

SyncReadsHistory ==
    /\ yClient.step \in {"new", "synced"} /\ ySyncs < YMaxSyncs /\ ySyncs' = ySyncs + 1
    /\ yClient' = [yClient EXCEPT !.step = "sync", !.has = @ \cup Newest, !.read = Stored]
    /\ yUnlucky' = yUnlucky \cup (Stored \ Newest)
    /\ UNCHANGED <<yStage, ySeq, yNext, yOrder>>

(* ... and then the highest number, which what was stored between the two     *)
(* reads may have.                                                            *)
SyncReadsMaxSeq ==
    /\ yClient.step = "sync"
    /\ yClient' = [yClient EXCEPT !.step = "synced", !.last = MaxSeq(Visible)]
    /\ yUnlucky' = yUnlucky \cup (Visible \ yClient.read)
    /\ UNCHANGED <<yStage, ySeq, yNext, yOrder, ySyncs>>

(* Bug: the newest changes come first.                                        *)
PageBug(later) == {n \in later : Cardinality({o \in later : ySeq[o] > ySeq[n]}) < YPage}

(* ORDER BY seq ASC LIMIT                                                     *)
Page(later) == {n \in later : Cardinality({o \in later : ySeq[o] < ySeq[n]}) < YPage}

(* get_changes(): the client goes on from the last number it got.             *)
GetChanges ==
    LET page == Page({n \in Visible : ySeq[n] > yClient.last}) IN
    /\ yClient.step = "synced" /\ page # {}
    /\ yClient' = [yClient EXCEPT !.last = MaxSeq(page), !.has = @ \cup page]
    /\ UNCHANGED <<yStage, ySeq, yNext, yOrder, ySyncs, yUnlucky>>

YNext ==
    \/ \E n \in YNotices : AddNotificationHistory(n) \/ NumberChange(n) \/ CommitChange(n) \/ LoseChange(n)
    \/ SyncReadsHistory \/ SyncReadsMaxSeq \/ GetChanges

YSpec == YInit /\ [][YNext]_delta

-----------------------------------------------------------------------------
YTypeOK ==
    /\ yStage \in [YNotices -> {"new", "stored", "numbered", "visible", "lost"}]
    /\ ySeq \in [YNotices -> 0..Cardinality(YNotices)] /\ yNext \in 1..Cardinality(YNotices) + 1
    /\ yOrder \in [YNotices -> 0..Cardinality(YNotices)]
    /\ yClient.step \in {"new", "sync", "synced"} /\ yClient.last \in 0..Cardinality(YNotices)
    /\ yClient.has \cup yClient.read \cup yUnlucky \subseteq YNotices /\ ySyncs \in 0..YMaxSyncs

(* A client that goes on from the last number it got misses a change only if  *)
(* its number was committed after a higher one had been seen, if it came      *)
(* between the two reads of sync(), or was too old for its history: paging    *)
(* and later synchronisations skip nothing else, and every change with a      *)
(* higher number is still to come.                                            *)
MissedForAReason ==
    yClient.step = "synced" =>
        \A n \in Visible : n \in yClient.has \cup yUnlucky \/ ySeq[n] > yClient.last
=============================================================================
