----------------------------- MODULE Notifications -----------------------------
(***************************************************************************)
(* The notification queue: rows come from events of the ingestion and from *)
(* the reminders that every poll of the notification bell generates; the   *)
(* dispatcher hands the pending ones to a Celery task each and marks them; *)
(* the tasks push to the owner's devices, write the history and retry.     *)
(*                                                                         *)
(* Celery acknowledges a task when it has ended and delivers it again when *)
(* the worker was lost: a second task for the same row does nothing that   *)
(* the first, delivered again, would not do, so tasks are a set.  A        *)
(* statement that fails leaves the dispatcher's transaction aborted,       *)
(* because nothing rolls it back: every later statement of that run fails  *)
(* too.                                                                    *)
(***************************************************************************)
EXTENDS Integers, Sequences, FiniteSets

CONSTANTS
    NTitles,       \* titles of reminders that are due
    NPolls,        \* requests for the latest notifications
    NDispatchers,  \* runs of dispatch_notifications
    NMaxRows,      \* bound on the rows of the queue
    NMaxRetries    \* max_retries of the tasks

ASSUME NAssumption ==
    NMaxRows \in Nat /\ NMaxRetries \in Nat /\ NTitles \cap {"new", "event"} = {}

VARIABLES
    nQueue,     \* notification_queue, in the order of created_at
    nPoll,      \* each poll: the title it is about to insert, or new
    nRun,       \* each dispatcher: the rows it has left, its step, its transaction
    nTasks,     \* tasks in the broker: the row and the tries so far
    nHanded,    \* ghost: rows handed to a task
    nRecorded,  \* rows that are in notification_history
    nUnwritten, \* ghost: rows whose history a task failed to write that left no retry
    nOverlap    \* ghost: a poll inserted while another was between check and commit

notices == <<nQueue, nPoll, nRun, nTasks, nHanded, nRecorded, nUnwritten, nOverlap>>

NEvent == "event"
NRows    == 1..NMaxRows
NIdle    == [step |-> "select", left |-> {}, aborted |-> FALSE]

NInit ==
    /\ nQueue = <<>> /\ nTasks = {} /\ nOverlap = FALSE
    /\ nPoll = [p \in NPolls |-> "new"] /\ nRun = [d \in NDispatchers |-> NIdle]
    /\ nHanded = {}
    /\ nRecorded = {} /\ nUnwritten = {}

NRow(title) == [title |-> title, processed |-> FALSE]

-----------------------------------------------------------------------------
(* save_system_event queues a row for a severe event.                         *)
NSaveEvent ==
    /\ Len(nQueue) < NMaxRows
    /\ nQueue' = Append(nQueue, NRow(NEvent))
    /\ UNCHANGED <<nPoll, nRun, nTasks, nHanded, nRecorded, nUnwritten, nOverlap>>

(* check_and_generate_reminders looks for a row with the title.               *)
NTitleMissing(t) == \A r \in DOMAIN nQueue : nQueue[r].title # t

(* Bug: it looks among the unprocessed rows only.                             *)
NCheckBug(p) ==
    /\ nPoll[p] = "new"
    /\ \E t \in NTitles :
          /\ \A r \in DOMAIN nQueue : nQueue[r].title = t => nQueue[r].processed
          /\ nPoll' = [nPoll EXCEPT ![p] = t]
    /\ UNCHANGED <<nQueue, nRun, nTasks, nHanded, nRecorded, nUnwritten, nOverlap>>

NCheck(p) ==
    /\ nPoll[p] = "new"
    /\ \E t \in NTitles : NTitleMissing(t) /\ nPoll' = [nPoll EXCEPT ![p] = t]
    /\ UNCHANGED <<nQueue, nRun, nTasks, nHanded, nRecorded, nUnwritten, nOverlap>>

(* ... and its insert becomes visible when the whole poll commits.            *)
NCommit(p) ==
    /\ nPoll[p] \in NTitles /\ Len(nQueue) < NMaxRows
    /\ nQueue' = Append(nQueue, NRow(nPoll[p]))
    /\ nPoll' = [nPoll EXCEPT ![p] = "new"]
    /\ nOverlap' = (nOverlap \/ \E q \in NPolls \ {p} : nPoll[q] = nPoll[p])
    /\ UNCHANGED <<nRun, nTasks, nHanded, nRecorded, nUnwritten>>

(* A poll that fails on a later vehicle rolls all of its inserts back.        *)
NRollBack(p) ==
    /\ nPoll[p] \in NTitles /\ nPoll' = [nPoll EXCEPT ![p] = "new"]
    /\ UNCHANGED <<nQueue, nRun, nTasks, nHanded, nRecorded, nUnwritten, nOverlap>>

-----------------------------------------------------------------------------
(* dispatch_notifications: select what is pending, then for each row hand it  *)
(* over and mark it.                                                          *)
NSelect(d) ==
    /\ nRun[d].step = "select"
    /\ LET pending == {r \in DOMAIN nQueue : ~nQueue[r].processed}
       IN  /\ pending # {}
           /\ nRun' = [nRun EXCEPT ![d] = [step |-> "hand", left |-> pending, aborted |-> FALSE]]
    /\ UNCHANGED <<nQueue, nPoll, nTasks, nHanded, nRecorded, nUnwritten, nOverlap>>

(* It takes them in the order of created_at.                                  *)
NFirst(rows) == CHOOSE r \in rows : \A s \in rows : r <= s

NNextRow(d, aborted) ==
    LET left == nRun[d].left \ {NFirst(nRun[d].left)}
    IN  [nRun EXCEPT ![d] = IF left = {} THEN NIdle
                            ELSE [step |-> "hand", left |-> left, aborted |-> aborted]]

(* The broker takes the task, or does not and the row is left for a later     *)
(* run.                                                                       *)
NHand(d) ==
    /\ nRun[d].step = "hand"
    /\ LET r == NFirst(nRun[d].left) IN
       \/ /\ nHanded' = nHanded \cup {r} /\ nTasks' = nTasks \cup {[row |-> r, tries |-> 0]}
          /\ nRun' = [nRun EXCEPT ![d].step = "mark"]
       \/ /\ nRun' = NNextRow(d, nRun[d].aborted) /\ UNCHANGED <<nHanded, nTasks>>
    /\ UNCHANGED <<nQueue, nPoll, nRecorded, nUnwritten, nOverlap>>

(* The update and its commit; they fail in an aborted transaction, and a      *)
(* failure aborts it.                                                         *)
NMark(d) ==
    /\ nRun[d].step = "mark"
    /\ \/ /\ ~nRun[d].aborted
          /\ nQueue' = [nQueue EXCEPT ![NFirst(nRun[d].left)].processed = TRUE]
          /\ nRun' = NNextRow(d, FALSE)
       \/ nRun' = NNextRow(d, TRUE) /\ UNCHANGED nQueue
    /\ UNCHANGED <<nPoll, nTasks, nHanded, nRecorded, nUnwritten, nOverlap>>

NDispatcherLost(d) ==
    /\ nRun[d] # NIdle /\ nRun' = [nRun EXCEPT ![d] = NIdle]
    /\ UNCHANGED <<nQueue, nPoll, nTasks, nHanded, nRecorded, nUnwritten, nOverlap>>

-----------------------------------------------------------------------------
(* add_notification_history writes the row; or it prints the error of its     *)
(* insert, or raises because there is no connection, and writes nothing.      *)
NHistory(row, retried) ==
    \/ nRecorded' = nRecorded \cup {row} /\ UNCHANGED nUnwritten
    \/ nUnwritten' = (IF retried THEN nUnwritten ELSE nUnwritten \cup {row}) /\ UNCHANGED nRecorded

(* A task that succeeds has pushed, unless there is no device, and called     *)
(* add_notification_history, whose own failure it does not see.  A worker     *)
(* lost before it acknowledges leaves the task.                               *)
NTaskSucceeds(t) ==
    /\ nTasks' \in {nTasks, nTasks \ {t}} /\ NHistory(t.row, FALSE)
    /\ UNCHANGED <<nQueue, nPoll, nRun, nHanded, nOverlap>>

NRetry(t) == [t EXCEPT !.tries = @ + 1]

(* Bug: a task that has no retry left writes no history.                      *)
NTaskFailsBug(t) ==
    /\ \E others \in {nTasks, nTasks \ {t}}, retried \in BOOLEAN :
          /\ retried => t.tries < NMaxRetries
          /\ nTasks' = others \cup (IF retried THEN {NRetry(t)} ELSE {})
          /\ IF retried THEN NHistory(t.row, retried) ELSE UNCHANGED <<nRecorded, nUnwritten>>
    /\ UNCHANGED <<nQueue, nPoll, nRun, nHanded, nOverlap>>

(* self.retry schedules the task again and raises; without a retry left, or   *)
(* without the broker, it raises only.  It is caught and the history written. *)
(* The reminder task may have written it before it failed, too.               *)
NTaskFails(t) ==
    /\ \E others \in {nTasks, nTasks \ {t}}, retried \in BOOLEAN :
          /\ retried => t.tries < NMaxRetries
          /\ nTasks' = others \cup (IF retried THEN {NRetry(t)} ELSE {})
          /\ NHistory(t.row, retried)
    /\ UNCHANGED <<nQueue, nPoll, nRun, nHanded, nOverlap>>

NNext ==
    \/ NSaveEvent
    \/ \E p \in NPolls : NCheck(p) \/ NCommit(p) \/ NRollBack(p)
    \/ \E d \in NDispatchers : NSelect(d) \/ NHand(d) \/ NMark(d) \/ NDispatcherLost(d)
    \/ \E t \in nTasks : NTaskSucceeds(t) \/ NTaskFails(t)

NSpec == NInit /\ [][NNext]_notices

-----------------------------------------------------------------------------
NTypeOK ==
    /\ nQueue \in Seq([title : NTitles \cup {NEvent}, processed : BOOLEAN])
    /\ Len(nQueue) <= NMaxRows
    /\ nPoll \in [NPolls -> NTitles \cup {"new"}]
    /\ \A d \in NDispatchers : nRun[d].step \in {"select", "hand", "mark"} /\ nRun[d].left \subseteq NRows
    /\ nTasks \subseteq [row : NRows, tries : 0..NMaxRetries]
    /\ nHanded \cup nRecorded \cup nUnwritten \subseteq NRows

(* A row marked processed was handed to a task, and a row handed over is      *)
(* still with a task, or in the history, or a task that left no retry could   *)
(* not write the history: dispatchers that overlap, die, or lose their        *)
(* transaction halfway, workers that are lost, and attempts that fail while   *)
(* there is a retry, may repeat a notification but never swallow one.  And a  *)
(* title has one reminder, unless two polls overlapped.                       *)
NoticesAreSettled ==
    /\ \A r \in DOMAIN nQueue :
          /\ nQueue[r].processed => r \in nHanded
          /\ r \in nHanded => r \in nRecorded \cup nUnwritten \cup {t.row : t \in nTasks}
    /\ \/ nOverlap
       \/ \A r, s \in DOMAIN nQueue :
             nQueue[r].title = nQueue[s].title /\ nQueue[r].title # NEvent => r = s
=============================================================================
