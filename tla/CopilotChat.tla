------------------------------ MODULE CopilotChat ------------------------------
(***************************************************************************)
(* The copilot's answers about the fleet in one worker process.  A request *)
(* has the language model name the intent of the question, takes the       *)
(* answer from the cache when there is a fresh one, and otherwise runs the *)
(* intent's query, has the model word the rows and caches the wording with *)
(* the time it arrived.  The cache and the memory of the last conversation *)
(* are the process's, whoever asks.                                        *)
(*                                                                         *)
(* Rows are the time they were read; wording and language are left out.    *)
(***************************************************************************)
EXTENDS Integers, FiniteSets

CONSTANTS
    QIntents,    \* intents that have a query
    QRequests,   \* requests served at the same time
    QTTL,        \* _CACHE_TTL
    QMemoryTTL,  \* _CONTEXT_MEMORY_TTL
    QPatience,   \* the longest a query and a call of the model are taken to last
    QMaxClock    \* bound on the clock

ASSUME QAssumption == {QTTL, QMemoryTTL, QPatience, QMaxClock} \subseteq Nat \ {0}

VARIABLES
    qClock,
    qCache,     \* _QUERY_CACHE: when an answer was stored and what it says
    qMemory,    \* _CONTEXT_MEMORY: when the last conversation was
    qRequest,   \* each request: its step, since when, its intent, its rows
    qShown,     \* ghost: the newest rows an answer showed, by intent
    qBack,      \* ghost: intents for which an answer showed older rows than an earlier one
    qOverlap,   \* ghost: intents two requests worded at the same time
    qOldest     \* ghost: the age of the oldest rows an answer showed

copilot == <<qClock, qCache, qMemory, qRequest, qShown, qBack, qOverlap, qOldest>>

Never   == -1
Nothing == -2                             \* "No real production data found."
NoIntent == "none"
QIdle == [step |-> "idle", since |-> 0, intent |-> NoIntent, rows |-> Nothing]

QInit ==
    /\ qClock = 0 /\ qMemory = Never
    /\ qCache = [i \in QIntents |-> [at |-> Never, rows |-> Nothing]]
    /\ qRequest = [r \in QRequests |-> QIdle]
    /\ qShown = [i \in QIntents |-> Nothing] /\ qBack = {} /\ qOverlap = {} /\ qOldest = 0

-----------------------------------------------------------------------------
(* A call of the model ends, with an answer or without; its timeout bounds    *)
(* each read of the socket, and QPatience, which is assumed, the whole call.  *)
Calling == {"detect", "converse", "word"}
QTick ==
    /\ qClock < QMaxClock
    /\ \A r \in QRequests : qRequest[r].step \in Calling => qClock - qRequest[r].since < QPatience
    /\ qClock' = qClock + 1
    /\ UNCHANGED <<qCache, qMemory, qRequest, qShown, qBack, qOverlap, qOldest>>

AskAi(r, step, intent, rows) ==
    qRequest' = [qRequest EXCEPT ![r] = [step |-> step, since |-> qClock, intent |-> intent, rows |-> rows]]

Reply(r) == qRequest' = [qRequest EXCEPT ![r] = QIdle]

(* An answer that shows rows of an intent.                                    *)
Show(r, intent, rows) ==
    /\ Reply(r)
    /\ IF rows = Nothing THEN UNCHANGED <<qShown, qBack, qOldest>>
       ELSE /\ qShown' = [qShown EXCEPT ![intent] = IF rows > @ THEN rows ELSE @]
            /\ qBack' = IF rows < qShown[intent] THEN qBack \cup {intent} ELSE qBack
            /\ qOldest' = IF qClock - rows > qOldest THEN qClock - rows ELSE qOldest

ShowNothing(r) == Reply(r) /\ UNCHANGED <<qShown, qBack, qOldest>>

(* A question.                                                                *)
ProcessChatQuery(r) ==
    /\ qRequest[r] = QIdle /\ AskAi(r, "detect", NoIntent, Nothing)
    /\ UNCHANGED <<qClock, qCache, qMemory, qShown, qBack, qOverlap, qOldest>>

-----------------------------------------------------------------------------
(* Bug: an entry lives one moment too long.                                   *)
FreshBug(intent) == qCache[intent].at # Never /\ qClock - qCache[intent].at <= QTTL

Fresh(intent) == qCache[intent].at # Never /\ qClock - qCache[intent].at < QTTL

(* detect_intent_and_language ends: the model, or the key words when its      *)
(* reply is no JSON, names any intent.                                        *)
AnswerFromCache(r, intent) ==
    /\ qRequest[r].step = "detect" /\ Fresh(intent)
    /\ Show(r, intent, qCache[intent].rows)
    /\ UNCHANGED <<qClock, qCache, qMemory, qOverlap>>

(* run_safe_query: no rows, or a query that failed, is an answer that is      *)
(* cached too; rows go to the model.                                          *)
RunSafeQuery(r, intent) ==
    /\ qRequest[r].step = "detect" /\ ~Fresh(intent)
    /\ \/ /\ qCache' = [qCache EXCEPT ![intent] = [at |-> qClock, rows |-> Nothing]]
          /\ ShowNothing(r) /\ UNCHANGED qOverlap
       \/ /\ AskAi(r, "word", intent, qClock)
          /\ qOverlap' = IF \E q \in QRequests \ {r} : qRequest[q].step = "word" /\ qRequest[q].intent = intent
                         THEN qOverlap \cup {intent} ELSE qOverlap
          /\ UNCHANGED <<qCache, qShown, qBack, qOldest>>
    /\ UNCHANGED <<qClock, qMemory>>

(* The wording is cached as of now, ...                                       *)
CacheAnswer(r) ==
    LET me == qRequest[r] IN
    /\ me.step = "word" /\ Show(r, me.intent, me.rows)
    /\ qCache' = [qCache EXCEPT ![me.intent] = [at |-> qClock, rows |-> me.rows]]
    /\ UNCHANGED <<qClock, qMemory, qOverlap>>

(* ... unless the model failed: then the answer says there is no data.        *)
WordingFails(r) ==
    /\ qRequest[r].step = "word" /\ ShowNothing(r)
    /\ UNCHANGED <<qClock, qCache, qMemory, qOverlap>>

(* An intent without a query, or a classification that is no object, which     *)
(* raises.                                                                     *)
Unsupported(r) ==
    /\ qRequest[r].step = "detect" /\ ShowNothing(r)
    /\ UNCHANGED <<qClock, qCache, qMemory, qOverlap>>

-----------------------------------------------------------------------------
(* _resolve_contextual_query: a follow-up to a recent conversation is         *)
(* answered with rows read for it, past the cache.                            *)
Remembered == qMemory # Never /\ qClock - qMemory < QMemoryTTL

FollowUp(r) ==
    /\ qRequest[r].step = "detect" /\ Remembered /\ Reply(r)
    /\ UNCHANGED <<qClock, qCache, qMemory, qShown, qBack, qOverlap, qOldest>>

(* Any other conversation, and a follow-up whose query had no rows, goes to   *)
(* the model.                                                                 *)
Converse(r) ==
    /\ qRequest[r].step = "detect" /\ AskAi(r, "converse", NoIntent, Nothing)
    /\ UNCHANGED <<qClock, qCache, qMemory, qShown, qBack, qOverlap, qOldest>>

ConversationEnds(r) ==
    /\ qRequest[r].step = "converse" /\ ShowNothing(r)
    /\ qMemory' \in {qMemory, qClock}
    /\ UNCHANGED <<qClock, qCache, qOverlap>>

QNext ==
    \/ QTick
    \/ \E r \in QRequests :
          \/ ProcessChatQuery(r) \/ CacheAnswer(r) \/ WordingFails(r)
          \/ \E i \in QIntents : AnswerFromCache(r, i) \/ RunSafeQuery(r, i)
          \/ Unsupported(r) \/ FollowUp(r) \/ Converse(r) \/ ConversationEnds(r)

QSpec == QInit /\ [][QNext]_copilot

-----------------------------------------------------------------------------
QTypeOK ==
    /\ qClock \in 0..QMaxClock /\ qMemory \in Never..QMaxClock
    /\ qCache \in [QIntents -> [at : Never..QMaxClock, rows : Nothing..QMaxClock]]
    /\ qRequest \in [QRequests -> [step : Calling \cup {"idle"}, since : 0..QMaxClock,
                                   intent : QIntents \cup {NoIntent}, rows : Nothing..QMaxClock]]
    /\ qShown \in [QIntents -> Nothing..QMaxClock] /\ qOldest \in 0..QMaxClock
    /\ qBack \cup qOverlap \subseteq QIntents

(* An answer never shows rows older than the cache's lifetime and one call of *)
(* the model together (the lifetime alone, as the cache suggests, does not    *)
(* hold: an answer is dated when it is worded, not when its rows were read).  *)
(* And the answers to a question go forward in time, unless two requests had  *)
(* them worded at once: then the slower one replaces newer rows.  (Follow-ups *)
(* to a conversation, read for themselves past the cache, are not counted.)   *)
AnswersAreFresh ==
    /\ qOldest < QTTL + QPatience
    /\ qBack \subseteq qOverlap
=============================================================================
