------------------------------- MODULE LiveStream -------------------------------
(***************************************************************************)
(* Live updates on their way from the Redis channel to the browsers: the   *)
(* WebSocket ConnectionManager, the endpoint of each client, and the two   *)
(* tasks that both broadcast what is published: the streamer, which drops  *)
(* updates of one vehicle within 100 ms of each other, and the broker's    *)
(* listener, which batches them.                                           *)
(*                                                                         *)
(* Updates are of one vehicle, numbered as they are published.  A          *)
(* broadcast sends to a copy of the list of connections, one send at a     *)
(* time, without the manager's lock; connecting, disconnecting and the     *)
(* clean-up after a broadcast hold the lock and are one step each.         *)
(***************************************************************************)
EXTENDS Integers, Sequences

CONSTANTS
    WClients,     \* clients
    WAllowed,     \* those that may see the vehicle
    WMaxUpdates   \* bound on the updates published

ASSUME WAssumption == WAllowed \subseteq WClients /\ WMaxUpdates \in Nat

Casters == {"streamer", "broker"}

VARIABLES
    wConns,     \* active_connections
    wEnd,       \* where the endpoint of each client is
    wOpen,      \* clients whose socket is open
    wCount,     \* updates published
    wInbox,     \* what each listener has not taken yet
    wBatch,     \* updates a listener has taken and not begun to broadcast
    wCast,      \* the broadcast each listener is in
    wListening, \* listeners subscribed
    wRecent,    \* the streamer passed an update less than 100 ms ago
    wSince,     \* ghost: updates published before each client connected
    wGot        \* ghost: updates sent to each client that is still connected

stream == <<wConns, wEnd, wOpen, wCount, wInbox, wBatch, wCast, wListening, wRecent, wSince, wGot>>

WUpdate == 1..WMaxUpdates
WIdle   == [update |-> 0, left |-> {}, failed |-> {}]

WInit ==
    /\ wConns = {} /\ wOpen = {}
    /\ wEnd = [c \in WClients |-> "new"]
    /\ wCount = 0
    /\ wInbox = [b \in Casters |-> <<>>] /\ wBatch = [b \in Casters |-> <<>>]
    /\ wCast = [b \in Casters |-> WIdle]
    /\ wListening = Casters /\ wRecent = FALSE
    /\ wSince = [c \in WClients |-> 0] /\ wGot = [c \in WClients |-> {}]

-----------------------------------------------------------------------------
(* connect(): a client whose address has its limit of connections, counting   *)
(* clients of other companies, is closed, and its endpoint reads on.          *)
WConnect(c) ==
    /\ wEnd[c] = "new"
    /\ wEnd' = [wEnd EXCEPT ![c] = "reading"]
    /\ \/ UNCHANGED <<wConns, wOpen>>
       \/ wConns' = wConns \cup {c} /\ wOpen' = wOpen \cup {c}
    /\ wSince' = [wSince EXCEPT ![c] = wCount]
    /\ UNCHANGED <<wCount, wInbox, wBatch, wCast, wListening, wRecent, wGot>>

WForget(c) == wSince' = [wSince EXCEPT ![c] = 0] /\ wGot' = [wGot EXCEPT ![c] = {}]

(* The client goes away, or its line does.                                    *)
WLeave(c) ==
    /\ c \in wOpen /\ wOpen' = wOpen \ {c}
    /\ WForget(c)
    /\ UNCHANGED <<wConns, wEnd, wCount, wInbox, wBatch, wCast, wListening, wRecent>>

(* The endpoint notices that its socket is closed, or that the client was     *)
(* silent for too long; a silent one is closed after it left the list.        *)
WDisconnect(c) ==
    /\ wEnd[c] = "reading"
    /\ wEnd' = [wEnd EXCEPT ![c] = "gone"]
    /\ wConns' = wConns \ {c}
    /\ WForget(c)
    /\ UNCHANGED <<wOpen, wCount, wInbox, wBatch, wCast, wListening, wRecent>>

-----------------------------------------------------------------------------
WPublish ==
    /\ wCount < WMaxUpdates /\ wCount' = wCount + 1
    /\ wInbox' = [b \in Casters |-> IF b \in wListening THEN Append(wInbox[b], wCount + 1)
                                    ELSE wInbox[b]]
    /\ UNCHANGED <<wConns, wEnd, wOpen, wBatch, wCast, wListening, wRecent, wSince, wGot>>

WFree(b) == wCast[b] = WIdle

(* The streamer takes an update when its last broadcast is over.              *)
WStreamerTakes ==
    /\ WFree("streamer") /\ wBatch["streamer"] = <<>> /\ wInbox["streamer"] # <<>>
    /\ wInbox' = [wInbox EXCEPT !["streamer"] = Tail(@)]
    /\ IF wRecent THEN UNCHANGED <<wBatch, wRecent>>
       ELSE /\ wBatch' = [wBatch EXCEPT !["streamer"] = <<Head(wInbox["streamer"])>>]
            /\ wRecent' = TRUE
    /\ UNCHANGED <<wConns, wEnd, wOpen, wCount, wCast, wListening, wSince, wGot>>

WPause == wRecent /\ wRecent' = FALSE
          /\ UNCHANGED <<wConns, wEnd, wOpen, wCount, wInbox, wBatch, wCast, wListening, wSince, wGot>>

(* Bug: of the batch only the newest update is kept.                          *)
WBrokerTakesBug ==
    /\ WFree("broker") /\ wBatch["broker"] = <<>> /\ wInbox["broker"] # <<>>
    /\ \E k \in 1..Len(wInbox["broker"]) :
          /\ wBatch' = [wBatch EXCEPT !["broker"] = <<wInbox["broker"][k]>>]
          /\ wInbox' = [wInbox EXCEPT !["broker"] = SubSeq(@, k + 1, Len(@))]
    /\ UNCHANGED <<wConns, wEnd, wOpen, wCount, wCast, wListening, wRecent, wSince, wGot>>

(* The broker's listener collects, and hands over what it has after 200 ms.   *)
WBrokerTakes ==
    /\ WFree("broker") /\ wBatch["broker"] = <<>> /\ wInbox["broker"] # <<>>
    /\ \E k \in 1..Len(wInbox["broker"]) :
          /\ wBatch' = [wBatch EXCEPT !["broker"] = SubSeq(wInbox["broker"], 1, k)]
          /\ wInbox' = [wInbox EXCEPT !["broker"] = SubSeq(@, k + 1, Len(@))]
    /\ UNCHANGED <<wConns, wEnd, wOpen, wCount, wCast, wListening, wRecent, wSince, wGot>>

(* broadcast(): the copy of the list, the sends, the clean-up of the list as  *)
(* it is by then.                                                             *)
WBegin(b) ==
    /\ WFree(b) /\ wBatch[b] # <<>>
    /\ wCast' = [wCast EXCEPT ![b] = [update |-> Head(wBatch[b]), left |-> wConns, failed |-> {}]]
    /\ wBatch' = [wBatch EXCEPT ![b] = Tail(@)]
    /\ UNCHANGED <<wConns, wEnd, wOpen, wCount, wInbox, wListening, wRecent, wSince, wGot>>

WSend(b, c) ==
    /\ c \in wCast[b].left
    /\ wCast' = [wCast EXCEPT ![b].left = @ \ {c},
                              ![b].failed = IF c \in WAllowed \ wOpen THEN @ \cup {c} ELSE @]
    /\ wGot' = IF c \in WAllowed \cap wOpen /\ wEnd[c] = "reading"
               THEN [wGot EXCEPT ![c] = @ \cup {wCast[b].update}] ELSE wGot
    /\ UNCHANGED <<wConns, wEnd, wOpen, wCount, wInbox, wBatch, wListening, wRecent, wSince>>

WEndCast(b) == ~WFree(b) /\ wCast[b].left = {} /\ wCast' = [wCast EXCEPT ![b] = WIdle]

WCleanUp(b) ==
    /\ WEndCast(b)
    /\ wConns' = wConns \ wCast[b].failed
    /\ UNCHANGED <<wEnd, wOpen, wCount, wInbox, wBatch, wListening, wRecent, wSince, wGot>>

(* The subscription breaks: the streamer subscribes again, what came          *)
(* meanwhile is lost; the broker's listener is not started again.             *)
WBreak(b) ==
    /\ b \in wListening /\ WFree(b)
    /\ wListening' = wListening \ {b}
    /\ wInbox' = [wInbox EXCEPT ![b] = <<>>] /\ wBatch' = [wBatch EXCEPT ![b] = <<>>]
    /\ UNCHANGED <<wConns, wEnd, wOpen, wCount, wCast, wRecent, wSince, wGot>>

WResubscribe ==
    /\ "streamer" \notin wListening /\ wListening' = wListening \cup {"streamer"}
    /\ UNCHANGED <<wConns, wEnd, wOpen, wCount, wInbox, wBatch, wCast, wRecent, wSince, wGot>>

WNext ==
    \/ \E c \in WClients : WConnect(c) \/ WLeave(c) \/ WDisconnect(c)
    \/ WPublish \/ WStreamerTakes \/ WPause \/ WBrokerTakes \/ WResubscribe
    \/ \E b \in Casters : WBegin(b) \/ WCleanUp(b) \/ WBreak(b) \/ \E c \in WClients : WSend(b, c)

WSpec == WInit /\ [][WNext]_stream

-----------------------------------------------------------------------------
WTypeOK ==
    /\ wConns \subseteq WClients /\ wOpen \subseteq WClients
    /\ wEnd \in [WClients -> {"new", "reading", "gone"}]
    /\ wCount \in 0..WMaxUpdates
    /\ \A b \in Casters : /\ wInbox[b] \in Seq(WUpdate) /\ wBatch[b] \in Seq(WUpdate)
                          /\ wCast[b].update \in {0} \cup WUpdate
                          /\ wCast[b].left \cup wCast[b].failed \subseteq WClients
    /\ wListening \subseteq Casters /\ wRecent \in BOOLEAN
    /\ wSince \in [WClients -> 0..WMaxUpdates] /\ wGot \in [WClients -> SUBSET WUpdate]

WUnderway(b, c, n) ==
    \/ n \in {wInbox[b][i] : i \in DOMAIN wInbox[b]} \cup {wBatch[b][i] : i \in DOMAIN wBatch[b]}
    \/ wCast[b].update = n /\ c \in wCast[b].left

(* While the broker's listener lives, a client that stays connected gets      *)
(* every update of a vehicle it may see that was published since it           *)
(* connected, although the streamer suppresses some, and other clients come,  *)
(* go and fail in the middle of a broadcast while both listeners clean up the *)
(* list of connections.                                                       *)
NoUpdateIsMissed ==
    \A c \in wOpen : wEnd[c] = "reading" =>
        /\ c \in wConns
        /\ "broker" \in wListening /\ c \in WAllowed =>
              \A n \in wSince[c] + 1 .. wCount : n \in wGot[c] \/ WUnderway("broker", c, n)
=============================================================================
