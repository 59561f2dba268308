------------------------------ MODULE ClientProofs ------------------------------
(* Theorems about what clients are shown and told, for any number of clients, *)
(* updates, packets, reads, dispatchers and polls: the WebSocket streams, the *)
(* dashboard, the layers a live position is read from, the figures of a       *)
(* report, the notification queue, the delta sync of the mobile clients and   *)
(* the pages of the events center.                                            *)
EXTENDS LiveStream, FleetDashboard, LiveFallback, FleetReport, Notifications, DeltaSync,
        EventsCenter, Counting, SequenceTheorems

-----------------------------------------------------------------------------
(* WebSocket streams.                                                         *)

WTypes ==
    /\ wConns \subseteq WClients /\ wOpen \subseteq WClients
    /\ wEnd \in [WClients -> {"new", "reading", "gone"}] /\ wCount \in Nat
    /\ wInbox \in [Casters -> Seq(Nat)] /\ wBatch \in [Casters -> Seq(Nat)]
    /\ wCast \in [Casters -> [update : Nat, left : SUBSET WClients, failed : SUBSET WClients]]
    /\ wListening \subseteq Casters
    /\ wSince \in [WClients -> Nat] /\ wGot \in [WClients -> SUBSET Nat]

(* A client whose send failed has been connected, is not open any more and    *)
(* will not be again; so a clean-up takes no live client off the list.        *)
WListed ==
    /\ \A c \in WClients : wEnd[c] = "new" =>
           /\ c \notin wConns /\ c \notin wOpen
           /\ \A b \in Casters : c \notin wCast[b].left /\ c \notin wCast[b].failed
    /\ \A c \in wOpen : /\ wEnd[c] = "reading" => c \in wConns
                        /\ \A b \in Casters : c \notin wCast[b].failed

(* Where an update is that the broker has yet to send to a client.            *)
Within(s, n) == \E i \in DOMAIN s : s[i] = n
OnItsWay(c, n) == \/ Within(wInbox["broker"], n) \/ Within(wBatch["broker"], n)
                  \/ wCast["broker"].update = n /\ c \in wCast["broker"].left
Follows(c) == c \in wOpen /\ wEnd[c] = "reading" /\ "broker" \in wListening /\ c \in WAllowed
WServed == \A c \in WClients : Follows(c) => \A n \in wSince[c] + 1 .. wCount : n \in wGot[c] \/ OnItsWay(c, n)

WInv == WTypes /\ WListed /\ WServed

LEMMA AppendHas ==
    ASSUME NEW s \in Seq(Nat), NEW x \in Nat
    PROVE  /\ Append(s, x) \in Seq(Nat) /\ Within(Append(s, x), x)
           /\ \A n : Within(s, n) => Within(Append(s, x), n)
<1>1. /\ Append(s, x) \in Seq(Nat) /\ Len(Append(s, x)) = Len(s) + 1 /\ Append(s, x)[Len(s) + 1] = x
      /\ \A i \in 1..Len(s) : Append(s, x)[i] = s[i]
  BY AppendProperties
<1>2. DOMAIN s = 1..Len(s) /\ DOMAIN Append(s, x) = 1..Len(s) + 1 /\ Len(s) \in Nat
  BY <1>1, LenProperties
<1> QED BY <1>1, <1>2 DEF Within

LEMMA HeadAndTailHave ==
    ASSUME NEW s \in Seq(Nat), s # <<>>
    PROVE  /\ Head(s) \in Nat /\ Tail(s) \in Seq(Nat)
           /\ \A n : Within(s, n) => n = Head(s) \/ Within(Tail(s), n)
<1>1. /\ Head(s) \in Nat /\ Tail(s) \in Seq(Nat) /\ Len(Tail(s)) = Len(s) - 1 /\ Head(s) = s[1]
      /\ \A i \in 1..Len(Tail(s)) : Tail(s)[i] = s[i + 1]
  BY HeadTailProperties
<1>2. DOMAIN s = 1..Len(s) /\ DOMAIN Tail(s) = 1..Len(s) - 1 /\ Len(s) \in Nat
  BY <1>1, LenProperties
<1>3. ASSUME NEW i \in DOMAIN s, i # 1 PROVE Within(Tail(s), s[i])
  <2>1. i - 1 \in DOMAIN Tail(s) /\ Tail(s)[i - 1] = s[i]
    BY <1>1, <1>2, <1>3
  <2> QED BY <2>1 DEF Within
<1> QED BY <1>1, <1>3 DEF Within

LEMMA CutHas ==
    ASSUME NEW s \in Seq(Nat), NEW k \in 1..Len(s)
    PROVE  /\ SubSeq(s, 1, k) \in Seq(Nat) /\ SubSeq(s, k + 1, Len(s)) \in Seq(Nat)
           /\ \A n : Within(s, n) => Within(SubSeq(s, 1, k), n) \/ Within(SubSeq(s, k + 1, Len(s)), n)
<1> DEFINE a == SubSeq(s, 1, k) b == SubSeq(s, k + 1, Len(s))
<1>1. DOMAIN s = 1..Len(s) /\ Len(s) \in Nat /\ k \in Nat
  BY LenProperties
<1>2. a \in Seq(Nat) /\ Len(a) = k /\ \A i \in 1..k : a[i] = s[i]
  <2>1. \A i \in 1..k : s[i] \in Nat
    BY <1>1, ElementOfSeq
  <2>2. /\ a \in Seq(Nat) /\ Len(a) = IF 1 <= k THEN k - 1 + 1 ELSE 0
        /\ \A i \in 1..k - 1 + 1 : a[i] = s[1 + i - 1]
    BY <1>1, <2>1, SubSeqProperties
  <2> HIDE DEF a
  <2> QED BY <1>1, <2>2
<1>3. b \in Seq(Nat) /\ Len(b) = Len(s) - k /\ \A i \in 1..Len(s) - k : b[i] = s[k + i]
  <2>1. \A i \in k + 1 .. Len(s) : s[i] \in Nat
    <3> SUFFICES ASSUME NEW i \in k + 1 .. Len(s) PROVE s[i] \in Nat
      OBVIOUS
    <3>1. i \in 1..Len(s)
      BY <1>1
    <3> QED BY <3>1, ElementOfSeq
  <2>2. /\ b \in Seq(Nat) /\ Len(b) = IF k + 1 <= Len(s) THEN Len(s) - (k + 1) + 1 ELSE 0
        /\ \A i \in 1..Len(s) - (k + 1) + 1 : b[i] = s[k + 1 + i - 1]
    BY <1>1, <2>1, SubSeqProperties
  <2> HIDE DEF b
  <2>3. \A i \in 1..Len(s) - k : b[i] = s[k + i]
    <3> SUFFICES ASSUME NEW i \in 1..Len(s) - k PROVE b[i] = s[k + i]
      OBVIOUS
    <3>1. i \in 1..Len(s) - (k + 1) + 1 /\ k + 1 + i - 1 = k + i
      BY <1>1
    <3> QED BY <2>2, <3>1
  <2>4. k <= Len(s)
    BY <1>1
  <2>5. Len(b) = Len(s) - k
    <3>1. CASE k + 1 <= Len(s)
      BY <1>1, <2>2, <3>1
    <3>2. CASE ~(k + 1 <= Len(s))
      <4>1. Len(b) = 0
        BY <2>2, <3>2
      <4>2. Len(s) - k = 0
        <5>1. \A l \in Nat, j \in Nat : j <= l /\ ~(j + 1 <= l) => l - j = 0
          OBVIOUS
        <5> QED BY <1>1, <2>4, <3>2, <5>1
      <4> QED BY <4>1, <4>2
    <3> QED BY <3>1, <3>2
  <2> QED BY <2>2, <2>3, <2>5
<1>4. DOMAIN a = 1..k /\ DOMAIN b = 1..Len(s) - k
  BY <1>2, <1>3, LenProperties
<1> HIDE DEF a, b
<1>5. ASSUME NEW i \in DOMAIN s PROVE Within(a, s[i]) \/ Within(b, s[i])
  <2>1. CASE i <= k
    <3>1. i \in DOMAIN a /\ a[i] = s[i]
      BY <1>1, <1>2, <1>4, <2>1
    <3> QED BY <3>1 DEF Within
  <2>2. CASE ~(i <= k)
    <3>1. i - k \in DOMAIN b /\ b[i - k] = s[i]
      BY <1>1, <1>3, <1>4, <2>2
    <3> QED BY <3>1 DEF Within
  <2> QED BY <2>1, <2>2
<1> QED BY <1>2, <1>3, <1>5 DEF Within, a, b

LEMMA ConnectKeeps == ASSUME WInv, NEW c \in WClients, WConnect(c) PROVE WInv'
<1>1. /\ wEnd[c] = "new" /\ wEnd' = [wEnd EXCEPT ![c] = "reading"] /\ wSince' = [wSince EXCEPT ![c] = wCount]
      /\ UNCHANGED <<wCount, wInbox, wBatch, wCast, wListening, wGot>> /\ wCount \in Nat
      /\ \/ wConns' = wConns /\ wOpen' = wOpen
         \/ wConns' = wConns \cup {c} /\ wOpen' = wOpen \cup {c}
  BY DEF WConnect, WInv, WTypes
<1>2. WTypes'
  BY <1>1 DEF WInv, WTypes
<1>3. WListed'
  BY <1>1 DEF WInv, WTypes, WListed
<1>4. ASSUME NEW d \in WClients, Follows(d)', NEW n \in wSince'[d] + 1 .. wCount' PROVE n \in wGot'[d] \/ OnItsWay(d, n)'
  <2>1. CASE d = c
    <3>1. wSince'[d] = wCount
      BY <1>1, <2>1 DEF WInv, WTypes
    <3> QED BY <1>1, <1>4, <3>1
  <2>2. CASE d # c
    <3>1. wSince'[d] = wSince[d] /\ Follows(d)
      BY <1>1, <1>4, <2>2 DEF WInv, WTypes, Follows
    <3>2. n \in wGot[d] \/ OnItsWay(d, n)
      BY <1>1, <1>4, <3>1 DEF WInv, WServed
    <3> QED BY <1>1, <3>2 DEF OnItsWay
  <2> QED BY <2>1, <2>2
<1> QED BY <1>2, <1>3, <1>4 DEF WInv, WServed

LEMMA LeavingKeeps == ASSUME WInv, NEW c \in WClients, WLeave(c) \/ WDisconnect(c) PROVE WInv'
<1>1. /\ wSince' = [wSince EXCEPT ![c] = 0] /\ wGot' = [wGot EXCEPT ![c] = {}]
      /\ UNCHANGED <<wCount, wInbox, wBatch, wCast, wListening>>
      /\ \/ c \in wOpen /\ wOpen' = wOpen \ {c} /\ wEnd' = wEnd /\ wConns' = wConns
         \/ /\ wEnd[c] = "reading" /\ wEnd' = [wEnd EXCEPT ![c] = "gone"]
            /\ wConns' = wConns \ {c} /\ wOpen' = wOpen
  BY DEF WLeave, WDisconnect, WForget
<1>2. WTypes'
  BY <1>1 DEF WInv, WTypes
<1>3. WListed'
  BY <1>1 DEF WInv, WTypes, WListed
<1>4. ~Follows(c)'
  BY <1>1 DEF WInv, WTypes, Follows
<1>5. ASSUME NEW d \in WClients, Follows(d)', NEW n \in wSince'[d] + 1 .. wCount' PROVE n \in wGot'[d] \/ OnItsWay(d, n)'
  <2>1. d # c
    BY <1>4, <1>5
  <2>2. wSince'[d] = wSince[d] /\ wGot'[d] = wGot[d] /\ Follows(d)
    BY <1>1, <1>5, <2>1 DEF WInv, WTypes, Follows
  <2>3. n \in wGot[d] \/ OnItsWay(d, n)
    BY <1>1, <1>5, <2>2 DEF WInv, WServed
  <2> QED BY <1>1, <2>2, <2>3 DEF OnItsWay
<1> QED BY <1>2, <1>3, <1>5 DEF WInv, WServed

LEMMA PublishKeeps == ASSUME WInv, WPublish PROVE WInv'
<1>1. /\ wCount' = wCount + 1 /\ UNCHANGED <<wConns, wEnd, wOpen, wBatch, wCast, wListening, wSince, wGot>>
      /\ wInbox' = [b \in Casters |-> IF b \in wListening THEN Append(wInbox[b], wCount + 1) ELSE wInbox[b]]
      /\ wCount \in Nat /\ wInbox \in [Casters -> Seq(Nat)] /\ wSince \in [WClients -> Nat]
  BY DEF WPublish, WInv, WTypes
<1>2. WTypes'
  <2>1. \A b \in Casters : wInbox'[b] \in Seq(Nat)
    BY <1>1, AppendHas
  <2>2. wInbox' \in [Casters -> Seq(Nat)]
    BY <1>1, <2>1
  <2> QED BY <1>1, <2>2 DEF WInv, WTypes
<1>3. WListed'
  BY <1>1 DEF WInv, WListed
<1>4. ASSUME NEW d \in WClients, Follows(d)', NEW n \in wSince'[d] + 1 .. wCount' PROVE n \in wGot'[d] \/ OnItsWay(d, n)'
  <2>1. Follows(d) /\ "broker" \in wListening /\ "broker" \in Casters
    BY <1>1, <1>4 DEF Follows, Casters
  <2>2. wInbox'["broker"] = Append(wInbox["broker"], wCount + 1) /\ wInbox["broker"] \in Seq(Nat) /\ wCount + 1 \in Nat
    BY <1>1, <2>1
  <2>3. CASE n = wCount + 1
    <3>1. Within(wInbox'["broker"], n)
      BY <1>1, <2>2, <2>3, AppendHas
    <3> QED BY <3>1 DEF OnItsWay
  <2>4. CASE n # wCount + 1
    <3>1. n \in wSince[d] + 1 .. wCount
      BY <1>1, <1>4, <2>4
    <3>2. n \in wGot[d] \/ OnItsWay(d, n)
      BY <2>1, <3>1 DEF WInv, WServed
    <3>3. Within(wInbox["broker"], n) => Within(wInbox'["broker"], n)
      BY <1>1, <2>2, AppendHas
    <3> QED BY <1>1, <3>2, <3>3 DEF OnItsWay
  <2> QED BY <2>3, <2>4
<1> QED BY <1>2, <1>3, <1>4 DEF WInv, WServed

(* A step of the broker that leaves an update on its way to whom it was.      *)
LEMMA PassingOnKeeps ==
    ASSUME WInv, WTypes', WListed', UNCHANGED <<wEnd, wOpen, wCount, wSince>>, wListening' \subseteq wListening \cup {"streamer"},
           \A c \in WClients : Follows(c) => wGot[c] \subseteq wGot'[c],
           \A c \in WClients, n \in Nat : Follows(c)' /\ Follows(c) /\ OnItsWay(c, n) => n \in wGot'[c] \/ OnItsWay(c, n)'
    PROVE  WInv'
<1>1. ASSUME NEW d \in WClients, Follows(d)', NEW n \in wSince'[d] + 1 .. wCount' PROVE n \in wGot'[d] \/ OnItsWay(d, n)'
  <2>1. Follows(d)
    <3>1. "broker" # "streamer"
      OBVIOUS
    <3> QED BY <1>1, <3>1 DEF Follows
  <2>2. n \in wSince[d] + 1 .. wCount /\ n \in Nat
    BY <1>1 DEF WInv, WTypes
  <2>3. n \in wGot[d] \/ OnItsWay(d, n)
    BY <2>1, <2>2 DEF WInv, WServed
  <2> QED BY <1>1, <2>1, <2>2, <2>3
<1> QED BY <1>1 DEF WInv, WServed

LEMMA TakingKeeps ==
    ASSUME WInv, \/ WStreamerTakes \/ WPause \/ WBrokerTakes \/ WResubscribe \/ \E b \in Casters : WBreak(b)
    PROVE  WInv'
<1>0. WTypes /\ "broker" \in Casters /\ "streamer" \in Casters /\ "broker" # "streamer"
  BY DEF WInv, Casters
<1>1. CASE WStreamerTakes
  <2>1. /\ wInbox["streamer"] # <<>> /\ wInbox' = [wInbox EXCEPT !["streamer"] = Tail(wInbox["streamer"])]
        /\ \/ wBatch' = wBatch \/ wBatch' = [wBatch EXCEPT !["streamer"] = <<Head(wInbox["streamer"])>>]
        /\ UNCHANGED <<wConns, wEnd, wOpen, wCount, wCast, wListening, wSince, wGot>>
    BY <1>1 DEF WStreamerTakes
  <2>2. Tail(wInbox["streamer"]) \in Seq(Nat) /\ <<Head(wInbox["streamer"])>> \in Seq(Nat)
    <3>1. Tail(wInbox["streamer"]) \in Seq(Nat) /\ Head(wInbox["streamer"]) \in Nat
      BY <1>0, <2>1, HeadAndTailHave DEF WTypes
    <3> QED BY <3>1
  <2>3. WTypes'
    BY <1>0, <2>1, <2>2 DEF WTypes
  <2>4. wInbox'["broker"] = wInbox["broker"] /\ wBatch'["broker"] = wBatch["broker"]
    BY <1>0, <2>1 DEF WTypes
  <2>5. WListed'
    BY <2>1 DEF WInv, WListed
  <2> QED BY <2>1, <2>3, <2>4, <2>5, PassingOnKeeps DEF OnItsWay
<1>2. CASE WPause
  <2>1. UNCHANGED <<wConns, wEnd, wOpen, wCount, wInbox, wBatch, wCast, wListening, wSince, wGot>>
    BY <1>2 DEF WPause
  <2> QED BY <2>1 DEF WInv, WTypes, WListed, WServed, Follows, OnItsWay
<1>3. CASE WBrokerTakes
  <2> DEFINE s == wInbox["broker"]
  <2>1. PICK k \in 1..Len(s) : /\ wBatch' = [wBatch EXCEPT !["broker"] = SubSeq(s, 1, k)]
                               /\ wInbox' = [wInbox EXCEPT !["broker"] = SubSeq(s, k + 1, Len(s))]
    BY <1>3 DEF WBrokerTakes
  <2>2. UNCHANGED <<wConns, wEnd, wOpen, wCount, wCast, wListening, wSince, wGot>> /\ wBatch["broker"] = <<>>
    BY <1>3 DEF WBrokerTakes
  <2>3. s \in Seq(Nat)
    BY <1>0 DEF WTypes
  <2>4. /\ SubSeq(s, 1, k) \in Seq(Nat) /\ SubSeq(s, k + 1, Len(s)) \in Seq(Nat)
        /\ \A n : Within(s, n) => Within(SubSeq(s, 1, k), n) \/ Within(SubSeq(s, k + 1, Len(s)), n)
    BY <2>3, CutHas
  <2>5. WTypes'
    BY <1>0, <2>1, <2>2, <2>4 DEF WTypes
  <2>6. WListed'
    BY <2>2 DEF WInv, WListed
  <2>7. wBatch'["broker"] = SubSeq(s, 1, k) /\ wInbox'["broker"] = SubSeq(s, k + 1, Len(s))
    BY <1>0, <2>1 DEF WTypes
  <2>8. \A n : ~Within(wBatch["broker"], n)
    BY <2>2 DEF Within
  <2>9. ASSUME NEW c \in WClients, NEW n \in Nat, OnItsWay(c, n) PROVE OnItsWay(c, n)'
    BY <2>2, <2>4, <2>7, <2>8, <2>9 DEF OnItsWay
  <2> QED BY <2>2, <2>5, <2>6, <2>9, PassingOnKeeps
<1>4. CASE WResubscribe
  <2>1. UNCHANGED <<wConns, wEnd, wOpen, wCount, wInbox, wBatch, wCast, wSince, wGot>>
        /\ wListening' = wListening \cup {"streamer"}
    BY <1>4 DEF WResubscribe
  <2>2. WTypes' /\ WListed'
    BY <1>0, <2>1 DEF WInv, WTypes, WListed
  <2> QED BY <2>1, <2>2, PassingOnKeeps DEF OnItsWay
<1>5. ASSUME NEW b \in Casters, WBreak(b) PROVE WInv'
  <2>1. /\ wListening' = wListening \ {b} /\ UNCHANGED <<wConns, wEnd, wOpen, wCount, wCast, wSince, wGot>>
        /\ wInbox' = [wInbox EXCEPT ![b] = <<>>] /\ wBatch' = [wBatch EXCEPT ![b] = <<>>]
    BY <1>5 DEF WBreak
  <2>2. WTypes'
    BY <1>0, <2>1 DEF WTypes
  <2>3. WListed'
    BY <2>1 DEF WInv, WListed
  <2>4. ASSUME NEW c \in WClients, NEW n \in Nat, Follows(c)', OnItsWay(c, n) PROVE OnItsWay(c, n)'
    <3>1. b # "broker"
      BY <2>1, <2>4 DEF Follows
    <3>2. wInbox'["broker"] = wInbox["broker"] /\ wBatch'["broker"] = wBatch["broker"]
      BY <1>0, <2>1, <3>1 DEF WTypes
    <3> QED BY <2>1, <2>4, <3>2 DEF OnItsWay
  <2> QED BY <2>1, <2>2, <2>3, <2>4, PassingOnKeeps
<1> QED BY <1>1, <1>2, <1>3, <1>4, <1>5

LEMMA CastingKeeps ==
    ASSUME WInv, NEW b \in Casters, WBegin(b) \/ WCleanUp(b) \/ \E c \in WClients : WSend(b, c)
    PROVE  WInv'
<1>0. WTypes /\ "broker" \in Casters
  BY DEF WInv, Casters
<1>1. CASE WBegin(b)
  <2> DEFINE n == [update |-> Head(wBatch[b]), left |-> wConns, failed |-> {}]
  <2>1. /\ wCast[b] = WIdle /\ wBatch[b] # <<>> /\ wCast' = [wCast EXCEPT ![b] = n]
        /\ wBatch' = [wBatch EXCEPT ![b] = Tail(wBatch[b])]
        /\ UNCHANGED <<wConns, wEnd, wOpen, wCount, wInbox, wListening, wSince, wGot>>
    BY <1>1 DEF WBegin, WFree
  <2>2. /\ Head(wBatch[b]) \in Nat /\ Tail(wBatch[b]) \in Seq(Nat)
        /\ \A m : Within(wBatch[b], m) => m = Head(wBatch[b]) \/ Within(Tail(wBatch[b]), m)
    BY <1>0, <2>1, HeadAndTailHave DEF WTypes
  <2>3. WTypes'
    <3>1. n \in [update : Nat, left : SUBSET WClients, failed : SUBSET WClients]
      BY <1>0, <2>2 DEF WTypes
    <3> HIDE DEF n
    <3> QED BY <1>0, <2>1, <2>2, <3>1 DEF WTypes
  <2>4. \A o \in Casters : wCast'[o] = IF o = b THEN n ELSE wCast[o]
    BY <1>0, <2>1 DEF WTypes
  <2>5. WListed'
    <3>1. n.left = wConns /\ n.failed = {}
      OBVIOUS
    <3> HIDE DEF n
    <3> QED BY <2>1, <2>4, <3>1 DEF WInv, WListed
  <2>6. ASSUME NEW c \in WClients, NEW m \in Nat, Follows(c), OnItsWay(c, m) PROVE OnItsWay(c, m)'
    <3>1. c \in wConns
      BY <2>6 DEF WInv, WListed, Follows
    <3>2. CASE b # "broker"
      <4>1. wCast'["broker"] = wCast["broker"] /\ wBatch'["broker"] = wBatch["broker"]
        BY <1>0, <2>1, <3>2 DEF WTypes
      <4> QED BY <2>1, <2>6, <4>1 DEF OnItsWay
    <3>3. CASE b = "broker"
      <4>1. /\ wCast["broker"].left = {} /\ wBatch'["broker"] = Tail(wBatch["broker"])
            /\ wCast'["broker"].update = Head(wBatch["broker"]) /\ wCast'["broker"].left = wConns
        BY <1>0, <2>1, <2>4, <3>3 DEF WTypes, WIdle
      <4> QED BY <2>1, <2>2, <2>6, <3>1, <3>3, <4>1 DEF OnItsWay
    <3> QED BY <3>2, <3>3
  <2> QED BY <2>1, <2>3, <2>5, <2>6, PassingOnKeeps
<1>2. CASE WCleanUp(b)
  <2>1. /\ wCast[b].left = {} /\ wCast' = [wCast EXCEPT ![b] = WIdle] /\ wConns' = wConns \ wCast[b].failed
        /\ UNCHANGED <<wEnd, wOpen, wCount, wInbox, wBatch, wListening, wSince, wGot>>
    BY <1>2 DEF WCleanUp, WEndCast
  <2>2. \A o \in Casters : wCast'[o] = IF o = b THEN WIdle ELSE wCast[o]
    BY <1>0, <2>1 DEF WTypes
  <2>3. WTypes'
    BY <1>0, <2>1 DEF WTypes, WIdle
  <2>4. WListed'
    BY <2>1, <2>2 DEF WInv, WListed, WIdle
  <2>5. ASSUME NEW c \in WClients, NEW m \in Nat, OnItsWay(c, m) PROVE OnItsWay(c, m)'
    BY <1>0, <2>1, <2>2, <2>5 DEF OnItsWay
  <2> QED BY <2>1, <2>3, <2>4, <2>5, PassingOnKeeps
<1>3. ASSUME NEW c \in WClients, WSend(b, c) PROVE WInv'
  <2> DEFINE n == [wCast[b] EXCEPT !.left = @ \ {c}, !.failed = IF c \in WAllowed \ wOpen THEN @ \cup {c} ELSE @]
  <2>1. /\ c \in wCast[b].left /\ UNCHANGED <<wConns, wEnd, wOpen, wCount, wInbox, wBatch, wListening, wSince>>
        /\ wGot' = IF c \in WAllowed \cap wOpen /\ wEnd[c] = "reading"
                   THEN [wGot EXCEPT ![c] = wGot[c] \cup {wCast[b].update}] ELSE wGot
    BY <1>3 DEF WSend
  <2>2. wCast' = [wCast EXCEPT ![b] = n]
    <3>1. wCast' = [wCast EXCEPT ![b].left = @ \ {c}, ![b].failed = IF c \in WAllowed \ wOpen THEN @ \cup {c} ELSE @]
      BY <1>3 DEF WSend
    <3> QED BY <1>0, <3>1 DEF WTypes
  <2>3. /\ n \in [update : Nat, left : SUBSET WClients, failed : SUBSET WClients]
        /\ n.update = wCast[b].update /\ n.left = wCast[b].left \ {c}
        /\ \A d \in n.failed : d \in wCast[b].failed \/ (d = c /\ c \notin wOpen)
    BY <1>0 DEF WTypes
  <2> HIDE DEF n
  <2>4. \A o \in Casters : wCast'[o] = IF o = b THEN n ELSE wCast[o]
    BY <1>0, <2>2 DEF WTypes
  <2>5. WTypes'
    <3>1. wGot' \in [WClients -> SUBSET Nat]
      BY <1>0, <2>1 DEF WTypes
    <3> QED BY <1>0, <2>1, <2>2, <2>3, <3>1 DEF WTypes
  <2>6. WListed'
    BY <2>1, <2>3, <2>4 DEF WInv, WListed
  <2>7. \A d \in WClients : wGot[d] \subseteq wGot'[d]
    BY <1>0, <2>1 DEF WTypes
  <2>8. ASSUME NEW d \in WClients, NEW m \in Nat, Follows(d), OnItsWay(d, m) PROVE m \in wGot'[d] \/ OnItsWay(d, m)'
    <3>1. CASE b = "broker" /\ d = c /\ wCast["broker"].update = m
      <4>1. c \in WAllowed \cap wOpen /\ wEnd[c] = "reading"
        BY <2>8, <3>1 DEF Follows
      <4> QED BY <1>0, <2>1, <3>1, <4>1 DEF WTypes
    <3>2. CASE b # "broker"
      BY <1>0, <2>1, <2>4, <2>8, <3>2 DEF OnItsWay
    <3>3. CASE b = "broker" /\ ~(d = c /\ wCast["broker"].update = m)
      BY <1>0, <2>1, <2>3, <2>4, <2>8, <3>3 DEF OnItsWay
    <3> QED BY <3>1, <3>2, <3>3
  <2> QED BY <2>1, <2>5, <2>6, <2>7, <2>8, PassingOnKeeps
<1> QED BY <1>1, <1>2, <1>3

LEMMA WInitInv == WInit => WInv
BY DEF WInit, WInv, WTypes, WListed, WServed, Follows, WIdle, Casters

LEMMA WStepInv == WInv /\ [WNext]_stream => WInv'
<1> SUFFICES ASSUME WInv, [WNext]_stream PROVE WInv'
  OBVIOUS
<1>1. CASE UNCHANGED stream
  BY <1>1 DEF stream, WInv, WTypes, WListed, WServed, Follows, OnItsWay
<1>2. CASE WNext
  BY <1>2, ConnectKeeps, LeavingKeeps, PublishKeeps, TakingKeeps, CastingKeeps DEF WNext
<1> QED BY <1>1, <1>2

(* A client that stays connected is on the list, and has or will get from the *)
(* broker every update of its vehicle that was published since it connected.  *)
THEOREM ClientsAreServed == WSpec => []NoUpdateIsMissed
<1>1. WSpec => []WInv
  BY WInitInv, WStepInv, PTL DEF WSpec
<1>2. ASSUME WInv PROVE NoUpdateIsMissed
  <2>1. ASSUME NEW c \in wOpen, wEnd[c] = "reading" PROVE c \in wConns /\ c \in WClients
    BY <1>2, <2>1 DEF WInv, WListed, WTypes
  <2>2. ASSUME NEW c \in wOpen, wEnd[c] = "reading", "broker" \in wListening, c \in WAllowed,
               NEW n \in wSince[c] + 1 .. wCount
        PROVE  n \in wGot[c] \/ WUnderway("broker", c, n)
    <3>1. c \in WClients /\ Follows(c)
      BY <1>2, <2>2 DEF WInv, WTypes, Follows
    <3>2. n \in wGot[c] \/ OnItsWay(c, n)
      BY <1>2, <3>1 DEF WInv, WServed
    <3> QED BY <3>2 DEF OnItsWay, Within, WUnderway
  <2> QED BY <2>1, <2>2 DEF NoUpdateIsMissed
<1> QED BY <1>1, <1>2, PTL

(* Updates have the numbers of those that were published; an idle broadcast   *)
(* has none, and nobody left to send to.                                      *)
WNumbered ==
    /\ wCount \in 0..WMaxUpdates /\ wRecent \in BOOLEAN
    /\ wInbox \in [Casters -> Seq(WUpdate)] /\ wBatch \in [Casters -> Seq(WUpdate)]
    /\ \A b \in Casters : /\ wCast[b].update \in {0} \cup WUpdate
                          /\ wCast[b].left # {} => wCast[b].update \in WUpdate
    /\ wSince \in [WClients -> 0..WMaxUpdates] /\ wGot \in [WClients -> SUBSET WUpdate]

(* The parts of a sequence have its elements' type.                           *)
LEMMA PartsAre ==
    ASSUME NEW S, NEW s \in Seq(S)
    PROVE  /\ s # <<>> => Head(s) \in S /\ Tail(s) \in Seq(S) /\ <<Head(s)>> \in Seq(S)
           /\ \A k \in 1..Len(s) : SubSeq(s, 1, k) \in Seq(S) /\ SubSeq(s, k + 1, Len(s)) \in Seq(S)
           /\ \A x \in S : Append(s, x) \in Seq(S)
<1>1. ASSUME s # <<>> PROVE Head(s) \in S /\ Tail(s) \in Seq(S) /\ <<Head(s)>> \in Seq(S)
  <2>1. Head(s) \in S /\ Tail(s) \in Seq(S)
    BY <1>1, HeadTailProperties
  <2> QED BY <2>1
<1>2. ASSUME NEW k \in 1..Len(s) PROVE SubSeq(s, 1, k) \in Seq(S) /\ SubSeq(s, k + 1, Len(s)) \in Seq(S)
  <2>0. Len(s) \in Nat /\ k \in Nat
    BY LenProperties
  <2>1. \A i \in 1..k : s[i] \in S
    BY <2>0, ElementOfSeq
  <2>2. \A i \in k + 1..Len(s) : s[i] \in S
    BY <2>0, ElementOfSeq
  <2>3. SubSeq(s, 1, k) \in Seq(S)
    BY <2>0, <2>1, SubSeqProperties
  <2> DEFINE m == k + 1
             L == Len(s)
  <2>4. m \in Int /\ L \in Int /\ \A i \in m..L : s[i] \in S
    BY <2>0, <2>2
  <2> HIDE DEF m, L
  <2>5. SubSeq(s, m, L) \in Seq(S)
    BY <2>4, SubSeqProperties
  <2> QED BY <2>3, <2>5 DEF m, L
<1>3. \A x \in S : Append(s, x) \in Seq(S)
  BY AppendProperties
<1> QED BY <1>1, <1>2, <1>3

LEMMA WNumberedStep == WInv /\ WNumbered /\ [WNext]_stream => WNumbered'
<1> SUFFICES ASSUME WInv, WNumbered, [WNext]_stream PROVE WNumbered'
  OBVIOUS
<1> DEFINE WCasts == \A b \in Casters : /\ wCast[b].update \in {0} \cup WUpdate
                                        /\ wCast[b].left # {} => wCast[b].update \in WUpdate
<1>0. /\ wCount \in 0..WMaxUpdates /\ wRecent \in BOOLEAN
      /\ wInbox \in [Casters -> Seq(WUpdate)] /\ wBatch \in [Casters -> Seq(WUpdate)] /\ WCasts
      /\ wSince \in [WClients -> 0..WMaxUpdates] /\ wGot \in [WClients -> SUBSET WUpdate]
      /\ "broker" \in Casters /\ "streamer" \in Casters /\ WMaxUpdates \in Nat /\ 0 \in 0..WMaxUpdates
      /\ wCast \in [Casters -> [update : Nat, left : SUBSET WClients, failed : SUBSET WClients]]
  BY WAssumption DEF WNumbered, WInv, WTypes, Casters
<1> HIDE DEF WCasts
<1>1. wCount' \in 0..WMaxUpdates /\ wRecent' \in BOOLEAN
  <2>1. wCount' = wCount \/ (wCount < WMaxUpdates /\ wCount' = wCount + 1)
    BY DEF WNext, stream, WConnect, WLeave, WDisconnect, WPublish, WStreamerTakes, WPause, WBrokerTakes,
           WResubscribe, WBegin, WCleanUp, WBreak, WSend
  <2>2. wRecent' = wRecent \/ wRecent' \in BOOLEAN
    BY DEF WNext, stream, WConnect, WLeave, WDisconnect, WPublish, WStreamerTakes, WPause, WBrokerTakes,
           WResubscribe, WBegin, WCleanUp, WBreak, WSend
  <2> QED BY <1>0, <2>1, <2>2
<1>2. wSince' \in [WClients -> 0..WMaxUpdates]
  <2>1. \/ wSince' = wSince
        \/ \E c \in WClients : \/ wSince' = [wSince EXCEPT ![c] = wCount]
                               \/ wSince' = [wSince EXCEPT ![c] = 0]
    BY DEF WNext, stream, WConnect, WLeave, WDisconnect, WForget, WPublish, WStreamerTakes, WPause, WBrokerTakes,
           WResubscribe, WBegin, WCleanUp, WBreak, WSend
  <2> QED BY <1>0, <2>1
<1>3. wInbox' \in [Casters -> Seq(WUpdate)] /\ wBatch' \in [Casters -> Seq(WUpdate)]
  <2>1. CASE WPublish
    <3>1. wCount + 1 \in WUpdate
      BY <1>0, <2>1 DEF WPublish, WUpdate
    <3>2. \A b \in Casters : Append(wInbox[b], wCount + 1) \in Seq(WUpdate)
      BY <1>0, <3>1, PartsAre
    <3>3. /\ wBatch' = wBatch
          /\ wInbox' = [b \in Casters |-> IF b \in wListening THEN Append(wInbox[b], wCount + 1) ELSE wInbox[b]]
      BY <2>1 DEF WPublish
    <3> QED BY <1>0, <3>2, <3>3
  <2>2. CASE WStreamerTakes
    <3>1. /\ wInbox["streamer"] # <<>> /\ wInbox' = [wInbox EXCEPT !["streamer"] = Tail(wInbox["streamer"])]
          /\ \/ wBatch' = wBatch \/ wBatch' = [wBatch EXCEPT !["streamer"] = <<Head(wInbox["streamer"])>>]
      BY <2>2 DEF WStreamerTakes
    <3>2. Tail(wInbox["streamer"]) \in Seq(WUpdate) /\ <<Head(wInbox["streamer"])>> \in Seq(WUpdate)
      BY <1>0, <3>1, PartsAre
    <3> QED BY <1>0, <3>1, <3>2
  <2>3. CASE WBrokerTakes
    <3> DEFINE s == wInbox["broker"]
    <3>1. PICK k \in 1..Len(s) : /\ wBatch' = [wBatch EXCEPT !["broker"] = SubSeq(s, 1, k)]
                                 /\ wInbox' = [wInbox EXCEPT !["broker"] = SubSeq(s, k + 1, Len(s))]
      BY <2>3 DEF WBrokerTakes
    <3>2. SubSeq(s, 1, k) \in Seq(WUpdate) /\ SubSeq(s, k + 1, Len(s)) \in Seq(WUpdate)
      BY <1>0, PartsAre
    <3> QED BY <1>0, <3>1, <3>2
  <2>4. ASSUME NEW b \in Casters, WBegin(b) PROVE <1>3!:
    <3>1. wInbox' = wInbox /\ wBatch[b] # <<>> /\ wBatch' = [wBatch EXCEPT ![b] = Tail(wBatch[b])]
      BY <2>4 DEF WBegin
    <3>2. Tail(wBatch[b]) \in Seq(WUpdate)
      BY <1>0, <3>1, PartsAre
    <3> QED BY <1>0, <3>1, <3>2
  <2>5. ASSUME NEW b \in Casters, WBreak(b) PROVE <1>3!:
    <3>1. <<>> \in Seq(WUpdate)
      OBVIOUS
    <3> QED BY <1>0, <2>5, <3>1 DEF WBreak
  <2>6. CASE UNCHANGED <<wInbox, wBatch>>
    BY <1>0, <2>6
  <2> QED BY <2>1, <2>2, <2>3, <2>4, <2>5, <2>6
          DEF WNext, stream, WConnect, WLeave, WDisconnect, WPause, WResubscribe, WCleanUp, WSend
<1>4. WCasts'
  <2>1. ASSUME NEW b \in Casters, WBegin(b) PROVE WCasts'
    <3> DEFINE n == [update |-> Head(wBatch[b]), left |-> wConns, failed |-> {}]
    <3>1. wBatch[b] # <<>> /\ wCast' = [wCast EXCEPT ![b] = n]
      BY <2>1 DEF WBegin
    <3>2. n.update \in WUpdate
      BY <1>0, <3>1, PartsAre
    <3> HIDE DEF n
    <3>3. \A o \in Casters : wCast'[o] = IF o = b THEN n ELSE wCast[o]
      BY <1>0, <3>1
    <3> QED BY <1>0, <3>2, <3>3 DEF WCasts
  <2>2. ASSUME NEW b \in Casters, WCleanUp(b) PROVE WCasts'
    <3>1. \A o \in Casters : wCast'[o] = IF o = b THEN WIdle ELSE wCast[o]
      BY <1>0, <2>2 DEF WCleanUp, WEndCast
    <3>2. WIdle.update = 0 /\ WIdle.left = {}
      BY DEF WIdle
    <3> QED BY <1>0, <3>1, <3>2 DEF WCasts
  <2>3. ASSUME NEW b \in Casters, NEW c \in WClients, WSend(b, c) PROVE WCasts'
    <3> DEFINE n == [wCast[b] EXCEPT !.left = @ \ {c}, !.failed = IF c \in WAllowed \ wOpen THEN @ \cup {c} ELSE @]
    <3>1. wCast' = [wCast EXCEPT ![b].left = @ \ {c}, ![b].failed = IF c \in WAllowed \ wOpen THEN @ \cup {c} ELSE @]
      BY <2>3 DEF WSend
    <3>2. wCast' = [wCast EXCEPT ![b] = n]
      BY <1>0, <3>1
    <3>3. n.update = wCast[b].update /\ n.left \subseteq wCast[b].left
      BY <1>0
    <3> HIDE DEF n
    <3>4. \A o \in Casters : wCast'[o] = IF o = b THEN n ELSE wCast[o]
      BY <1>0, <3>2
    <3> QED BY <1>0, <3>3, <3>4 DEF WCasts
  <2>4. CASE UNCHANGED wCast
    BY <1>0, <2>4 DEF WCasts
  <2> QED BY <2>1, <2>2, <2>3, <2>4
          DEF WNext, stream, WConnect, WLeave, WDisconnect, WPublish, WStreamerTakes, WPause, WBrokerTakes,
              WResubscribe, WBreak
<1>5. wGot' \in [WClients -> SUBSET WUpdate]
  <2>1. ASSUME NEW b \in Casters, NEW c \in WClients, WSend(b, c) PROVE <1>5!:
    <3>1. wCast[b].update \in WUpdate
      BY <1>0, <2>1 DEF WSend, WCasts
    <3>2. wGot' = wGot \/ wGot' = [wGot EXCEPT ![c] = wGot[c] \cup {wCast[b].update}]
      BY <2>1 DEF WSend
    <3>3. wGot[c] \cup {wCast[b].update} \in SUBSET WUpdate
      BY <1>0, <3>1
    <3> QED BY <1>0, <3>2, <3>3
  <2>2. ASSUME NEW c \in WClients, WForget(c) PROVE <1>5!:
    BY <1>0, <2>2 DEF WForget
  <2>3. CASE UNCHANGED wGot
    BY <1>0, <2>3
  <2> QED BY <2>1, <2>2, <2>3
          DEF WNext, stream, WConnect, WLeave, WDisconnect, WPublish, WStreamerTakes, WPause, WBrokerTakes,
              WResubscribe, WBegin, WCleanUp, WBreak
<1> QED BY <1>1, <1>2, <1>3, <1>4, <1>5 DEF WNumbered, WCasts

(* What waits in a listener, is broadcast or was got is an update, and only   *)
(* clients are listed, served or dropped (connection manager and listeners).  *)
THEOREM StreamTypeCorrect == WSpec => []WTypeOK
<1>1. WInit => WNumbered
  <2> SUFFICES ASSUME WInit PROVE WNumbered
    OBVIOUS
  <2>1. <<>> \in Seq(WUpdate) /\ 0 \in 0..WMaxUpdates /\ {} \in SUBSET WUpdate
    BY WAssumption
  <2>2. WIdle.update = 0 /\ WIdle.left = {}
    BY DEF WIdle
  <2> QED BY <2>1, <2>2 DEF WInit, WNumbered
<1>2. WInv /\ WNumbered => WTypeOK
  <2> SUFFICES ASSUME WTypes, WNumbered PROVE WTypeOK
    BY DEF WInv
  <2>1. \A b \in Casters : wCast[b].left \cup wCast[b].failed \subseteq WClients
    BY DEF WTypes
  <2> QED BY <2>1 DEF WTypes, WNumbered, WTypeOK
<1> QED BY <1>1, <1>2, WInitInv, WStepInv, WNumberedStep, PTL DEF WSpec

-----------------------------------------------------------------------------
(* Dashboard.                                                                 *)

(* What every packet keeps, the queue keeps: by induction over its length,    *)
(* once the recursive function is shown to exist.                             *)
LEMMA PacketsKeep ==
    ASSUME NEW queue, Len(queue) \in Nat, NEW Good, NEW store \in Good,
           \A s \in Good, n \in 1..Len(queue) : BPacket(s, queue[n]) \in Good
    PROVE  BPackets(store, queue) \in Good
<1> DEFINE L == Len(queue)
           Step(f, n) == IF n = 0 THEN store ELSE BPacket(f[n - 1], queue[n])
           Applied(f, l) == f = [n \in 0..l |-> Step(f, n)]
           T == {l \in Nat : \E f : Applied(f, l)}
<1>1. 0 \in T
  <2> DEFINE f == [n \in 0..0 |-> store]
  <2>1. f = [n \in 0..0 |-> Step(f, n)]
    OBVIOUS
  <2> QED BY <2>1
<1>2. ASSUME NEW l \in T PROVE l + 1 \in T
  <2>1. PICK f : Applied(f, l)
    BY <1>2
  <2> DEFINE g == [n \in 0..l + 1 |-> IF n \in 0..l THEN f[n] ELSE BPacket(f[l], queue[l + 1])]
  <2>2. l \in Nat /\ \A n \in 0..l : f[n] = Step(f, n)
    BY <2>1
  <2>3. ASSUME NEW n \in 0..l + 1 PROVE g[n] = Step(g, n)
    <3>1. CASE n = 0
      BY <2>2, <3>1
    <3>2. CASE n \in 1..l
      <4>1. g[n] = f[n] /\ g[n - 1] = f[n - 1] /\ n # 0 /\ n \in 0..l
        BY <2>2, <3>2
      <4> QED BY <2>2, <4>1
    <3>3. CASE n = l + 1
      <4>1. g[n] = BPacket(f[l], queue[l + 1]) /\ n - 1 = l /\ g[l] = f[l] /\ n # 0
        BY <2>2, <3>3
      <4> QED BY <3>3, <4>1
    <3> QED BY <2>2, <3>1, <3>2, <3>3
  <2>4. g = [n \in 0..l + 1 |-> g[n]]
    OBVIOUS
  <2> HIDE DEF g
  <2>5. Applied(g, l + 1)
    BY <2>3, <2>4
  <2> QED BY <2>2, <2>5
<1> HIDE DEF Applied
<1>3. L \in T
  <2>1. \A l \in Nat : l \in T
    BY <1>1, <1>2, AllNaturals
  <2> QED BY <2>1
<1> DEFINE after == CHOOSE f : f = [n \in 0..L |-> IF n = 0 THEN store ELSE BPacket(f[n - 1], queue[n])]
<1>4. after = [n \in 0..L |-> IF n = 0 THEN store ELSE BPacket(after[n - 1], queue[n])]
  BY <1>3 DEF Applied
<1>5. BPackets(store, queue) = after[L]
  BY DEF BPackets
<1> HIDE DEF after
<1>6. after[0] = store /\ \A n \in 1..L : after[n] = BPacket(after[n - 1], queue[n])
  <2>1. \A n \in 0..L : after[n] = IF n = 0 THEN store ELSE BPacket(after[n - 1], queue[n])
    BY <1>4
  <2> QED BY <2>1
<1> DEFINE U == {l \in Nat : l <= L => after[l] \in Good}
<1>7. 0 \in U
  BY <1>6
<1>8. ASSUME NEW l \in U PROVE l + 1 \in U
  <2>1. SUFFICES ASSUME l + 1 <= Len(queue) PROVE after[l + 1] \in Good
    OBVIOUS
  <2>2. l + 1 \in 1..Len(queue) /\ l + 1 - 1 = l /\ after[l] \in Good
    BY <2>1
  <2>3. after[l + 1] = BPacket(after[l], queue[l + 1])
    BY <1>6, <2>2
  <2> QED BY <2>2, <2>3
<1>9. \A l \in Nat : l \in U
  <2>1. U \in SUBSET Nat
    OBVIOUS
  <2> HIDE DEF U
  <2> QED BY <1>7, <1>8, <2>1, AllNaturals
<1> QED BY <1>5, <1>9

Statuses == {"on", "offline", "none"}
BKnown(v) == [version : 0..v, status : Statuses]

BTypes ==
    /\ bRow \in [version : Nat \ {0}, status : {"on", "offline"}] /\ bAged \in BOOLEAN /\ bPosition \in Nat
    /\ bWire \subseteq BKnown(bRow.version) /\ bQueue \in Seq(BKnown(bRow.version))
    /\ bCache \in BKnown(bRow.version) \cup {BMiss} /\ bStore \in BKnown(bRow.version) \cup {BAbsent}
    /\ bAsked \in [state : {"none", "asked", "answered"}, data : BKnown(bRow.version) \cup {BAbsent}, current : BOOLEAN]
    /\ bCurrent \in BOOLEAN
    /\ bMissed \subseteq BRequests /\ bBy \subseteq bMissed /\ bLate \subseteq BRequests
    /\ bHeals \in [BRequests -> BKnown(bRow.version) \cup {BAbsent}] /\ bOverwritten \in BOOLEAN

(* Between an announcement and the next commit the cache has the row, or      *)
(* nothing, or what offline marking wrote without a version, or what a bulk   *)
(* request wrote that had read an older row; a request that is not late has   *)
(* read the row as it is; an answer that still counts as current is what the  *)
(* cache says; and a store that does is what the row says.                    *)
BServer ==
    /\ bPosition # 0 => bRow = BMessage(bPosition, "on")
    /\ bPosition = 0 /\ ~bOverwritten => bCache \in {BMiss, bRow} \/ bCache.version = Versionless
    /\ \A r \in BRequests : bHeals[r] # BAbsent /\ r \notin bLate => bHeals[r] = bRow
BRead ==
    /\ bAsked.state = "answered" => bAsked.data \in BKnown(bRow.version)
    /\ bAsked.current => bAsked.state = "answered" /\ bCache # BMiss /\ bAsked.data = BFreshness(bCache)
BApplied ==
    bCurrent => bCache # BMiss /\ (bPosition = 0 /\ bCache.version # Versionless /\ ~bOverwritten => bStore = BFreshness(bRow))

BInv == BTypes /\ BServer /\ BRead /\ BApplied

LEMMA KnownGrows == ASSUME NEW v \in Nat, NEW w \in Nat, v <= w PROVE BKnown(v) \subseteq BKnown(w)
BY DEF BKnown

LEMMA QueueGrows == ASSUME NEW S, NEW T, S \subseteq T, NEW q \in Seq(S) PROVE q \in Seq(T)
<1>1. Len(q) \in Nat /\ q \in [1..Len(q) -> S]
  BY LenProperties
<1>2. q \in [1..Len(q) -> T]
  BY <1>1
<1> QED BY <1>1, <1>2, SeqDef

(* A step that changes the row makes every request late that has read it, and *)
(* what was read stays something the row has had.                             *)
LEMMA LateKeeps ==
    ASSUME BInv, bRow' \in [version : Nat \ {0}, status : {"on", "offline"}], bRow.version <= bRow'.version,
           BRowChanges \/ (bRow' = bRow /\ (BEntryIsNew \/ UNCHANGED answering))
    PROVE  /\ bMissed' \subseteq BRequests /\ bBy' \subseteq bMissed' /\ bLate' \subseteq BRequests
           /\ bHeals' \in [BRequests -> BKnown(bRow'.version) \cup {BAbsent}] /\ bOverwritten' \in BOOLEAN
           /\ \A r \in BRequests : bHeals'[r] # BAbsent /\ r \notin bLate' => bHeals'[r] = bRow'
<1>1. BTypes /\ BServer /\ bRow.version \in Nat /\ bRow'.version \in Nat
  BY DEF BInv, BTypes
<1>2. BKnown(bRow.version) \subseteq BKnown(bRow'.version)
  BY <1>1, KnownGrows
<1>3. /\ bHeals' = bHeals /\ bMissed' = bMissed /\ bBy' = bBy /\ bOverwritten' \in {bOverwritten, FALSE}
      /\ bLate' = {r \in BRequests : bHeals[r] # BAbsent} \/ (bLate' = bLate /\ bRow' = bRow)
  BY DEF BRowChanges, BEntryIsNew, answering
<1>4. bHeals \in [BRequests -> BKnown(bRow.version) \cup {BAbsent}] /\ bOverwritten \in BOOLEAN
      /\ bMissed \subseteq BRequests /\ bBy \subseteq bMissed /\ bLate \subseteq BRequests
  BY <1>1 DEF BTypes
<1>5. bHeals' \in [BRequests -> BKnown(bRow'.version) \cup {BAbsent}]
  <2> DEFINE K == BKnown(bRow.version)
             L == BKnown(bRow'.version)
  <2>1. K \cup {BAbsent} \subseteq L \cup {BAbsent} /\ bHeals \in [BRequests -> K \cup {BAbsent}]
    BY <1>2, <1>4
  <2> HIDE DEF K, L
  <2>2. bHeals \in [BRequests -> L \cup {BAbsent}]
    BY <2>1
  <2> QED BY <1>3, <2>2 DEF L
<1>6. ASSUME NEW r \in BRequests, bHeals'[r] # BAbsent, r \notin bLate' PROVE bHeals'[r] = bRow'
  <2>1. bHeals[r] # BAbsent /\ bLate' = bLate /\ bRow' = bRow
    BY <1>3, <1>6
  <2> QED BY <1>1, <1>3, <1>6, <2>1 DEF BServer
<1>7. bOverwritten' \in BOOLEAN /\ bMissed' \subseteq BRequests /\ bBy' \subseteq bMissed' /\ bLate' \subseteq BRequests
  BY <1>3, <1>4
<1> QED BY <1>5, <1>6, <1>7

(* Steps of the server that end what is current.                              *)
LEMMA ServerKeeps ==
    ASSUME BInv, BReconcile \/ BAnnounce \/ BMarkOffline \/ BAge \/ BExpires
    PROVE  BInv'
<1> DEFINE v == bRow.version
           w == bRow'.version
           A(x) == [state : {"none", "asked", "answered"}, data : BKnown(x) \cup {BAbsent}, current : BOOLEAN]
<1>1. BTypes /\ v \in Nat \ {0} /\ bCurrent' = FALSE /\ bAsked' = [bAsked EXCEPT !.current = FALSE]
      /\ bQueue' = bQueue /\ bStore' = bStore
  BY DEF BInv, BTypes, BReconcile, BAnnounce, BMarkOffline, BAge, BExpires, BStale
<1>2. /\ bRow' \in [version : Nat \ {0}, status : {"on", "offline"}] /\ w \in Nat /\ v <= w
      /\ BReconcile \/ w = v
  BY <1>1 DEF BTypes, BReconcile, BAnnounce, BMarkOffline, BAge, BExpires, BMessage
<1>3. BKnown(v) \subseteq BKnown(w)
  BY <1>1, <1>2, KnownGrows
<1>4. bAsked' \in A(w) /\ bAsked'.state = bAsked.state /\ bAsked'.data = bAsked.data /\ bAsked'.current = FALSE
  <2>1. bAsked \in A(v)
    BY <1>1 DEF BTypes
  <2>2. bAsked' \in A(v) /\ bAsked'.state = bAsked.state /\ bAsked'.data = bAsked.data /\ bAsked'.current = FALSE
    BY <1>1, <2>1
  <2>3. A(v) \subseteq A(w)
    BY <1>3
  <2> QED BY <2>2, <2>3
<1>10. BServer /\ (BRowChanges \/ (bRow' = bRow /\ (BEntryIsNew \/ UNCHANGED answering)))
  BY DEF BInv, BReconcile, BAnnounce, BMarkOffline, BAge, BExpires
<1>11. /\ bMissed' \subseteq BRequests /\ bBy' \subseteq bMissed' /\ bLate' \subseteq BRequests
       /\ bHeals' \in [BRequests -> BKnown(w) \cup {BAbsent}] /\ bOverwritten' \in BOOLEAN
       /\ \A r \in BRequests : bHeals'[r] # BAbsent /\ r \notin bLate' => bHeals'[r] = bRow'
  BY <1>2, <1>10, LateKeeps
<1>5. /\ bCache' \in BKnown(w) \cup {BMiss} /\ bWire' \subseteq BKnown(w) /\ bPosition' \in Nat /\ bAged' \in BOOLEAN
      /\ bPosition' # 0 => bRow' = BMessage(bPosition', "on")
      /\ bPosition' = 0 /\ ~bOverwritten' => bCache' \in {BMiss, bRow'} \/ bCache'.version = Versionless
  <2>1. CASE BReconcile
    BY <1>1, <1>2, <1>3, <2>1 DEF BReconcile, BTypes, BMessage
  <2>2. CASE BAnnounce
    <3>1. bRow = BMessage(bPosition, "on") /\ bRow' = bRow /\ bPosition' = 0 /\ bCache' = bRow
          /\ bWire' = bWire \cup {BMessage(v, "none")} /\ bAged' = bAged
      BY <2>2 DEF BAnnounce, BInv, BServer, BMessage
    <3>2. bRow \in BKnown(v) /\ BMessage(v, "none") \in BKnown(v)
      BY <1>1 DEF BTypes, BKnown, BMessage, Statuses
    <3> QED BY <1>1, <3>1, <3>2 DEF BTypes
  <2>3. CASE BMarkOffline
    <3> DEFINE e == IF bCache = BMiss THEN BMessage(Versionless, "offline") ELSE [bCache EXCEPT !.status = "offline"]
    <3>1. bPosition = 0 /\ bPosition' = 0 /\ bRow' = [bRow EXCEPT !.status = "offline"] /\ bCache' = e
          /\ bWire' = bWire \cup {e} /\ bAged' = bAged /\ bOverwritten' = bOverwritten
      BY <2>3 DEF BMarkOffline, BUpdateStatus, BRowChanges
    <3>2. e \in BKnown(v)
      BY <1>1 DEF BTypes, BKnown, BMessage, Statuses, Versionless
    <3>3. ~bOverwritten => e = bRow' \/ e.version = Versionless
      <4>1. CASE bCache = BMiss
        BY <4>1 DEF BMessage
      <4>2. CASE bCache # BMiss /\ bCache = bRow
        BY <3>1, <4>2
      <4>3. CASE bCache # BMiss /\ bCache.version = Versionless
        <5>1. e.version = bCache.version
          BY <1>1, <4>3 DEF BTypes, BKnown
        <5> QED BY <4>3, <5>1
      <4> QED BY <1>10, <3>1, <4>1, <4>2, <4>3 DEF BServer
    <3>4. w = v
      BY <1>1, <3>1 DEF BTypes
    <3> HIDE DEF e
    <3> QED BY <1>1, <3>1, <3>2, <3>3, <3>4 DEF BTypes
  <2>4. CASE BAge
    BY <1>1, <1>10, <2>4 DEF BAge, BTypes, BServer, answering
  <2>5. CASE BExpires
    BY <1>1, <1>10, <2>5 DEF BExpires, BTypes, BServer
  <2> QED BY <2>1, <2>2, <2>3, <2>4, <2>5
<1>6. bQueue' \in Seq(BKnown(w)) /\ bStore' \in BKnown(w) \cup {BAbsent}
  BY <1>1, <1>3, QueueGrows DEF BTypes
<1>7. BTypes'
  BY <1>1, <1>2, <1>4, <1>5, <1>6, <1>11 DEF BTypes
<1>8. BRead'
  BY <1>3, <1>4 DEF BInv, BRead
<1>9. BApplied'
  BY <1>1 DEF BApplied
<1>12. BServer'
  BY <1>5, <1>11 DEF BServer
<1> QED BY <1>7, <1>8, <1>9, <1>12 DEF BInv

LEMMA VersionIs ==
    ASSUME BTypes, NEW m \in BKnown(bRow.version)
    PROVE  BVersion(m) \in 0..bRow.version /\ BMessage(BVersion(m), m.status) \in BKnown(bRow.version)
BY DEF BTypes, BKnown, BVersion, BMessage, Versionless

LEMMA FreshIs ==
    ASSUME BTypes, NEW m \in BKnown(bRow.version)
    PROVE  BFreshness(m) \in BKnown(bRow.version) /\ BFreshness(m).version = m.version
BY DEF BKnown, BFreshness, Statuses

LEMMA RefreshKeeps == ASSUME BInv, BRefresh PROVE BInv'
<1> DEFINE K == BKnown(bRow.version)
           A == [state : {"none", "asked", "answered"}, data : K \cup {BAbsent}, current : BOOLEAN]
<1>1. /\ BTypes /\ UNCHANGED <<bRow, bAged, bPosition, bCache, bWire, bQueue, bStore, bCurrent,
                               bMissed, bHeals, bLate, bOverwritten>>
      /\ bAsked' = [BNoRequest EXCEPT !.state = "asked"] /\ bBy' = {}
  BY DEF BInv, BRefresh
<1>2. bAsked' \in A /\ bAsked'.state = "asked" /\ bAsked'.current = FALSE
  BY <1>1 DEF BNoRequest
<1>3. BTypes'
  BY <1>1, <1>2 DEF BTypes
<1>4. BRead'
  BY <1>2 DEF BRead
<1> QED BY <1>1, <1>3, <1>4 DEF BInv, BServer, BApplied, BFreshness

LEMMA CachedKeeps == ASSUME BInv, BAnswerCached PROVE BInv'
<1> DEFINE K == BKnown(bRow.version)
           A == [state : {"none", "asked", "answered"}, data : K \cup {BAbsent}, current : BOOLEAN]
<1>1. /\ BTypes /\ bCache # BMiss
      /\ UNCHANGED <<bRow, bAged, bPosition, bCache, bWire, bQueue, bStore, bCurrent, answering>>
      /\ bAsked' = [state |-> "answered", data |-> BFreshness(bCache), current |-> TRUE]
  BY DEF BInv, BAnswerCached
<1>2. bCache \in K
  BY <1>1 DEF BTypes
<1>3. BFreshness(bCache) \in K
  BY <1>1, <1>2, FreshIs
<1>4. bAsked' \in A /\ bAsked'.state = "answered" /\ bAsked'.data = BFreshness(bCache)
  BY <1>1, <1>3
<1>5. BTypes'
  BY <1>1, <1>4 DEF BTypes, answering
<1>6. BFreshness(bCache)' = BFreshness(bCache)
  BY <1>1 DEF BFreshness
<1>7. BRead'
  BY <1>1, <1>3, <1>4, <1>6 DEF BRead
<1> QED BY <1>1, <1>5, <1>7 DEF BInv, BServer, BApplied, BFreshness, answering

LEMMA MissesKeeps == ASSUME BInv, NEW r \in BRequests, BMisses(r) PROVE BInv'
<1>1. /\ BTypes /\ UNCHANGED <<bRow, bAged, bPosition, bCache, bWire, bQueue, bAsked, bStore, bCurrent,
                               bHeals, bLate, bOverwritten>>
      /\ bMissed' = bMissed \cup {r} /\ bBy' \in {bBy, {r}}
  BY DEF BInv, BMisses
<1>2. BTypes'
  BY <1>1 DEF BTypes
<1> QED BY <1>1, <1>2 DEF BInv, BServer, BRead, BApplied, BFreshness

LEMMA ReadRowKeeps == ASSUME BInv, NEW r \in BRequests, BReadRow(r) PROVE BInv'
<1> DEFINE K == BKnown(bRow.version)
           A == [state : {"none", "asked", "answered"}, data : K \cup {BAbsent}, current : BOOLEAN]
<1>1. /\ BTypes /\ UNCHANGED <<bRow, bAged, bPosition, bCache, bWire, bQueue, bStore, bCurrent, bLate, bOverwritten>>
      /\ bMissed' = bMissed \ {r} /\ bBy' = bBy \ {r} /\ bHeals' = [bHeals EXCEPT ![r] = bRow]
      /\ bAsked' \in {bAsked, [state |-> "answered", data |-> bRow, current |-> FALSE]}
  BY DEF BInv, BReadRow
<1>2. bRow \in K /\ bHeals \in [BRequests -> K \cup {BAbsent}]
  <2>1. bHeals \in [BRequests -> K \cup {BAbsent}]
    BY <1>1 DEF BTypes
  <2>2. bRow \in K
    BY <1>1 DEF BTypes, BKnown, Statuses
  <2> QED BY <2>1, <2>2
<1>3. bHeals' \in [BRequests -> K \cup {BAbsent}]
      /\ \A q \in BRequests : bHeals'[q] = IF q = r THEN bRow ELSE bHeals[q]
  <2> HIDE DEF K
  <2> QED BY <1>1, <1>2
<1>4. bAsked' \in A
  <2>1. bAsked \in A
    BY <1>1 DEF BTypes
  <2>2. [state |-> "answered", data |-> bRow, current |-> FALSE] \in A
    BY <1>2
  <2> QED BY <1>1, <2>1, <2>2
<1>9. bMissed' \subseteq BRequests /\ bBy' \subseteq bMissed' /\ bLate' \subseteq BRequests /\ bOverwritten' \in BOOLEAN
  BY <1>1 DEF BTypes
<1>10. /\ bRow' \in [version : Nat \ {0}, status : {"on", "offline"}] /\ bAged' \in BOOLEAN /\ bPosition' \in Nat
       /\ bWire' \subseteq K /\ bQueue' \in Seq(K) /\ bCache' \in K \cup {BMiss} /\ bStore' \in K \cup {BAbsent}
       /\ bCurrent' \in BOOLEAN /\ bRow' = bRow
  BY <1>1 DEF BTypes
<1>5. BTypes'
  BY <1>3, <1>4, <1>9, <1>10 DEF BTypes
<1>6. BRead'
  <2>1. CASE bAsked' = bAsked
    BY <1>1, <2>1 DEF BInv, BRead, BFreshness
  <2>2. CASE bAsked' = [state |-> "answered", data |-> bRow, current |-> FALSE]
    BY <1>1, <1>2, <2>2 DEF BRead
  <2> QED BY <1>1, <2>1, <2>2
<1>7. BServer'
  BY <1>1, <1>3 DEF BInv, BServer
<1>8. BApplied'
  BY <1>1 DEF BInv, BApplied, BFreshness
<1> QED BY <1>5, <1>6, <1>7, <1>8 DEF BInv

(* What a request wrote that was not late is the row.                         *)
LEMMA HealKeeps == ASSUME BInv, NEW r \in BRequests, BHeal(r) PROVE BInv'
<1> DEFINE K == BKnown(bRow.version)
           A == [state : {"none", "asked", "answered"}, data : K \cup {BAbsent}, current : BOOLEAN]
           e == bHeals[r]
<1>1. /\ BTypes /\ BServer /\ UNCHANGED <<bRow, bAged, bPosition, bQueue, bStore, bMissed, bBy>>
      /\ e # BAbsent /\ bHeals' = [bHeals EXCEPT ![r] = BAbsent]
      /\ bCache' = e /\ bWire' = bWire \cup {e}
      /\ bOverwritten' = (r \in bLate) /\ bLate' = bLate \ {r}
      /\ bCurrent' = FALSE /\ bAsked' = [bAsked EXCEPT !.current = FALSE]
  BY DEF BInv, BHeal, BUpdateStatus, BStale
<1>2. bHeals \in [BRequests -> K \cup {BAbsent}] /\ bAsked \in A
  BY <1>1 DEF BTypes
<1>3. e \in K
  BY <1>1, <1>2
<1>4. bHeals' \in [BRequests -> K \cup {BAbsent}]
      /\ \A q \in BRequests : bHeals'[q] = IF q = r THEN BAbsent ELSE bHeals[q]
  <2> HIDE DEF K
  <2> QED BY <1>1, <1>2
<1>5. bAsked' \in A /\ bAsked'.state = bAsked.state /\ bAsked'.data = bAsked.data /\ bAsked'.current = FALSE
  BY <1>1, <1>2
<1>10. bMissed' \subseteq BRequests /\ bBy' \subseteq bMissed' /\ bLate' \subseteq BRequests /\ bOverwritten' \in BOOLEAN
  BY <1>1 DEF BTypes
<1>11. /\ bRow' \in [version : Nat \ {0}, status : {"on", "offline"}] /\ bAged' \in BOOLEAN /\ bPosition' \in Nat
       /\ bWire' \subseteq K /\ bQueue' \in Seq(K) /\ bCache' \in K \cup {BMiss} /\ bStore' \in K \cup {BAbsent}
       /\ bCurrent' \in BOOLEAN /\ bRow' = bRow
  BY <1>1, <1>3 DEF BTypes
<1>6. BTypes'
  BY <1>4, <1>5, <1>10, <1>11 DEF BTypes
<1>7. BServer'
  <2>1. bPosition' = 0 /\ ~bOverwritten' => bCache' = bRow'
    BY <1>1 DEF BServer
  <2>2. \A q \in BRequests : bHeals'[q] # BAbsent /\ q \notin bLate' => bHeals'[q] = bRow'
    BY <1>1, <1>4 DEF BServer
  <2> QED BY <1>1, <2>1, <2>2 DEF BServer
<1>8. BRead'
  BY <1>1, <1>5 DEF BInv, BRead
<1>9. BApplied'
  BY <1>1 DEF BApplied
<1> QED BY <1>6, <1>7, <1>8, <1>9 DEF BInv

LEMMA ApplyKeeps == ASSUME BInv, BApplyBulk PROVE BInv'
<1> DEFINE K == BKnown(bRow.version)
           A == [state : {"none", "asked", "answered"}, data : K \cup {BAbsent}, current : BOOLEAN]
           m == bAsked.data
<1>1. /\ BTypes /\ UNCHANGED <<bRow, bAged, bPosition, bCache, bWire, bQueue, answering>>
      /\ bAsked.state = "answered" /\ bCurrent' = bAsked.current /\ bAsked' = BNoRequest
      /\ bStore' = IF bStore = BAbsent \/ BVersion(m) >= bStore.version THEN BMessage(BVersion(m), m.status) ELSE bStore
  BY DEF BInv, BApplyBulk, ReconcileFleetState
<1>2. m \in K
  BY <1>1 DEF BInv, BRead
<1>3. bStore' \in K \cup {BAbsent}
  BY <1>1, <1>2, VersionIs DEF BTypes
<1>4. BNoRequest \in A /\ BNoRequest.state = "none" /\ BNoRequest.current = FALSE
  BY DEF BNoRequest
<1>5. bCurrent' \in BOOLEAN
  BY <1>1 DEF BTypes
<1>6. BTypes'
  BY <1>1, <1>3, <1>4, <1>5 DEF BTypes, answering
<1>7. BRead'
  BY <1>1, <1>4 DEF BRead
<1>8. ASSUME bAsked.current PROVE bCache # BMiss /\ (bPosition = 0 /\ bCache.version # Versionless /\ ~bOverwritten => bStore' = BFreshness(bRow))
  <2>1. bCache # BMiss /\ m = BFreshness(bCache)
    BY <1>8 DEF BInv, BRead
  <2>2. ASSUME bPosition = 0, bCache.version # Versionless, ~bOverwritten PROVE bStore' = BFreshness(bRow)
    <3>1. bCache = bRow
      BY <2>1, <2>2 DEF BInv, BServer
    <3>2. /\ bRow \in [version : Nat \ {0}, status : {"on", "offline"}]
          /\ m = [version |-> bRow.version, status |-> m.status] /\ m.version = bRow.version
      BY <1>1, <2>1, <3>1 DEF BTypes, BFreshness
    <3>3. BVersion(m) = bRow.version
      BY <3>2 DEF BVersion, Versionless
    <3>4. bStore = BAbsent \/ BVersion(m) >= bStore.version
      BY <1>1, <3>2, <3>3 DEF BTypes, BKnown
    <3>5. bStore' = BMessage(bRow.version, m.status)
      BY <1>1, <3>3, <3>4
    <3> QED BY <2>1, <3>1, <3>2, <3>5 DEF BMessage
  <2> QED BY <2>1, <2>2
<1>9. BApplied'
  BY <1>1, <1>8 DEF BApplied, BFreshness, answering
<1>10. BServer'
  BY <1>1 DEF BInv, BServer, answering
<1> QED BY <1>6, <1>7, <1>9, <1>10 DEF BInv

LEMMA PacketIs ==
    ASSUME BTypes, NEW s \in BKnown(bRow.version) \cup {BAbsent}, NEW m \in BKnown(bRow.version)
    PROVE  BPacket(s, m) \in BKnown(bRow.version) \cup {BAbsent}
<1>1. CASE s = BAbsent \/ BVersion(m) < s.version
  BY <1>1 DEF BPacket
<1>2. CASE ~(s = BAbsent \/ BVersion(m) < s.version)
  <2>1. BVersion(m) \in 0..bRow.version
    BY VersionIs
  <2>2. m.status \in Statuses /\ s.status \in Statuses
    BY <1>2 DEF BKnown
  <2> QED BY <1>2, <2>1, <2>2 DEF BPacket, BMessage, BKnown
<1> QED BY <1>1, <1>2

LEMMA QueueKeeps == ASSUME BInv, BArrive \/ ProcessBufferedUpdates PROVE BInv'
<1> DEFINE K == BKnown(bRow.version)
<1>1. BTypes /\ UNCHANGED <<bRow, bAged, bPosition, bCache, bWire, bAsked, answering>>
  BY DEF BInv, BArrive, ProcessBufferedUpdates
<1>2. CASE BArrive
  <2>1. UNCHANGED <<bStore, bCurrent>> /\ \E m \in bWire : bQueue' = Append(bQueue, m)
    BY <1>2 DEF BArrive
  <2>2. PICK m \in bWire : bQueue' = Append(bQueue, m)
    BY <2>1
  <2>3. m \in K /\ bQueue \in Seq(K)
    BY <1>1 DEF BTypes
  <2>4. bQueue' \in Seq(K)
    BY <2>2, <2>3, AppendProperties
  <2>5. BTypes'
    BY <1>1, <2>1, <2>4 DEF BTypes, answering
  <2> QED BY <1>1, <2>1, <2>5 DEF BInv, BServer, BRead, BApplied, BFreshness, answering
<1>3. CASE ProcessBufferedUpdates
  <2>1. /\ bQueue' = <<>> /\ bStore' = BPackets(bStore, bQueue)
        /\ bCurrent' = (bCurrent /\ \A i \in DOMAIN bQueue :
                            bQueue[i].status = "none" \/ BVersion(bQueue[i]) < bStore.version)
    BY <1>3 DEF ProcessBufferedUpdates
  <2>2. Len(bQueue) \in Nat /\ DOMAIN bQueue = 1..Len(bQueue) /\ \A n \in 1..Len(bQueue) : bQueue[n] \in K
    BY <1>1, LenProperties, ElementOfSeq DEF BTypes
  <2>3. bStore' \in K \cup {BAbsent}
    <3>1. \A s \in K \cup {BAbsent}, n \in 1..Len(bQueue) : BPacket(s, bQueue[n]) \in K \cup {BAbsent}
      BY <1>1, <2>2, PacketIs
    <3>2. bStore \in K \cup {BAbsent}
      BY <1>1 DEF BTypes
    <3> HIDE DEF K
    <3> QED BY <2>1, <2>2, <3>1, <3>2, PacketsKeep
  <2>4. BTypes'
    <3>1. bQueue' \in Seq(K)
      BY <2>1
    <3>2. bCurrent' \in BOOLEAN
      BY <2>1
    <3> QED BY <1>1, <2>3, <3>1, <3>2 DEF BTypes, answering
  <2>5. ASSUME bCurrent', bPosition = 0, bCache.version # Versionless, ~bOverwritten PROVE bStore' = BFreshness(bRow)
    <3>1. /\ bCurrent
          /\ \A i \in 1..Len(bQueue) : bQueue[i].status = "none" \/ BVersion(bQueue[i]) < bStore.version
      BY <2>1, <2>2, <2>5
    <3>2. bStore = BFreshness(bRow)
      BY <2>5, <3>1 DEF BInv, BApplied
    <3>3. bStore = BMessage(bRow.version, bStore.status) /\ bStore.version = bRow.version /\ bRow.version \in Nat
      BY <1>1, <3>2 DEF BTypes, BFreshness, BMessage
    <3>4. ASSUME NEW n \in 1..Len(bQueue) PROVE BPacket(bStore, bQueue[n]) = bStore
      <4>1. BVersion(bQueue[n]) \in 0..bRow.version
        BY <1>1, <2>2, VersionIs
      <4>2. CASE BVersion(bQueue[n]) < bStore.version
        BY <4>2 DEF BPacket
      <4>3. CASE bQueue[n].status = "none" /\ ~(BVersion(bQueue[n]) < bStore.version)
        <5>1. BVersion(bQueue[n]) = bRow.version
          BY <3>3, <4>1, <4>3
        <5> QED BY <3>3, <4>3, <5>1 DEF BPacket
      <4> QED BY <3>1, <4>2, <4>3
    <3>5. BPackets(bStore, bQueue) \in {bStore}
      BY <2>2, <3>4, PacketsKeep
    <3> QED BY <2>1, <3>2, <3>5
  <2>6. bCurrent' => bCurrent
    BY <2>1
  <2>7. BApplied'
    BY <1>1, <2>5, <2>6 DEF BInv, BApplied, BFreshness, answering
  <2>8. BServer' /\ BRead'
    BY <1>1 DEF BInv, BServer, BRead, BFreshness, answering
  <2> QED BY <2>4, <2>7, <2>8 DEF BInv
<1> QED BY <1>2, <1>3

LEMMA ReloadKeeps == ASSUME BInv, BReload PROVE BInv'
<1>1. /\ BTypes /\ UNCHANGED <<bRow, bAged, bPosition, bCache, bMissed, bHeals, bLate, bOverwritten>> /\ bStore' = BAbsent
      /\ bQueue' = <<>> /\ bWire' = {} /\ bCurrent' = FALSE /\ bBy' = {} /\ bAsked' = [BNoRequest EXCEPT !.state = "asked"]
  BY DEF BInv, BReload
<1>2. /\ bAsked' \in [state : {"none", "asked", "answered"}, data : BKnown(bRow.version) \cup {BAbsent}, current : BOOLEAN]
      /\ bAsked'.state = "asked" /\ bAsked'.current = FALSE
  BY <1>1 DEF BNoRequest
<1>3. bQueue' \in Seq(BKnown(bRow.version))
  BY <1>1
<1>4. BTypes'
  BY <1>1, <1>2, <1>3 DEF BTypes
<1> QED BY <1>1, <1>2, <1>4 DEF BInv, BServer, BRead, BApplied

LEMMA BInitInv == BInit => BInv
<1> SUFFICES ASSUME BInit PROVE BInv
  OBVIOUS
<1> DEFINE K == BKnown(bRow.version)
<1>1. /\ bRow = BMessage(1, "on") /\ bCache = bRow /\ bAged = FALSE /\ bPosition = 0 /\ bWire = {} /\ bQueue = <<>>
      /\ bAsked = BNoRequest /\ bStore = BAbsent /\ bCurrent = FALSE /\ bMissed = {} /\ bBy = {}
      /\ bHeals = [r \in BRequests |-> BAbsent] /\ bLate = {} /\ bOverwritten = FALSE
  BY DEF BInit
<1>2. bRow \in [version : Nat \ {0}, status : {"on", "offline"}] /\ bRow \in K
  BY <1>1 DEF BMessage, BKnown, Statuses
<1>3. /\ bAsked \in [state : {"none", "asked", "answered"}, data : K \cup {BAbsent}, current : BOOLEAN]
      /\ bAsked.state = "none" /\ bAsked.current = FALSE
  BY <1>1 DEF BNoRequest
<1>6. bHeals \in [BRequests -> K \cup {BAbsent}]
  BY <1>1
<1>4. bQueue \in Seq(K)
  BY <1>1
<1>5. BTypes
  BY <1>1, <1>2, <1>3, <1>4, <1>6 DEF BTypes
<1> QED BY <1>1, <1>3, <1>5 DEF BInv, BServer, BRead, BApplied

LEMMA BStepInv == BInv /\ [BNext]_dashboard => BInv'
<1> SUFFICES ASSUME BInv, [BNext]_dashboard PROVE BInv'
  OBVIOUS
<1>1. CASE UNCHANGED dashboard
  BY <1>1 DEF dashboard, answering, BInv, BTypes, BServer, BRead, BApplied, BFreshness
<1> QED BY <1>1, ServerKeeps, RefreshKeeps, CachedKeeps, MissesKeeps, ReadRowKeeps, HealKeeps, ApplyKeeps, QueueKeeps,
           ReloadKeeps DEF BNext

(* A dashboard that applied an answer read after the last change shows what   *)
(* the row says, unless a late bulk request wrote back an older row, however  *)
(* many requests are under way and however many packets of the queue are then *)
(* worked off: by induction over the queue, each leaves the store as it is.   *)
THEOREM QuietStoreIsTheRow == BSpec => []QuietDashboardIsRight
<1>1. BSpec => []BInv
  BY BInitInv, BStepInv, PTL DEF BSpec
<1>2. ASSUME BInv PROVE QuietDashboardIsRight
  <2>1. ASSUME bCurrent, bPosition = 0, bCache.version # Versionless, ~bOverwritten PROVE bStore = BFreshness(bRow)
    BY <1>2, <2>1 DEF BInv, BApplied
  <2>2. bRow.version = BFreshness(bRow).version
    BY <1>2 DEF BInv, BTypes, BFreshness
  <2> QED BY <2>1, <2>2 DEF QuietDashboardIsRight, BFreshness
<1> QED BY <1>1, <1>2, PTL

LEMMA BBoundedStep == BInv /\ bRow.version <= BMaxVersion /\ [BNext]_dashboard => bRow'.version <= BMaxVersion
<1> SUFFICES ASSUME BInv, bRow.version <= BMaxVersion, [BNext]_dashboard PROVE bRow'.version <= BMaxVersion
  OBVIOUS
<1>1. bRow \in [version : Nat \ {0}, status : {"on", "offline"}] /\ BMaxVersion \in Nat
  BY BAssumption DEF BInv, BTypes
<1>2. CASE BReconcile
  <2>1. bRow.version < BMaxVersion /\ bRow'.version = bRow.version + 1
    BY <1>2 DEF BReconcile, BMessage
  <2> QED BY <1>1, <2>1
<1>3. CASE BMarkOffline
  BY <1>1, <1>3 DEF BMarkOffline
<1>4. CASE bRow' = bRow
  BY <1>4
<1> QED BY <1>2, <1>3, <1>4 DEF BNext, dashboard, BAnnounce, BAge, BExpires, BRefresh, BAnswerCached, BMisses, BReadRow, BHeal,
                                  BApplyBulk, BArrive,
                                  ProcessBufferedUpdates, BReload

(* No message, entry or answer, however late, has a version beyond those the  *)
(* row can have (dashboard.js and the bulk endpoint).                         *)
THEOREM DashboardTypeCorrect == BSpec => []BTypeOK
<1> DEFINE Bounded == bRow.version <= BMaxVersion
<1>1. BInit => Bounded
  BY BAssumption DEF BInit, BMessage
<1>2. BInv /\ Bounded /\ [BNext]_dashboard => Bounded'
  BY BBoundedStep
<1>3. BInv /\ Bounded => BTypeOK
  <2> SUFFICES ASSUME BTypes, BServer, BRead, Bounded PROVE BTypeOK
    BY DEF BInv
  <2> DEFINE Message == [version : 0..BMaxVersion, status : {"on", "offline", "none"}]
             K == BKnown(bRow.version)
  <2>1. bRow \in [version : Nat \ {0}, status : {"on", "offline"}] /\ BMaxVersion \in Nat
    BY BAssumption DEF BTypes
  <2>2. K \subseteq Message
    BY <2>1 DEF BKnown, Statuses
  <2>3. bRow \in Message /\ bRow.status # "none"
    BY <2>1
  <2>4. bPosition \in 0..BMaxVersion
    <3>1. bPosition # 0 => bPosition = bRow.version
      BY DEF BServer, BMessage
    <3> QED BY <2>1, <3>1
  <2> HIDE DEF Message
  <2>5. bQueue \in Seq(Message)
    <3>1. bQueue \in Seq(K)
      BY DEF BTypes
    <3> HIDE DEF K
    <3> QED BY <2>2, <3>1, QueueGrows
  <2>6. bAsked.state \in {"none", "asked", "answered"} /\ bAsked.data \in Message \cup {BAbsent}
    BY <2>2 DEF BTypes
  <2>7. bWire \subseteq Message /\ bCache \in Message \cup {BMiss} /\ bStore \in Message \cup {BAbsent}
        /\ bAged \in BOOLEAN /\ bCurrent \in BOOLEAN
    BY <2>2 DEF BTypes
  <2>8. bHeals \in [BRequests -> Message \cup {BAbsent}]
    <3>1. bHeals \in [BRequests -> K \cup {BAbsent}] /\ K \cup {BAbsent} \subseteq Message \cup {BAbsent}
      BY <2>2 DEF BTypes
    <3> HIDE DEF K
    <3> QED BY <3>1
  <2>9. bMissed \subseteq BRequests /\ bBy \subseteq bMissed /\ bLate \subseteq BRequests /\ bOverwritten \in BOOLEAN
    BY DEF BTypes
  <2> QED BY <2>3, <2>4, <2>5, <2>6, <2>7, <2>8, <2>9 DEF BTypeOK, Message
<1> HIDE DEF Bounded
<1> QED BY <1>1, <1>2, <1>3, BInitInv, BStepInv, PTL DEF BSpec

-----------------------------------------------------------------------------
(* Layers of a live position.                                                 *)

XTypes ==
    /\ xTelemetry \in [XVehicles -> Nat]
    /\ xRow \in [XVehicles -> Int] /\ xCache \in [XVehicles -> Int]
    /\ xSynced \in [XVehicles -> Int] /\ xFloor \in [XVehicles -> Int]
    /\ xStage \in [XVehicles -> {"ready", "stored", "accepted", "undone"}]
    /\ xUnbacked \in [XVehicles -> SUBSET Nat]
    /\ xRead \in [step : {"new", "cache", "rows", "telemetry", "done"}, left : SUBSET XVehicles]
    /\ xAnswer \in [XVehicles -> [source : {"none", "redis", "row", "telemetry"}, pos : Int]]

(* Nothing is newer than the row but the telemetry, which is the row's while  *)
(* its packet is written through, and what a call has cached whose row was    *)
(* rolled back.                                                               *)
XBacked(v, position) == position <= xRow[v] \/ position \in xUnbacked[v]

XLayered ==
    \A v \in XVehicles :
        /\ XNowhere <= xRow[v] /\ xRow[v] # XUnplaced /\ xRow[v] <= xTelemetry[v]
        /\ xSynced[v] <= xRow[v] /\ XBacked(v, xCache[v]) /\ XBacked(v, xFloor[v])
        /\ \A n \in xUnbacked[v] : 0 < n /\ n <= xTelemetry[v]
        /\ xStage[v] # "ready" => xTelemetry[v] # 0
        /\ xStage[v] = "accepted" => xRow[v] = xTelemetry[v]

XUnread == xRead.step = "new" => \A v \in XVehicles : xAnswer[v].source = "none"

XInv == XTypes /\ XLayered /\ XUnread /\ FallbackIsNoOlder

LEMMA XInitInv == XInit => XInv
<1> SUFFICES ASSUME XInit PROVE XInv
  OBVIOUS
<1>1. XTypes
  BY DEF XInit, XTypes, XNowhere, XMissing, XFound
<1>2. XLayered
  BY DEF XInit, XLayered, XBacked, XNowhere, XUnplaced
<1>3. FallbackIsNoOlder
  BY DEF XInit, FallbackIsNoOlder, XMissing, XFound
<1>4. XUnread
  BY DEF XInit, XUnread, XMissing, XFound
<1> QED BY <1>1, <1>2, <1>3, <1>4 DEF XInv

(* A step of the writers leaves the answers and the floor, and rows only go   *)
(* forward.                                                                   *)
LEMMA XWritersKeep ==
    ASSUME XInv,
           \/ XSyncReads
           \/ \E v \in XVehicles : XStoreTelemetry(v) \/ XWriteThrough(v) \/ XTryAgain(v)
                                   \/ XMarkOffline(v) \/ XSyncWrites(v) \/ XExpires(v)
    PROVE  XInv'
<1>0. CASE XSyncReads
  <2>1. XTypes' /\ XLayered'
    BY <1>0 DEF XInv, XTypes, XLayered, XBacked, XSyncReads
  <2> QED BY <1>0, <2>1 DEF XInv, XUnread, FallbackIsNoOlder, XSyncReads
<1> SUFFICES ASSUME ~XSyncReads PROVE XInv'
  BY <1>0
<1>1. PICK v \in XVehicles : XStoreTelemetry(v) \/ XWriteThrough(v) \/ XTryAgain(v)
                             \/ XMarkOffline(v) \/ XSyncWrites(v) \/ XExpires(v)
  OBVIOUS
<1>2. CASE XStoreTelemetry(v)
  <2>1. XTypes'
    BY <1>2 DEF XInv, XTypes, XStoreTelemetry, XGoto
  <2>2. XLayered'
    BY <1>2 DEF XInv, XTypes, XLayered, XBacked, XStoreTelemetry, XGoto, XNowhere
  <2> QED BY <1>2, <2>1, <2>2 DEF XInv, XUnread, FallbackIsNoOlder, XStoreTelemetry
<1>3. CASE XWriteThrough(v)
  <2>1. CASE XAt(v, "stored") /\ UNCHANGED <<xCache, xUnbacked>>
    <3>1. CASE xRow' = [xRow EXCEPT ![v] = xTelemetry[v]] /\ XGoto(v, "accepted")
      <4>1. XTypes' /\ XLayered'
        BY <1>3, <2>1, <3>1 DEF XInv, XTypes, XLayered, XBacked, XWriteThrough, XAt, XGoto, XNowhere, XUnplaced
      <4> QED BY <1>3, <2>1, <4>1 DEF XInv, XUnread, FallbackIsNoOlder, XWriteThrough
    <3>2. ASSUME NEW end \in {"undone", "ready"}, XGoto(v, end), UNCHANGED xRow PROVE XInv'
      <4>1. XTypes' /\ XLayered'
        BY <1>3, <2>1, <3>2 DEF XInv, XTypes, XLayered, XBacked, XWriteThrough, XAt, XGoto
      <4> QED BY <1>3, <2>1, <4>1 DEF XInv, XUnread, FallbackIsNoOlder, XWriteThrough
    <3> QED BY <1>3, <2>1, <3>1, <3>2 DEF XWriteThrough, WriteThrough, XAt
  <2>2. CASE ~XAt(v, "stored") /\ XGoto(v, "ready") /\ UNCHANGED <<xRow, xCache, xUnbacked>>
    <3>1. XTypes' /\ XLayered'
      BY <1>3, <2>2 DEF XInv, XTypes, XLayered, XBacked, XWriteThrough, XGoto
    <3> QED BY <1>3, <2>2, <3>1 DEF XInv, XUnread, FallbackIsNoOlder, XWriteThrough
  <2>3. CASE /\ XAt(v, "accepted") /\ XGoto(v, "ready") /\ UNCHANGED <<xRow, xUnbacked>>
             /\ xCache' = [xCache EXCEPT ![v] = xTelemetry[v]]
    <3>1. XTypes' /\ XLayered'
      BY <1>3, <2>3 DEF XInv, XTypes, XLayered, XBacked, XWriteThrough, XAt, XGoto
    <3> QED BY <1>3, <2>3, <3>1 DEF XInv, XUnread, FallbackIsNoOlder, XWriteThrough
  <2>4. CASE /\ XAt(v, "undone") /\ XGoto(v, "ready") /\ UNCHANGED xRow
             /\ xCache' = [xCache EXCEPT ![v] = xTelemetry[v]]
             /\ xUnbacked' = [xUnbacked EXCEPT ![v] = @ \cup {xTelemetry[v]}]
    <3>1. XTypes'
      BY <1>3, <2>4 DEF XInv, XTypes, XWriteThrough, XGoto
    <3>2. \A u \in XVehicles : xUnbacked[u] \subseteq xUnbacked'[u]
      BY <2>4 DEF XInv, XTypes
    <3>3. xTelemetry[v] \in xUnbacked'[v]
      BY <2>4 DEF XInv, XTypes
    <3>4. \A u \in XVehicles : \A n \in xUnbacked'[u] : n \in xUnbacked[u] \/ (u = v /\ n = xTelemetry[v])
      BY <2>4 DEF XInv, XTypes
    <3>5. xTelemetry[v] \in Nat /\ xTelemetry[v] # 0
      BY <2>4 DEF XInv, XTypes, XLayered, XBacked, XAt
    <3>6. ASSUME NEW u \in XVehicles PROVE XBacked(u, xCache[u])' /\ XBacked(u, xFloor[u])'
      BY <1>3, <2>4, <3>2, <3>3 DEF XInv, XTypes, XLayered, XBacked, XWriteThrough
    <3>7. ASSUME NEW u \in XVehicles, NEW n \in xUnbacked'[u] PROVE 0 < n /\ n <= xTelemetry[u]
      BY <3>4, <3>5 DEF XInv, XTypes, XLayered, XBacked
    <3>8. XLayered'
      BY <1>3, <2>4, <3>6, <3>7 DEF XInv, XTypes, XLayered, XBacked, XWriteThrough, XGoto
    <3>9. XUnread' /\ FallbackIsNoOlder'
      BY <1>3, <2>4, <3>2 DEF XInv, XUnread, FallbackIsNoOlder, XWriteThrough
    <3> QED BY <3>1, <3>8, <3>9 DEF XInv
  <2> QED BY <1>3, <2>1, <2>2, <2>3, <2>4 DEF XWriteThrough, WriteThrough, XAt
<1>4. CASE XMarkOffline(v)
  <2>1. XTypes'
    BY <1>4 DEF XInv, XTypes, XMarkOffline, XUnplaced
  <2>2. XLayered'
    BY <1>4 DEF XInv, XTypes, XLayered, XBacked, XMarkOffline, XNowhere, XUnplaced
  <2> QED BY <1>4, <2>1, <2>2 DEF XInv, XUnread, FallbackIsNoOlder, XMarkOffline
<1>5. CASE XSyncWrites(v)
  <2>1. XTypes'
    BY <1>5 DEF XInv, XTypes, XSyncWrites, XNowhere
  <2>2. XLayered'
    BY <1>5 DEF XInv, XTypes, XLayered, XBacked, XSyncWrites, XNowhere
  <2> QED BY <1>5, <2>1, <2>2 DEF XInv, XUnread, FallbackIsNoOlder, XSyncWrites
<1>6. CASE XExpires(v)
  <2>1. XTypes'
    BY <1>6 DEF XInv, XTypes, XExpires, XNowhere
  <2>2. XLayered'
    BY <1>6 DEF XInv, XTypes, XLayered, XBacked, XExpires, XNowhere
  <2> QED BY <1>6, <2>1, <2>2 DEF XInv, XUnread, FallbackIsNoOlder, XExpires
<1>7. CASE XTryAgain(v)
  <2>1. XTypes' /\ XLayered'
    BY <1>7 DEF XInv, XTypes, XLayered, XBacked, XTryAgain, XAt, XGoto
  <2> QED BY <1>7, <2>1 DEF XInv, XUnread, FallbackIsNoOlder, XTryAgain
<1> QED BY <1>1, <1>2, <1>3, <1>4, <1>5, <1>6, <1>7

(* The row and the telemetry an answer is taken from are not behind the floor.*)
LEMMA XReaderKeeps ==
    ASSUME XInv, \/ ListKeys \/ AllEntriesRead \/ RedisFails
                 \/ ReadRows \/ ReadLastPoints \/ Respond
                 \/ \E v \in XVehicles : ReadEntry(v)
    PROVE  XInv'
<1>1. CASE ListKeys
  <2>1. XTypes' /\ XLayered'
    BY <1>1 DEF XInv, XTypes, XLayered, XBacked, ListKeys, UnchangedStores
  <2>2. XUnread' /\ FallbackIsNoOlder'
    BY <1>1 DEF XInv, XTypes, XUnread, XUnread, FallbackIsNoOlder, ListKeys
  <2> QED BY <2>1, <2>2 DEF XInv
<1>2. CASE \E v \in XVehicles : ReadEntry(v)
  <2>1. PICK v \in XVehicles : ReadEntry(v)
    BY <1>2
  <2>2. xAnswer' = xAnswer \/ xAnswer' = [xAnswer EXCEPT ![v] = XFound("redis", xCache[v])]
    BY <2>1 DEF ReadEntry
  <2>3. XTypes' /\ XLayered'
    BY <2>1, <2>2 DEF XInv, XTypes, XLayered, XBacked, ReadEntry, UnchangedStores, XFound
  <2>4. XUnread' /\ FallbackIsNoOlder'
    BY <2>1, <2>2 DEF XInv, XTypes, XUnread, FallbackIsNoOlder, ReadEntry, UnchangedStores, XFound
  <2> QED BY <2>3, <2>4 DEF XInv
<1>3. CASE AllEntriesRead
  <2>1. XTypes' /\ XLayered'
    BY <1>3 DEF XInv, XTypes, XLayered, XBacked, AllEntriesRead, UnchangedStores
  <2> QED BY <1>3, <2>1 DEF XInv, XUnread, FallbackIsNoOlder, AllEntriesRead, UnchangedStores
<1>4. CASE RedisFails
  <2>1. XTypes' /\ XLayered'
    BY <1>4 DEF XInv, XTypes, XLayered, XBacked, RedisFails, UnchangedStores, XMissing, XFound, XNowhere
  <2>2. XUnread' /\ FallbackIsNoOlder'
    BY <1>4 DEF XInv, XTypes, XUnread, FallbackIsNoOlder, RedisFails, XMissing, XFound
  <2> QED BY <2>1, <2>2 DEF XInv
<1>5. CASE ReadRows
  <2>1. XTypes'
    <3>1. xRead' \in [step : {"new", "cache", "rows", "telemetry", "done"}, left : SUBSET XVehicles]
      BY <1>5 DEF XInv, XTypes, ReadRows
    <3>2. xAnswer' \in [XVehicles -> [source : {"none", "redis", "row", "telemetry"}, pos : Int]]
      BY <1>5 DEF XInv, XTypes, ReadRows, XFound
    <3> QED BY <1>5, <3>1, <3>2 DEF XInv, XTypes, ReadRows, UnchangedStores
  <2>3. XLayered'
    BY <1>5 DEF XInv, XLayered, XBacked, ReadRows, UnchangedStores
  <2>2. XUnread' /\ FallbackIsNoOlder'
    BY <1>5 DEF XInv, XTypes, XUnread, XLayered, XBacked, FallbackIsNoOlder, ReadRows, UnchangedStores, XFound
  <2> QED BY <2>1, <2>2, <2>3 DEF XInv
<1>6. CASE ReadLastPoints
  <2>1. XTypes'
    <3>1. xRead' \in [step : {"new", "cache", "rows", "telemetry", "done"}, left : SUBSET XVehicles]
      BY <1>6 DEF XInv, XTypes, ReadLastPoints
    <3>2. xAnswer' \in [XVehicles -> [source : {"none", "redis", "row", "telemetry"}, pos : Int]]
      BY <1>6 DEF XInv, XTypes, ReadLastPoints, XFound
    <3> QED BY <1>6, <3>1, <3>2 DEF XInv, XTypes, ReadLastPoints, UnchangedStores
  <2>3. XLayered'
    BY <1>6 DEF XInv, XLayered, XBacked, ReadLastPoints, UnchangedStores
  <2>2. XUnread' /\ FallbackIsNoOlder'
    BY <1>6 DEF XInv, XTypes, XUnread, XLayered, XBacked, FallbackIsNoOlder, ReadLastPoints, UnchangedStores, XFound
  <2> QED BY <2>1, <2>2, <2>3 DEF XInv
<1>7. CASE Respond
  <2>1. XTypes'
    <3>1. xRead' \in [step : {"new", "cache", "rows", "telemetry", "done"}, left : SUBSET XVehicles]
      BY <1>7 DEF XInv, XTypes, Respond
    <3>2. xAnswer' \in [XVehicles -> [source : {"none", "redis", "row", "telemetry"}, pos : Int]]
      BY <1>7 DEF XInv, XTypes, Respond, XMissing, XFound, XNowhere
    <3> QED BY <1>7, <3>1, <3>2 DEF XInv, XTypes, Respond, UnchangedStores, XNowhere
  <2>3. XLayered'
    BY <1>7 DEF XInv, XTypes, XLayered, XBacked, Respond, UnchangedStores, XNowhere
  <2>2. XUnread' /\ FallbackIsNoOlder'
    BY <1>7 DEF XInv, XTypes, XUnread, FallbackIsNoOlder, Respond, XMissing, XFound
  <2> QED BY <2>1, <2>2, <2>3 DEF XInv
<1> QED BY <1>1, <1>2, <1>3, <1>4, <1>5, <1>6, <1>7

LEMMA XStepInv == XInv /\ [XNext]_layers => XInv'
<1>1. CASE UNCHANGED layers
  BY <1>1 DEF layers, XInv, XTypes, XUnread, XLayered, XBacked, FallbackIsNoOlder
<1>2. CASE XNext
  BY <1>2, XWritersKeep, XReaderKeeps DEF XNext
<1> QED BY <1>1, <1>2

(* Whichever layer answers for an entry Redis lost, its position is not older *)
(* than what Redis held when the request of the external API began.           *)
THEOREM AnswersAreNoOlder == XSpec => []FallbackIsNoOlder
<1>1. XSpec => []XInv
  BY XInitInv, XStepInv, PTL DEF XSpec
<1>2. XInv => FallbackIsNoOlder
  BY DEF XInv
<1> QED BY <1>1, <1>2, PTL

(* No position is below none, and no packet above the bound.                  *)
XBounded == \A v \in XVehicles : /\ xTelemetry[v] <= XMaxPackets
                                 /\ XNowhere <= xCache[v] /\ XNowhere <= xSynced[v] /\ XNowhere <= xFloor[v]

LEMMA XBoundedStep == XInv /\ XBounded /\ [XNext]_layers => XBounded'
<1> SUFFICES ASSUME XInv, XBounded, [XNext]_layers, NEW u \in XVehicles
             PROVE  /\ xTelemetry'[u] <= XMaxPackets
                    /\ XNowhere <= xCache'[u] /\ XNowhere <= xSynced'[u] /\ XNowhere <= xFloor'[u]
  BY DEF XBounded
<1>0. /\ XTypes /\ XMaxPackets \in Nat /\ XNowhere = -1 /\ XUnplaced = 0 /\ XNowhere <= xRow[u]
      /\ xTelemetry[u] <= XMaxPackets
      /\ XNowhere <= xCache[u] /\ XNowhere <= xSynced[u] /\ XNowhere <= xFloor[u]
      /\ xTelemetry \in [XVehicles -> Nat] /\ xTelemetry[u] \in Nat
  BY XAssumption DEF XInv, XTypes, XLayered, XBacked, XBounded, XNowhere, XUnplaced
<1>1. ASSUME NEW v \in XVehicles, XStoreTelemetry(v) PROVE xTelemetry'[u] <= XMaxPackets
  <2>1. xTelemetry[v] < XMaxPackets /\ xTelemetry' = [xTelemetry EXCEPT ![v] = xTelemetry[v] + 1]
    BY <1>1 DEF XStoreTelemetry
  <2> QED BY <1>0, <2>1
<1>2. xTelemetry'[u] <= XMaxPackets
  BY <1>0, <1>1 DEF XNext, layers, XWriteThrough, XTryAgain, XMarkOffline, XSyncWrites, XExpires, ReadEntry, XSyncReads, ListKeys,
                    AllEntriesRead, RedisFails, ReadRows, ReadLastPoints, Respond, UnchangedStores
<1>3. XNowhere <= xCache'[u]
  <2>1. \/ xCache' = xCache
        \/ \E v \in XVehicles : \/ xCache' = [xCache EXCEPT ![v] = xTelemetry[v]]
                                \/ xCache' = [xCache EXCEPT ![v] = XUnplaced]
                                \/ xCache' = [xCache EXCEPT ![v] = xSynced[v]]
                                \/ xCache' = [xCache EXCEPT ![v] = XNowhere]
    BY DEF XNext, layers, XStoreTelemetry, XWriteThrough, WriteThrough, XTryAgain, XMarkOffline, XSyncWrites, XExpires, ReadEntry,
           XSyncReads, ListKeys, AllEntriesRead, RedisFails, ReadRows, ReadLastPoints, Respond, UnchangedStores
  <2>2. xCache \in [XVehicles -> Int]
    BY <1>0 DEF XTypes
  <2>3. CASE xCache'[u] = xCache[u]
    BY <1>0, <2>3
  <2>4. CASE xCache'[u] # xCache[u]
    <3>1. xCache'[u] \in {xTelemetry[u], XUnplaced, xSynced[u], XNowhere}
      BY <2>1, <2>2, <2>4
    <3> QED BY <1>0, <3>1
  <2> QED BY <2>3, <2>4
<1>4. XNowhere <= xSynced'[u]
  <2>1. \/ xSynced' = xSynced \/ xSynced' = xRow
        \/ \E v \in XVehicles : xSynced' = [xSynced EXCEPT ![v] = XNowhere]
    BY DEF XNext, layers, XStoreTelemetry, XWriteThrough, XTryAgain, XMarkOffline, XSyncWrites, XExpires, ReadEntry,
           XSyncReads, ListKeys, AllEntriesRead, RedisFails, ReadRows, ReadLastPoints, Respond, UnchangedStores
  <2>2. xSynced \in [XVehicles -> Int]
    BY <1>0 DEF XTypes
  <2> QED BY <1>0, <2>1, <2>2
<1>5. XNowhere <= xFloor'[u]
  <2>1. xFloor' = xFloor \/ xFloor' = xCache \/ xFloor' = [v \in XVehicles |-> XNowhere]
    BY DEF XNext, layers, XStoreTelemetry, XWriteThrough, XTryAgain, XMarkOffline, XSyncWrites, XExpires, ReadEntry,
           XSyncReads, ListKeys, AllEntriesRead, RedisFails, ReadRows, ReadLastPoints, Respond, UnchangedStores
  <2> QED BY <1>0, <2>1
<1> QED BY <1>2, <1>3, <1>4, <1>5

(* Every layer holds the position of one of the packets there may be, or none *)
(* (live status in layers: Redis, rows, telemetry).                           *)
THEOREM FallbackTypeCorrect == XSpec => []XTypeOK
<1>1. XInit => XBounded
  BY XAssumption DEF XInit, XBounded, XNowhere
<1>2. XInv /\ XBounded => XTypeOK
  <2> SUFFICES ASSUME XTypes, XLayered, XBounded PROVE XTypeOK
    BY DEF XInv
  <2> DEFINE V == XNowhere..XMaxPackets
  <2>1. ASSUME NEW v \in XVehicles
        PROVE  /\ xTelemetry[v] \in 0..XMaxPackets
               /\ xRow[v] \in V /\ xCache[v] \in V /\ xSynced[v] \in V /\ xFloor[v] \in V
               /\ xUnbacked[v] \subseteq 1..XMaxPackets
    <3>1. /\ xTelemetry[v] \in Nat /\ xRow[v] \in Int /\ xCache[v] \in Int /\ xSynced[v] \in Int /\ xFloor[v] \in Int
          /\ XMaxPackets \in Nat /\ XNowhere \in Int
      BY XAssumption DEF XTypes, XNowhere
    <3>2. /\ XNowhere <= xRow[v] /\ xRow[v] <= xTelemetry[v] /\ xTelemetry[v] <= XMaxPackets
          /\ xCache[v] <= xTelemetry[v] /\ xSynced[v] <= xRow[v] /\ xFloor[v] <= xTelemetry[v]
          /\ XNowhere <= xCache[v] /\ XNowhere <= xSynced[v] /\ XNowhere <= xFloor[v]
      BY <3>1 DEF XTypes, XLayered, XBacked, XBounded
    <3>3. \A n \in xUnbacked[v] : n \in Nat /\ 0 < n /\ n <= xTelemetry[v]
      BY DEF XTypes, XLayered
    <3> QED BY <3>1, <3>2, <3>3
  <2> HIDE DEF V
  <2>2. xTelemetry \in [XVehicles -> 0..XMaxPackets]
    BY <2>1 DEF XTypes
  <2>3. {xRow, xCache, xSynced, xFloor} \subseteq [XVehicles -> V]
    BY <2>1 DEF XTypes
  <2>4. xRead.step \in {"new", "cache", "rows", "telemetry", "done"} /\ xRead.left \subseteq XVehicles
    BY DEF XTypes
  <2>5. \A v \in XVehicles : xAnswer[v].source \in {"none", "redis", "row", "telemetry"}
    BY DEF XTypes
  <2>6. xUnbacked \in [XVehicles -> SUBSET (1..XMaxPackets)]
    BY <2>1 DEF XTypes
  <2> QED BY <2>2, <2>3, <2>4, <2>5, <2>6 DEF XTypes, XTypeOK, V
<1> QED BY <1>1, <1>2, XInitInv, XStepInv, XBoundedStep, PTL DEF XSpec

-----------------------------------------------------------------------------
(* The fleet summary: how its sums come about.                                *)

PRowType == [on : BOOLEAN, moved : Nat]
PAmount  == [km : Nat, time : Nat]

LEMMA PlusIs ==
    ASSUME NEW a \in PAmount, NEW b, b.km \in Nat, b.time \in Nat
    PROVE  /\ Plus(a, b) \in PAmount
           /\ Plus(a, b).km = a.km + b.km /\ Plus(a, b).time = a.time + b.time
BY DEF Plus, PAmount

LEMMA SegmentIs == ASSUME NEW r \in PRowType PROVE Segment(r) \in PAmount /\ Segment(r).time <= 1
<1>1. r.moved \in Nat /\ PJump \in Nat
  BY PAssumption DEF PRowType
<1> QED BY <1>1 DEF Segment, PAmount

LEMMA NoneIs == PNone \in PAmount /\ PNone.km = 0 /\ PNone.time = 0
BY DEF PNone, PAmount

(* Of the recursive functions, what their definitions say of each value.      *)
LEMMA SumsAre ==
    ASSUME NEW rows \in Seq(PRowType), NEW from \in Nat
    PROVE  /\ \A n \in 0..Len(rows) : Sums(rows, from)[n] \in PAmount
           /\ \A n \in 0..Len(rows) : n <= from => Sums(rows, from)[n] = PNone
           /\ \A n \in 1..Len(rows) :
                 n > from => Sums(rows, from)[n] = Plus(Sums(rows, from)[n - 1], Segment(rows[n]))
<1> DEFINE L == Len(rows)
           G == PAmount
           Next(n, a) == IF n <= from THEN PNone ELSE Plus(a, Segment(rows[n]))
           step == [n \in 1..L |-> [a \in G |-> Next(n, a)]]
           Walk(f) == f = [n \in 0..L |-> Next(n, f[n - 1])]
<1>1. L \in Nat /\ \A n \in 1..L : rows[n] \in PRowType
  OBVIOUS
<1>2. ASSUME NEW n \in 1..L, NEW a \in G PROVE Next(n, a) \in G
  <2>1. Segment(rows[n]) \in PAmount
    BY <1>1, SegmentIs
  <2>2. Segment(rows[n]).km \in Nat /\ Segment(rows[n]).time \in Nat
    BY <2>1 DEF PAmount
  <2> QED BY <2>2, NoneIs, PlusIs
<1>3. PNone \in G
  BY NoneIs
<1> HIDE DEF L, G, Next
<1>4. step \in [1..L -> [G -> G]]
  BY <1>2
<1>5. PICK f \in [0..L -> G] : Walks(f, L, PNone, step)
  <2> HIDE DEF step
  <2> QED BY <1>1, <1>3, <1>4, StepsExist
<1>6. f[0] = PNone /\ \A n \in 1..L : f[n] = Next(n, f[n - 1])
  <2>1. ASSUME NEW n \in 1..L PROVE f[n] = Next(n, f[n - 1])
    <3>1. n - 1 \in 0..L
      BY <1>1
    <3>2. f[n - 1] \in G
      BY <3>1
    <3> QED BY <1>5, <3>2 DEF Walks
  <2> QED BY <1>5, <2>1 DEF Walks
<1>7. Walk(f)
  <2>1. \A n \in 0..L : f[n] = Next(n, f[n - 1])
    <3> TAKE n \in 0..L
    <3>1. CASE n = 0
      BY <1>6, <3>1 DEF Next
    <3>2. CASE n # 0
      <4>1. n \in 1..L
        BY <1>1, <3>2
      <4> QED BY <1>6, <4>1
    <3> QED BY <3>1, <3>2
  <2> QED BY <2>1
<1> DEFINE sum == CHOOSE g : Walk(g)
<1>8. Walk(sum) /\ Sums(rows, from) = sum
  BY <1>7 DEF Sums, Next, L
<1> HIDE DEF sum
<1>9. \A n \in 0..L : sum[n] = Next(n, sum[n - 1])
  BY <1>8
<1>10. \A n \in 0..L : n <= from => sum[n] = PNone
  BY <1>9 DEF Next
<1>11. \A n \in 1..L : n > from => sum[n] = Plus(sum[n - 1], Segment(rows[n]))
  <2> TAKE n \in 1..L
  <2>1. n \in 0..L /\ n \in Nat
    BY <1>1
  <2> QED BY <1>9, <2>1 DEF Next
<1>12. \A n \in 0..L : sum[n] \in G
  <2>1. sum[0] \in G
    <3>1. 0 \in 0..L /\ 0 <= from
      BY <1>1
    <3> QED BY <1>3, <1>10, <3>1
  <2>2. \A n \in 1..L : sum[n - 1] \in G => sum[n] \in G
    <3> TAKE n \in 1..L
    <3>1. n \in 0..L
      BY <1>1
    <3> QED BY <1>2, <1>9, <3>1
  <2> QED BY <1>1, <2>1, <2>2, StepsKeep
<1> QED BY <1>8, <1>10, <1>11, <1>12 DEF L, G

PTrip == [from : Nat \ {0}, to : Nat, km : Nat, time : Nat]

LEMMA AddedAre ==
    ASSUME NEW trips \in Seq(PTrip)
    PROVE  /\ \A n \in 0..Len(trips) : Added(trips)[n] \in PAmount
           /\ Added(trips)[0] = PNone
           /\ \A n \in 1..Len(trips) :
                 Added(trips)[n] = IF trips[n].from < PFrom THEN Added(trips)[n - 1]
                                   ELSE Plus(Added(trips)[n - 1], trips[n])
<1> DEFINE L == Len(trips)
           G == PAmount
           Next(n, a) == IF trips[n].from < PFrom THEN a ELSE Plus(a, trips[n])
           step == [n \in 1..L |-> [a \in G |-> Next(n, a)]]
           Walk(f) == f = [n \in 0..L |-> IF n = 0 THEN PNone ELSE Next(n, f[n - 1])]
<1>1. L \in Nat /\ \A n \in 1..L : trips[n] \in PTrip
  OBVIOUS
<1>2. ASSUME NEW n \in 1..L, NEW a \in G PROVE Next(n, a) \in G
  <2>1. trips[n].km \in Nat /\ trips[n].time \in Nat
    BY <1>1 DEF PTrip
  <2> QED BY <2>1, PlusIs
<1>3. PNone \in G
  BY NoneIs
<1> HIDE DEF L, G, Next
<1>4. step \in [1..L -> [G -> G]]
  BY <1>2
<1>5. PICK f \in [0..L -> G] : Walks(f, L, PNone, step)
  <2> HIDE DEF step
  <2> QED BY <1>1, <1>3, <1>4, StepsExist
<1>6. f[0] = PNone /\ \A n \in 1..L : f[n] = Next(n, f[n - 1])
  <2>1. ASSUME NEW n \in 1..L PROVE f[n] = Next(n, f[n - 1])
    <3>1. n - 1 \in 0..L
      BY <1>1
    <3>2. f[n - 1] \in G
      BY <3>1
    <3> QED BY <1>5, <3>2 DEF Walks
  <2> QED BY <1>5, <2>1 DEF Walks
<1>7. Walk(f)
  <2>1. \A n \in 0..L : f[n] = IF n = 0 THEN PNone ELSE Next(n, f[n - 1])
    BY <1>1, <1>6
  <2> QED BY <2>1
<1> DEFINE sum == CHOOSE g : Walk(g)
<1>8. Walk(sum) /\ Added(trips) = sum
  BY <1>7 DEF Added, Next, L
<1> HIDE DEF sum
<1>9. sum[0] = PNone /\ \A n \in 1..L : sum[n] = Next(n, sum[n - 1])
  BY <1>1, <1>8
<1>10. \A n \in 0..L : sum[n] \in G
  <2>1. sum[0] \in G /\ \A n \in 1..L : sum[n - 1] \in G => sum[n] \in G
    BY <1>2, <1>3, <1>9
  <2> QED BY <1>1, <2>1, StepsKeep
<1> QED BY <1>8, <1>9, <1>10 DEF L, G, Next

-----------------------------------------------------------------------------
(* A stretch of telemetry.                                                    *)
Km(rows, from, n)   == Sums(rows, from)[n].km
Time(rows, from, n) == Sums(rows, from)[n].time

LEMMA StretchIs ==
    ASSUME NEW rows \in Seq(PRowType), NEW from \in Nat, NEW n \in 0..Len(rows)
    PROVE  /\ Km(rows, from, n) \in Nat /\ Time(rows, from, n) \in Nat
           /\ n <= from => Km(rows, from, n) = 0 /\ Time(rows, from, n) = 0
           /\ n > from => /\ Km(rows, from, n) = Km(rows, from, n - 1) + Segment(rows[n]).km
                          /\ Time(rows, from, n) <= Time(rows, from, n - 1) + 1
<1>1. Sums(rows, from)[n] \in PAmount
  BY SumsAre
<1>2. n <= from => Sums(rows, from)[n] = PNone
  BY SumsAre
<1>3. ASSUME n > from
      PROVE  /\ Km(rows, from, n) = Km(rows, from, n - 1) + Segment(rows[n]).km
             /\ Time(rows, from, n) <= Time(rows, from, n - 1) + 1
  <2> DEFINE a == Sums(rows, from)[n - 1]
             g == Segment(rows[n])
  <2>1. n \in 1..Len(rows) /\ n - 1 \in 0..Len(rows)
    BY <1>3
  <2>2. rows[n] \in PRowType
    BY <2>1
  <2>3. g \in PAmount /\ g.time <= 1
    BY <2>2, SegmentIs
  <2>4. a \in PAmount
    BY <2>1, SumsAre
  <2>5. Sums(rows, from)[n] = Plus(a, g)
    BY <1>3, <2>1, SumsAre
  <2> HIDE DEF a, g
  <2>6. g.km \in Nat /\ g.time \in Nat /\ a.km \in Nat /\ a.time \in Nat
    BY <2>3, <2>4 DEF PAmount
  <2>7. Plus(a, g).km = a.km + g.km /\ Plus(a, g).time = a.time + g.time
    BY <2>4, <2>6, PlusIs
  <2>8. a.time + g.time <= a.time + 1
    BY <2>3, <2>6
  <2> QED BY <2>5, <2>7, <2>8 DEF Km, Time, a, g
<1>4. Km(rows, from, n) \in Nat /\ Time(rows, from, n) \in Nat
  BY <1>1 DEF Km, Time, PAmount
<1>5. n <= from => Km(rows, from, n) = 0 /\ Time(rows, from, n) = 0
  BY <1>2, NoneIs DEF Km, Time
<1> QED BY <1>3, <1>4, <1>5

LEMMA NextStretch ==
    ASSUME NEW rows \in Seq(PRowType), NEW from \in Nat, NEW m \in Nat,
           m + 1 \in 0..Len(rows), m + 1 > from
    PROVE  Km(rows, from, m + 1) = Km(rows, from, m) + Segment(rows[m + 1]).km
<1> DEFINE n == m + 1
<1>1. n - 1 = m /\ n \in 0..Len(rows) /\ n > from
  OBVIOUS
<1> HIDE DEF n
<1>2. Km(rows, from, n) = Km(rows, from, n - 1) + Segment(rows[n]).km
  BY <1>1, StretchIs
<1> QED BY <1>1, <1>2 DEF n

(* Two stretches that meet make one.                                          *)
LEMMA StretchesJoin ==
    ASSUME NEW rows \in Seq(PRowType), NEW from \in Nat, NEW b \in Nat, from <= b,
           NEW n \in 0..Len(rows), b <= n
    PROVE  Km(rows, from, n) = Km(rows, from, b) + Km(rows, b, n)
<1> DEFINE L == Len(rows)
           Joined(m) == Km(rows, from, m) = Km(rows, from, b) + Km(rows, b, m)
           T == {m \in Nat : b <= m /\ m <= L => Joined(m)}
<1>0. L \in Nat /\ n \in Nat /\ n <= L
  OBVIOUS
<1>1. ASSUME b <= L PROVE Joined(b)
  <2>1. b \in 0..Len(rows)
    BY <1>1
  <2>2. Km(rows, b, b) = 0
    BY <2>1, StretchIs
  <2>3. Km(rows, from, b) \in Nat
    BY <2>1, StretchIs
  <2> QED BY <2>2, <2>3
<1>2. 0 \in T
  <2>1. b <= 0 => b = 0
    OBVIOUS
  <2> QED BY <1>0, <1>1, <2>1
<1>3. ASSUME NEW m \in T PROVE m + 1 \in T
  <2>1. m \in Nat
    BY <1>3
  <2>2. SUFFICES ASSUME b <= m + 1, m + 1 <= L PROVE Joined(m + 1)
    BY <2>1
  <2>3. CASE b = m + 1
    BY <1>1, <2>2, <2>3
  <2>4. CASE b # m + 1
    <3> DEFINE g == Segment(rows[m + 1]).km
    <3>1. b <= m /\ m <= L /\ m + 1 > b /\ m + 1 > from /\ m + 1 - 1 = m
      BY <1>0, <2>1, <2>2, <2>4
    <3>2. m + 1 \in 0..Len(rows) /\ m \in 0..Len(rows) /\ b \in 0..Len(rows)
      BY <1>0, <2>1, <2>2, <3>1
    <3>3. Km(rows, from, m + 1) = Km(rows, from, m) + g
      BY <3>1, <3>2, NextStretch
    <3>4. Km(rows, b, m + 1) = Km(rows, b, m) + g
      BY <3>1, <3>2, NextStretch
    <3>5. Joined(m)
      BY <1>3, <3>1
    <3>6. m + 1 \in 1..Len(rows)
      BY <2>1, <3>2
    <3>7. rows[m + 1] \in PRowType
      BY <3>6
    <3>8. g \in Nat
      BY <3>7, SegmentIs DEF PAmount
    <3>9. Km(rows, from, m) \in Nat /\ Km(rows, b, m) \in Nat /\ Km(rows, from, b) \in Nat
      BY <3>2, StretchIs
    <3> HIDE DEF g
    <3> QED BY <3>3, <3>4, <3>5, <3>8, <3>9
  <2> QED BY <2>3, <2>4
<1> HIDE DEF Joined, L
<1>4. \A m \in Nat : m \in T
  BY <1>2, <1>3, AllNaturals
<1> QED BY <1>0, <1>4 DEF Joined

(* No more minutes than packets.                                              *)
LEMMA StretchTakes ==
    ASSUME NEW rows \in Seq(PRowType), NEW from \in Nat, NEW n \in 0..Len(rows), from <= n
    PROVE  Time(rows, from, n) <= n - from
<1> DEFINE L == Len(rows)
           Short(m) == Time(rows, from, m) <= m - from
           T == {m \in Nat : from <= m /\ m <= L => Short(m)}
<1>0. L \in Nat /\ n \in Nat /\ n <= L
  OBVIOUS
<1>1. ASSUME from <= L PROVE Short(from)
  <2>1. from \in 0..Len(rows)
    BY <1>1
  <2>2. Time(rows, from, from) = 0
    BY <2>1, StretchIs
  <2> QED BY <2>2
<1>2. 0 \in T
  <2>1. from <= 0 => from = 0
    OBVIOUS
  <2> QED BY <1>0, <1>1, <2>1
<1>3. ASSUME NEW m \in T PROVE m + 1 \in T
  <2>1. m \in Nat
    BY <1>3
  <2>2. SUFFICES ASSUME from <= m + 1, m + 1 <= L PROVE Short(m + 1)
    BY <2>1
  <2>3. CASE from = m + 1
    BY <1>1, <2>2, <2>3
  <2>4. CASE from # m + 1
    <3>1. from <= m /\ m <= L /\ m + 1 > from /\ m + 1 - 1 = m
      BY <1>0, <2>1, <2>2, <2>4
    <3>2. m + 1 \in 0..Len(rows) /\ m \in 0..Len(rows)
      BY <1>0, <2>1, <2>2, <3>1
    <3>3. Time(rows, from, m + 1) <= Time(rows, from, m) + 1
      BY <3>1, <3>2, StretchIs
    <3>4. Time(rows, from, m) <= m - from
      BY <1>3, <3>1
    <3>5. Time(rows, from, m) \in Nat /\ Time(rows, from, m + 1) \in Nat
      BY <3>2, StretchIs
    <3> QED BY <2>1, <3>3, <3>4, <3>5
  <2> QED BY <2>3, <2>4
<1> HIDE DEF Short, L
<1>4. \A m \in Nat : m \in T
  BY <1>2, <1>3, AllNaturals
<1> QED BY <1>0, <1>4 DEF Short

(* A longer stretch is not less.                                              *)
LEMMA StretchGrows ==
    ASSUME NEW rows \in Seq(PRowType), NEW from \in Nat, NEW b \in Nat,
           NEW n \in 0..Len(rows), b <= n
    PROVE  Km(rows, from, b) <= Km(rows, from, n)
<1>1. b \in 0..Len(rows)
  OBVIOUS
<1>2. Km(rows, from, b) \in Nat /\ Km(rows, from, n) \in Nat /\ Km(rows, b, n) \in Nat
  BY <1>1, StretchIs
<1>3. CASE from <= b
  <2>1. Km(rows, from, n) = Km(rows, from, b) + Km(rows, b, n)
    BY <1>3, StretchesJoin
  <2> QED BY <1>2, <2>1
<1>4. CASE ~(from <= b)
  <2>1. Km(rows, from, b) = 0
    BY <1>1, <1>4, StretchIs
  <2> QED BY <1>2, <2>1
<1> QED BY <1>3, <1>4

(* A later packet does not change what lies before it.                        *)
LEMMA StretchStays ==
    ASSUME NEW rows \in Seq(PRowType), NEW r \in PRowType, NEW from \in Nat,
           NEW n \in 0..Len(rows)
    PROVE  Km(Append(rows, r), from, n) = Km(rows, from, n)
<1> DEFINE L == Len(rows)
           more == Append(rows, r)
           Same(m) == Km(more, from, m) = Km(rows, from, m)
           T == {m \in Nat : m <= L => Same(m)}
<1>0. /\ L \in Nat /\ n \in Nat /\ n <= L
      /\ more \in Seq(PRowType) /\ Len(more) = L + 1
      /\ \A i \in 1..L : more[i] = rows[i]
  OBVIOUS
<1> HIDE DEF more
<1>1. \A m \in 0..L : m \in 0..Len(more) /\ m \in 0..Len(rows)
  BY <1>0
<1>2. ASSUME NEW m \in 0..L, m <= from PROVE Same(m)
  <2>1. Km(more, from, m) = 0
    BY <1>0, <1>1, <1>2, StretchIs
  <2>2. Km(rows, from, m) = 0
    BY <1>1, <1>2, StretchIs
  <2> QED BY <2>1, <2>2
<1>3. 0 \in T
  BY <1>0, <1>2
<1>4. ASSUME NEW m \in T PROVE m + 1 \in T
  <2>1. m \in Nat
    BY <1>4
  <2>2. SUFFICES ASSUME m + 1 <= L PROVE Same(m + 1)
    BY <2>1
  <2>3. m + 1 \in 0..L /\ m + 1 \in 1..L /\ m + 1 - 1 = m
    BY <1>0, <2>1, <2>2
  <2>4. CASE m + 1 <= from
    BY <1>2, <2>3, <2>4
  <2>5. CASE ~(m + 1 <= from)
    <3>1. m + 1 > from
      BY <2>1, <2>5
    <3>2. Km(more, from, m + 1) = Km(more, from, m) + Segment(more[m + 1]).km
      BY <1>0, <1>1, <2>1, <2>3, <3>1, NextStretch
    <3>3. Km(rows, from, m + 1) = Km(rows, from, m) + Segment(rows[m + 1]).km
      BY <1>1, <2>1, <2>3, <3>1, NextStretch
    <3>4. more[m + 1] = rows[m + 1] /\ Same(m)
      BY <1>0, <1>4, <2>1, <2>2, <2>3
    <3> QED BY <3>2, <3>3, <3>4
  <2> QED BY <2>4, <2>5
<1> HIDE DEF Same, L
<1>5. \A m \in Nat : m \in T
  BY <1>3, <1>4, AllNaturals
<1> QED BY <1>0, <1>5 DEF Same, more

-----------------------------------------------------------------------------
(* What lies within the period up to packet b, and the trips as they follow.  *)
PToldBy(rows, a, b) == \/ a = PNone
                       \/ /\ PFrom <= b /\ b <= Len(rows)
                          /\ a.km <= Km(rows, PFrom, b) /\ a.time <= b - PFrom

PTripIs(rows, edges, t) == /\ t.from <= t.to /\ t.to <= Len(rows)
                           /\ [kind |-> "trip_end", at |-> t.to] \in edges
                           /\ t.km = Km(rows, t.from, t.to) /\ t.time = t.to - t.from
PLine(rows, edges, trips) ==
    /\ \A i \in 1..Len(trips) : PTripIs(rows, edges, trips[i])
    /\ \A i, j \in 1..Len(trips) : i < j => trips[i].to <= trips[j].from

LEMMA TripTold ==
    ASSUME NEW rows \in Seq(PRowType), NEW edges, NEW t \in PTrip, PTripIs(rows, edges, t),
           PFrom <= t.from, NEW a \in PAmount, NEW b \in Nat, PToldBy(rows, a, b),
           a # PNone => b <= t.from
    PROVE  PToldBy(rows, Plus(a, t), t.to)
<1> DEFINE from == t.from
           to == t.to
           L == Len(rows)
<1>1. L \in Nat /\ PFrom \in Nat
  BY PAssumption
<1>2. from \in Nat /\ to \in Nat /\ t.km \in Nat /\ t.time \in Nat
  BY DEF PTrip
<1>3. from <= to /\ to <= L /\ t.km = Km(rows, from, to) /\ t.time = to - from /\ PFrom <= from
  BY DEF PTripIs
<1> HIDE DEF from, to, L
<1>4. from \in 0..Len(rows) /\ to \in 0..Len(rows)
  BY <1>1, <1>2, <1>3 DEF L
<1>5. /\ Plus(a, t).km = a.km + t.km /\ Plus(a, t).time = a.time + t.time
      /\ a.km \in Nat /\ a.time \in Nat
  BY <1>2, PlusIs DEF PAmount
<1>6. Km(rows, PFrom, to) = Km(rows, PFrom, from) + Km(rows, from, to)
  BY <1>1, <1>2, <1>3, <1>4, StretchesJoin
<1>7. Km(rows, PFrom, from) \in Nat /\ Km(rows, from, to) \in Nat
  BY <1>1, <1>2, <1>4, StretchIs
<1>8. a.km <= Km(rows, PFrom, from) /\ a.time <= from - PFrom
  <2>1. CASE a = PNone
    BY <1>1, <1>2, <1>3, <1>7, <2>1, NoneIs
  <2>2. CASE a # PNone
    <3>1. PFrom <= b /\ a.km <= Km(rows, PFrom, b) /\ a.time <= b - PFrom /\ b <= from
      BY <2>2 DEF PToldBy, from
    <3>2. b \in 0..Len(rows)
      BY <1>4, <3>1
    <3>3. Km(rows, PFrom, b) <= Km(rows, PFrom, from)
      BY <1>1, <1>4, <3>1, StretchGrows
    <3>4. Km(rows, PFrom, b) \in Nat
      BY <1>1, <3>2, StretchIs
    <3>5. a.km <= Km(rows, PFrom, from)
      BY <1>5, <1>7, <3>1, <3>3, <3>4
    <3>6. a.time <= from - PFrom
      BY <1>1, <1>2, <1>5, <3>1
    <3> QED BY <3>5, <3>6
  <2> QED BY <2>1, <2>2
<1>9. Plus(a, t).km <= Km(rows, PFrom, to)
  BY <1>3, <1>5, <1>6, <1>7, <1>8
<1>10. Plus(a, t).time <= to - PFrom
  BY <1>1, <1>2, <1>3, <1>5, <1>8
<1>11. PFrom <= to /\ to <= Len(rows)
  BY <1>1, <1>2, <1>3 DEF L
<1> QED BY <1>9, <1>10, <1>11 DEF PToldBy, to

(* The completed trips of the period lie one after another in it.             *)
PMarks(edges) == {PFrom} \cup {e.at : e \in {f \in edges : f.at >= PFrom}}

LEMMA CompletedTold ==
    ASSUME NEW rows \in Seq(PRowType), NEW edges, NEW trips \in Seq(PTrip),
           PLine(rows, edges, trips)
    PROVE  LET a == Added(trips)[Len(trips)] IN
           a \in PAmount /\ \E b \in PMarks(edges) : PToldBy(rows, a, b)
<1> DEFINE L == Len(trips)
           a(i) == Added(trips)[i]
           Upto(i, j) == PFrom <= trips[j].from /\ PToldBy(rows, a(i), trips[j].to)
           Good(i) == a(i) = PNone \/ \E j \in 1..i : Upto(i, j)
           T == {i \in Nat : i <= L => Good(i)}
<1>0. /\ L \in Nat /\ PFrom \in Nat
      /\ \A i \in 1..L : trips[i] \in PTrip /\ PTripIs(rows, edges, trips[i])
      /\ \A i, j \in 1..L : i < j => trips[i].to <= trips[j].from
  BY PAssumption DEF PLine
<1>1. \A i \in 0..L : a(i) \in PAmount
  BY AddedAre
<1>2. \A i \in 1..L : a(i) = IF trips[i].from < PFrom THEN a(i - 1) ELSE Plus(a(i - 1), trips[i])
  BY AddedAre
<1>3. 0 \in T
  <2>1. a(0) = PNone
    BY AddedAre
  <2> QED BY <2>1
<1>4. ASSUME NEW i \in T PROVE i + 1 \in T
  <2>1. i \in Nat /\ i + 1 \in Nat
    BY <1>4
  <2>2. SUFFICES ASSUME i + 1 <= L PROVE Good(i + 1)
    BY <2>1
  <2> DEFINE k == i + 1
             t == trips[k]
  <2>3. k \in 1..L /\ k - 1 = i /\ i \in 0..L
    BY <1>0, <2>1, <2>2
  <2>4. Good(i)
    BY <1>4, <2>1, <2>3
  <2>5. t \in PTrip /\ PTripIs(rows, edges, t)
    BY <1>0, <2>3
  <2>6. t.from \in Nat /\ t.to \in Nat
    BY <2>5 DEF PTrip
  <2>7. \A j \in 1..i : j \in 1..k /\ j \in 1..L /\ j < k
    BY <1>0, <2>1, <2>3
  <2> HIDE DEF a, k, L
  <2>8. CASE t.from < PFrom
    <3>1. a(k) = a(i)
      BY <1>2, <2>3, <2>8
    <3>2. CASE a(i) = PNone
      BY <3>1, <3>2 DEF k
    <3>3. CASE \E j \in 1..i : Upto(i, j)
      <4>1. PICK j \in 1..i : Upto(i, j)
        BY <3>3
      <4>2. j \in 1..k /\ Upto(k, j)
        BY <2>7, <3>1, <4>1
      <4> QED BY <4>2 DEF k
    <3> QED BY <2>4, <3>2, <3>3
  <2>9. CASE ~(t.from < PFrom)
    <3>1. a(k) = Plus(a(i), t) /\ PFrom <= t.from
      BY <1>0, <1>2, <2>3, <2>6, <2>9
    <3>2. a(i) \in PAmount
      BY <1>1, <2>3
    <3> HIDE DEF t
    <3>3. PToldBy(rows, Plus(a(i), t), t.to)
      <4>1. CASE a(i) = PNone
        <5>1. PToldBy(rows, a(i), 0)
          BY <4>1 DEF PToldBy
        <5> QED BY <2>5, <3>1, <3>2, <4>1, <5>1, TripTold
      <4>2. CASE a(i) # PNone
        <5>1. PICK j \in 1..i : Upto(i, j)
          BY <2>4, <4>2
        <5> DEFINE b == trips[j].to
        <5>2. b <= t.from
          BY <1>0, <2>3, <2>7, <5>1 DEF t
        <5>3. b \in Nat
          BY <1>0, <2>7, <5>1 DEF PTrip
        <5>4. PToldBy(rows, a(i), b)
          BY <5>1
        <5> HIDE DEF b
        <5> QED BY <2>5, <3>1, <3>2, <5>2, <5>3, <5>4, TripTold
      <4> QED BY <4>1, <4>2
    <3>4. k \in 1..k
      BY <2>1, <2>3
    <3>5. Upto(k, k)
      BY <3>1, <3>3 DEF t
    <3> QED BY <3>4, <3>5 DEF k
  <2> QED BY <2>8, <2>9
<1>5. Good(L) /\ a(L) \in PAmount
  <2> HIDE DEF Good, L
  <2>1. \A i \in Nat : i \in T
    BY <1>3, <1>4, AllNaturals
  <2>2. L \in Nat /\ L <= L /\ L \in 0..L
    BY <1>0
  <2> QED BY <1>1, <2>1, <2>2
<1>6. \E b \in PMarks(edges) : PToldBy(rows, a(L), b)
  <2>1. CASE a(L) = PNone
    <3>1. PToldBy(rows, a(L), PFrom) /\ PFrom \in PMarks(edges)
      BY <2>1 DEF PToldBy, PMarks
    <3> QED BY <3>1
  <2>2. CASE a(L) # PNone
    <3>1. PICK j \in 1..L : Upto(L, j)
      BY <1>5, <2>2
    <3> DEFINE t == trips[j]
               e == [kind |-> "trip_end", at |-> t.to]
    <3>2. t \in PTrip /\ PTripIs(rows, edges, t)
      BY <1>0, <3>1
    <3>3. e \in edges /\ e.at = t.to
      BY <3>2 DEF PTripIs
    <3>4. t.from \in Nat /\ t.to \in Nat /\ t.from <= t.to /\ PFrom <= t.from
      BY <3>1, <3>2 DEF PTripIs, PTrip
    <3> HIDE DEF e, t
    <3>5. t.to \in PMarks(edges)
      <4>1. e.at >= PFrom
        BY <1>0, <3>3, <3>4
      <4> QED BY <3>3, <4>1 DEF PMarks
    <3> QED BY <3>1, <3>5 DEF t
  <2> QED BY <2>1, <2>2
<1> QED BY <1>5, <1>6

-----------------------------------------------------------------------------
(* What the period holds, and what a report may say.                          *)
PWhole(rows, a) == /\ a.km <= Km(rows, PFrom, Len(rows))
                   /\ a.time <= Cardinality(PFrom..Len(rows) - 1)

LEMMA PeriodIs ==
    ASSUME NEW rows \in Seq(PRowType)
    PROVE  /\ Km(rows, PFrom, Len(rows)) \in Nat
           /\ Cardinality(PFrom..Len(rows) - 1) = IF PFrom <= Len(rows) THEN Len(rows) - PFrom ELSE 0
<1> DEFINE L == Len(rows)
<1>1. L \in Nat /\ PFrom \in Nat /\ L \in 0..Len(rows)
  BY PAssumption
<1>2. Km(rows, PFrom, L) \in Nat
  BY <1>1, StretchIs
<1> HIDE DEF L
<1> DEFINE m == L - 1
<1>3. m \in Int /\ PFrom \in Int
  BY <1>1
<1> HIDE DEF m
<1>4. Cardinality(PFrom..m) = IF PFrom > m THEN 0 ELSE m - PFrom + 1
  BY <1>3, FS_Interval
<1>5. Cardinality(PFrom..m) = IF PFrom <= L THEN L - PFrom ELSE 0
  <2>1. CASE PFrom <= L - 1
    BY <1>1, <1>4, <2>1 DEF m
  <2>2. CASE ~(PFrom <= L - 1)
    BY <1>1, <1>4, <2>2 DEF m
  <2> QED BY <2>1, <2>2
<1> QED BY <1>2, <1>5 DEF m, L

LEMMA ToldIsWhole ==
    ASSUME NEW rows \in Seq(PRowType), NEW a \in PAmount, NEW b \in Nat, PToldBy(rows, a, b)
    PROVE  PWhole(rows, a)
<1> DEFINE L == Len(rows)
           K == Km(rows, PFrom, L)
           C == Cardinality(PFrom..L - 1)
<1>1. L \in Nat /\ PFrom \in Nat /\ a.km \in Nat /\ a.time \in Nat /\ L \in 0..Len(rows)
  BY PAssumption DEF PAmount
<1>2. K \in Nat /\ C = IF PFrom <= L THEN L - PFrom ELSE 0
  BY PeriodIs
<1> HIDE DEF L
<1>3. CASE a = PNone
  <2>1. a.km = 0 /\ a.time = 0
    BY <1>3, NoneIs
  <2> HIDE DEF K, C
  <2>2. a.km <= K /\ a.time <= C
    BY <1>1, <1>2, <2>1
  <2> QED BY <2>2 DEF PWhole, K, C, L
<1>4. CASE a # PNone
  <2>1. PFrom <= b /\ b <= L /\ a.km <= Km(rows, PFrom, b) /\ a.time <= b - PFrom
    BY <1>4 DEF PToldBy, L
  <2>2. b \in 0..Len(rows)
    BY <1>1, <2>1 DEF L
  <2>3. Km(rows, PFrom, b) \in Nat
    BY <1>1, <2>2, StretchIs
  <2>4. Km(rows, PFrom, b) <= K
    BY <1>1, <2>1, StretchGrows
  <2> HIDE DEF K, C
  <2>5. a.km <= K
    BY <1>1, <1>2, <2>1, <2>3, <2>4
  <2>6. a.time <= C
    BY <1>1, <1>2, <2>1
  <2> QED BY <2>5, <2>6 DEF PWhole, K, C, L
<1> QED BY <1>3, <1>4

(* What lies before packet b, and the stretch since then.                     *)
LEMMA TheRestFits ==
    ASSUME NEW rows \in Seq(PRowType), NEW a \in PAmount, NEW b \in PFrom..Len(rows),
           PToldBy(rows, a, b)
    PROVE  /\ Sums(rows, b)[Len(rows)] \in PAmount
           /\ PWhole(rows, Plus(a, Sums(rows, b)[Len(rows)]))
<1> DEFINE L == Len(rows)
           s == Sums(rows, b)[L]
           K == Km(rows, PFrom, L)
           C == Cardinality(PFrom..L - 1)
<1>1. /\ L \in Nat /\ PFrom \in Nat /\ L \in 0..Len(rows)
      /\ b \in Nat /\ PFrom <= b /\ b <= L /\ b \in 0..Len(rows)
  BY PAssumption
<1>2. a.km \in Nat /\ a.time \in Nat
  BY DEF PAmount
<1>3. K \in Nat /\ C = L - PFrom
  BY <1>1, PeriodIs
<1>4. s \in PAmount /\ s.km = Km(rows, b, L) /\ s.time = Time(rows, b, L)
  BY <1>1, SumsAre DEF Km, Time
<1>5. s.km \in Nat /\ s.time \in Nat
  BY <1>4 DEF PAmount
<1> HIDE DEF L, s
<1>6. s.time <= L - b
  BY <1>1, <1>4, StretchTakes
<1>7. K = Km(rows, PFrom, b) + Km(rows, b, L)
  BY <1>1, StretchesJoin
<1>8. Km(rows, PFrom, b) \in Nat
  BY <1>1, StretchIs
<1>9. a.km <= Km(rows, PFrom, b) /\ a.time <= b - PFrom
  <2>1. CASE a = PNone
    BY <1>1, <1>8, <2>1, NoneIs
  <2>2. CASE a # PNone
    BY <2>2 DEF PToldBy
  <2> QED BY <2>1, <2>2
<1>10. Plus(a, s).km = a.km + s.km /\ Plus(a, s).time = a.time + s.time
  BY <1>5, PlusIs
<1> HIDE DEF K, C
<1>11. Plus(a, s).km <= K
  BY <1>2, <1>4, <1>5, <1>7, <1>8, <1>9, <1>10
<1>12. Plus(a, s).time <= C
  BY <1>1, <1>2, <1>3, <1>5, <1>6, <1>9, <1>10
<1> QED BY <1>4, <1>11, <1>12 DEF PWhole, K, C, s, L

-----------------------------------------------------------------------------
(* What a later packet, or another edge, leaves as it was.                    *)
LEMMA LaterPacket ==
    ASSUME NEW rows \in Seq(PRowType), NEW r \in PRowType
    PROVE  /\ Append(rows, r) \in Seq(PRowType) /\ Len(Append(rows, r)) = Len(rows) + 1
           /\ Append(rows, r)[Len(rows) + 1] = r
BY DEF PRowType

LEMMA WholeStays ==
    ASSUME NEW rows \in Seq(PRowType), NEW r \in PRowType, NEW a \in PAmount, PWhole(rows, a)
    PROVE  PWhole(Append(rows, r), a)
<1> DEFINE L == Len(rows)
           more == Append(rows, r)
           K == Km(rows, PFrom, L)
           C == Cardinality(PFrom..L - 1)
           Kb == Km(more, PFrom, L)
           Km2 == Km(more, PFrom, Len(more))
           C2 == Cardinality(PFrom..Len(more) - 1)
<1>1. L \in Nat /\ PFrom \in Nat /\ L \in 0..Len(rows) /\ a.km \in Nat /\ a.time \in Nat
  BY PAssumption DEF PAmount
<1>2. more \in Seq(PRowType) /\ Len(more) = L + 1
  BY LaterPacket
<1>3. Kb = K
  BY <1>1, StretchStays
<1> HIDE DEF more, L
<1>4. Len(more) \in 0..Len(more) /\ L <= Len(more)
  BY <1>1, <1>2
<1>5. Kb <= Km2
  BY <1>1, <1>2, <1>4, StretchGrows
<1>6. K \in Nat /\ C = IF PFrom <= L THEN L - PFrom ELSE 0
  BY PeriodIs DEF L
<1>7. Km2 \in Nat /\ C2 = IF PFrom <= Len(more) THEN Len(more) - PFrom ELSE 0
  BY <1>2, PeriodIs
<1>8. a.km <= K /\ a.time <= C
  BY DEF PWhole, L
<1> HIDE DEF K, C, Kb, Km2, C2
<1>9. a.km <= Km2
  BY <1>1, <1>3, <1>5, <1>6, <1>7, <1>8
<1>10. a.time <= C2
  BY <1>1, <1>2, <1>6, <1>7, <1>8
<1> QED BY <1>9, <1>10 DEF PWhole, Km2, C2, more

LEMMA ToldStays ==
    ASSUME NEW rows \in Seq(PRowType), NEW r \in PRowType, NEW a, NEW b \in Nat,
           PToldBy(rows, a, b)
    PROVE  PToldBy(Append(rows, r), a, b)
<1>1. CASE a = PNone
  BY <1>1 DEF PToldBy
<1>2. CASE a # PNone
  <2>1. PFrom <= b /\ b <= Len(rows) /\ a.km <= Km(rows, PFrom, b) /\ a.time <= b - PFrom
    BY <1>2 DEF PToldBy
  <2>2. b \in 0..Len(rows) /\ PFrom \in Nat
    BY <2>1, PAssumption
  <2>3. Km(Append(rows, r), PFrom, b) = Km(rows, PFrom, b)
    BY <2>2, StretchStays
  <2>4. b <= Len(Append(rows, r))
    BY <2>1, LaterPacket
  <2> QED BY <2>1, <2>3, <2>4 DEF PToldBy
<1> QED BY <1>1, <1>2

LEMMA LineStays ==
    ASSUME NEW rows \in Seq(PRowType), NEW r \in PRowType, NEW edges,
           NEW trips \in Seq(PTrip), PLine(rows, edges, trips)
    PROVE  PLine(Append(rows, r), edges, trips)
<1>1. ASSUME NEW t \in PTrip, PTripIs(rows, edges, t) PROVE PTripIs(Append(rows, r), edges, t)
  <2> DEFINE from == t.from
             to == t.to
  <2>1. from \in Nat /\ to \in Nat
    BY DEF PTrip
  <2>2. from <= to /\ to <= Len(rows) /\ t.km = Km(rows, from, to)
    BY <1>1 DEF PTripIs
  <2> HIDE DEF from, to
  <2>3. to \in 0..Len(rows)
    BY <2>1, <2>2
  <2>4. Km(Append(rows, r), from, to) = Km(rows, from, to)
    BY <2>1, <2>3, StretchStays
  <2>5. to <= Len(Append(rows, r))
    BY <2>1, <2>2, LaterPacket
  <2> QED BY <1>1, <2>2, <2>4, <2>5 DEF PTripIs, from, to
<1>2. \A i \in 1..Len(trips) : trips[i] \in PTrip
  OBVIOUS
<1> QED BY <1>1, <1>2 DEF PLine

LEMMA LineKeeps ==
    ASSUME NEW rows, NEW edges, NEW more, edges \subseteq more, NEW trips,
           PLine(rows, edges, trips)
    PROVE  PLine(rows, more, trips)
<1>1. ASSUME NEW t, PTripIs(rows, edges, t) PROVE PTripIs(rows, more, t)
  BY <1>1 DEF PTripIs
<1> QED BY <1>1 DEF PLine

-----------------------------------------------------------------------------
(* The invariant: the edges the worker has stored, the trips as they lie on   *)
(* the telemetry, and what a report has read so far.                          *)
PTypes == /\ pRows \in Seq(PRowType) /\ pTrips \in Seq(PTrip)
          /\ \A e \in pEdges : e.at \in 1..Len(pRows)

PNewest == [kind |-> "trip_end", at |-> Len(pRows)]
PStages ==
    /\ pStage # "ready" => Len(pRows) > 0
    /\ pStage = "edge" => \A e \in pEdges : e.at < Len(pRows)
    /\ pStage = "summary" => /\ PNewest \in pEdges
                             /\ \A e \in pEdges \ {PNewest} : e.at < Len(pRows)
    /\ pStage \in {"edge", "summary"} => \A i \in 1..Len(pTrips) : pTrips[i].to < Len(pRows)

PReportType == [step : {"new", "telemetry", "events", "guess", "live", "done"},
                trips : PAmount, all : PAmount, active : Nat, guessed : BOOLEAN, live : PAmount]
PReportIs(rows, edges, r) ==
    /\ r \in PReportType /\ PWhole(rows, r.all)
    /\ r.step # "done" => r.live = PNone
    /\ r.step \in {"telemetry", "events"} => \E b \in PMarks(edges) : PToldBy(rows, r.trips, b)
    /\ r.step = "guess" => PWhole(rows, r.trips)
    /\ r.step = "live" => /\ r.active \in PFrom..Len(rows)
                          /\ r.guessed \/ PToldBy(rows, r.trips, r.active)
    /\ r.step = "done" => (r.guessed /\ r.trips # PNone) \/ PWhole(rows, Plus(r.trips, r.live))

PIInv == PTypes /\ PStages /\ PLine(pRows, pEdges, pTrips) /\ PReportIs(pRows, pEdges, pReport)

LEMMA LastEdge ==
    ASSUME NEW edges, edges # {}, NEW n \in Nat, \A e \in edges : e.at \in 1..n
    PROVE  PLast(edges) \in edges /\ \A f \in edges : f.at <= PLast(edges).at
<1> DEFINE T == {e.at : e \in edges}
<1>1. T \in SUBSET Nat /\ T # {} /\ \A k \in T : k <= n
  OBVIOUS
<1> HIDE DEF T
<1>2. PICK m \in T : \A k \in T : k <= m
  BY <1>1, GreatestNatural
<1>3. \E e \in edges : \A f \in edges : f.at <= e.at
  BY <1>2 DEF T
<1> QED BY <1>3 DEF PLast

LEMMA MarksAre ==
    ASSUME NEW edges, NEW n \in Nat, \A e \in edges : e.at \in 1..n, NEW b \in PMarks(edges)
    PROVE  b \in Nat /\ PFrom <= b
<1>1. PFrom \in Nat
  BY PAssumption
<1>2. CASE b = PFrom
  BY <1>1, <1>2
<1>3. CASE \E e \in edges : e.at >= PFrom /\ b = e.at
  BY <1>1, <1>3
<1> QED BY <1>2, <1>3 DEF PMarks

LEMMA SumFits ==
    ASSUME NEW a \in PAmount, NEW b \in PAmount PROVE Plus(a, b) \in PAmount
<1>1. b.km \in Nat /\ b.time \in Nat
  BY DEF PAmount
<1> QED BY <1>1, PlusIs

LEMMA ReportStays ==
    ASSUME NEW rows \in Seq(PRowType), NEW r \in PRowType, NEW edges,
           \A e \in edges : e.at \in 1..Len(rows),
           NEW report, PReportIs(rows, edges, report)
    PROVE  PReportIs(Append(rows, r), edges, report)
<1> DEFINE more == Append(rows, r)
           trips == report.trips
           live == report.live
           all == report.all
           active == report.active
           step == report.step
           guessed == report.guessed
<1>1. report \in PReportType /\ Len(rows) \in Nat /\ PFrom \in Nat
  BY PAssumption DEF PReportIs
<1>2. trips \in PAmount /\ live \in PAmount /\ all \in PAmount /\ active \in Nat
  BY <1>1 DEF PReportType
<1>3. /\ PWhole(rows, all)
      /\ step # "done" => live = PNone
      /\ step \in {"telemetry", "events"} => \E b \in PMarks(edges) : PToldBy(rows, trips, b)
      /\ step = "guess" => PWhole(rows, trips)
      /\ step = "live" => active \in PFrom..Len(rows) /\ (guessed \/ PToldBy(rows, trips, active))
      /\ step = "done" => (guessed /\ trips # PNone) \/ PWhole(rows, Plus(trips, live))
  BY DEF PReportIs
<1> HIDE DEF trips, live, all, active, step, guessed
<1>4. Plus(trips, live) \in PAmount
  BY <1>2, SumFits
<1>5. PWhole(more, all)
  BY <1>2, <1>3, WholeStays
<1>6. step \in {"telemetry", "events"} => \E b \in PMarks(edges) : PToldBy(more, trips, b)
  <2>1. SUFFICES ASSUME step \in {"telemetry", "events"}
                 PROVE  \E b \in PMarks(edges) : PToldBy(more, trips, b)
    OBVIOUS
  <2>2. PICK b \in PMarks(edges) : PToldBy(rows, trips, b)
    BY <1>3, <2>1
  <2>3. b \in Nat
    BY <1>1, MarksAre
  <2> QED BY <2>2, <2>3, ToldStays
<1>7. step = "guess" => PWhole(more, trips)
  BY <1>2, <1>3, WholeStays
<1>8. step = "live" => active \in PFrom..Len(more) /\ (guessed \/ PToldBy(more, trips, active))
  <2>1. SUFFICES ASSUME step = "live"
                 PROVE  active \in PFrom..Len(more) /\ (guessed \/ PToldBy(more, trips, active))
    OBVIOUS
  <2>2. active \in PFrom..Len(rows) /\ (guessed \/ PToldBy(rows, trips, active))
    BY <1>3, <2>1
  <2>3. active \in PFrom..Len(more)
    BY <1>1, <2>2, LaterPacket
  <2>4. PToldBy(rows, trips, active) => PToldBy(more, trips, active)
    BY <1>2, ToldStays
  <2> QED BY <2>2, <2>3, <2>4
<1>9. step = "done" => (guessed /\ trips # PNone) \/ PWhole(more, Plus(trips, live))
  <2>1. PWhole(rows, Plus(trips, live)) => PWhole(more, Plus(trips, live))
    BY <1>4, WholeStays
  <2> QED BY <1>3, <2>1
<1> HIDE DEF more
<1>10. PReportIs(more, edges, report)
  BY <1>1, <1>3, <1>5, <1>6, <1>7, <1>8, <1>9
     DEF PReportIs, trips, live, all, active, step, guessed
<1> QED BY <1>10 DEF more

LEMMA ReportKeeps ==
    ASSUME NEW rows, NEW edges, NEW more, edges \subseteq more, NEW report,
           PReportIs(rows, edges, report)
    PROVE  PReportIs(rows, more, report)
<1>1. PMarks(edges) \subseteq PMarks(more)
  BY DEF PMarks
<1> QED BY <1>1 DEF PReportIs

-----------------------------------------------------------------------------
(* The worker.                                                                *)
LEMMA PStoreKeeps == PIInv /\ PStore => PIInv'
<1> SUFFICES ASSUME PIInv, PStore PROVE PIInv'
  OBVIOUS
<1>0. /\ PTypes /\ PStages /\ PLine(pRows, pEdges, pTrips) /\ PReportIs(pRows, pEdges, pReport)
  BY DEF PIInv
<1>1. /\ pStage' = "edge"
      /\ pEdges' = pEdges /\ pTrips' = pTrips /\ pReport' = pReport
  BY DEF PStore
<1>2. PICK r \in PRowType : pRows' = Append(pRows, r)
  <2>1. PICK on \in BOOLEAN, d \in {0} \cup PSteps : pRows' = Append(pRows, [on |-> on, moved |-> d])
    BY DEF PStore
  <2>2. [on |-> on, moved |-> d] \in PRowType
    BY PAssumption DEF PRowType
  <2> QED BY <2>1, <2>2
<1>3. /\ pRows \in Seq(PRowType) /\ pTrips \in Seq(PTrip) /\ Len(pRows) \in Nat
      /\ \A e \in pEdges : e.at \in 1..Len(pRows)
  BY <1>0 DEF PTypes
<1>4. pRows' \in Seq(PRowType) /\ Len(pRows') = Len(pRows) + 1
  BY <1>2, <1>3, LaterPacket
<1>5. PTypes'
  BY <1>1, <1>3, <1>4 DEF PTypes
<1>6. PStages'
  <2>1. \A e \in pEdges : e.at < Len(pRows) + 1
    BY <1>3
  <2>2. ASSUME NEW i \in 1..Len(pTrips) PROVE pTrips[i].to < Len(pRows) + 1
    <3>1. pTrips[i] \in PTrip /\ PTripIs(pRows, pEdges, pTrips[i])
      BY <1>0, <1>3 DEF PLine
    <3>2. pTrips[i].to \in Nat /\ pTrips[i].to <= Len(pRows)
      BY <3>1 DEF PTrip, PTripIs
    <3> QED BY <1>3, <3>2
  <2>3. Len(pRows) + 1 > 0
    BY <1>3
  <2> QED BY <1>1, <1>4, <2>1, <2>2, <2>3 DEF PStages
<1>7. PLine(pRows, pEdges, pTrips)'
  BY <1>0, <1>1, <1>2, <1>3, LineStays
<1>8. PReportIs(pRows, pEdges, pReport)'
  BY <1>0, <1>1, <1>2, <1>3, ReportStays
<1> QED BY <1>5, <1>6, <1>7, <1>8 DEF PIInv

LEMMA PEdgeKeeps == PIInv /\ PEdge => PIInv'
<1> SUFFICES ASSUME PIInv, PEdge PROVE PIInv'
  OBVIOUS
<1> DEFINE L == Len(pRows)
<1>0. /\ PTypes /\ PStages /\ PLine(pRows, pEdges, pTrips) /\ PReportIs(pRows, pEdges, pReport)
  BY DEF PIInv
<1>1. /\ pStage = "edge" /\ pRows' = pRows /\ pTrips' = pTrips /\ pReport' = pReport
      /\ \/ pEdges' = pEdges \cup {[kind |-> "trip_start", at |-> L]} /\ pStage' = "remember"
         \/ pEdges' = pEdges \cup {PNewest} /\ pStage' = "summary"
         \/ pEdges' = pEdges /\ pStage' = "remember"
  BY DEF PEdge, PNewest
<1>2. /\ pRows \in Seq(PRowType) /\ L \in Nat /\ L > 0
      /\ \A e \in pEdges : e.at \in 1..L /\ e.at < L
      /\ \A i \in 1..Len(pTrips) : pTrips[i].to < L
  BY <1>0, <1>1 DEF PTypes, PStages
<1>3. pEdges \subseteq pEdges'
  BY <1>1
<1>4. PTypes'
  <2>1. \A e \in pEdges' : e.at \in 1..L
    BY <1>1, <1>2 DEF PNewest
  <2> QED BY <1>0, <1>1, <2>1 DEF PTypes
<1>5. PStages'
  <2>1. PNewest' = PNewest
    BY <1>1 DEF PNewest
  <2>2. CASE pStage' = "remember"
    BY <1>1, <1>2, <2>2 DEF PStages
  <2>3. CASE pEdges' = pEdges \cup {PNewest} /\ pStage' = "summary"
    <3>1. PNewest' \in pEdges' /\ \A e \in pEdges' \ {PNewest'} : e.at < Len(pRows')
      BY <1>1, <1>2, <2>1, <2>3
    <3> QED BY <1>1, <1>2, <2>3, <3>1 DEF PStages
  <2> QED BY <1>1, <2>2, <2>3
<1>6. PLine(pRows, pEdges, pTrips)'
  BY <1>0, <1>1, <1>3, LineKeeps
<1>7. PReportIs(pRows, pEdges, pReport)'
  BY <1>0, <1>1, <1>3, ReportKeeps
<1> QED BY <1>4, <1>5, <1>6, <1>7 DEF PIInv

(* The edge that closes a trip is the last, and the trip before it had closed *)
(* no later than this one started.                                            *)
LEMMA PSummaryKeeps == PIInv /\ PSummary => PIInv'
<1> SUFFICES ASSUME PIInv, PSummary PROVE PIInv'
  OBVIOUS
<1> DEFINE L == Len(pRows)
           n == Len(pTrips)
           before == pEdges \ {PNewest}
           start == PLast(before).at
           t == [from |-> start, to |-> L, km |-> Stretch(start).km, time |-> L - start]
<1>0. /\ PTypes /\ PStages /\ PLine(pRows, pEdges, pTrips) /\ PReportIs(pRows, pEdges, pReport)
  BY DEF PIInv
<1>1. /\ pStage = "summary" /\ pStage' = "remember"
      /\ pRows' = pRows /\ pEdges' = pEdges /\ pReport' = pReport
  BY DEF PSummary
<1>2. /\ pRows \in Seq(PRowType) /\ pTrips \in Seq(PTrip) /\ L \in Nat /\ L > 0 /\ n \in Nat
      /\ PNewest \in pEdges /\ PNewest.at = L /\ PNewest.kind = "trip_end"
      /\ \A e \in pEdges : e.at \in 1..L
      /\ \A e \in before : e.at \in 1..L /\ e.at < L
      /\ \A i \in 1..n : pTrips[i].to < L
  BY <1>0, <1>1 DEF PTypes, PStages, PNewest
<1>3. PLast(pEdges) = PNewest
  <2>1. PLast(pEdges) \in pEdges /\ \A f \in pEdges : f.at <= PLast(pEdges).at
    BY <1>2, LastEdge
  <2>2. PLast(pEdges).at >= L
    BY <1>2, <2>1
  <2> QED BY <1>2, <2>1, <2>2
<1>4. PStages'
  BY <1>1, <1>2 DEF PStages
<1>5. PReportIs(pRows, pEdges, pReport)'
  BY <1>0, <1>1
<1>6. CASE pTrips' = pTrips
  BY <1>0, <1>1, <1>4, <1>5, <1>6 DEF PIInv, PTypes
<1>7. CASE pTrips' # pTrips
  <2>1. before # {} /\ pTrips' = Append(pTrips, t)
    BY <1>2, <1>3, <1>7 DEF PSummary
  <2>2. PLast(before) \in before /\ \A f \in before : f.at <= start
    BY <1>2, <2>1, LastEdge
  <2>3. start \in Nat \ {0} /\ start < L
    BY <1>2, <2>2
  <2> HIDE DEF start
  <2>4. t.km = Km(pRows, start, L)
    BY DEF Km, Stretch
  <2>5. Km(pRows, start, L) \in Nat
    <3>1. L \in 0..Len(pRows)
      BY <1>2
    <3> QED BY <1>2, <2>3, <3>1, StretchIs
  <2>6. t \in PTrip
    <3>1. Stretch(start).km \in Nat /\ L - start \in Nat
      BY <1>2, <2>3, <2>4, <2>5
    <3> QED BY <1>2, <2>3, <3>1 DEF PTrip
  <2>7. PTripIs(pRows, pEdges, t)
    BY <1>2, <2>3, <2>4 DEF PTripIs, PNewest
  <2> HIDE DEF t
  <2>8. /\ pTrips' \in Seq(PTrip) /\ Len(pTrips') = n + 1 /\ pTrips'[n + 1] = t
        /\ \A i \in 1..n : pTrips'[i] = pTrips[i]
    BY <1>2, <2>1, <2>6
  <2>9. ASSUME NEW i \in 1..n PROVE PTripIs(pRows, pEdges, pTrips[i]) /\ pTrips[i].to <= start
    <3>1. PTripIs(pRows, pEdges, pTrips[i])
      BY <1>0 DEF PLine
    <3> DEFINE e == [kind |-> "trip_end", at |-> pTrips[i].to]
    <3>2. e \in pEdges /\ e.at < L /\ e.at = pTrips[i].to
      BY <1>2, <3>1 DEF PTripIs
    <3> HIDE DEF e
    <3>3. e \in before
      BY <1>2, <3>2
    <3> QED BY <2>2, <3>1, <3>2, <3>3
  <2>10. PTypes'
    BY <1>0, <1>1, <2>8 DEF PTypes
  <2>11. t.from = start
    BY DEF t
  <2> HIDE DEF n
  <2>12. \A i \in 1..n + 1 : i \in 1..n \/ i = n + 1
    BY <1>2 DEF n
  <2>13. \A i \in 1..n + 1 : PTripIs(pRows, pEdges, pTrips'[i])
    BY <2>7, <2>8, <2>9, <2>12
  <2>14. ASSUME NEW i \in 1..n + 1, NEW j \in 1..n + 1, i < j
         PROVE  pTrips'[i].to <= pTrips'[j].from
    <3>1. i \in 1..n
      BY <1>2, <2>14 DEF n
    <3>2. CASE j \in 1..n
      BY <1>0, <2>8, <2>14, <3>1, <3>2 DEF PLine, n
    <3>3. CASE j = n + 1
      BY <2>8, <2>9, <2>11, <3>1, <3>3
    <3> QED BY <2>12, <3>2, <3>3
  <2>15. PLine(pRows, pEdges, pTrips)'
    BY <1>1, <2>8, <2>13, <2>14 DEF PLine
  <2> QED BY <1>4, <1>5, <2>10, <2>15 DEF PIInv
<1> QED BY <1>6, <1>7

LEMMA PRestKeeps == PIInv /\ (PRemember \/ PGiveUp) => PIInv'
<1> SUFFICES ASSUME PIInv, PRemember \/ PGiveUp PROVE PIInv'
  OBVIOUS
<1>1. /\ pStage' = "ready" /\ pRows' = pRows /\ pEdges' = pEdges /\ pTrips' = pTrips
      /\ pReport' = pReport
  BY DEF PRemember, PGiveUp
<1> QED BY <1>1 DEF PIInv, PTypes, PStages

-----------------------------------------------------------------------------
(* The report.  Each query leaves what the worker has as it is.               *)
LEMMA QueryKeeps ==
    ASSUME PIInv, UNCHANGED <<pRows, pEdges, pTrips, pStage>>,
           PReportIs(pRows, pEdges, pReport')
    PROVE  PIInv'
BY DEF PIInv, PTypes, PStages, PNewest

LEMMA ReportIs ==
    ASSUME PIInv
    PROVE  /\ pReport.trips \in PAmount /\ pReport.all \in PAmount /\ pReport.live \in PAmount
           /\ pReport.active \in Nat /\ pReport.guessed \in BOOLEAN
           /\ PWhole(pRows, pReport.all) /\ pReport \in PReportType
           /\ pReport.step # "done" => pReport.live = PNone
           /\ pRows \in Seq(PRowType) /\ Len(pRows) \in Nat /\ pTrips \in Seq(PTrip)
           /\ \A e \in pEdges : e.at \in 1..Len(pRows)
           /\ PFrom \in Nat \ {0}
<1>1. PReportIs(pRows, pEdges, pReport) /\ PTypes
  BY DEF PIInv
<1>2. pReport \in PReportType
  BY <1>1 DEF PReportIs
<1>3. PWhole(pRows, pReport.all) /\ (pReport.step # "done" => pReport.live = PNone)
  BY <1>1 DEF PReportIs
<1>4. pRows \in Seq(PRowType) /\ pTrips \in Seq(PTrip) /\ \A e \in pEdges : e.at \in 1..Len(pRows)
  BY <1>1 DEF PTypes
<1>5. Len(pRows) \in Nat
  BY <1>4
<1>6. /\ pReport.trips \in PAmount /\ pReport.all \in PAmount /\ pReport.live \in PAmount
      /\ pReport.active \in Nat /\ pReport.guessed \in BOOLEAN
  BY <1>2 DEF PReportType
<1> QED BY <1>2, <1>3, <1>4, <1>5, <1>6, PAssumption

LEMMA NewReport == ASSUME pRows \in Seq(PRowType) PROVE PNew \in PReportType /\ PWhole(pRows, PNone)
<1>1. PNew \in PReportType
  BY NoneIs DEF PNew, PReportType, PNobody
<1>2. PToldBy(pRows, PNone, 0)
  BY DEF PToldBy
<1>3. PWhole(pRows, PNone)
  BY <1>2, NoneIs, ToldIsWhole
<1> QED BY <1>1, <1>3

LEMMA ReadTripsKeeps == PIInv /\ ReadTrips => PIInv'
<1> SUFFICES ASSUME PIInv, ReadTrips PROVE PIInv'
  OBVIOUS
<1> DEFINE a == Completed
<1>1. /\ pReport' = [PNew EXCEPT !.step = "telemetry", !.trips = a]
      /\ UNCHANGED <<pRows, pEdges, pTrips, pStage>>
  BY DEF ReadTrips, Ask
<1>2. a \in PAmount /\ \E b \in PMarks(pEdges) : PToldBy(pRows, a, b)
  <2>1. pRows \in Seq(PRowType) /\ pTrips \in Seq(PTrip) /\ PLine(pRows, pEdges, pTrips)
    BY ReportIs DEF PIInv
  <2> QED BY <2>1, CompletedTold DEF Completed
<1> HIDE DEF a
<1>3. /\ pReport' \in PReportType /\ pReport'.step = "telemetry" /\ pReport'.trips = a
      /\ pReport'.all = PNone /\ pReport'.live = PNone
  BY <1>1, <1>2, NoneIs DEF PNew, PReportType, PNobody
<1>4. PWhole(pRows, PNone)
  BY ReportIs, NewReport
<1>5. PReportIs(pRows, pEdges, pReport')
  BY <1>2, <1>3, <1>4 DEF PReportIs
<1> QED BY <1>1, <1>5, QueryKeeps

LEMMA ReadTelemetryKeeps == PIInv /\ ReadTelemetry => PIInv'
<1> SUFFICES ASSUME PIInv, ReadTelemetry PROVE PIInv'
  OBVIOUS
<1> DEFINE a == Stretch(PFrom)
           L == Len(pRows)
<1>1. /\ pReport' = [pReport EXCEPT !.step = "events", !.all = a] /\ pReport.step = "telemetry"
      /\ UNCHANGED <<pRows, pEdges, pTrips, pStage>>
  BY DEF ReadTelemetry, Ask
<1>2. pRows \in Seq(PRowType) /\ L \in Nat /\ PFrom \in Nat /\ L \in 0..Len(pRows)
  BY ReportIs
<1>3. a \in PAmount
  BY <1>2, SumsAre DEF Stretch
<1>4. PWhole(pRows, a)
  <2>1. a.km = Km(pRows, PFrom, L) /\ a.time = Time(pRows, PFrom, L)
    BY DEF Stretch, Km, Time
  <2>2. CASE PFrom <= L
    <3>1. a.time <= L - PFrom
      BY <1>2, <2>1, <2>2, StretchTakes
    <3>2. a.km <= Km(pRows, PFrom, L)
      BY <1>3, <2>1 DEF PAmount
    <3> HIDE DEF a
    <3>3. PToldBy(pRows, a, L)
      BY <1>2, <2>2, <3>1, <3>2 DEF PToldBy
    <3> QED BY <1>2, <1>3, <3>3, ToldIsWhole
  <2>3. CASE ~(PFrom <= L)
    <3>1. a = PNone
      BY <1>2, <2>3, SumsAre DEF Stretch
    <3> QED BY <1>2, <3>1, NewReport
  <2> QED BY <2>2, <2>3
<1> HIDE DEF a
<1>5. /\ pReport' \in PReportType /\ pReport'.step = "events" /\ pReport'.trips = pReport.trips
      /\ pReport'.all = a /\ pReport'.live = pReport.live
  BY <1>1, <1>3, ReportIs DEF PReportType
<1>6. /\ pReport.live = PNone
      /\ \E b \in PMarks(pEdges) : PToldBy(pRows, pReport.trips, b)
  BY <1>1, ReportIs DEF PIInv, PReportIs
<1>7. PReportIs(pRows, pEdges, pReport')
  BY <1>4, <1>5, <1>6 DEF PReportIs
<1> QED BY <1>1, <1>7, QueryKeeps

(* The start of the open trip is after every edge the completed ones end at.  *)
LEMMA ReadEventsKeeps == PIInv /\ ReadEvents => PIInv'
<1> SUFFICES ASSUME PIInv, ReadEvents PROVE PIInv'
  OBVIOUS
<1> DEFINE mine == {e \in pEdges : e.at >= PFrom}
           at == PLast(mine).at
           trips == pReport.trips
<1>1. /\ pReport.step = "events" /\ UNCHANGED <<pRows, pEdges, pTrips, pStage>>
      /\ \/ mine # {} /\ pReport' = [pReport EXCEPT !.step = "live", !.active = at]
         \/ pReport' = [pReport EXCEPT !.step = "guess"]
  BY DEF ReadEvents, Ask
<1>2. /\ pRows \in Seq(PRowType) /\ Len(pRows) \in Nat /\ PFrom \in Nat
      /\ \A e \in pEdges : e.at \in 1..Len(pRows)
      /\ trips \in PAmount /\ pReport \in PReportType
  BY ReportIs
<1>3. PICK b \in PMarks(pEdges) : PToldBy(pRows, trips, b)
  BY <1>1 DEF PIInv, PReportIs
<1>4. b \in Nat /\ PFrom <= b
  BY <1>2, MarksAre
<1>5. PWhole(pRows, pReport.all) /\ pReport.live = PNone
  BY <1>1, ReportIs
<1>6. CASE mine # {} /\ pReport' = [pReport EXCEPT !.step = "live", !.active = at]
  <2>1. PLast(mine) \in mine /\ \A f \in mine : f.at <= at
    BY <1>2, <1>6, LastEdge
  <2>2. at \in Nat /\ PFrom <= at /\ at <= Len(pRows) /\ b <= at
    <3>1. at \in 1..Len(pRows) /\ at >= PFrom
      BY <1>2, <2>1
    <3>2. CASE b = PFrom
      BY <1>2, <3>1, <3>2
    <3>3. CASE \E e \in mine : b = e.at
      BY <1>2, <2>1, <3>1, <3>3
    <3> QED BY <1>2, <3>1, <3>2, <3>3 DEF PMarks
  <2> HIDE DEF at, mine
  <2>3. PToldBy(pRows, trips, at)
    <3>1. CASE trips = PNone
      BY <3>1 DEF PToldBy
    <3>2. CASE trips # PNone
      <4>1. trips.km <= Km(pRows, PFrom, b) /\ trips.time <= b - PFrom
        BY <1>3, <3>2 DEF PToldBy
      <4>2. b \in 0..Len(pRows) /\ at \in 0..Len(pRows)
        BY <1>2, <1>4, <2>2
      <4>3. Km(pRows, PFrom, b) <= Km(pRows, PFrom, at)
        BY <1>2, <1>4, <2>2, <4>2, StretchGrows
      <4>4. Km(pRows, PFrom, b) \in Nat
        BY <1>2, <4>2, StretchIs
      <4>5. Km(pRows, PFrom, at) \in Nat
        BY <1>2, <4>2, StretchIs
      <4>6. trips.km \in Nat /\ trips.time \in Nat
        BY <1>2 DEF PAmount
      <4>7. trips.km <= Km(pRows, PFrom, at)
        BY <4>1, <4>3, <4>4, <4>5, <4>6
      <4>8. trips.time <= at - PFrom
        BY <1>2, <1>4, <2>2, <4>1, <4>6
      <4> QED BY <2>2, <4>7, <4>8 DEF PToldBy
    <3> QED BY <3>1, <3>2
  <2>4. /\ pReport' \in PReportType /\ pReport'.step = "live" /\ pReport'.trips = trips
        /\ pReport'.all = pReport.all /\ pReport'.live = pReport.live /\ pReport'.active = at
    BY <1>2, <1>6, <2>2 DEF PReportType
  <2>5. at \in PFrom..Len(pRows)
    BY <1>2, <2>2
  <2> HIDE DEF trips
  <2>6. PReportIs(pRows, pEdges, pReport')
    BY <1>5, <2>3, <2>4, <2>5 DEF PReportIs
  <2> QED BY <1>1, <2>6, QueryKeeps
<1>7. CASE pReport' = [pReport EXCEPT !.step = "guess"]
  <2>1. /\ pReport' \in PReportType /\ pReport'.step = "guess" /\ pReport'.trips = trips
        /\ pReport'.all = pReport.all /\ pReport'.live = pReport.live
    BY <1>2, <1>7 DEF PReportType
  <2>2. PWhole(pRows, trips)
    BY <1>2, <1>3, <1>4, ToldIsWhole
  <2> HIDE DEF trips
  <2>3. PReportIs(pRows, pEdges, pReport')
    BY <1>5, <2>1, <2>2 DEF PReportIs
  <2> QED BY <1>1, <2>3, QueryKeeps
<1> QED BY <1>1, <1>6, <1>7

LEMMA PlusNone ==
    ASSUME NEW a \in PAmount, PWhole(pRows, a) PROVE PWhole(pRows, Plus(a, PNone))
<1>1. Plus(a, PNone).km = a.km /\ Plus(a, PNone).time = a.time
  BY DEF Plus, PNone, PAmount
<1> QED BY <1>1 DEF PWhole

LEMMA GuessStartKeeps == PIInv /\ GuessStart => PIInv'
<1> SUFFICES ASSUME PIInv, GuessStart PROVE PIInv'
  OBVIOUS
<1> DEFINE n == Len(pRows)
           on == {i \in PFrom..n : pRows[i].on}
           trips == pReport.trips
<1>1. /\ pReport.step = "guess" /\ UNCHANGED <<pRows, pEdges, pTrips, pStage>>
      /\ \/ /\ on # {}
            /\ pReport' = [pReport EXCEPT !.step = "live", !.active = Min(on), !.guessed = TRUE]
         \/ pReport' = [pReport EXCEPT !.step = "done"]
  BY DEF GuessStart, Ask
<1>2. trips \in PAmount /\ pReport \in PReportType /\ n \in Nat /\ PFrom \in Nat
  BY ReportIs
<1>3. PWhole(pRows, pReport.all) /\ pReport.live = PNone /\ PWhole(pRows, trips)
  BY <1>1, ReportIs DEF PIInv, PReportIs
<1>4. CASE /\ on # {}
           /\ pReport' = [pReport EXCEPT !.step = "live", !.active = Min(on), !.guessed = TRUE]
  <2>1. on \in SUBSET Nat
    BY <1>2
  <2>2. Min(on) \in on
    <3> HIDE DEF on
    <3>1. \E x \in on : \A y \in on : x <= y
      BY <1>4, <2>1, LeastNatural
    <3> QED BY <3>1 DEF Min
  <2>3. Min(on) \in Nat /\ Min(on) \in PFrom..n
    BY <2>1, <2>2
  <2> DEFINE at == Min(on)
  <2>4. at \in Nat /\ at \in PFrom..n /\ pReport' = [pReport EXCEPT !.step = "live", !.active = at, !.guessed = TRUE]
    BY <1>4, <2>3
  <2> HIDE DEF at, on
  <2>5. /\ pReport' \in PReportType /\ pReport'.step = "live" /\ pReport'.guessed = TRUE
        /\ pReport'.all = pReport.all /\ pReport'.live = pReport.live /\ pReport'.active = at
    BY <1>2, <2>4 DEF PReportType
  <2>6. PReportIs(pRows, pEdges, pReport')
    BY <1>3, <2>4, <2>5 DEF PReportIs
  <2> QED BY <1>1, <2>6, QueryKeeps
<1>5. CASE pReport' = [pReport EXCEPT !.step = "done"]
  <2>1. /\ pReport' \in PReportType /\ pReport'.step = "done" /\ pReport'.trips = trips
        /\ pReport'.all = pReport.all /\ pReport'.live = PNone
    BY <1>2, <1>3, <1>5 DEF PReportType
  <2>2. PWhole(pRows, Plus(trips, PNone))
    BY <1>2, <1>3, PlusNone
  <2> HIDE DEF trips
  <2>3. PReportIs(pRows, pEdges, pReport')
    BY <1>3, <2>1, <2>2 DEF PReportIs
  <2> QED BY <1>1, <2>3, QueryKeeps
<1> QED BY <1>1, <1>4, <1>5

LEMMA ReadActiveKeeps == PIInv /\ ReadActive => PIInv'
<1> SUFFICES ASSUME PIInv, ReadActive PROVE PIInv'
  OBVIOUS
<1> DEFINE b == pReport.active
           trips == pReport.trips
           s == Stretch(b)
<1>1. /\ pReport.step = "live" /\ UNCHANGED <<pRows, pEdges, pTrips, pStage>>
      /\ pReport' = [pReport EXCEPT !.step = "done", !.live = s]
  BY DEF ReadActive, Ask
<1>2. pRows \in Seq(PRowType) /\ trips \in PAmount /\ pReport \in PReportType
  BY ReportIs
<1>3. /\ PWhole(pRows, pReport.all) /\ b \in PFrom..Len(pRows)
      /\ pReport.guessed \/ PToldBy(pRows, trips, b)
  BY <1>1 DEF PIInv, PReportIs
<1> HIDE DEF b, trips
<1>4. s \in PAmount
  <2>1. PToldBy(pRows, PNone, b)
    BY DEF PToldBy
  <2> QED BY <1>2, <1>3, <2>1, NoneIs, TheRestFits DEF Stretch
<1>5. PToldBy(pRows, trips, b) => PWhole(pRows, Plus(trips, s))
  BY <1>2, <1>3, TheRestFits DEF Stretch
<1>6. (pReport.guessed /\ trips # PNone) \/ PToldBy(pRows, trips, b)
  BY <1>3 DEF PToldBy
<1> HIDE DEF s
<1>7. /\ pReport' \in PReportType /\ pReport'.step = "done" /\ pReport'.trips = trips
      /\ pReport'.all = pReport.all /\ pReport'.live = s /\ pReport'.guessed = pReport.guessed
  BY <1>1, <1>2, <1>4 DEF PReportType, trips
<1>8. PReportIs(pRows, pEdges, pReport')
  BY <1>3, <1>5, <1>6, <1>7 DEF PReportIs
<1> QED BY <1>1, <1>8, QueryKeeps

LEMMA PNewIsRight ==
    ASSUME pRows \in Seq(PRowType) PROVE PReportIs(pRows, pEdges, PNew)
<1>1. PNew \in PReportType /\ PNew.all = PNone /\ PNew.live = PNone /\ PNew.step = "new"
  BY NewReport DEF PNew
<1> QED BY <1>1, NewReport DEF PReportIs

LEMMA PDeliverKeeps == PIInv /\ PDeliver => PIInv'
<1>1. PIInv /\ PDeliver => /\ PReportIs(pRows, pEdges, pReport')
                           /\ UNCHANGED <<pRows, pEdges, pTrips, pStage>>
  BY ReportIs, PNewIsRight DEF PDeliver, Ask
<1> QED BY <1>1, QueryKeeps

LEMMA PInductive == PIInv /\ [PNext]_period => PIInv'
<1> SUFFICES ASSUME PIInv, [PNext]_period PROVE PIInv'
  OBVIOUS
<1>1. CASE PStore
  BY <1>1, PStoreKeeps
<1>2. CASE PEdge
  BY <1>2, PEdgeKeeps
<1>3. CASE PSummary
  BY <1>3, PSummaryKeeps
<1>4. CASE PRemember \/ PGiveUp
  BY <1>4, PRestKeeps
<1>5. CASE ReadTrips
  BY <1>5, ReadTripsKeeps
<1>6. CASE ReadTelemetry
  BY <1>6, ReadTelemetryKeeps
<1>7. CASE ReadEvents
  BY <1>7, ReadEventsKeeps
<1>8. CASE GuessStart
  BY <1>8, GuessStartKeeps
<1>9. CASE ReadActive
  BY <1>9, ReadActiveKeeps
<1>10. CASE PDeliver
  BY <1>10, PDeliverKeeps
<1>11. CASE UNCHANGED period
  BY <1>11 DEF period, PIInv, PTypes, PStages, PNewest
<1> QED BY <1>1, <1>2, <1>3, <1>4, <1>5, <1>6, <1>7, <1>8, <1>9, <1>10, <1>11 DEF PNext

LEMMA LargerIs == ASSUME NEW a \in Nat, NEW b \in Nat, NEW c, a <= c, b <= c PROVE Max({a, b}) <= c
<1>1. \E x \in {a, b} : \A y \in {a, b} : x >= y
  OBVIOUS
<1>2. Max({a, b}) \in {a, b}
  BY <1>1 DEF Max
<1> QED BY <1>2

(* A report that is not a guess over completed trips says at most what the    *)
(* telemetry of its period has, however the worker and its queries interleave *)
(* and whatever edges and trips are lost to errors.                           *)
THEOREM NothingIsCountedTwice == PSpec => []NothingCountedTwice
<1>1. PInit => PIInv
  <2> SUFFICES ASSUME PInit PROVE PIInv
    OBVIOUS
  <2>1. PTypes /\ PStages /\ PLine(pRows, pEdges, pTrips)
    BY DEF PInit, PTypes, PStages, PLine
  <2>2. PReportIs(pRows, pEdges, pReport)
    BY <2>1, PNewIsRight DEF PInit, PTypes
  <2> QED BY <2>1, <2>2 DEF PIInv
<1>2. PIInv => NothingCountedTwice
  <2> SUFFICES ASSUME PIInv, pReport.step = "done", pReport.guessed => pReport.trips = PNone
               PROVE  /\ Figures.km <= Stretch(PFrom).km
                      /\ Figures.time <= Cardinality(PFrom..Len(pRows) - 1)
    BY DEF NothingCountedTwice
  <2> DEFINE all == pReport.all
             merged == Plus(pReport.trips, pReport.live)
             K == Km(pRows, PFrom, Len(pRows))
             C == Cardinality(PFrom..Len(pRows) - 1)
  <2>1. PWhole(pRows, all) /\ PWhole(pRows, merged)
    BY DEF PIInv, PReportIs
  <2>2. merged \in PAmount /\ all \in PAmount
    BY ReportIs, SumFits
  <2> HIDE DEF all, merged
  <2>3. /\ all.km \in Nat /\ all.time \in Nat /\ merged.km \in Nat /\ merged.time \in Nat
        /\ all.km <= K /\ merged.km <= K /\ all.time <= C /\ merged.time <= C
    BY <2>1, <2>2 DEF PWhole, PAmount
  <2>4. Stretch(PFrom).km = K
    BY DEF Stretch, Km
  <2>5. Figures.km = Max({all.km, merged.km}) /\ Figures.time = Max({all.time, merged.time})
    BY DEF Figures, all, merged
  <2> HIDE DEF K, C
  <2>6. Figures.km <= K /\ Figures.time <= C
    BY <2>3, <2>5, LargerIs
  <2> QED BY <2>4, <2>6 DEF C
<1> QED BY <1>1, <1>2, PInductive, PTL DEF PSpec

PMoved == [on : BOOLEAN, moved : PSteps \cup {0}]
PBounded ==
    /\ pRows \in Seq(PMoved) /\ Len(pRows) <= PMaxPackets
    /\ pEdges \subseteq [kind : {"trip_start", "trip_end"}, at : Nat]
    /\ pStage \in {"ready", "edge", "summary", "remember"} /\ pOn \in BOOLEAN
    /\ pReport.active <= Len(pRows)

LEMMA PBoundedStep == PIInv /\ PBounded /\ [PNext]_period => PBounded'
<1> SUFFICES ASSUME PIInv, PBounded, [PNext]_period PROVE PBounded'
  OBVIOUS
<1> DEFINE L == Len(pRows)
<1>0. /\ pRows \in Seq(PMoved) /\ L <= PMaxPackets /\ PMaxPackets \in Nat
      /\ pEdges \subseteq [kind : {"trip_start", "trip_end"}, at : Nat]
      /\ pStage \in {"ready", "edge", "summary", "remember"} /\ pOn \in BOOLEAN /\ L \in Nat
      /\ pReport.active <= L /\ pReport \in PReportType /\ pReport.active \in Nat
  BY PAssumption DEF PBounded, PIInv, PReportIs, PReportType
<1>1. CASE PStore
  <2>1. PICK on \in BOOLEAN, d \in {0} \cup PSteps : pRows' = Append(pRows, [on |-> on, moved |-> d])
    BY <1>1 DEF PStore
  <2> DEFINE r == [on |-> on, moved |-> d]
  <2>2. r \in PMoved /\ pRows' = Append(pRows, r)
    BY <2>1 DEF PMoved
  <2> HIDE DEF r
  <2>3. pRows' \in Seq(PMoved) /\ Len(pRows') = L + 1
    BY <1>0, <2>2
  <2>4. L < PMaxPackets /\ pStage' = "edge" /\ UNCHANGED <<pEdges, pOn, pReport>>
    BY <1>1 DEF PStore
  <2>5. Len(pRows') <= PMaxPackets /\ pReport'.active <= Len(pRows')
    BY <1>0, <2>3, <2>4
  <2> QED BY <1>0, <2>3, <2>4, <2>5 DEF PBounded
<1>2. CASE PEdge
  <2>1. /\ \/ pEdges' = pEdges
           \/ \E k \in {"trip_start", "trip_end"} : pEdges' = pEdges \cup {[kind |-> k, at |-> L]}
        /\ pStage' \in {"remember", "summary"} /\ UNCHANGED <<pRows, pOn, pReport>>
    BY <1>2 DEF PEdge
  <2>2. pEdges' \subseteq [kind : {"trip_start", "trip_end"}, at : Nat]
    BY <1>0, <2>1
  <2> QED BY <1>0, <2>1, <2>2 DEF PBounded
<1>3. CASE PSummary
  BY <1>0, <1>3 DEF PBounded, PSummary
<1>4. CASE PRemember \/ PGiveUp
  <2>1. ASSUME PRemember PROVE pOn' \in BOOLEAN
    <3>1. L > 0
      BY <2>1 DEF PIInv, PStages, PRemember
    <3>2. pRows[L] \in PMoved
      BY <1>0, <3>1
    <3> QED BY <2>1, <3>2 DEF PRemember, PMoved
  <2> QED BY <1>0, <1>4, <2>1 DEF PBounded, PRemember, PGiveUp
<1>5. CASE ReadTrips \/ ReadTelemetry \/ ReadEvents \/ GuessStart \/ ReadActive \/ PDeliver
  <2>1. UNCHANGED <<pRows, pEdges, pTrips, pStage, pOn>>
    BY <1>5 DEF ReadTrips, ReadTelemetry, ReadEvents, GuessStart, ReadActive, PDeliver, Ask
  <2>2. PIInv'
    BY PInductive
  <2>3. pReport'.active <= L
    <3>1. CASE pReport'.step = "live"
      <4>1. pReport'.active \in PFrom..Len(pRows')
        BY <2>2, <3>1 DEF PIInv, PReportIs
      <4> QED BY <1>0, <2>1, <4>1, PAssumption
    <3>2. CASE pReport'.step # "live"
      <4>1. pReport'.active = pReport.active \/ pReport'.active = 0
        <5>1. CASE ReadTrips \/ PDeliver
          <6>1. [PNew EXCEPT !.step = "telemetry", !.trips = Completed].active = 0 /\ PNew.active = 0
            BY DEF PNew, PNobody
          <6> QED BY <5>1, <6>1 DEF ReadTrips, PDeliver, Ask
        <5>2. CASE ReadTelemetry \/ ReadActive
          BY <1>0, <5>2 DEF ReadTelemetry, ReadActive, Ask, PReportType
        <5>3. CASE ReadEvents
          <6> DEFINE mine == {e \in pEdges : e.at >= PFrom}
          <6>1. \/ pReport' = [pReport EXCEPT !.step = "live", !.active = PLast(mine).at]
                \/ pReport' = [pReport EXCEPT !.step = "guess"]
            BY <5>3 DEF ReadEvents, Ask
          <6> HIDE DEF mine
          <6> QED BY <1>0, <3>2, <6>1 DEF PReportType
        <5>4. CASE GuessStart
          <6> DEFINE first == Min({i \in PFrom..L : pRows[i].on})
          <6>1. \/ pReport' = [pReport EXCEPT !.step = "live", !.active = first, !.guessed = TRUE]
                \/ pReport' = [pReport EXCEPT !.step = "done"]
            BY <5>4 DEF GuessStart, Ask
          <6> HIDE DEF first
          <6> QED BY <1>0, <3>2, <6>1 DEF PReportType
        <5> QED BY <1>5, <5>1, <5>2, <5>3, <5>4
      <4> QED BY <1>0, <4>1
    <3> QED BY <3>1, <3>2
  <2> QED BY <1>0, <2>1, <2>3 DEF PBounded
<1>6. CASE UNCHANGED period
  BY <1>0, <1>6 DEF PBounded, period
<1> QED BY <1>1, <1>2, <1>3, <1>4, <1>5, <1>6 DEF PNext

(* Edges and trips are of packets there may be, and what a report sums up are *)
(* natural numbers (the fleet summary beside the analytics worker).           *)
THEOREM ReportTypeCorrect == PSpec => []PTypeOK
<1>1. PInit => PIInv /\ PBounded
  <2> SUFFICES ASSUME PInit PROVE PIInv /\ PBounded
    OBVIOUS
  <2>1. PTypes /\ PStages /\ PLine(pRows, pEdges, pTrips)
    BY DEF PInit, PTypes, PStages, PLine
  <2>2. PReportIs(pRows, pEdges, pReport)
    BY <2>1, PNewIsRight DEF PInit, PTypes
  <2>3. PBounded
    <3>1. <<>> \in Seq(PMoved) /\ Len(<<>>) = 0 /\ 0 <= PMaxPackets
      BY PAssumption
    <3>2. pReport.active = 0
      BY DEF PInit, PNew, PNobody
    <3>3. pRows = <<>> /\ pEdges = {} /\ pStage = "ready" /\ pOn = FALSE
      BY DEF PInit
    <3>4. Len(pRows) = 0 /\ pRows \in Seq(PMoved)
      BY <3>1, <3>3
    <3>5. pEdges \subseteq [kind : {"trip_start", "trip_end"}, at : Nat]
      BY <3>3
    <3>6. Len(pRows) <= PMaxPackets /\ pReport.active <= Len(pRows)
      BY <3>1, <3>2, <3>4
    <3> QED BY <3>3, <3>4, <3>5, <3>6 DEF PBounded
  <2> QED BY <2>1, <2>2, <2>3 DEF PIInv
<1>2. PIInv /\ PBounded => PTypeOK
  <2> SUFFICES ASSUME PIInv, PBounded PROVE PTypeOK
    OBVIOUS
  <2> DEFINE M == 1..PMaxPackets
             Trip == [from : M, to : M, km : Nat, time : Nat]
             Event == [kind : {"trip_start", "trip_end"}, at : M]
             L == Len(pRows)
  <2>1. /\ pRows \in Seq(PMoved) /\ L \in Nat /\ L <= PMaxPackets /\ PMaxPackets \in Nat
        /\ pTrips \in Seq(PTrip) /\ pReport \in PReportType /\ \A e \in pEdges : e.at \in 1..L
    BY PAssumption DEF PIInv, PTypes, PBounded, PReportIs
  <2>2. \A e \in pEdges : e.at \in M
    BY <2>1
  <2>3. pEdges \subseteq Event
    <3> HIDE DEF M
    <3> QED BY <2>2 DEF PBounded
  <2>4. ASSUME NEW i \in 1..Len(pTrips) PROVE pTrips[i] \in Trip
    <3>1. pTrips[i] \in PTrip /\ PTripIs(pRows, pEdges, pTrips[i])
      BY <2>1 DEF PIInv, PLine
    <3> DEFINE t == pTrips[i]
    <3>2. t.from \in Nat \ {0} /\ t.to \in Nat /\ t.from <= t.to /\ t.to <= L
      BY <3>1 DEF PTrip, PTripIs
    <3> HIDE DEF L
    <3>3. t.from \in M /\ t.to \in M
      BY <2>1, <3>2
    <3> HIDE DEF M
    <3> QED BY <3>1, <3>3 DEF PTrip
  <2>5. pTrips \in Seq(Trip)
    <3> HIDE DEF Trip
    <3> QED BY <2>1, <2>4
  <2>6. /\ {pReport.trips, pReport.all, pReport.live} \subseteq PAmount
        /\ pReport.step \in {"new", "telemetry", "events", "guess", "live", "done"}
        /\ pReport.guessed \in BOOLEAN /\ pReport.active \in Nat
    BY <2>1 DEF PReportType
  <2>7. pReport.active \in 0..PMaxPackets
    BY <2>1, <2>6 DEF PBounded
  <2> HIDE DEF M, L
  <2> QED BY <2>1, <2>3, <2>5, <2>6, <2>7 DEF PBounded, PTypeOK, PMoved, PAmount, M
<1> QED BY <1>1, <1>2, PInductive, PBoundedStep, PTL DEF PSpec

-----------------------------------------------------------------------------
(* Notification queue.                                                        *)

NRowType == [title : NTitles \cup {NEvent}, processed : BOOLEAN]
NRunType == [step : {"select", "hand", "mark"}, left : SUBSET Nat, aborted : BOOLEAN]

NTypes ==
    /\ nQueue \in Seq(NRowType)
    /\ nPoll \in [NPolls -> NTitles \cup {"new"}]
    /\ nRun \in [NDispatchers -> NRunType]
    /\ nOverlap \in BOOLEAN

(* What a dispatcher is about to mark has been handed over.                   *)
MarkedIsHanded ==
    /\ \A d \in NDispatchers : nRun[d].step = "mark" => NFirst(nRun[d].left) \in nHanded
    /\ \A r \in DOMAIN nQueue : nQueue[r].processed => r \in nHanded

HandedIsKept == \A r \in nHanded : r \in nRecorded \cup nUnwritten \/ \E t \in nTasks : t.row = r

(* Unless polls overlapped, the title a poll is about to insert is not there. *)
OneReminder ==
    ~nOverlap =>
       /\ \A p \in NPolls : nPoll[p] \in NTitles => NTitleMissing(nPoll[p])
       /\ \A r, s \in DOMAIN nQueue :
             nQueue[r].title = nQueue[s].title /\ nQueue[r].title # NEvent => r = s

NInv == NTypes /\ MarkedIsHanded /\ HandedIsKept /\ OneReminder

LEMMA NInitInv == NInit => NInv
<1> SUFFICES ASSUME NInit PROVE NInv
  OBVIOUS
<1>1. nQueue = <<>> /\ nQueue \in Seq(NRowType) /\ DOMAIN nQueue = {}
  BY DEF NInit
<1>2. NIdle \in NRunType /\ NIdle.step = "select"
  BY DEF NIdle, NRunType
<1>3. NTypes
  BY <1>1, <1>2 DEF NInit, NTypes
<1>4. MarkedIsHanded /\ HandedIsKept
  BY <1>1, <1>2 DEF NInit, MarkedIsHanded, HandedIsKept
<1>5. OneReminder
  BY <1>1 DEF NInit, OneReminder, NTitleMissing
<1> QED BY <1>3, <1>4, <1>5 DEF NInv

-----------------------------------------------------------------------------
(* A row more at the end leaves the others where they are.                    *)
LEMMA AppendedRow ==
    ASSUME NInv, NEW t \in NTitles \cup {NEvent}, nQueue' = Append(nQueue, NRow(t))
    PROVE  /\ nQueue' \in Seq(NRowType)
           /\ \A r \in DOMAIN nQueue' : \/ r \in DOMAIN nQueue /\ nQueue'[r] = nQueue[r]
                                        \/ /\ r = Len(nQueue) + 1 /\ r \notin DOMAIN nQueue
                                           /\ nQueue'[r].title = t /\ ~nQueue'[r].processed
<1>1. nQueue \in Seq(NRowType)
  BY DEF NInv, NTypes
<1>2. NRow(t) \in NRowType /\ NRow(t).title = t /\ ~NRow(t).processed
  BY DEF NRow, NRowType
<1> HIDE DEF NRow
<1>3. nQueue' \in Seq(NRowType) /\ Len(nQueue') = Len(nQueue) + 1
  BY <1>1, <1>2
<1>4. ASSUME NEW r \in DOMAIN nQueue' PROVE r \in 1..Len(nQueue) \/ r = Len(nQueue) + 1
  BY <1>1, <1>3
<1>5. \A r \in 1..Len(nQueue) : r \in DOMAIN nQueue /\ nQueue'[r] = nQueue[r]
  BY <1>1, <1>2
<1>6. /\ nQueue'[Len(nQueue) + 1] = NRow(t)
      /\ Len(nQueue) + 1 \notin DOMAIN nQueue
  BY <1>1, <1>2
<1> QED BY <1>2, <1>3, <1>4, <1>5, <1>6

(* A new row has not been processed, so it need not have been handed over.    *)
LEMMA AppendKeepsHanded ==
    ASSUME NInv, NEW t \in NTitles \cup {NEvent}, nQueue' = Append(nQueue, NRow(t)),
           UNCHANGED <<nRun, nTasks, nHanded, nRecorded, nUnwritten>>
    PROVE  MarkedIsHanded' /\ HandedIsKept'
BY AppendedRow DEF NInv, MarkedIsHanded, HandedIsKept

LEMMA SaveEventKeeps == ASSUME NInv, NSaveEvent PROVE NInv'
<1>1. /\ nQueue' = Append(nQueue, NRow(NEvent))
      /\ UNCHANGED <<nPoll, nRun, nTasks, nHanded, nRecorded, nUnwritten, nOverlap>>
  BY DEF NSaveEvent
<1>2. MarkedIsHanded' /\ HandedIsKept'
  BY <1>1, AppendKeepsHanded
<1>3. NTypes'
  BY <1>1, AppendedRow DEF NInv, NTypes
<1>4. OneReminder'
  BY <1>1, AppendedRow, NAssumption DEF NInv, OneReminder, NTitleMissing, NEvent
<1> QED BY <1>2, <1>3, <1>4 DEF NInv

LEMMA CheckKeeps == ASSUME NInv, NEW p \in NPolls, NCheck(p) PROVE NInv'
<1>1. PICK t \in NTitles : NTitleMissing(t) /\ nPoll' = [nPoll EXCEPT ![p] = t]
  BY DEF NCheck
<1>2. UNCHANGED <<nQueue, nRun, nTasks, nHanded, nRecorded, nUnwritten, nOverlap>>
  BY DEF NCheck
<1>3. NTypes' /\ MarkedIsHanded' /\ HandedIsKept'
  BY <1>1, <1>2 DEF NInv, NTypes, MarkedIsHanded, HandedIsKept
<1>4. \A q \in NPolls : nPoll'[q] = (IF q = p THEN t ELSE nPoll[q])
  BY <1>1 DEF NInv, NTypes
<1>5. OneReminder'
  BY <1>1, <1>2, <1>4 DEF NInv, OneReminder, NTitleMissing
<1> QED BY <1>3, <1>5 DEF NInv

(* Nobody else is about to insert the title, or the polls overlapped.         *)
LEMMA CommitKeeps == ASSUME NInv, NEW p \in NPolls, NCommit(p) PROVE NInv'
<1> DEFINE t == nPoll[p]
<1>1. /\ t \in NTitles /\ nQueue' = Append(nQueue, NRow(t))
      /\ nPoll' = [nPoll EXCEPT ![p] = "new"]
      /\ nOverlap' = (nOverlap \/ \E q \in NPolls \ {p} : nPoll[q] = t)
      /\ UNCHANGED <<nRun, nTasks, nHanded, nRecorded, nUnwritten>>
  BY DEF NCommit
<1> HIDE DEF t
<1>2. MarkedIsHanded' /\ HandedIsKept'
  BY <1>1, AppendKeepsHanded
<1>3. NTypes'
  BY <1>1, AppendedRow DEF NInv, NTypes
<1>4. ASSUME ~nOverlap'
      PROVE  /\ \A q \in NPolls : nPoll'[q] \in NTitles =>
                    \A r \in DOMAIN nQueue' : nQueue'[r].title # nPoll'[q]
             /\ \A r, s \in DOMAIN nQueue' :
                   nQueue'[r].title = nQueue'[s].title /\ nQueue'[r].title # NEvent => r = s
  <2>1. ~nOverlap /\ \A q \in NPolls \ {p} : nPoll[q] # t
    BY <1>1, <1>4
  <2>2. \A q \in NPolls : nPoll'[q] \in NTitles => q # p /\ nPoll'[q] = nPoll[q]
    BY <1>1, NAssumption DEF NInv, NTypes
  <2>3. \A r \in DOMAIN nQueue : nQueue[r].title # t
    BY <1>1, <2>1 DEF NInv, OneReminder, NTitleMissing, t
  <2>4. \A q \in NPolls : nPoll'[q] \in NTitles =>
            \A r \in DOMAIN nQueue' : nQueue'[r].title # nPoll'[q]
    BY <1>1, <2>1, <2>2, AppendedRow DEF NInv, OneReminder, NTitleMissing
  <2>5. \A r, s \in DOMAIN nQueue' :
            nQueue'[r].title = nQueue'[s].title /\ nQueue'[r].title # NEvent => r = s
    BY <1>1, <2>1, <2>3, AppendedRow DEF NInv, OneReminder
  <2> QED BY <2>4, <2>5
<1>5. OneReminder'
  BY <1>4 DEF OneReminder, NTitleMissing
<1> QED BY <1>2, <1>3, <1>5 DEF NInv

LEMMA PollRollBackKeeps == ASSUME NInv, NEW p \in NPolls, NRollBack(p) PROVE NInv'
<1>1. /\ nPoll' = [nPoll EXCEPT ![p] = "new"]
      /\ UNCHANGED <<nQueue, nRun, nTasks, nHanded, nRecorded, nUnwritten, nOverlap>>
  BY DEF NRollBack
<1>2. NTypes' /\ MarkedIsHanded' /\ HandedIsKept'
  BY <1>1 DEF NInv, NTypes, MarkedIsHanded, HandedIsKept
<1>3. \A q \in NPolls : nPoll'[q] \in NTitles => nPoll'[q] = nPoll[q]
  BY <1>1, NAssumption DEF NInv, NTypes
<1>4. OneReminder'
  BY <1>1, <1>3 DEF NInv, OneReminder, NTitleMissing
<1> QED BY <1>2, <1>4 DEF NInv

-----------------------------------------------------------------------------
(* A dispatcher that goes on to its next row, or ends, marks nothing.         *)
LEMMA NextRowType ==
    ASSUME NInv, NEW d \in NDispatchers, NEW a \in BOOLEAN, nRun' = NNextRow(d, a)
    PROVE  /\ nRun' \in [NDispatchers -> NRunType]
           /\ \A e \in NDispatchers : nRun'[e].step = "mark" => nRun'[e] = nRun[e]
<1> DEFINE left == nRun[d].left \ {NFirst(nRun[d].left)}
           next == IF left = {} THEN NIdle ELSE [step |-> "hand", left |-> left, aborted |-> a]
<1>1. nRun \in [NDispatchers -> NRunType]
  BY DEF NInv, NTypes
<1>2. left \in SUBSET Nat
  BY <1>1 DEF NRunType
<1>3. nRun' = [nRun EXCEPT ![d] = next]
  BY DEF NNextRow
<1> HIDE DEF left
<1>4. next \in NRunType /\ next.step # "mark"
  BY <1>2 DEF NIdle, NRunType
<1> QED BY <1>1, <1>3, <1>4

LEMMA SelectKeeps == ASSUME NInv, NEW d \in NDispatchers, NSelect(d) PROVE NInv'
<1> DEFINE pending == {r \in DOMAIN nQueue : ~nQueue[r].processed}
           run == [step |-> "hand", left |-> pending, aborted |-> FALSE]
<1>1. /\ nRun' = [nRun EXCEPT ![d] = run]
      /\ UNCHANGED <<nQueue, nPoll, nTasks, nHanded, nRecorded, nUnwritten, nOverlap>>
  BY DEF NSelect
<1>2. pending \in SUBSET Nat
  BY DEF NInv, NTypes
<1> HIDE DEF pending
<1>3. run \in NRunType /\ run.step # "mark"
  BY <1>2 DEF NRunType
<1> HIDE DEF run
<1>4. NTypes'
  BY <1>1, <1>3 DEF NInv, NTypes
<1>5. MarkedIsHanded'
  BY <1>1, <1>3 DEF NInv, NTypes, MarkedIsHanded
<1> QED BY <1>1, <1>4, <1>5 DEF NInv, HandedIsKept, OneReminder, NTitleMissing

LEMMA HandKeeps == ASSUME NInv, NEW d \in NDispatchers, NHand(d) PROVE NInv'
<1> DEFINE r == NFirst(nRun[d].left)
<1>1. UNCHANGED <<nQueue, nPoll, nRecorded, nUnwritten, nOverlap>>
  BY DEF NHand
<1>2. CASE /\ nHanded' = nHanded \cup {r} /\ nTasks' = nTasks \cup {[row |-> r, tries |-> 0]}
           /\ nRun' = [nRun EXCEPT ![d].step = "mark"]
  <2>1. /\ nRun' \in [NDispatchers -> NRunType]
        /\ \A e \in NDispatchers : nRun'[e].left = nRun[e].left
                                   /\ (e # d => nRun'[e].step = nRun[e].step)
    BY <1>2 DEF NInv, NTypes, NRunType
  <2>2. \A e \in NDispatchers : nRun'[e].step = "mark" => NFirst(nRun'[e].left) \in nHanded'
    BY <1>2, <2>1 DEF NInv, MarkedIsHanded
  <2>3. MarkedIsHanded'
    BY <1>1, <1>2, <2>2 DEF NInv, MarkedIsHanded
  <2>4. [row |-> r, tries |-> 0] \in nTasks' /\ [row |-> r, tries |-> 0].row = r
    BY <1>2
  <2> HIDE DEF r
  <2>5. HandedIsKept'
    BY <1>1, <1>2, <2>4 DEF NInv, HandedIsKept
  <2> QED BY <1>1, <2>1, <2>3, <2>5 DEF NInv, NTypes, OneReminder, NTitleMissing
<1>3. CASE nRun' = NNextRow(d, nRun[d].aborted) /\ UNCHANGED <<nHanded, nTasks>>
  <2>1. nRun[d].aborted \in BOOLEAN
    BY DEF NInv, NTypes, NRunType
  <2>2. /\ nRun' \in [NDispatchers -> NRunType]
        /\ \A e \in NDispatchers : nRun'[e].step = "mark" => nRun'[e] = nRun[e]
    BY <1>3, <2>1, NextRowType
  <2>3. MarkedIsHanded'
    BY <1>1, <1>3, <2>2 DEF NInv, MarkedIsHanded
  <2> QED BY <1>1, <1>3, <2>2, <2>3 DEF NInv, NTypes, HandedIsKept, OneReminder, NTitleMissing
<1> QED BY <1>2, <1>3 DEF NHand

LEMMA MarkKeeps == ASSUME NInv, NEW d \in NDispatchers, NMark(d) PROVE NInv'
<1> DEFINE x == NFirst(nRun[d].left)
<1>1. /\ nRun[d].step = "mark" /\ UNCHANGED <<nPoll, nTasks, nHanded, nRecorded, nUnwritten, nOverlap>>
      /\ nQueue' = nQueue \/ nQueue' = [nQueue EXCEPT ![x].processed = TRUE]
      /\ \E a \in BOOLEAN : nRun' = NNextRow(d, a)
  BY DEF NMark
<1>2. /\ nRun' \in [NDispatchers -> NRunType]
      /\ \A e \in NDispatchers : nRun'[e].step = "mark" => nRun'[e] = nRun[e]
  BY <1>1, NextRowType
<1>3. x \in nHanded
  BY <1>1 DEF NInv, MarkedIsHanded
<1> HIDE DEF x
<1>4. /\ nQueue' \in Seq(NRowType) /\ DOMAIN nQueue' = DOMAIN nQueue
      /\ \A r \in DOMAIN nQueue : /\ nQueue'[r].title = nQueue[r].title
                                  /\ r # x => nQueue'[r] = nQueue[r]
  <2>1. nQueue \in Seq(NRowType)
    BY DEF NInv, NTypes
  <2>2. CASE nQueue' = nQueue
    BY <2>1, <2>2
  <2>3. CASE nQueue' = [nQueue EXCEPT ![x].processed = TRUE]
    <3>1. ASSUME x \in DOMAIN nQueue
          PROVE  /\ [nQueue[x] EXCEPT !.processed = TRUE] \in NRowType
                 /\ [nQueue[x] EXCEPT !.processed = TRUE].title = nQueue[x].title
      <4>1. nQueue[x] \in NRowType
        BY <2>1, <3>1
      <4> QED BY <4>1 DEF NRowType
    <3>2. nQueue' = [nQueue EXCEPT ![x] = [nQueue[x] EXCEPT !.processed = TRUE]]
      BY <2>3
    <3> HIDE DEF NRowType
    <3>3. CASE x \in DOMAIN nQueue
      <4> DEFINE row == [nQueue[x] EXCEPT !.processed = TRUE]
      <4>1. row \in NRowType /\ row.title = nQueue[x].title
        BY <3>1, <3>3
      <4> HIDE DEF row
      <4>2. nQueue' = [nQueue EXCEPT ![x] = row]
        BY <3>2 DEF row
      <4> QED BY <2>1, <3>3, <4>1, <4>2
    <3>4. CASE x \notin DOMAIN nQueue
      <4>1. nQueue' = nQueue
        BY <2>1, <3>2, <3>4
      <4> QED BY <2>1, <4>1
    <3> QED BY <3>3, <3>4
  <2> QED BY <1>1, <2>2, <2>3
<1>5. NTypes'
  BY <1>1, <1>2, <1>4 DEF NInv, NTypes
<1>6. MarkedIsHanded'
  BY <1>1, <1>2, <1>3, <1>4 DEF NInv, MarkedIsHanded
<1>7. OneReminder'
  BY <1>1, <1>4 DEF NInv, OneReminder, NTitleMissing
<1> QED BY <1>1, <1>5, <1>6, <1>7 DEF NInv, HandedIsKept

LEMMA LostKeeps == ASSUME NInv, NEW d \in NDispatchers, NDispatcherLost(d) PROVE NInv'
<1>1. /\ nRun' = [nRun EXCEPT ![d] = NIdle]
      /\ UNCHANGED <<nQueue, nPoll, nTasks, nHanded, nRecorded, nUnwritten, nOverlap>>
  BY DEF NDispatcherLost
<1>2. NIdle \in NRunType /\ NIdle.step # "mark"
  BY DEF NIdle, NRunType
<1>3. NTypes'
  BY <1>1, <1>2 DEF NInv, NTypes
<1>4. MarkedIsHanded'
  BY <1>1, <1>2 DEF NInv, NTypes, MarkedIsHanded
<1> QED BY <1>1, <1>3, <1>4 DEF NInv, HandedIsKept, OneReminder, NTitleMissing

(* A task leaves the broker for a retry, or with its row in the history, or   *)
(* as one of those that could not write it.                                   *)
LEMMA TaskKeeps ==
    ASSUME NInv, NEW t \in nTasks, NTaskSucceeds(t) \/ NTaskFails(t) PROVE NInv'
<1>1. /\ nTasks \ {t} \subseteq nTasks' /\ nRecorded \subseteq nRecorded' /\ nUnwritten \subseteq nUnwritten'
      /\ UNCHANGED <<nQueue, nPoll, nRun, nHanded, nOverlap>>
  BY DEF NTaskSucceeds, NTaskFails, NHistory
<1>2. t.row \in nRecorded' \cup nUnwritten' \/ \E u \in nTasks' : u.row = t.row
  <2>1. CASE NTaskSucceeds(t)
    BY <2>1 DEF NTaskSucceeds, NHistory
  <2>2. CASE NTaskFails(t)
    <3>1. PICK retried \in BOOLEAN : /\ retried => NRetry(t) \in nTasks'
                                     /\ NHistory(t.row, retried)
      BY <2>2 DEF NTaskFails
    <3>2. NRetry(t).row = t.row
      BY DEF NRetry
    <3>3. CASE retried
      BY <3>1, <3>2, <3>3
    <3>4. CASE ~retried
      BY <3>1, <3>4 DEF NHistory
    <3> QED BY <3>3, <3>4
  <2> QED BY <2>1, <2>2
<1>3. HandedIsKept'
  <2> SUFFICES ASSUME NEW r \in nHanded' PROVE r \in nRecorded' \cup nUnwritten' \/ \E u \in nTasks' : u.row = r
    BY DEF HandedIsKept
  <2>1. r \in nRecorded \cup nUnwritten \/ \E u \in nTasks : u.row = r
    BY <1>1 DEF NInv, HandedIsKept
  <2>2. CASE r = t.row
    BY <1>2, <2>2
  <2>3. CASE r # t.row
    BY <1>1, <2>1, <2>3
  <2> QED BY <2>2, <2>3
<1> QED BY <1>1, <1>3 DEF NInv, NTypes, MarkedIsHanded, OneReminder, NTitleMissing

LEMMA NStepInv == NInv /\ [NNext]_notices => NInv'
<1> SUFFICES ASSUME NInv, [NNext]_notices PROVE NInv'
  OBVIOUS
<1>1. ASSUME NEW p \in NPolls, NCheck(p) \/ NCommit(p) \/ NRollBack(p) PROVE NInv'
  BY <1>1, CheckKeeps, CommitKeeps, PollRollBackKeeps
<1>2. ASSUME NEW d \in NDispatchers, NSelect(d) \/ NHand(d) \/ NMark(d) \/ NDispatcherLost(d)
      PROVE  NInv'
  BY <1>2, SelectKeeps, HandKeeps, MarkKeeps, LostKeeps
<1>3. ASSUME NEW t \in nTasks, NTaskSucceeds(t) \/ NTaskFails(t) PROVE NInv'
  BY <1>3, TaskKeeps
<1>4. CASE UNCHANGED notices
  BY <1>4 DEF notices, NInv, NTypes, MarkedIsHanded, HandedIsKept, OneReminder, NTitleMissing
<1> QED BY <1>1, <1>2, <1>3, <1>4, SaveEventKeeps DEF NNext

(* Whatever dispatchers, workers and polls are lost or overlap, a row handed  *)
(* over is with a task, in the history, or its last task could not write it;  *)
(* and a title has one reminder unless two polls overlapped:                  *)
(* dispatch_notifications.py, tasks/notifications.py.                         *)
THEOREM NoNoticeIsSwallowed == NSpec => []NoticesAreSettled
<1>1. NInv => NoticesAreSettled
  BY DEF NInv, MarkedIsHanded, HandedIsKept, OneReminder, NoticesAreSettled
<1> QED BY <1>1, NInitInv, NStepInv, PTL DEF NSpec

(* A dispatcher has rows of the queue, and one in hand until it is done; so   *)
(* the tasks, and the ghosts, are about rows of the queue.                    *)
NBounded ==
    /\ Len(nQueue) <= NMaxRows
    /\ \A d \in NDispatchers : /\ nRun[d].left \subseteq NRows
                               /\ nRun[d].step # "select" => nRun[d].left # {}
    /\ nTasks \subseteq [row : NRows, tries : 0..NMaxRetries]
    /\ nHanded \cup nRecorded \cup nUnwritten \subseteq NRows

LEMMA FirstIs == ASSUME NEW S \in SUBSET Nat, S # {} PROVE NFirst(S) \in S
<1>1. \E r \in S : \A s \in S : r <= s
  BY LeastNatural
<1> QED BY <1>1 DEF NFirst

(* A dispatcher alone changes what it has left.                               *)
LEMMA RunsKeep ==
    ASSUME NInv, NBounded, NEW d \in NDispatchers, NEW r, nRun' = [nRun EXCEPT ![d] = r],
           r.left \subseteq NRows, r.step # "select" => r.left # {}
    PROVE  \A e \in NDispatchers : /\ nRun'[e].left \subseteq NRows
                                   /\ nRun'[e].step # "select" => nRun'[e].left # {}
<1>1. \A e \in NDispatchers : nRun'[e] = IF e = d THEN r ELSE nRun[e]
  BY DEF NInv, NTypes
<1> QED BY <1>1 DEF NBounded

LEMMA NextRowKeeps ==
    ASSUME NInv, NBounded, NEW d \in NDispatchers, NEW a \in BOOLEAN, nRun' = NNextRow(d, a)
    PROVE  \A e \in NDispatchers : /\ nRun'[e].left \subseteq NRows
                                   /\ nRun'[e].step # "select" => nRun'[e].left # {}
<1> DEFINE left == nRun[d].left \ {NFirst(nRun[d].left)}
           next == IF left = {} THEN NIdle ELSE [step |-> "hand", left |-> left, aborted |-> a]
<1>1. nRun' = [nRun EXCEPT ![d] = next]
  BY DEF NNextRow
<1>2. left \subseteq NRows
  BY DEF NBounded
<1> HIDE DEF left
<1>3. next.left \subseteq NRows /\ (next.step # "select" => next.left # {})
  BY <1>2 DEF NIdle
<1> HIDE DEF next
<1> QED BY <1>1, <1>3, RunsKeep

LEMMA NBoundedStep == NInv /\ NBounded /\ [NNext]_notices => NBounded'
<1> SUFFICES ASSUME NInv, NBounded, [NNext]_notices PROVE NBounded'
  OBVIOUS
<1>0. /\ nQueue \in Seq(NRowType) /\ Len(nQueue) \in Nat /\ NMaxRows \in Nat /\ NMaxRetries \in Nat
      /\ nRun \in [NDispatchers -> NRunType] /\ DOMAIN nQueue \subseteq NRows
  <2>1. nQueue \in Seq(NRowType) /\ nRun \in [NDispatchers -> NRunType] /\ Len(nQueue) <= NMaxRows
    BY DEF NInv, NTypes, NBounded
  <2>2. Len(nQueue) \in Nat /\ DOMAIN nQueue = 1..Len(nQueue)
    BY <2>1
  <2> QED BY <2>1, <2>2, NAssumption DEF NRows
<1>1. CASE NSaveEvent \/ \E p \in NPolls : NCommit(p)
  <2>1. PICK t : nQueue' = Append(nQueue, NRow(t)) /\ Len(nQueue) < NMaxRows
    BY <1>1 DEF NSaveEvent, NCommit
  <2>2. Len(nQueue') = Len(nQueue) + 1
    BY <1>0, <2>1
  <2>3. UNCHANGED <<nRun, nTasks, nHanded, nRecorded, nUnwritten>>
    BY <1>1 DEF NSaveEvent, NCommit
  <2> QED BY <1>0, <2>1, <2>2, <2>3 DEF NBounded
<1>2. ASSUME NEW p \in NPolls, NCheck(p) \/ NRollBack(p) PROVE NBounded'
  BY <1>2 DEF NCheck, NRollBack, NBounded
<1>3. ASSUME NEW d \in NDispatchers, NSelect(d) PROVE NBounded'
  <2> DEFINE pending == {r \in DOMAIN nQueue : ~nQueue[r].processed}
             run == [step |-> "hand", left |-> pending, aborted |-> FALSE]
  <2>1. pending # {} /\ nRun' = [nRun EXCEPT ![d] = run] /\ UNCHANGED <<nQueue, nTasks, nHanded, nRecorded, nUnwritten>>
    BY <1>3 DEF NSelect
  <2>2. pending \subseteq NRows
    BY <1>0
  <2> HIDE DEF pending
  <2>3. run.left \subseteq NRows /\ (run.step # "select" => run.left # {})
    BY <2>1, <2>2
  <2> HIDE DEF run
  <2>4. \A e \in NDispatchers : nRun'[e].left \subseteq NRows /\ (nRun'[e].step # "select" => nRun'[e].left # {})
    BY <2>1, <2>3, RunsKeep
  <2> QED BY <2>1, <2>4 DEF NBounded
<1>4. ASSUME NEW d \in NDispatchers, NHand(d) PROVE NBounded'
  <2> DEFINE r == NFirst(nRun[d].left)
  <2>1. /\ nRun[d].left # {} /\ nRun[d].left \in SUBSET Nat /\ nRun[d].left \subseteq NRows
    BY <1>0, <1>4 DEF NHand, NBounded, NRunType
  <2>2. r \in NRows
    BY <2>1, FirstIs
  <2> HIDE DEF r
  <2>3. UNCHANGED <<nQueue, nRecorded, nUnwritten>>
    BY <1>4 DEF NHand
  <2>4. CASE /\ nHanded' = nHanded \cup {r} /\ nTasks' = nTasks \cup {[row |-> r, tries |-> 0]}
             /\ nRun' = [nRun EXCEPT ![d].step = "mark"]
    <3> DEFINE run == [nRun[d] EXCEPT !.step = "mark"]
    <3>1. nRun' = [nRun EXCEPT ![d] = run]
      BY <1>0, <2>4
    <3>2. run.left = nRun[d].left
      BY <1>0 DEF NRunType
    <3> HIDE DEF run
    <3>3. \A e \in NDispatchers : nRun'[e].left \subseteq NRows /\ (nRun'[e].step # "select" => nRun'[e].left # {})
      BY <2>1, <3>1, <3>2, RunsKeep
    <3>4. [row |-> r, tries |-> 0] \in [row : NRows, tries : 0..NMaxRetries]
      BY <1>0, <2>2
    <3> QED BY <2>2, <2>3, <2>4, <3>3, <3>4 DEF NBounded
  <2>5. CASE nRun' = NNextRow(d, nRun[d].aborted) /\ UNCHANGED <<nHanded, nTasks>>
    <3>1. nRun[d].aborted \in BOOLEAN
      BY <1>0 DEF NRunType
    <3>2. \A e \in NDispatchers : nRun'[e].left \subseteq NRows /\ (nRun'[e].step # "select" => nRun'[e].left # {})
      BY <2>5, <3>1, NextRowKeeps
    <3> QED BY <2>3, <2>5, <3>2 DEF NBounded
  <2> QED BY <1>4, <2>4, <2>5 DEF NHand, r
<1>5. ASSUME NEW d \in NDispatchers, NMark(d) PROVE NBounded'
  <2>1. \E a \in BOOLEAN : nRun' = NNextRow(d, a)
    BY <1>5 DEF NMark
  <2>2. \A e \in NDispatchers : nRun'[e].left \subseteq NRows /\ (nRun'[e].step # "select" => nRun'[e].left # {})
    BY <2>1, NextRowKeeps
  <2>3. nQueue' = nQueue \/ nQueue' = [nQueue EXCEPT ![NFirst(nRun[d].left)].processed = TRUE]
    BY <1>5 DEF NMark
  <2>4. Len(nQueue') = Len(nQueue)
    <3>1. DOMAIN nQueue' = DOMAIN nQueue
      BY <2>3
    <3>2. nQueue' \in Seq(NRowType)
      BY NStepInv DEF NInv, NTypes
    <3>3. DOMAIN nQueue = 1..Len(nQueue) /\ DOMAIN nQueue' = 1..Len(nQueue') /\ Len(nQueue') \in Nat
      BY <1>0, <3>2
    <3> QED BY <1>0, <3>1, <3>3
  <2> QED BY <1>5, <2>2, <2>4 DEF NBounded, NMark
<1>6. ASSUME NEW d \in NDispatchers, NDispatcherLost(d) PROVE NBounded'
  <2>1. nRun' = [nRun EXCEPT ![d] = NIdle] /\ UNCHANGED <<nQueue, nTasks, nHanded, nRecorded, nUnwritten>>
    BY <1>6 DEF NDispatcherLost
  <2>2. NIdle.left \subseteq NRows /\ NIdle.step = "select"
    BY DEF NIdle
  <2>3. \A e \in NDispatchers : nRun'[e].left \subseteq NRows /\ (nRun'[e].step # "select" => nRun'[e].left # {})
    BY <2>1, <2>2, RunsKeep
  <2> QED BY <2>1, <2>3 DEF NBounded
<1>7. ASSUME NEW t \in nTasks, NTaskSucceeds(t) \/ NTaskFails(t) PROVE NBounded'
  <2>1. t.row \in NRows /\ t.tries \in 0..NMaxRetries
    BY DEF NBounded
  <2>2. /\ nRecorded' \subseteq nRecorded \cup {t.row} /\ nUnwritten' \subseteq nUnwritten \cup {t.row}
        /\ UNCHANGED <<nQueue, nRun, nHanded>>
    BY <1>7 DEF NTaskSucceeds, NTaskFails, NHistory
  <2>3. \/ nTasks' \subseteq nTasks
        \/ /\ t.tries < NMaxRetries
           /\ nTasks' \subseteq nTasks \cup {[t EXCEPT !.tries = @ + 1]}
    BY <1>7 DEF NTaskSucceeds, NTaskFails, NRetry
  <2>4. t.tries < NMaxRetries => [t EXCEPT !.tries = @ + 1] \in [row : NRows, tries : 0..NMaxRetries]
    <3>1. t \in [row : NRows, tries : 0..NMaxRetries]
      BY DEF NBounded
    <3> QED BY <1>0, <2>1, <3>1
  <2>5. nTasks' \subseteq [row : NRows, tries : 0..NMaxRetries]
    BY <2>3, <2>4 DEF NBounded
  <2> QED BY <2>1, <2>2, <2>5 DEF NBounded
<1>8. CASE UNCHANGED notices
  BY <1>8 DEF NBounded, notices
<1> QED BY <1>1, <1>2, <1>3, <1>4, <1>5, <1>6, <1>7, <1>8 DEF NNext

(* Dispatchers, tasks and history are about rows of the queue, and no task is *)
(* tried more often than it may be.                                           *)
THEOREM NoticesTypeCorrect == NSpec => []NTypeOK
<1>1. NInit => NBounded
  BY NAssumption DEF NInit, NBounded, NIdle
<1>2. NInv /\ NBounded => NTypeOK
  <2> SUFFICES ASSUME NTypes, NBounded PROVE NTypeOK
    BY DEF NInv
  <2>1. \A d \in NDispatchers : nRun[d].step \in {"select", "hand", "mark"} /\ nRun[d].left \subseteq NRows
    BY DEF NTypes, NRunType, NBounded
  <2> QED BY <2>1 DEF NTypes, NBounded, NTypeOK, NRowType
<1> QED BY <1>1, <1>2, NInitInv, NStepInv, NBoundedStep, PTL DEF NSpec

-----------------------------------------------------------------------------
(* Delta sync.                                                                *)

YTypes ==
    /\ yStage \in [YNotices -> {"new", "stored", "numbered", "visible", "lost"}]
    /\ ySeq \in [YNotices -> Nat] /\ yNext \in Nat \ {0} /\ yOrder \in [YNotices -> Nat]
    /\ yClient \in [step : {"new", "sync", "synced"}, last : Nat, has : SUBSET YNotices, read : SUBSET YNotices]
    /\ ySyncs \in Nat /\ yUnlucky \subseteq YNotices

(* Two changes never have one number, and the last number a client has is     *)
(* that of a change it could see, so no change is committed under it later.   *)
HasNumber(n) == yStage[n] \in {"numbered", "visible"}
YNumbers ==
    /\ \A n \in YNotices : HasNumber(n) => 0 < ySeq[n] /\ ySeq[n] < yNext
    /\ \A n, m \in YNotices : HasNumber(n) /\ HasNumber(m) /\ n # m => ySeq[n] # ySeq[m]
    /\ yClient.last # 0 => \E m \in Visible : ySeq[m] = yClient.last

YCovered == yClient.step = "sync" => yClient.read \subseteq yClient.has \cup yUnlucky

YInv == YTypes /\ YNumbers /\ YCovered /\ MissedForAReason

LEMMA MaxSeqIs ==
    ASSUME YTypes, NEW S, S \subseteq YNotices
    PROVE  /\ MaxSeq(S) \in Nat /\ \A n \in S : ySeq[n] <= MaxSeq(S)
           /\ MaxSeq(S) # 0 => \E m \in S : ySeq[m] = MaxSeq(S)
<1> DEFINE f == [n \in S |-> ySeq[n]]
           T == {f[n] : n \in S}
           U == {ySeq[n] : n \in S}
<1>1. CASE S = {}
  BY <1>1 DEF MaxSeq
<1>2. CASE S # {}
  <2>1. IsFiniteSet(S)
    BY YAssumption, PartIsSmaller
  <2>2. IsFiniteSet(T)
    <3>1. DOMAIN f = S /\ f = [n \in S |-> f[n]]
      OBVIOUS
    <3> HIDE DEF f
    <3> QED BY <2>1, <3>1, ImageIsSmaller
  <2>3. T = U /\ U \in SUBSET Nat /\ U # {}
    BY <1>2 DEF YTypes
  <2>4. \E m \in U : \A k \in U : k <= m
    <3> HIDE DEF T, U
    <3> QED BY <2>2, <2>3, FiniteHasGreatest
  <2>5. \E m \in U : \A n \in S : ySeq[n] <= m
    BY <2>4
  <2>6. MaxSeq(S) = CHOOSE m \in U : \A n \in S : ySeq[n] <= m
    BY <1>2 DEF MaxSeq
  <2>7. MaxSeq(S) \in U /\ \A n \in S : ySeq[n] <= MaxSeq(S)
    <3> HIDE DEF U
    <3> QED BY <2>5, <2>6
  <2> QED BY <2>3, <2>7
<1> QED BY <1>1, <1>2

(* A page is the lowest of the later numbers: what it leaves is higher.       *)
LEMMA PageIsLowest ==
    ASSUME YTypes, NEW later, later \subseteq YNotices, NEW n \in later, n \notin Page(later), NEW m \in Page(later)
    PROVE  ySeq[n] > ySeq[m]
<1> DEFINE below(x) == {o \in later : ySeq[o] < ySeq[x]}
<1>1. IsFiniteSet(later) /\ m \in later /\ ySeq[n] \in Nat /\ ySeq[m] \in Nat
  BY YAssumption, PartIsSmaller DEF YTypes, Page
<1>2. SUFFICES ASSUME ySeq[n] <= ySeq[m] PROVE FALSE
  BY <1>1
<1>3. below(n) \subseteq below(m) /\ below(m) \subseteq later
  BY <1>1, <1>2 DEF YTypes
<1>4. Cardinality(below(m)) < YPage /\ ~(Cardinality(below(n)) < YPage)
  BY DEF Page
<1> HIDE DEF below
<1>5. IsFiniteSet(below(m))
  BY <1>1, <1>3, PartIsSmaller
<1>6. Cardinality(below(n)) <= Cardinality(below(m)) /\ Cardinality(below(n)) \in Nat /\ Cardinality(below(m)) \in Nat
  BY <1>3, <1>5, PartIsSmaller
<1> QED BY <1>4, <1>6, YAssumption

LEMMA WritingKeeps ==
    ASSUME YInv, NEW n \in YNotices,
           AddNotificationHistory(n) \/ NumberChange(n) \/ CommitChange(n) \/ LoseChange(n)
    PROVE  YInv'
<1>0. YTypes /\ yClient' = yClient
  BY DEF YInv, AddNotificationHistory, NumberChange, CommitChange, LoseChange
<1>1. CASE AddNotificationHistory(n)
  <2>1. IsFiniteSet(Stored)
    BY YAssumption, PartIsSmaller DEF Stored
  <2>2. Cardinality(Stored) \in Nat
    BY <2>1, FS_CardinalityType
  <2>3. YTypes'
    BY <1>1, <2>2 DEF AddNotificationHistory, YInv, YTypes
  <2>4. /\ Visible' = Visible /\ \A m \in YNotices : HasNumber(m)' <=> HasNumber(m)
        /\ UNCHANGED <<ySeq, yNext, yUnlucky>>
    BY <1>0, <1>1 DEF AddNotificationHistory, YTypes, Visible, HasNumber
  <2> QED BY <1>0, <2>3, <2>4 DEF YInv, YNumbers, YCovered, MissedForAReason
<1>2. CASE LoseChange(n)
  <2>1. YTypes'
    BY <1>2 DEF LoseChange, YInv, YTypes
  <2>2. /\ Visible' = Visible /\ \A m \in YNotices : HasNumber(m)' => HasNumber(m)
        /\ UNCHANGED <<ySeq, yNext, yUnlucky>>
    BY <1>0, <1>2 DEF LoseChange, YTypes, Visible, HasNumber
  <2> QED BY <1>0, <2>1, <2>2 DEF YInv, YNumbers, YCovered, MissedForAReason
<1>3. CASE NumberChange(n)
  <2>1. YTypes'
    BY <1>3 DEF NumberChange, YInv, YTypes
  <2>2. /\ Visible' = Visible /\ \A m \in YNotices \ {n} : (HasNumber(m)' => HasNumber(m)) /\ ySeq'[m] = ySeq[m]
        /\ ySeq'[n] = yNext /\ yNext' = yNext + 1 /\ n \notin Visible /\ UNCHANGED yUnlucky
    BY <1>0, <1>3 DEF NumberChange, YTypes, Visible, HasNumber
  <2>3. \A m \in Visible : ySeq'[m] = ySeq[m]
    BY <2>2 DEF Visible
  <2>4. yNext \in Nat \ {0} /\ \A m \in YNotices : ySeq[m] \in Nat
    BY <1>0 DEF YTypes
  <2>5. YNumbers'
    <3>1. \A m \in YNotices : HasNumber(m)' => 0 < ySeq'[m] /\ ySeq'[m] < yNext'
      BY <2>2, <2>4 DEF YInv, YNumbers
    <3>2. \A l, m \in YNotices : HasNumber(l)' /\ HasNumber(m)' /\ l # m => ySeq'[l] # ySeq'[m]
      BY <2>2, <2>4 DEF YInv, YNumbers
    <3>3. yClient'.last # 0 => \E m \in Visible' : ySeq'[m] = yClient'.last
      BY <1>0, <2>2, <2>3 DEF YInv, YNumbers
    <3> QED BY <3>1, <3>2, <3>3 DEF YNumbers
  <2> QED BY <1>0, <2>1, <2>2, <2>3, <2>5 DEF YInv, YCovered, MissedForAReason
<1>4. CASE CommitChange(n)
  <2>1. YTypes'
    BY <1>4 DEF CommitChange, YInv, YTypes
  <2>2. /\ Visible' = Visible \cup {n} /\ n \notin Visible /\ HasNumber(n)
        /\ \A m \in YNotices : HasNumber(m)' <=> HasNumber(m)
        /\ yUnlucky' = (IF ySeq[n] < yClient.last THEN yUnlucky \cup {n} ELSE yUnlucky)
        /\ UNCHANGED <<ySeq, yNext>>
    BY <1>0, <1>4 DEF CommitChange, YTypes, Visible, HasNumber
  <2>3. YNumbers'
    BY <1>0, <2>2 DEF YInv, YNumbers
  <2>4. ySeq[n] \in Nat /\ yClient.last \in Nat /\ yUnlucky \subseteq yUnlucky'
    BY <1>0, <2>2 DEF YTypes
  <2>5. ySeq[n] # yClient.last
    BY <1>0, <2>2, <2>4 DEF YInv, YNumbers, Visible, HasNumber
  <2>6. n \in yUnlucky' \/ ySeq[n] > yClient.last
    BY <2>2, <2>4, <2>5
  <2> QED BY <1>0, <2>1, <2>2, <2>3, <2>4, <2>6 DEF YInv, YCovered, MissedForAReason
<1> QED BY <1>1, <1>2, <1>3, <1>4

LEMMA SyncKeeps ==
    ASSUME YInv, SyncReadsHistory \/ SyncReadsMaxSeq \/ GetChanges
    PROVE  YInv'
<1>0. YTypes /\ UNCHANGED <<yStage, ySeq, yNext, yOrder>> /\ Visible' = Visible /\ Stored' = Stored
      /\ Visible \subseteq YNotices /\ Stored \subseteq YNotices /\ Newest \subseteq Stored
      /\ \A m \in YNotices : HasNumber(m)' <=> HasNumber(m)
  BY DEF YInv, SyncReadsHistory, SyncReadsMaxSeq, GetChanges, Visible, Stored, Newest, HasNumber
<1>1. CASE SyncReadsHistory
  <2>1. /\ yClient' = [yClient EXCEPT !.step = "sync", !.has = yClient.has \cup Newest, !.read = Stored]
        /\ ySyncs' = ySyncs + 1 /\ yUnlucky' = yUnlucky \cup (Stored \ Newest)
    BY <1>1 DEF SyncReadsHistory
  <2>2. YTypes'
    <3>1. yClient' \in [step : {"new", "sync", "synced"}, last : Nat, has : SUBSET YNotices, read : SUBSET YNotices]
      BY <1>0, <2>1 DEF YTypes
    <3>2. ySyncs' \in Nat /\ yUnlucky' \subseteq YNotices
      BY <1>0, <2>1 DEF YTypes
    <3> QED BY <1>0, <3>1, <3>2 DEF YTypes
  <2>3. /\ yClient'.step = "sync" /\ yClient'.last = yClient.last /\ yClient'.has = yClient.has \cup Newest
        /\ yClient'.read = Stored
    BY <1>0, <2>1 DEF YTypes
  <2>4. YNumbers'
    BY <1>0, <2>3 DEF YInv, YNumbers
  <2>5. YCovered'
    BY <2>1, <2>3 DEF YCovered
  <2>6. MissedForAReason'
    BY <2>3 DEF MissedForAReason
  <2> QED BY <2>2, <2>4, <2>5, <2>6 DEF YInv
<1>2. CASE SyncReadsMaxSeq
  <2>1. /\ yClient' = [yClient EXCEPT !.step = "synced", !.last = MaxSeq(Visible)]
        /\ ySyncs' = ySyncs /\ yUnlucky' = yUnlucky \cup (Visible \ yClient.read) /\ yClient.step = "sync"
    BY <1>2 DEF SyncReadsMaxSeq
  <2>2. MaxSeq(Visible) \in Nat /\ (MaxSeq(Visible) # 0 => \E m \in Visible : ySeq[m] = MaxSeq(Visible))
    BY <1>0, MaxSeqIs
  <2>3. YTypes'
    BY <1>0, <2>1, <2>2 DEF YTypes
  <2>4. yClient'.step = "synced" /\ yClient'.last = MaxSeq(Visible) /\ yClient'.has = yClient.has
    BY <1>0, <2>1 DEF YTypes
  <2>5. YNumbers'
    BY <1>0, <2>2, <2>4 DEF YInv, YNumbers
  <2>6. YCovered'
    BY <2>4 DEF YCovered
  <2>7. \A n \in Visible : n \in yClient'.has \cup yUnlucky'
    BY <2>1, <2>4 DEF YInv, YCovered
  <2> QED BY <1>0, <2>3, <2>5, <2>6, <2>7 DEF YInv, MissedForAReason
<1>3. CASE GetChanges
  <2> DEFINE later == {n \in Visible : ySeq[n] > yClient.last}
             page == Page(later)
  <2>1. /\ yClient.step = "synced" /\ page # {}
        /\ yClient' = [yClient EXCEPT !.last = MaxSeq(page), !.has = yClient.has \cup page]
        /\ UNCHANGED <<ySyncs, yUnlucky>>
    BY <1>3 DEF GetChanges
  <2>2. later \subseteq YNotices /\ page \subseteq later /\ later \subseteq Visible
    BY <1>0 DEF Page
  <2>3. /\ \A n \in later \ page, m \in page : ySeq[n] > ySeq[m]
        /\ MaxSeq(page) \in Nat /\ (MaxSeq(page) # 0 => \E m \in page : ySeq[m] = MaxSeq(page))
    <3> HIDE DEF later
    <3> QED BY <1>0, <2>2, PageIsLowest, MaxSeqIs
  <2>4. \E m \in page : ySeq[m] = MaxSeq(page)
    <3>1. PICK m \in page : m \in later
      BY <2>1, <2>2
    <3>2. ySeq[m] > 0 /\ ySeq[m] <= MaxSeq(page) /\ ySeq[m] \in Nat
      <4>1. ySeq[m] \in Nat /\ yClient.last \in Nat /\ ySeq[m] > yClient.last
        BY <1>0, <2>2, <3>1 DEF YTypes
      <4>2. ySeq[m] <= MaxSeq(page)
        <5>1. page \subseteq YNotices
          BY <2>2
        <5> HIDE DEF page
        <5> QED BY <1>0, <3>1, <5>1, MaxSeqIs
      <4> QED BY <4>1, <4>2
    <3> HIDE DEF page, later
    <3> QED BY <2>3, <3>2
  <2>5. YTypes'
    <3> HIDE DEF page, later
    <3> QED BY <1>0, <2>1, <2>2, <2>3 DEF YTypes
  <2>6. yClient'.step = "synced" /\ yClient'.last = MaxSeq(page) /\ yClient'.has = yClient.has \cup page
    <3> HIDE DEF page, later
    <3> QED BY <1>0, <2>1 DEF YTypes
  <2>7. YNumbers'
    <3> HIDE DEF page, later
    <3> QED BY <1>0, <2>2, <2>4, <2>6 DEF YInv, YNumbers
  <2>8. YCovered'
    BY <2>6 DEF YCovered
  <2>9. ASSUME NEW n \in Visible PROVE n \in yClient'.has \cup yUnlucky' \/ ySeq[n] > yClient'.last
    <3>1. CASE n \in later
      <4> HIDE DEF page, later
      <4> QED BY <2>3, <2>4, <2>6, <3>1
    <3>2. CASE n \notin later
      <4>1. n \in yClient.has \cup yUnlucky
        BY <2>1, <3>2 DEF YInv, MissedForAReason
      <4> HIDE DEF page, later
      <4> QED BY <2>1, <2>6, <4>1
    <3> QED BY <3>1, <3>2
  <2> QED BY <1>0, <2>5, <2>7, <2>8, <2>9 DEF YInv, MissedForAReason
<1> QED BY <1>1, <1>2, <1>3

LEMMA YInitInv == YInit => YInv
BY DEF YInit, YInv, YTypes, YNumbers, YCovered, MissedForAReason, HasNumber, Visible

LEMMA YStepInv == YInv /\ [YNext]_delta => YInv'
<1> SUFFICES ASSUME YInv, [YNext]_delta PROVE YInv'
  OBVIOUS
<1>1. CASE UNCHANGED delta
  BY <1>1 DEF delta, YInv, YTypes, YNumbers, YCovered, MissedForAReason, HasNumber, Visible
<1>2. CASE YNext
  BY <1>2, WritingKeeps, SyncKeeps DEF YNext
<1> QED BY <1>1, <1>2

(* A client that goes on from the last number misses a visible change only    *)
(* for one of the three reasons, with any page and history length.            *)
THEOREM NoChangeIsSkipped == YSpec => []MissedForAReason
BY YInitInv, YStepInv, PTL DEF YSpec, YInv

(* A change that was numbered is not to be numbered again: there are no more  *)
(* numbers than changes.                                                      *)
YPassed == {n \in YNotices : yStage[n] \notin {"new", "stored"}}
YBounded ==
    /\ yNext <= Cardinality(YPassed) + 1 /\ \A n \in YNotices : ySeq[n] < yNext
    /\ \A n \in YNotices : yOrder[n] <= Cardinality(YNotices)
    /\ ySyncs <= YMaxSyncs

LEMMA YBoundedStep == YInv /\ YBounded /\ [YNext]_delta => YBounded'
<1> SUFFICES ASSUME YInv, YBounded, [YNext]_delta PROVE YBounded'
  OBVIOUS
<1>0. YTypes /\ IsFiniteSet(YNotices) /\ Cardinality(YNotices) \in Nat /\ YMaxSyncs \in Nat
  BY YAssumption, FS_CardinalityType DEF YInv
<1>1. IsFiniteSet(YPassed) /\ Cardinality(YPassed) \in Nat
  BY <1>0, PartIsSmaller DEF YPassed
<1>2. /\ yNext \in Nat /\ \A n \in YNotices : ySeq[n] \in Nat /\ yOrder[n] \in Nat
      /\ ySyncs \in Nat /\ yNext <= Cardinality(YPassed) + 1 /\ ySyncs <= YMaxSyncs
      /\ \A n \in YNotices : ySeq[n] < yNext /\ yOrder[n] <= Cardinality(YNotices)
  BY <1>0 DEF YTypes, YBounded
<1>3. ASSUME NEW n \in YNotices, AddNotificationHistory(n) PROVE YBounded'
  <2>1. YPassed' = YPassed
    BY <1>0, <1>3 DEF AddNotificationHistory, YPassed, YTypes
  <2>2. Cardinality(Stored) \in Nat /\ Cardinality(Stored) <= Cardinality(YNotices)
    BY <1>0, PartIsSmaller DEF Stored
  <2>3. \A m \in YNotices : yOrder'[m] = yOrder[m] \/ yOrder'[m] = Cardinality(Stored)
    BY <1>0, <1>3 DEF AddNotificationHistory, YTypes
  <2>4. \A m \in YNotices : yOrder'[m] <= Cardinality(YNotices)
    BY <1>2, <2>2, <2>3
  <2>5. ySeq' = ySeq /\ yNext' = yNext /\ ySyncs' = ySyncs
    BY <1>3 DEF AddNotificationHistory
  <2> QED BY <1>2, <2>1, <2>4, <2>5 DEF YBounded
<1>4. ASSUME NEW n \in YNotices, NumberChange(n) PROVE YBounded'
  <2>1. YPassed' = YPassed \cup {n} /\ n \notin YPassed
    BY <1>0, <1>4 DEF NumberChange, YPassed, YTypes
  <2>2. Cardinality(YPassed') = Cardinality(YPassed) + 1
    BY <1>1, <2>1, FS_AddElement
  <2>3. /\ yNext' = yNext + 1 /\ yOrder' = yOrder /\ ySyncs' = ySyncs
        /\ \A m \in YNotices : ySeq'[m] = ySeq[m] \/ ySeq'[m] = yNext
    BY <1>0, <1>4 DEF NumberChange, YTypes
  <2>4. \A m \in YNotices : ySeq'[m] < yNext'
    BY <1>2, <2>3
  <2>5. yNext' <= Cardinality(YPassed') + 1
    BY <1>1, <1>2, <2>2, <2>3
  <2> QED BY <1>2, <2>3, <2>4, <2>5 DEF YBounded
<1>5. ASSUME NEW n \in YNotices, CommitChange(n) \/ LoseChange(n) PROVE YBounded'
  <2>1. YPassed \subseteq YPassed' /\ YPassed' \subseteq YNotices /\ UNCHANGED <<ySeq, yNext, yOrder, ySyncs>>
    BY <1>0, <1>5 DEF CommitChange, LoseChange, YPassed, YTypes
  <2>2. IsFiniteSet(YPassed')
    BY <1>0, <2>1, PartIsSmaller
  <2>3. Cardinality(YPassed) <= Cardinality(YPassed') /\ Cardinality(YPassed') \in Nat
    BY <2>1, <2>2, PartIsSmaller
  <2>4. yNext' <= Cardinality(YPassed') + 1
    BY <1>1, <1>2, <2>1, <2>3
  <2> QED BY <1>2, <2>1, <2>4 DEF YBounded
<1>6. CASE SyncReadsHistory \/ SyncReadsMaxSeq \/ GetChanges
  <2>1. UNCHANGED <<yStage, ySeq, yNext, yOrder>>
    BY <1>6 DEF SyncReadsHistory, SyncReadsMaxSeq, GetChanges
  <2>2. ySyncs' = ySyncs \/ (ySyncs < YMaxSyncs /\ ySyncs' = ySyncs + 1)
    BY <1>6 DEF SyncReadsHistory, SyncReadsMaxSeq, GetChanges
  <2>3. ySyncs' <= YMaxSyncs
    BY <1>0, <1>2, <2>2
  <2>4. YPassed' = YPassed
    BY <2>1 DEF YPassed
  <2> QED BY <1>2, <2>1, <2>3, <2>4 DEF YBounded
<1>7. CASE UNCHANGED delta
  BY <1>7 DEF delta, YBounded, YPassed
<1> QED BY <1>3, <1>4, <1>5, <1>6, <1>7 DEF YNext

(* The sequence runs no higher than there are changes, lost ones included,    *)
(* and no client is given a number beyond it (sync, sync_changes).            *)
THEOREM DeltaTypeCorrect == YSpec => []YTypeOK
<1>1. YInit => YBounded
  <2> SUFFICES ASSUME YInit PROVE YBounded
    OBVIOUS
  <2>1. IsFiniteSet(YPassed) /\ Cardinality(YPassed) \in Nat /\ Cardinality(YNotices) \in Nat
    BY YAssumption, PartIsSmaller DEF YPassed
  <2> QED BY <2>1, YAssumption DEF YInit, YBounded
<1>2. YInv /\ YBounded => YTypeOK
  <2> SUFFICES ASSUME YInv, YBounded PROVE YTypeOK
    OBVIOUS
  <2> DEFINE C == Cardinality(YNotices)
  <2>1. YTypes /\ C \in Nat /\ YMaxSyncs \in Nat /\ Cardinality(YPassed) \in Nat /\ Cardinality(YPassed) <= C
    BY YAssumption, PartIsSmaller DEF YInv, YPassed
  <2> HIDE DEF C
  <2>2. /\ yNext \in Nat \ {0} /\ ySeq \in [YNotices -> Nat] /\ yOrder \in [YNotices -> Nat]
        /\ ySyncs \in Nat /\ yClient.last \in Nat
        /\ yNext <= Cardinality(YPassed) + 1 /\ ySyncs <= YMaxSyncs
        /\ \A n \in YNotices : ySeq[n] < yNext /\ yOrder[n] <= C
    BY <2>1 DEF YTypes, YBounded, C
  <2>3. yNext \in 1..C + 1
    BY <2>1, <2>2
  <2>4. \A n \in YNotices : ySeq[n] \in 0..C /\ yOrder[n] \in 0..C
    BY <2>1, <2>2, <2>3
  <2>5. yClient.last \in 0..C
    <3>1. CASE yClient.last = 0
      BY <2>1, <3>1
    <3>2. CASE yClient.last # 0
      <4>1. PICK m \in YNotices : ySeq[m] = yClient.last
        BY <3>2 DEF YInv, YNumbers, Visible
      <4> QED BY <2>4, <4>1
    <3> QED BY <3>1, <3>2
  <2>6. ySyncs \in 0..YMaxSyncs
    BY <2>1, <2>2
  <2>7. ySeq \in [YNotices -> 0..C] /\ yOrder \in [YNotices -> 0..C]
    BY <2>2, <2>4
  <2>8. yClient.step \in {"new", "sync", "synced"} /\ yClient.has \cup yClient.read \cup yUnlucky \subseteq YNotices
    BY <2>1 DEF YTypes
  <2> QED BY <2>1, <2>3, <2>5, <2>6, <2>7, <2>8 DEF YTypes, YTypeOK, C
<1> QED BY <1>1, <1>2, YInitInv, YStepInv, YBoundedStep, PTL DEF YSpec

-----------------------------------------------------------------------------
(* Events center.                                                             *)

GTypes ==
    /\ gArrived \in Nat /\ gPage \in Nat \ {0} /\ gForm \in GFilters
    /\ gMore \in BOOLEAN /\ gMixed \in BOOLEAN
    /\ gLoad \in [step : {"none", "asked", "answered"}, filter : GFilters \cup {{}}, rows : SUBSET Nat,
                  more : BOOLEAN]
    /\ gFirst \in [filter : GFilters, arrived : 0..gArrived]

(* What the pages are about, and how far down the list a page begins.         *)
Sought == gFirst.filter \cap 1..gFirst.arrived
Listed == gFirst.filter \cap 1..gArrived
Offset(page) == (page - 1) * GPerPage

(* A page begins below all that is shown, however far the list has moved      *)
(* down; what is shown has no gap; and there is nothing else after the last.  *)
Reaches(shown, page) == \A e \in Sought : Newer(e, Listed) < Offset(page) => e \in shown
Gapless(shown) == \A e \in Sought, o \in shown \cap Sought : o < e => e \in shown
Paged(shown, page, more) == /\ Reaches(shown, page) /\ Gapless(shown)
                            /\ page > 1 /\ ~more => Sought \subseteq shown
GPages ==
    /\ Paged(gShown, gPage, gMore)
    /\ gLoad.step # "none" => gLoad.filter = gFirst.filter
    /\ gLoad.step = "answered" => Paged(gShown \cup gLoad.rows, gPage + 1, gLoad.more)

GInv == GTypes /\ (gPage = 1 => gShown = {}) /\ (~gMixed => GPages)

LEMMA OffsetIs ==
    ASSUME NEW p \in Nat \ {0}
    PROVE  Offset(p) \in Nat /\ Offset(p + 1) = Offset(p) + GPerPage /\ Offset(1) = 0 /\ GPerPage \in Nat \ {0}
<1>1. GPerPage \in Nat \ {0} /\ p - 1 \in Nat
  BY GAssumption
<1>2. \A a, b \in Nat : a * b \in Nat /\ (a + 1) * b = a * b + b /\ 0 * b = 0
  OBVIOUS
<1>3. Offset(p) = (p - 1) * GPerPage /\ Offset(p + 1) = (p - 1 + 1) * GPerPage /\ Offset(1) = 0 * GPerPage
  <2>1. p + 1 - 1 = p - 1 + 1 /\ 1 - 1 = 0
    OBVIOUS
  <2> QED BY <2>1 DEF Offset
<1> QED BY <1>1, <1>2, <1>3

-----------------------------------------------------------------------------
(* The rank of an element in a finite set of numbers.                         *)

LEMMA RankIs ==
    ASSUME NEW S \in SUBSET Nat, IsFiniteSet(S), NEW e
    PROVE  Newer(e, S) \in Nat /\ IsFiniteSet({o \in S : o > e}) /\ Newer(e, S) = Cardinality({o \in S : o > e})
<1>1. {o \in S : o > e} \subseteq S
  OBVIOUS
<1>2. IsFiniteSet({o \in S : o > e}) /\ Cardinality({o \in S : o > e}) \in Nat
  BY <1>1, PartIsSmaller
<1> QED BY <1>2 DEF Newer

LEMMA RankGrows ==
    ASSUME NEW S \in SUBSET Nat, NEW T \in SUBSET Nat, IsFiniteSet(T), S \subseteq T, NEW e
    PROVE  Newer(e, S) <= Newer(e, T)
<1>1. {o \in S : o > e} \subseteq {o \in T : o > e} /\ IsFiniteSet({o \in T : o > e})
  BY RankIs
<1>2. Cardinality({o \in S : o > e}) <= Cardinality({o \in T : o > e})
  BY <1>1, PartIsSmaller
<1> QED BY <1>2 DEF Newer

LEMMA RankFalls ==
    ASSUME NEW S \in SUBSET Nat, IsFiniteSet(S), NEW e \in S, NEW o \in S, o > e
    PROVE  Newer(o, S) < Newer(e, S)
<1> DEFINE A == {x \in S : x > o} B == {x \in S : x > e}
<1>1. A \subseteq B \ {o} /\ o \in B
  <2>1. ASSUME NEW x \in S, x > o PROVE x > e /\ x # o
    <3>1. x \in Nat /\ o \in Nat /\ e \in Nat
      OBVIOUS
    <3> QED BY <2>1, <3>1
  <2> QED BY <2>1
<1>2. IsFiniteSet(B) /\ Newer(o, S) = Cardinality(A) /\ Newer(e, S) = Cardinality(B)
  BY RankIs
<1> HIDE DEF A, B
<1>3. IsFiniteSet(B \ {o}) /\ Cardinality(B \ {o}) = Cardinality(B) - 1 /\ Cardinality(B) \in Nat
  BY <1>1, <1>2, FS_RemoveElement, FS_CardinalityType
<1>4. Cardinality(A) <= Cardinality(B \ {o}) /\ Cardinality(A) \in Nat
  BY <1>1, <1>3, PartIsSmaller
<1> QED BY <1>2, <1>3, <1>4

(* No two have one rank, so not more have ranks of a stretch than it is long. *)
LEMMA RanksAreFew ==
    ASSUME NEW S \in SUBSET Nat, IsFiniteSet(S), NEW X \in SUBSET S, NEW j \in Nat, NEW k \in Nat, j <= k,
           \A x \in X : j <= Newer(x, S) /\ Newer(x, S) < k
    PROVE  IsFiniteSet(X) /\ Cardinality(X) \in Nat /\ Cardinality(X) <= k - j
<1> DEFINE f == [x \in X |-> Newer(x, S)]
           T == j..k - 1
<1>1. \A x \in X : x \in S /\ Newer(x, S) \in Nat
  BY RankIs
<1>2. \A x, y \in X : x # y => Newer(x, S) # Newer(y, S)
  <2> SUFFICES ASSUME NEW x \in X, NEW y \in X, x # y PROVE Newer(x, S) # Newer(y, S)
    OBVIOUS
  <2>1. x > y \/ y > x
    OBVIOUS
  <2>2. Newer(x, S) < Newer(y, S) \/ Newer(y, S) < Newer(x, S)
    BY <1>1, <2>1, RankFalls
  <2> QED BY <1>1, <2>2
<1>3. f \in Injection(X, T)
  <2>1. \A x \in X : Newer(x, S) \in T
    BY <1>1
  <2> HIDE DEF T
  <2>2. f \in [X -> T]
    BY <2>1
  <2>3. \A x, y \in X : f[x] = f[y] => x = y
    BY <1>2
  <2> HIDE DEF f
  <2> QED BY <2>2, <2>3 DEF Injection, IsInjective
<1>4. IsFiniteSet(X)
  BY PartIsSmaller
<1>5. IsFiniteSet(T) /\ Cardinality(T) = k - j
  <2>1. IsFiniteSet(T) /\ Cardinality(T) = IF j > k - 1 THEN 0 ELSE k - 1 - j + 1
    BY FS_Interval
  <2> HIDE DEF T
  <2> QED BY <2>1
<1> HIDE DEF f, T
<1>6. Cardinality(X) <= Cardinality(T)
  BY <1>3, <1>5, FS_Injection
<1>7. Cardinality(X) \in Nat
  BY <1>4, FS_CardinalityType
<1> QED BY <1>4, <1>5, <1>6, <1>7

LEMMA ListIsFinite ==
    ASSUME NEW F, NEW n \in Nat
    PROVE  F \cap 1..n \in SUBSET Nat /\ IsFiniteSet(F \cap 1..n)
<1>1. IsFiniteSet(1..n) /\ F \cap 1..n \subseteq 1..n
  BY FS_Interval
<1> QED BY <1>1, PartIsSmaller
-----------------------------------------------------------------------------
(* A page has what its stretch of ranks has, ...                              *)
LEMMA RowsTaken ==
    ASSUME GTypes, NEW S \in SUBSET Nat, IsFiniteSet(S), NEW e \in S,
           Offset(gPage) <= Newer(e, S), Newer(e, S) < Offset(gPage + 1)
    PROVE  e \in Rows(S) /\ Newer(e, Rows(S)) < GPerPage
<1> DEFINE off == Offset(gPage)
           X == {o \in Rows(S) : o > e}
<1>1. off \in Nat /\ Offset(gPage + 1) = off + GPerPage /\ GPerPage \in Nat \ {0} /\ Newer(e, S) \in Nat
  BY OffsetIs, RankIs DEF GTypes
<1>2. Rows(S) = {x \in S : Newer(x, S) \in off .. off + GPerPage}
  BY DEF Rows, Offset
<1> HIDE DEF off
<1>3. e \in Rows(S)
  BY <1>1, <1>2 DEF off
<1>4. X \in SUBSET S /\ \A x \in X : off <= Newer(x, S) /\ Newer(x, S) < Newer(e, S)
  <2>1. X \in SUBSET S
    BY <1>2
  <2>2. ASSUME NEW x \in X PROVE off <= Newer(x, S) /\ Newer(x, S) < Newer(e, S)
    <3>1. x \in S /\ x > e /\ off <= Newer(x, S)
      BY <1>1, <1>2
    <3> QED BY <3>1, RankFalls
  <2> QED BY <2>1, <2>2
<1>5. Cardinality(X) <= Newer(e, S) - off /\ Cardinality(X) \in Nat
  <2> HIDE DEF X
  <2>1. off <= Newer(e, S)
    BY DEF off
  <2> QED BY <1>1, <1>4, <2>1, RanksAreFew
<1>6. Newer(e, Rows(S)) = Cardinality(X)
  BY DEF Newer
<1> HIDE DEF X
<1> QED BY <1>1, <1>3, <1>5, <1>6 DEF off

(* ... and a row more, if there is anything further down.                     *)
LEMMA RowBeyond ==
    ASSUME GTypes, NEW S \in SUBSET Nat, IsFiniteSet(S), NEW e \in S, Newer(e, S) >= Offset(gPage + 1)
    PROVE  Cardinality(Rows(S)) > GPerPage
<1> DEFINE off == Offset(gPage)
           r == Newer(e, S)
           T == {o \in S : o > e}
           X == {x \in S : Newer(x, S) < off}
           Y == {x \in S : off + GPerPage < Newer(x, S) /\ Newer(x, S) < r + 1}
           R == Rows(S)
<1>1. off \in Nat /\ Offset(gPage + 1) = off + GPerPage /\ GPerPage \in Nat \ {0} /\ r \in Nat
  BY OffsetIs, RankIs DEF GTypes
<1>2. R = {x \in S : Newer(x, S) \in off .. off + GPerPage}
  BY DEF Rows, Offset
<1>3. r >= off + GPerPage
  BY <1>1
<1> HIDE DEF off
<1>4. IsFiniteSet(X) /\ Cardinality(X) \in Nat /\ Cardinality(X) <= off
  <2>1. X \in SUBSET S /\ \A x \in X : 0 <= Newer(x, S) /\ Newer(x, S) < off
    <3>1. \A x \in S : Newer(x, S) \in Nat
      BY RankIs
    <3>2. \A x \in X : x \in S /\ Newer(x, S) < off
      OBVIOUS
    <3> HIDE DEF X
    <3>3. ASSUME NEW x \in X PROVE 0 <= Newer(x, S) /\ Newer(x, S) < off
      <4>1. Newer(x, S) \in Nat /\ Newer(x, S) < off
        BY <3>1, <3>2
      <4> QED BY <4>1
    <3> QED BY <3>2, <3>3
  <2> HIDE DEF X
  <2>2. Cardinality(X) <= off - 0 /\ IsFiniteSet(X) /\ Cardinality(X) \in Nat
    BY <1>1, <2>1, RanksAreFew
  <2> QED BY <1>1, <2>2
<1>5. IsFiniteSet(Y) /\ Cardinality(Y) \in Nat /\ Cardinality(Y) <= r - (off + GPerPage)
  <2>1. Y \in SUBSET S /\ \A x \in Y : off + GPerPage + 1 <= Newer(x, S) /\ Newer(x, S) < r + 1
    <3>1. \A x \in S : Newer(x, S) \in Nat
      BY RankIs
    <3> HIDE DEF r
    <3> QED BY <1>1, <3>1 DEF r
  <2>2. off + GPerPage + 1 \in Nat /\ r + 1 \in Nat /\ off + GPerPage + 1 <= r + 1
    BY <1>1, <1>3
  <2> DEFINE a == off + GPerPage + 1
             b == r + 1
  <2>3. Y \in SUBSET S /\ (\A x \in Y : a <= Newer(x, S) /\ Newer(x, S) < b) /\ a \in Nat /\ b \in Nat /\ a <= b
    BY <2>1, <2>2
  <2> HIDE DEF Y, r, a, b
  <2>4. IsFiniteSet(Y) /\ Cardinality(Y) \in Nat /\ Cardinality(Y) <= b - a
    BY <2>3, RanksAreFew
  <2> QED BY <1>1, <2>4 DEF a, b
<1>6. IsFiniteSet(R) /\ Cardinality(R) \in Nat
  <2>1. R \subseteq S
    BY <1>2
  <2> QED BY <2>1, PartIsSmaller
<1>7. IsFiniteSet(T \cup {e}) /\ Cardinality(T \cup {e}) = r + 1
  <2>1. IsFiniteSet(T) /\ r = Cardinality(T) /\ e \notin T
    BY RankIs
  <2> HIDE DEF T, r
  <2> QED BY <2>1, FS_AddElement
<1>8. T \cup {e} \subseteq (X \cup R) \cup Y
  <2> SUFFICES ASSUME NEW x \in T \cup {e} PROVE x \in (X \cup R) \cup Y
    OBVIOUS
  <2>1. x \in S /\ Newer(x, S) \in Nat /\ Newer(x, S) <= r
    <3>1. CASE x = e
      BY <1>1, <3>1
    <3>2. CASE x \in T
      <4>1. x \in S /\ x > e
        BY <3>2
      <4>2. Newer(x, S) < r /\ Newer(x, S) \in Nat
        BY <4>1, RankFalls, RankIs
      <4> QED BY <1>1, <4>1, <4>2
    <3> QED BY <3>1, <3>2
  <2> HIDE DEF r
  <2> QED BY <1>1, <1>2, <2>1
<1> HIDE DEF X, Y, R, T, r
<1>9. IsFiniteSet(X \cup R) /\ Cardinality(X \cup R) <= Cardinality(X) + Cardinality(R) /\ Cardinality(X \cup R) \in Nat
  BY <1>4, <1>6, UnionIsBounded, FS_CardinalityType
<1>10. /\ IsFiniteSet((X \cup R) \cup Y)
       /\ Cardinality((X \cup R) \cup Y) <= Cardinality(X \cup R) + Cardinality(Y)
       /\ Cardinality((X \cup R) \cup Y) \in Nat
  BY <1>5, <1>9, UnionIsBounded, FS_CardinalityType
<1>11. r + 1 <= Cardinality((X \cup R) \cup Y)
  BY <1>7, <1>8, <1>10, PartIsSmaller
<1>12. Cardinality(R) > GPerPage
  BY <1>1, <1>4, <1>5, <1>6, <1>9, <1>10, <1>11
<1> QED BY <1>12 DEF R
-----------------------------------------------------------------------------
(* New events move the list down: every rank grows or stays.                  *)
LEMMA ArrivalKeeps == ASSUME GInv, EventArrives PROVE GInv'
<1>1. /\ gArrived' = gArrived + 1 /\ gArrived \in Nat
      /\ UNCHANGED <<gForm, gPage, gMore, gLoad, gShown, gFirst, gMixed>>
  BY DEF EventArrives, GInv, GTypes
<1>2. GTypes'
  <2>1. gFirst' \in [filter : GFilters, arrived : 0..gArrived']
    BY <1>1 DEF GInv, GTypes
  <2> QED BY <1>1, <2>1 DEF GInv, GTypes
<1>3. Sought' = Sought /\ Sought \subseteq Nat
  BY <1>1 DEF Sought
<1>4. \A e : Newer(e, Listed) <= Newer(e, Listed') /\ Newer(e, Listed) \in Nat /\ Newer(e, Listed') \in Nat
  <2>1. Listed \in SUBSET Nat /\ IsFiniteSet(Listed)
    BY <1>1, ListIsFinite DEF Listed
  <2>2. Listed' \in SUBSET Nat /\ IsFiniteSet(Listed')
    <3>1. Listed' = gFirst.filter \cap 1..gArrived + 1 /\ gArrived + 1 \in Nat
      BY <1>1 DEF Listed
    <3> QED BY <3>1, ListIsFinite
  <2>3. Listed \subseteq Listed'
    BY <1>1 DEF Listed
  <2> QED BY <2>1, <2>2, <2>3, RankGrows, RankIs
<1>5. ASSUME NEW shown, NEW p \in Nat \ {0}, NEW more, Paged(shown, p, more)
      PROVE  Paged(shown, p, more)'
  <2>1. Offset(p) \in Nat
    BY OffsetIs
  <2>2. Reaches(shown, p)'
    BY <1>3, <1>4, <1>5, <2>1 DEF Paged, Reaches
  <2>3. Gapless(shown)'
    BY <1>3, <1>5 DEF Paged, Gapless
  <2> QED BY <1>3, <1>5, <2>2, <2>3 DEF Paged
<1>6. gPage \in Nat \ {0} /\ gPage + 1 \in Nat \ {0}
  BY DEF GInv, GTypes
<1>7. ASSUME GPages PROVE GPages'
  BY <1>1, <1>5, <1>6, <1>7 DEF GPages
<1> QED BY <1>1, <1>2, <1>7 DEF GInv

LEMMA AskingKeeps ==
    ASSUME GInv, LoadEvents(TRUE) \/ LoadEvents(FALSE)
    PROVE  GInv'
<1>1. GTypes /\ gPage \in Nat \ {0} /\ 1 \in Nat \ {0}
  BY DEF GInv, GTypes
<1>2. PICK reset \in BOOLEAN : LoadEvents(reset)
  OBVIOUS
<1> DEFINE first == reset \/ gPage = 1
<1>3. /\ gLoad = Idling /\ gLoad' = [Idling EXCEPT !.step = "asked", !.filter = gForm]
      /\ gPage' = (IF reset THEN 1 ELSE gPage) /\ gMore' = TRUE
      /\ gShown' = (IF reset THEN {} ELSE gShown)
      /\ gFirst' = (IF first THEN [gFirst EXCEPT !.filter = gForm] ELSE gFirst)
      /\ gMixed' = (~first /\ (gMixed \/ gForm # gFirst.filter))
      /\ UNCHANGED <<gArrived, gAcked, gForm>>
  BY <1>2 DEF LoadEvents
<1>4. GTypes'
  <2>1. gLoad' \in [step : {"none", "asked", "answered"}, filter : GFilters \cup {{}}, rows : SUBSET Nat,
                    more : BOOLEAN]
    BY <1>1, <1>3 DEF GTypes, Idling
  <2>2. gFirst' \in [filter : GFilters, arrived : 0..gArrived]
    BY <1>1, <1>3 DEF GTypes
  <2>3. gPage' \in Nat \ {0} /\ gMore' \in BOOLEAN
    BY <1>1, <1>3
  <2>4. gMixed' \in BOOLEAN
    BY <1>3
  <2> QED BY <1>1, <1>3, <2>1, <2>2, <2>3, <2>4 DEF GTypes
<1>5. gLoad'.step = "asked" /\ gLoad'.filter = gForm
  BY <1>3 DEF Idling
<1>6. gPage' = 1 => gShown' = {}
  BY <1>3 DEF GInv
<1>7. ASSUME ~gMixed' PROVE GPages'
  <2>1. CASE first
    <3>1. gPage' = 1 /\ gShown' = {} /\ gFirst'.filter = gForm
      BY <1>1, <1>3, <1>6, <2>1 DEF GTypes
    <3>2. Paged(gShown, gPage, gMore)'
      <4>1. Reaches({}, 1)'
        <5>1. Offset(1) = 0
          BY OffsetIs
        <5>2. \A e : Newer(e, Listed') \in Nat
          <6>1. Listed' \in SUBSET Nat /\ IsFiniteSet(Listed')
            <7>1. gArrived' \in Nat /\ Listed' = gFirst'.filter \cap 1..gArrived'
              BY <1>1, <1>3 DEF GTypes, Listed
            <7> QED BY <7>1, ListIsFinite
          <6> QED BY <6>1, RankIs
        <5> QED BY <5>1, <5>2 DEF Reaches
      <4> QED BY <3>1, <4>1 DEF Paged, Gapless, Reaches
    <3>3. gLoad'.step # "answered"
      BY <1>5
    <3> QED BY <1>5, <3>1, <3>2, <3>3 DEF GPages
  <2>2. CASE ~first
    <3>1. gPage' = gPage /\ gShown' = gShown /\ gFirst' = gFirst /\ ~gMixed /\ gForm = gFirst.filter
          /\ gArrived' = gArrived
      BY <1>1, <1>3, <1>7, <2>2 DEF GTypes
    <3>2. Paged(gShown, gPage, gMore)
      BY <3>1 DEF GInv, GPages
    <3>3. Paged(gShown, gPage, gMore)'
      BY <1>3, <3>1, <3>2 DEF Paged, Reaches, Gapless, Sought, Listed
    <3>4. gLoad'.step # "answered"
      BY <1>5
    <3> QED BY <1>5, <3>1, <3>3, <3>4 DEF GPages
  <2> QED BY <2>1, <2>2
<1> QED BY <1>4, <1>6, <1>7 DEF GInv

(* The rows that are read join what is shown without a gap.                   *)
LEMMA AnswerKeeps == ASSUME GInv, ApiEventsCenter PROVE GInv'
<1> DEFINE S == gLoad.filter \cap 1..gArrived
           rows == Rows(S)
           shown == {e \in rows : Newer(e, rows) < GPerPage}
<1>1. GTypes /\ gArrived \in Nat /\ gPage \in Nat \ {0} /\ gPage + 1 \in Nat \ {0}
  BY DEF GInv, GTypes
<1>2. /\ gLoad.step = "asked" /\ UNCHANGED <<gArrived, gAcked, gForm, gPage, gMore, gShown, gPut, gMixed>>
      /\ gLoad' = [gLoad EXCEPT !.step = "answered", !.rows = shown, !.more = (Cardinality(rows) > GPerPage)]
      /\ gFirst' = (IF gPage = 1 THEN [gFirst EXCEPT !.arrived = gArrived] ELSE gFirst)
  BY DEF ApiEventsCenter
<1>3. S \in SUBSET Nat /\ IsFiniteSet(S)
  BY <1>1, ListIsFinite
<1>4. rows \subseteq S /\ shown \subseteq S
  BY DEF Rows
<1>5. ASSUME NEW e \in S, Newer(e, S) < Offset(gPage + 1), ~(Newer(e, S) < Offset(gPage)) PROVE e \in shown
  <2>1. Offset(gPage) <= Newer(e, S)
    <3>1. Newer(e, S) \in Nat /\ Offset(gPage) \in Nat
      BY <1>1, <1>3, OffsetIs, RankIs
    <3> QED BY <1>5, <3>1
  <2> HIDE DEF S
  <2> QED BY <1>1, <1>3, <1>5, <2>1, RowsTaken
<1>6. ASSUME NEW e \in shown PROVE Newer(e, S) <= Offset(gPage + 1)
  <2>1. Newer(e, S) \in Offset(gPage) .. Offset(gPage) + GPerPage
    BY DEF Rows, Offset
  <2> QED BY <1>1, <2>1, OffsetIs
<1>7. ASSUME ~(Cardinality(rows) > GPerPage), NEW e \in S PROVE Newer(e, S) < Offset(gPage + 1)
  <2>1. Newer(e, S) \in Nat /\ Offset(gPage + 1) \in Nat
    <3> HIDE DEF S
    <3> QED BY <1>1, <1>3, OffsetIs, RankIs
  <2> HIDE DEF S
  <2> QED BY <1>1, <1>3, <1>7, <2>1, RowBeyond
<1> HIDE DEF shown, rows
<1>8. GTypes'
  <2>1. gLoad' \in [step : {"none", "asked", "answered"}, filter : GFilters \cup {{}}, rows : SUBSET Nat,
                    more : BOOLEAN]
    <3>1. shown \in SUBSET Nat /\ (Cardinality(rows) > GPerPage) \in BOOLEAN
      BY <1>3, <1>4
    <3> QED BY <1>1, <1>2, <3>1 DEF GTypes
  <2>2. gFirst' \in [filter : GFilters, arrived : 0..gArrived]
    BY <1>1, <1>2 DEF GTypes
  <2> QED BY <1>1, <1>2, <2>1, <2>2 DEF GTypes
<1>9. /\ gLoad'.step = "answered" /\ gLoad'.filter = gLoad.filter /\ gLoad'.rows = shown
      /\ gFirst'.filter = gFirst.filter /\ gFirst'.arrived \in 0..gArrived
      /\ gPage # 1 => gFirst' = gFirst
  BY <1>1, <1>2 DEF GTypes
<1>10. ~(Cardinality(rows) > GPerPage) <=> ~gLoad'.more
  BY <1>1, <1>2 DEF GTypes
<1>11. ASSUME ~gMixed PROVE GPages'
  <2>1. GPages /\ gLoad.filter = gFirst.filter /\ S = Listed' /\ Listed' = Listed /\ gLoad'.filter = gFirst'.filter
    BY <1>2, <1>9, <1>11 DEF GInv, GPages, Listed
  <2>2. Sought' \subseteq S
    BY <1>1, <1>9, <2>1 DEF Sought
  <2>3. \A e : Newer(e, S) \in Nat
    BY <1>3, RankIs
  <2>4. Offset(gPage) \in Nat /\ Offset(gPage + 1) \in Nat
    BY <1>1, OffsetIs
  <2> HIDE DEF S
  <2>5. Paged(gShown, gPage, gMore)'
    <3>1. CASE gPage = 1
      <4>1. gShown' = {} /\ gPage' = 1 /\ Offset(1) = 0
        BY <1>1, <1>2, <3>1, OffsetIs DEF GInv
      <4>2. Reaches(gShown, gPage)'
        BY <1>2, <2>1, <2>3, <4>1 DEF Reaches
      <4> QED BY <4>1, <4>2 DEF Paged, Gapless
    <3>2. CASE gPage # 1
      <4>1. Sought' = Sought
        BY <1>9, <3>2 DEF Sought
      <4> QED BY <1>2, <2>1, <4>1 DEF GPages, Paged, Reaches, Gapless
    <3> QED BY <3>1, <3>2
  <2>6. ASSUME NEW e \in Sought', Newer(e, S) < Offset(gPage + 1) PROVE e \in gShown \cup shown
    <3>1. CASE Newer(e, S) < Offset(gPage)
      BY <1>2, <2>1, <2>5, <3>1 DEF Paged, Reaches
    <3>2. CASE ~(Newer(e, S) < Offset(gPage))
      BY <1>5, <2>2, <2>6, <3>2
    <3> QED BY <3>1, <3>2
  <2>7. ASSUME NEW e \in Sought', NEW o \in (gShown \cup shown) \cap Sought', o < e PROVE e \in gShown \cup shown
    <3>1. CASE o \in gShown
      BY <1>2, <2>5, <2>7, <3>1 DEF Paged, Gapless
    <3>2. CASE o \in shown
      <4>1. e \in S /\ o \in S /\ e \in Nat /\ o \in Nat
        BY <1>3, <2>2
      <4>2. Newer(e, S) < Newer(o, S)
        <5>1. e > o
          BY <2>7, <4>1
        <5> QED BY <1>3, <4>1, <5>1, RankFalls
      <4>3. Newer(e, S) < Offset(gPage + 1)
        BY <1>6, <2>3, <2>4, <3>2, <4>2
      <4> QED BY <2>6, <4>3
    <3> QED BY <3>1, <3>2, <2>7
  <2>8. ASSUME ~gLoad'.more PROVE Sought' \subseteq gShown \cup shown
    BY <1>7, <1>10, <2>2, <2>6, <2>8
  <2>9. Paged(gShown \cup gLoad.rows, gPage + 1, gLoad.more)'
    <3>1. Reaches(gShown \cup gLoad.rows, gPage + 1)'
      BY <1>2, <1>9, <2>1, <2>6 DEF Reaches
    <3>2. Gapless(gShown \cup gLoad.rows)'
      BY <1>2, <1>9, <2>7 DEF Gapless
    <3>3. ~gLoad'.more => Sought' \subseteq gShown' \cup gLoad'.rows
      BY <1>2, <1>9, <2>8
    <3> QED BY <3>1, <3>2, <3>3 DEF Paged
  <2> QED BY <2>1, <2>5, <2>9 DEF GPages
<1>12. (gPage = 1 => gShown = {})' /\ gMixed' = gMixed
  BY <1>2 DEF GInv
<1> QED BY <1>8, <1>11, <1>12 DEF GInv

LEMMA EndingKeeps == ASSUME GInv, RowsArrive \/ LoadFails PROVE GInv'
<1>1. GTypes /\ gPage \in Nat \ {0}
  BY DEF GInv, GTypes
<1>2. gLoad' = Idling /\ UNCHANGED <<gArrived, gAcked, gForm, gPut, gFirst, gMixed>> /\ Idling.step = "none"
  BY DEF RowsArrive, LoadFails, Idling
<1>3. Idling \in [step : {"none", "asked", "answered"}, filter : GFilters \cup {{}}, rows : SUBSET Nat, more : BOOLEAN]
  BY DEF Idling
<1>4. Sought' = Sought /\ Listed' = Listed
  BY <1>2 DEF Sought, Listed
<1>5. CASE UNCHANGED <<gPage, gMore, gShown>>
  <2>1. GTypes'
    BY <1>1, <1>2, <1>3, <1>5 DEF GTypes
  <2>2. GPages => GPages'
    BY <1>2, <1>4, <1>5 DEF GPages, Paged, Reaches, Gapless
  <2> QED BY <1>2, <1>5, <2>1, <2>2 DEF GInv
<1>6. CASE /\ gLoad.step = "answered" /\ gShown' = gShown \cup gLoad.rows
           /\ gMore' = gLoad.more /\ gPage' = gPage + 1
  <2>1. GTypes' /\ gPage' # 1
    BY <1>1, <1>2, <1>3, <1>6 DEF GTypes
  <2>2. GPages => GPages'
    BY <1>2, <1>4, <1>6 DEF GPages, Paged, Reaches, Gapless
  <2> QED BY <1>2, <2>1, <2>2 DEF GInv
<1> QED BY <1>5, <1>6 DEF RowsArrive, LoadFails

LEMMA GInitInv == GInit => GInv
<1> SUFFICES ASSUME GInit PROVE GInv
  OBVIOUS
<1>1. GTypes
  <2>1. Idling \in [step : {"none", "asked", "answered"}, filter : GFilters \cup {{}}, rows : SUBSET Nat,
                    more : BOOLEAN]
    BY DEF Idling
  <2>2. gFirst \in [filter : GFilters, arrived : 0..gArrived]
    <3>1. gArrived = 0 /\ gForm \in GFilters /\ gFirst = [filter |-> gForm, arrived |-> 0] /\ 0 \in 0..0
      BY DEF GInit
    <3> QED BY <3>1
  <2>3. gMore \in BOOLEAN /\ gMixed \in BOOLEAN
    BY DEF GInit
  <2>4. gArrived \in Nat /\ gPage \in Nat \ {0} /\ gForm \in GFilters /\ gLoad = Idling
    BY DEF GInit
  <2> QED BY <2>1, <2>2, <2>3, <2>4 DEF GTypes
<1>2. Sought = {}
  BY DEF GInit, Sought
<1>3. GPages
  BY <1>2 DEF GInit, GPages, Paged, Reaches, Gapless, Idling
<1> QED BY <1>1, <1>3 DEF GInit, GInv

LEMMA GStepInv == GInv /\ [GNext]_center => GInv'
<1> SUFFICES ASSUME GInv, [GNext]_center PROVE GInv'
  OBVIOUS
<1>1. ASSUME UNCHANGED <<gArrived, gPage, gMore, gLoad, gShown, gFirst, gMixed>>, gForm' \in GFilters PROVE GInv'
  BY <1>1 DEF GInv, GTypes, GPages, Paged, Reaches, Gapless, Sought, Listed
<1>2. CASE UNCHANGED center
  BY <1>1, <1>2 DEF center, GInv, GTypes
<1>3. CASE ChangeForm
  BY <1>1, <1>3 DEF ChangeForm
<1>4. ASSUME NEW e \in 1..GMaxEvents, Prepend(e) PROVE GInv'
  BY <1>1, <1>4 DEF Prepend, GInv, GTypes
<1>5. CASE ApiAcknowledgeEvent \/ ApiAcknowledgeAll
  BY <1>1, <1>5 DEF ApiAcknowledgeEvent, ApiAcknowledgeAll, Acknowledge, GInv, GTypes
<1> QED BY <1>2, <1>3, <1>4, <1>5, ArrivalKeeps, AskingKeeps, AnswerKeeps, EndingKeeps DEF GNext, ApplyFilters, LoadMore

(* With pages of any size, and events that arrive and loads that fail at any  *)
(* moment, the pages that were read leave no gap, and nothing out at the end. *)
THEOREM PagesJoinUp == GSpec => []PagesLeaveNoGap
<1>1. GSpec => []GInv
  BY GInitInv, GStepInv, PTL DEF GSpec
<1>2. GInv => PagesLeaveNoGap
  BY DEF GInv, GPages, Paged, Gapless, Sought, PagesLeaveNoGap
<1> QED BY <1>1, <1>2, PTL

(* What is shown, put on top, acknowledged or on its way are stored events.   *)
GBounded == gArrived <= GMaxEvents /\ gAcked \cup gShown \cup gPut \cup gLoad.rows \subseteq 1..gArrived

LEMMA GBoundedStep == GInv /\ GBounded /\ [GNext]_center => GBounded'
<1> SUFFICES ASSUME GInv, GBounded, [GNext]_center PROVE GBounded'
  OBVIOUS
<1>0. /\ gArrived \in Nat /\ GMaxEvents \in Nat /\ gArrived <= GMaxEvents
      /\ gLoad \in [step : {"none", "asked", "answered"}, filter : GFilters \cup {{}}, rows : SUBSET Nat,
                    more : BOOLEAN]
  BY GAssumption DEF GInv, GTypes, GBounded
<1>1. CASE EventArrives
  <2>1. gArrived' = gArrived + 1 /\ gArrived < GMaxEvents /\ UNCHANGED <<gAcked, gShown, gPut, gLoad>>
    BY <1>1 DEF EventArrives
  <2>2. 1..gArrived \subseteq 1..gArrived'
    BY <1>0, <2>1
  <2> QED BY <1>0, <2>1, <2>2 DEF GBounded
<1>2. CASE ChangeForm
  BY <1>2 DEF ChangeForm, GBounded
<1>3. ASSUME NEW reset \in BOOLEAN, LoadEvents(reset) PROVE GBounded'
  <2>1. /\ gLoad'.rows = {} /\ gShown' \subseteq gShown /\ gPut' \subseteq gPut
        /\ UNCHANGED <<gArrived, gAcked>>
    BY <1>3 DEF LoadEvents, Idling
  <2> QED BY <2>1 DEF GBounded
<1>4. CASE ApiEventsCenter
  <2> DEFINE rows == Rows(gLoad.filter \cap 1..gArrived)
             taken == {e \in rows : Newer(e, rows) < GPerPage}
             more == (Cardinality(rows) > GPerPage)
  <2>1. /\ gLoad' = [gLoad EXCEPT !.step = "answered", !.rows = taken, !.more = more]
        /\ UNCHANGED <<gArrived, gAcked, gShown, gPut>>
    BY <1>4 DEF ApiEventsCenter
  <2>2. taken \subseteq 1..gArrived
    BY DEF Rows
  <2> HIDE DEF taken, more
  <2>3. gLoad'.rows = taken
    BY <1>0, <2>1
  <2> QED BY <2>1, <2>2, <2>3 DEF GBounded
<1>5. CASE RowsArrive \/ LoadFails
  <2>1. /\ gLoad'.rows = {} /\ gShown' \subseteq gShown \cup gLoad.rows /\ UNCHANGED <<gArrived, gAcked, gPut>>
    BY <1>5 DEF RowsArrive, LoadFails, Idling
  <2> QED BY <2>1 DEF GBounded
<1>6. ASSUME NEW e \in 1..GMaxEvents, Prepend(e) PROVE GBounded'
  <2>1. e \in 1..gArrived
    BY <1>0, <1>6 DEF Prepend
  <2> QED BY <1>6, <2>1 DEF Prepend, GBounded
<1>7. CASE ApiAcknowledgeEvent \/ ApiAcknowledgeAll
  <2>1. \E events \in SUBSET (1..gArrived) : Acknowledge(events)
    BY <1>7 DEF ApiAcknowledgeEvent, ApiAcknowledgeAll, GBounded
  <2> QED BY <2>1 DEF Acknowledge, GBounded
<1>8. CASE UNCHANGED center
  BY <1>8 DEF center, GBounded
<1> QED BY <1>1, <1>2, <1>3, <1>4, <1>5, <1>6, <1>7, <1>8 DEF GNext, ApplyFilters, LoadMore

(* The page shows, and has acknowledged, stored events only.                  *)
THEOREM CenterTypeCorrect == GSpec => []GTypeOK
<1>1. GInit => GBounded
  BY GAssumption DEF GInit, GBounded, Idling
<1>2. GInv /\ GBounded => GTypeOK
  <2> SUFFICES ASSUME GTypes, GBounded PROVE GTypeOK
    BY DEF GInv
  <2>1. gArrived \in 0..GMaxEvents
    BY GAssumption DEF GTypes, GBounded
  <2>2. gFirst.filter \in GFilters /\ gFirst.arrived \in 0..gArrived
    BY DEF GTypes
  <2>3. gLoad.step \in {"none", "asked", "answered"} /\ gLoad.more \in BOOLEAN
    BY DEF GTypes
  <2> QED BY <2>1, <2>2, <2>3 DEF GTypes, GBounded, GTypeOK
<1> QED BY <1>1, <1>2, GInitInv, GStepInv, GBoundedStep, PTL DEF GSpec

=============================================================================
