------------------------------ MODULE MCComponents ------------------------------
(* One bounded instance for TLC of the components that are specified each in  *)
(* a module of its own and share no variable: an execution is one of a single *)
(* component, chosen at the start, while the others rest in an initial state. *)
EXTENDS MotionHysteresis, EventStorm, TripAnalytics, DriverSessions,
        PacketFraming, RecordIntake, LiveStream, FleetDashboard, Notifications,
        DeltaSync, EventsCenter, LiveFallback, FleetReport, AccountLimits,
        AccountTree, Maintenance, RateLimiter, KnowledgeBase, CopilotChat, TLC

CONSTANTS p1, p2, w1, w2   \* processes, clients, requests, documents: in a component they are alike

VARIABLES component
components == <<component, hysteresis, storm, analytics, dvars, framing, intake,
                stream, dashboard, notices, delta, center, layers, period, accounts,
                walk, upkeep, limiter, knowledge, copilot>>

Alike == Permutations({p1, p2}) \cup Permutations({w1, w2})

-----------------------------------------------------------------------------
(* Packet bodies that look like lengths, noise that looks like a preamble.    *)
Bodies == {<<3>>, <<0, 0, 0, 0, 0>>}
Noise  == {<<2>>, <<0>>, <<2, 2, 2, 2>>}

(* Packets with late, implausible, weak, future and unreadable records.       *)
Sample(t, p, s, w) == [ts |-> t, pos |-> p, speed |-> s, weak |-> w]
Sound(records)     == [sound |-> TRUE, records |-> records]
Packets == {Sound(<<Sample(2, 0, 0, FALSE)>>),
            Sound(<<Sample(3, 2, 1, FALSE), Sample(2, 5, 1, FALSE)>>),
            Sound(<<Sample(3, 3, 0, TRUE)>>),
            Sound(<<Sample(3, 0, 9, FALSE), Sample(3, 2, 0, FALSE)>>),
            Sound(<<Sample(4, 0, 1, FALSE), Sample(RNull, 0, 0, FALSE)>>),
            Sound(<<Sample(4, 5, 0, FALSE), Sample(4, 0, 0, FALSE)>>),
            Sound(<<Sample(9, 2, 0, FALSE)>>),
            [sound |-> FALSE, records |-> <<Sample(2, 5, 1, FALSE)>>]}

Filters == {1..GMaxEvents, {1, 3}}
Open    == {1..GMaxEvents}

-----------------------------------------------------------------------------
Names == {"hysteresis", "storm", "analytics", "drivers", "framing", "intake", "stream",
          "dashboard", "notices", "delta", "center", "layers", "period", "accounts",
          "walk", "upkeep", "limiter", "knowledge", "copilot"}

Init ==
    /\ component \in Names
    /\ HInit /\ EvInit /\ TInit /\ DInit /\ FInit /\ RInit /\ WInit /\ BInit /\ NInit
    /\ YInit /\ XInit /\ PInit /\ AInit /\ MInit /\ LInit /\ KInit /\ QInit
    /\ Cardinality(kBlank) <= IF component = "knowledge" THEN 1 ELSE 0
    /\ GInit /\ (component # "center" => gForm \in GOpen)
    /\ UInit /\ (component # "walk" => /\ \A u \in UUsers : uParent[u] = UNone
                                       /\ \A v \in UVehicles : uOwner[v] = UGhost /\ uStatus[v] = "draft"
                                       /\ uStack = <<CHOOSE u \in UUsers : TRUE>>)

Next ==
    /\ UNCHANGED component
    /\ IF component = "hysteresis" THEN HNext  ELSE UNCHANGED hysteresis
    /\ IF component = "storm"      THEN EvNext ELSE UNCHANGED storm
    /\ IF component = "analytics"  THEN TNext  ELSE UNCHANGED analytics
    /\ IF component = "drivers"    THEN DNext  ELSE UNCHANGED dvars
    /\ IF component = "framing"    THEN FNext  ELSE UNCHANGED framing
    /\ IF component = "intake"     THEN RNext  ELSE UNCHANGED intake
    /\ IF component = "stream"     THEN WNext  ELSE UNCHANGED stream
    /\ IF component = "dashboard"  THEN BNext  ELSE UNCHANGED dashboard
    /\ IF component = "notices"    THEN NNext  ELSE UNCHANGED notices
    /\ IF component = "delta"      THEN YNext  ELSE UNCHANGED delta
    /\ IF component = "center"     THEN GNext  ELSE UNCHANGED center
    /\ IF component = "layers"     THEN XNext  ELSE UNCHANGED layers
    /\ IF component = "period"     THEN PNext  ELSE UNCHANGED period
    /\ IF component = "accounts"   THEN ANext  ELSE UNCHANGED accounts
    /\ IF component = "walk"       THEN UNext  ELSE UNCHANGED walk
    /\ IF component = "upkeep"     THEN MNext  ELSE UNCHANGED upkeep
    /\ IF component = "limiter"    THEN LNext  ELSE UNCHANGED limiter
    /\ IF component = "knowledge"  THEN KNext  ELSE UNCHANGED knowledge
    /\ IF component = "copilot"    THEN QNext  ELSE UNCHANGED copilot

Spec == Init /\ [][Next]_components

(* Where a component's properties say nothing of what follows, its runs end:  *)
(* after the first fault of the hysteresis, a read of an account that failed, *)
(* edits of one account that crossed, two rows for one reminder.  And of      *)
(* vehicles and users, which are limited apart, there is one kind at once,    *)
(* of notices' tasks two, with those that could not write the history, of     *)
(* messages on their way to the dashboard three, and one jump of the receiver.*)
KindsMet ==
    {KindOf(aRequest[q]) : q \in {r \in ARequests : aRequest[r].op \notin {"none", "edit"}}}
        \cup {k \in Kinds : \E p \in AParents \ AMain : aHighest[p][k] > 0}
        \cup {k \in {"vehicles"} : \E v \in AVehicles : aFleet[v] # Absent}
        \cup {k \in {"users"} : \E e \in AEmails : aUsers[e] # ANone}
Explored ==
    /\ hFaults = 0 /\ ~nOverlap /\ ~aBlind /\ aCrossed = {}
    /\ Cardinality(nTasks) + Cardinality(nUnwritten) <= 2 /\ Cardinality(bWire) <= 3
    /\ Cardinality(KindsMet) <= 1
    /\ \A i, j \in DOMAIN pRows : pRows[i].moved >= PJump /\ pRows[j].moved >= PJump => i = j

(* The state of the component that runs has its type.                         *)
TypeOK ==
    CASE component = "hysteresis" -> HTypeOK  [] component = "storm"    -> EvTypeOK
      [] component = "analytics"  -> TTypeOK  [] component = "drivers"  -> DTypeOK
      [] component = "framing"    -> FTypeOK  [] component = "intake"   -> RTypeOK
      [] component = "stream"     -> WTypeOK  [] component = "dashboard" -> BTypeOK
      [] component = "notices"    -> NTypeOK  [] component = "delta"    -> YTypeOK
      [] component = "center"     -> GTypeOK  [] component = "layers"   -> XTypeOK
      [] component = "period"     -> PTypeOK  [] component = "accounts" -> ATypeOK
      [] component = "walk"       -> UTypeOK  [] component = "upkeep"   -> MTypeOK
      [] component = "limiter"    -> LTypeOK  [] component = "knowledge" -> KTypeOK
      [] component = "copilot"    -> QTypeOK
=============================================================================
