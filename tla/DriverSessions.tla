---------------------------- MODULE DriverSessions ----------------------------
(***************************************************************************)
(* Drivers, their RFID tags and the sessions of drivers on one vehicle:    *)
(* the RFID part of save_telemetry() with sync_driver_session(), and the   *)
(* driver registry the administrators edit meanwhile.                      *)
(*                                                                         *)
(* The worker runs one packet at a time, but each of its statements        *)
(* commits by itself: an error or a restart between two of them leaves the *)
(* first done.  Packets carry device times and may be late.                *)
(***************************************************************************)
EXTENDS Integers, Sequences

CONSTANTS
    DDrivers, DTags,   \* driver_ids and tag_ids
    DNone,             \* no tag, no driver
    DMaxTime,          \* bound on packet times
    DMaxPackets,       \* bound on the packets of a run
    DMaxEdits          \* bound on the edits of the registry

ASSUME DAssumption == /\ DNone \notin DDrivers \cup DTags
                      /\ {DMaxTime, DMaxPackets, DMaxEdits} \subseteq Nat

VARIABLES
    dDrivers,   \* the drivers table: the tag of each driver that exists
    dTags,      \* rfid_tags: the status of each tag that exists
    dSessions,  \* driver_sessions of the vehicle, by id
    dStage,     \* how far the packet in hand is
    dPacket,    \* its tag and time, and the driver looked up
    dActive,    \* the open session read, 0 for none
    dLate,      \* ghost: a packet older than its predecessor was processed
    dLast,      \* ghost: the time of the last packet
    dPackets, dEdits

driving  == <<dSessions, dStage, dPacket, dActive, dLate, dLast, dPackets>>
registry == <<dDrivers, dTags, dEdits>>
dvars    == <<driving, registry>>

DTime    == 0..DMaxTime
DOpen    == DMaxTime + 1
DSession == [driver : DDrivers, login : DTime, logout : DTime \cup {DOpen}]
DNothing == [tag |-> DNone, ts |-> 0, driver |-> DNone]

DInit ==
    /\ dDrivers = [d \in {} |-> DNone] /\ dTags = [t \in {} |-> "available"]
    /\ dSessions = <<>> /\ dStage = "ready" /\ dPacket = DNothing /\ dActive = 0
    /\ dLate = FALSE /\ dLast = 0 /\ dPackets = 0 /\ dEdits = 0

-----------------------------------------------------------------------------
(* The registry.  Each handler is one transaction.                            *)

DEdit == dEdits < DMaxEdits /\ dEdits' = dEdits + 1 /\ UNCHANGED driving
DWith(f, x, v)  == [y \in DOMAIN f \cup {x} |-> IF y = x THEN v ELSE f[y]]
DWithout(f, x)  == [y \in DOMAIN f \ {x} |-> f[y]]

CreateDriver(d, t) ==
    /\ DEdit
    /\ d \notin DOMAIN dDrivers
    /\ dDrivers' = DWith(dDrivers, d, t)
    /\ dTags' = IF t = DNone THEN dTags ELSE DWith(dTags, t, "assigned")

UpdateDriver(d, t) ==
    /\ DEdit
    /\ d \in DOMAIN dDrivers
    /\ dDrivers' = DWith(dDrivers, d, t)
    /\ UNCHANGED dTags

DeleteDriver(d) ==
    /\ DEdit
    /\ d \in DOMAIN dDrivers
    /\ dDrivers' = DWithout(dDrivers, d)
    /\ dTags' = IF dDrivers[d] \in DOMAIN dTags
                THEN DWith(dTags, dDrivers[d], "available") ELSE dTags

CreateTag(t) ==
    /\ DEdit
    /\ t \notin DOMAIN dTags
    /\ dTags' = DWith(dTags, t, "available")
    /\ UNCHANGED dDrivers

-----------------------------------------------------------------------------
(* The worker.                                                                *)

DGoto(l) == dStage' = l

(* The driver is looked up by tag; with several, the database picks one.  An  *)
(* unknown tag is only logged.                                                *)
Swipe(t, ts) ==
    /\ dStage = "ready" /\ dPackets < DMaxPackets
    /\ dPackets' = dPackets + 1
    /\ dLate' = (dLate \/ ts < dLast) /\ dLast' = ts
    /\ \/ \E d \in DOMAIN dDrivers :
             /\ dDrivers[d] = t
             /\ dPacket' = [tag |-> t, ts |-> ts, driver |-> d]
             /\ DGoto("select")
       \/ /\ \A d \in DOMAIN dDrivers : dDrivers[d] # t
          /\ UNCHANGED <<dPacket, dStage>>
    /\ UNCHANGED <<dSessions, dActive, registry>>

DDone == DGoto("ready") /\ dPacket' = DNothing /\ dActive' = 0

OpenSessions == {i \in DOMAIN dSessions : dSessions[i].logout = DOpen}

(* Bug: only an open session of the driver himself is looked for.             *)
SelectActiveBug ==
    /\ dStage = "select"
    /\ IF \E i \in OpenSessions : dSessions[i].driver = dPacket.driver THEN DDone
       ELSE DGoto("open") /\ UNCHANGED <<dPacket, dActive>>
    /\ UNCHANGED <<dSessions, dLate, dLast, dPackets, registry>>

(* The session of the same driver goes on.                                    *)
SelectActive ==
    /\ dStage = "select"
    /\ \/ \E i \in OpenSessions :
             IF dSessions[i].driver = dPacket.driver THEN DDone
             ELSE dActive' = i /\ DGoto("close") /\ UNCHANGED dPacket
       \/ OpenSessions = {} /\ DGoto("open") /\ UNCHANGED <<dPacket, dActive>>
    /\ UNCHANGED <<dSessions, dLate, dLast, dPackets, registry>>

(* The vehicle has no telemetry of the last 1800 seconds, or a statement      *)
(* failed, or the process restarted.                                          *)
GiveUpPacket ==
    /\ dStage # "ready" /\ DDone
    /\ UNCHANGED <<dSessions, dLate, dLast, dPackets, registry>>

CloseOther ==
    /\ dStage = "close"
    /\ dSessions' = [dSessions EXCEPT ![dActive].logout = dPacket.ts]
    /\ DGoto("open")
    /\ UNCHANGED <<dPacket, dActive, dLate, dLast, dPackets, registry>>

OpenSession ==
    /\ dStage = "open"
    /\ dSessions' = Append(dSessions, [driver |-> dPacket.driver, login |-> dPacket.ts,
                                       logout |-> DOpen])
    /\ DDone
    /\ UNCHANGED <<dLate, dLast, dPackets, registry>>

DNext ==
    \/ \E d \in DDrivers, t \in DTags \cup {DNone} : CreateDriver(d, t) \/ UpdateDriver(d, t)
    \/ \E d \in DDrivers : DeleteDriver(d)
    \/ \E t \in DTags : CreateTag(t)
    \/ \E t \in DTags, ts \in DTime : Swipe(t, ts)
    \/ SelectActive \/ GiveUpPacket \/ CloseOther \/ OpenSession

DSpec == DInit /\ [][DNext]_dvars

-----------------------------------------------------------------------------
DTypeOK ==
    /\ DOMAIN dDrivers \subseteq DDrivers /\ DOMAIN dTags \subseteq DTags
    /\ \A d \in DOMAIN dDrivers : dDrivers[d] \in DTags \cup {DNone}
    /\ \A t \in DOMAIN dTags : dTags[t] \in {"available", "assigned"}
    /\ dSessions \in Seq(DSession)
    /\ dStage \in {"ready", "select", "close", "open"}
    /\ dPacket.ts \in DTime /\ dActive \in Nat
    /\ dLate \in BOOLEAN /\ dLast \in DTime
    /\ dPackets \in 0..DMaxPackets /\ dEdits \in 0..DMaxEdits

(* A vehicle has one driver at a time, whatever fails between closing one     *)
(* session and opening the next and whatever happens to the registry; and     *)
(* while no packet is late, no session begins before the one before it ended. *)
OneDriverAtATime ==
    /\ \A i, j \in OpenSessions : i = j
    /\ ~dLate => \A i, j \in DOMAIN dSessions :
                    i < j => /\ dSessions[i].logout <= dSessions[j].login
                             /\ dSessions[i].login <= dSessions[i].logout
=============================================================================
