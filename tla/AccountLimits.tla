----------------------------- MODULE AccountLimits -----------------------------
(***************************************************************************)
(* Vehicles and users under the limits of the administrator they belong    *)
(* to: registration (a draft for a company administrator, active at once   *)
(* for a main administrator), approval and refusal of drafts, edits,       *)
(* deletion, creation of users, and the edits of an administrator's record *)
(* by the main administrator (limits) and by its owner (settings).         *)
(*                                                                         *)
(* A request reads the tables in full, then checks, then writes a row in a *)
(* transaction of its own; nothing is locked between.  A read that fails   *)
(* returns no rows, an insert of a row that exists overwrites it, and an   *)
(* update writes the whole record it read.                                 *)
(***************************************************************************)
EXTENDS Integers, FiniteSets

CONSTANTS
    ARequests,   \* requests served at the same time
    AVehicles,   \* unique ids of vehicles
    AEmails,     \* addresses of users
    AParents,    \* administrators
    AMain,       \* those that register vehicles directly
    ALimits      \* limits they may be given

ASSUME AAssumption == /\ AMain \subseteq AParents /\ ALimits \subseteq Nat
                      /\ \A S \in {ARequests, AVehicles, AEmails, ALimits} : IsFiniteSet(S)
                      /\ {} \notin {ARequests, ALimits}
                      /\ "none" \notin AParents

VARIABLES
    aFleet,     \* the vehicles table: status and parent_email
    aUsers,     \* the users table: parent_email, or none
    aLimit,     \* vehicle_limit and user_limit of each administrator
    aRequest,   \* what each request does and has read
    aHighest,   \* ghost: the highest limits an administrator had
    aSet,       \* ghost: the limits an administrator was last given
    aCrossed,   \* ghost: administrators whose record two requests edited at once
    aBlind      \* ghost: a read failed, and the request went on

aghosts  == <<aHighest, aSet, aCrossed, aBlind>>
accounts == <<aFleet, aUsers, aLimit, aRequest, aghosts>>

ANone == "none"
Absent == [status |-> "absent", parent |-> ANone]
NoChange == <<>>                         \* of no limit
Resting == [op |-> "none", id |-> ANone, parent |-> ANone, step |-> "none", limits |-> NoChange]

Kinds == {"vehicles", "users"}
KindOf(r) == IF r.op = "user" THEN "users" ELSE "vehicles"

(* A company administrator starts with the lowest limits, a main one has the  *)
(* highest.                                                                   *)
AInit ==
    LET lowest  == CHOOSE l \in ALimits : \A m \in ALimits : l <= m
        highest == CHOOSE l \in ALimits : \A m \in ALimits : l >= m IN
    /\ aFleet = [v \in AVehicles |-> Absent] /\ aUsers = [e \in AEmails |-> ANone]
    /\ aLimit = [p \in AParents |-> [k \in Kinds |-> IF p \in AMain THEN highest ELSE lowest]]
    /\ aRequest = [q \in ARequests |-> Resting]
    /\ aHighest = aLimit /\ aSet = aLimit /\ aCrossed = {} /\ aBlind = FALSE

InUse(k, p) == IF k = "vehicles"
                  THEN Cardinality({v \in AVehicles : aFleet[v] = [status |-> "active", parent |-> p]})
                  ELSE Cardinality({e \in AEmails : aUsers[e] = p})
-----------------------------------------------------------------------------
Begin(q, op, id, p, step) ==
    /\ aRequest[q] = Resting
    /\ aRequest' = [aRequest EXCEPT ![q] = [Resting EXCEPT !.op = op, !.id = id, !.parent = p, !.step = step]]
    /\ UNCHANGED <<aFleet, aUsers, aLimit, aghosts>>

Continue(q, step) == aRequest' = [aRequest EXCEPT ![q].step = step]
End(q)         == aRequest' = [aRequest EXCEPT ![q] = Resting]

(* register_vehicle: only a declined vehicle may be submitted again.          *)
RegisterVehicle(q) ==
    \E v \in AVehicles, p \in AParents :
        /\ aFleet[v].status \in {"absent", "declined"}
        /\ Begin(q, "register", v, p, IF aFleet[v] = Absent THEN "count" ELSE "remove")

(* The declined one is deleted before the limit is checked.  Here and below,  *)
(* a statement that fails is swallowed and leaves the table as it was.        *)
RemoveDeclined(q) ==
    /\ aRequest[q].step = "remove" /\ Continue(q, "count")
    /\ aFleet' \in {aFleet, [aFleet EXCEPT ![aRequest[q].id] = Absent]}
    /\ UNCHANGED <<aUsers, aLimit, aghosts>>

ApproveDraft(q) ==
    \E v \in AVehicles : aFleet[v].status = "draft"
                         /\ Begin(q, "approve", v, aFleet[v].parent, "count")

DeclineDraft(q) ==
    \E v \in AVehicles : aFleet[v].status = "draft"
                         /\ Begin(q, "declined", v, aFleet[v].parent, "write")

(* update_vehicle edits names and papers of a vehicle that is active when it  *)
(* looks, and writes the record it then finds back, status and all.           *)
UpdateVehicle(q) ==
    \E v \in AVehicles : aFleet[v].status = "active"
                         /\ Begin(q, "update", v, aFleet[v].parent, "find")

FindVehicle(q) ==
    LET r == aRequest[q] found == aFleet[r.id] IN
    /\ r.step = "find"
    /\ IF found = Absent THEN End(q)
       ELSE aRequest' = [aRequest EXCEPT ![q] =
                [r EXCEPT !.op = found.status, !.parent = found.parent, !.step = "write"]]
    /\ UNCHANGED <<aFleet, aUsers, aLimit, aghosts>>

(* user_manager, action add.                                                  *)
AddUser(q) ==
    \E e \in AEmails, p \in AParents : aUsers[e] = ANone /\ Begin(q, "user", e, p, "count")

(* Bug: the limit may be reached once more.                                   *)
ValidateLimitBug(q) ==
    /\ aRequest[q].step = "count"
    /\ LET r == aRequest[q] k == KindOf(r) IN
       IF InUse(k, r.parent) > aLimit[r.parent][k] THEN End(q) ELSE Continue(q, "write")
    /\ UNCHANGED <<aFleet, aUsers, aLimit, aghosts>>

(* validate_user_creation_limit, validate_vehicle_registration_limit and      *)
(* validate_draft_approval_limit: count, and compare with the limit.  A read  *)
(* that fails counts nothing.                                                 *)
ValidateLimit(q) ==
    /\ aRequest[q].step = "count"
    /\ LET r == aRequest[q] k == KindOf(r) IN
       \/ /\ IF InUse(k, r.parent) >= aLimit[r.parent][k] THEN End(q) ELSE Continue(q, "write")
          /\ UNCHANGED aBlind
       \/ /\ 0 < aLimit[r.parent][k] /\ Continue(q, "write")
          /\ aBlind' = TRUE
    /\ UNCHANGED <<aFleet, aUsers, aLimit, aHighest, aSet, aCrossed>>

(* add_vehicle_db inserts or overwrites; update_vehicle_db writes the whole   *)
(* record it was given, when the row still exists.                            *)
VehicleWritten(r) ==
    LET status == CASE r.op = "register" -> IF r.parent \in AMain THEN "active" ELSE "draft"
                    [] r.op = "approve" -> "active"
                    [] OTHER -> r.op
    IN  IF r.op # "register" /\ aFleet[r.id] = Absent THEN Absent
        ELSE [status |-> status, parent |-> r.parent]

WriteVehicle(q) ==
    /\ aRequest[q].step = "write" /\ aRequest[q].op # "user" /\ End(q)
    /\ aFleet' \in {aFleet, [aFleet EXCEPT ![aRequest[q].id] = VehicleWritten(aRequest[q])]}
    /\ UNCHANGED <<aUsers, aLimit, aghosts>>

WriteUser(q) ==
    /\ aRequest[q].step = "write" /\ aRequest[q].op = "user" /\ End(q)
    /\ aUsers' \in {aUsers, [aUsers EXCEPT ![aRequest[q].id] = aRequest[q].parent]}
    /\ UNCHANGED <<aFleet, aLimit, aghosts>>

DeleteVehicle(v) == aFleet[v] # Absent /\ aFleet' = [aFleet EXCEPT ![v] = Absent]
                    /\ UNCHANGED <<aUsers, aLimit, aRequest, aghosts>>
DeleteUser(e)    == aUsers[e] # ANone /\ aUsers' = [aUsers EXCEPT ![e] = ANone]
                    /\ UNCHANGED <<aFleet, aLimit, aRequest, aghosts>>

(* user_manager, action update_profile, by a main administrator: any limit,   *)
(* also below what is used.  What the super administrator does to the limits  *)
(* of main administrators is left out.                                        *)
Edit(q, p, limits) ==
    /\ aRequest[q] = Resting
    /\ aRequest' = [aRequest EXCEPT ![q] =
           [op |-> "edit", id |-> p, parent |-> p, step |-> "read", limits |-> limits]]
    /\ UNCHANGED <<aFleet, aUsers, aLimit, aghosts>>

UpdateProfile(q) ==
    \E p \in AParents \ AMain, k \in Kinds, l \in ALimits : Edit(q, p, [kind \in {k} |-> l])

(* settings: the reminder days of its owner, in the same record.              *)
SaveSettings(q) == \E p \in AParents \ AMain : Edit(q, p, NoChange)

(* update_user_db: the record is read and the change put into it, ...  After  *)
(* a read that fails the record is the change alone, without other limits.    *)
ReadUser(q) ==
    LET r == aRequest[q]
        Merged(record) == [k \in Kinds |-> IF k \in DOMAIN r.limits THEN r.limits[k] ELSE record[k]]
        crossed == \E other \in ARequests \ {q} : aRequest[other].step = "save" /\ aRequest[other].id = r.id
    IN  /\ r.step = "read"
        /\ \E read \in BOOLEAN :
              /\ aRequest' = [aRequest EXCEPT ![q].step = "save",
                     ![q].limits = Merged(IF read THEN aLimit[r.id] ELSE [k \in Kinds |-> 0])]
              /\ aBlind' = (aBlind \/ ~read)
        /\ aSet' = [aSet EXCEPT ![r.id] = Merged(@)]
        /\ aCrossed' = IF crossed THEN aCrossed \cup {r.id} ELSE aCrossed
        /\ UNCHANGED <<aFleet, aUsers, aLimit, aHighest>>

(* ... and written as a whole, or the statement failed.                       *)
SaveUser(q) ==
    LET r == aRequest[q] IN
    /\ r.step = "save" /\ End(q)
    /\ \/ /\ aLimit' = [aLimit EXCEPT ![r.id] = r.limits]
          /\ aHighest' = [aHighest EXCEPT ![r.id] = [k \in Kinds |-> IF r.limits[k] > @[k] THEN r.limits[k] ELSE @[k]]]
          /\ UNCHANGED aSet
       \/ aSet' = [aSet EXCEPT ![r.id] = aLimit[r.id]] /\ UNCHANGED <<aLimit, aHighest>>
    /\ UNCHANGED <<aFleet, aUsers, aCrossed, aBlind>>

ANext ==
    \/ \E q \in ARequests :
          \/ RegisterVehicle(q) \/ RemoveDeclined(q) \/ ApproveDraft(q) \/ DeclineDraft(q)
          \/ UpdateVehicle(q) \/ FindVehicle(q)
          \/ AddUser(q) \/ ValidateLimit(q) \/ WriteVehicle(q) \/ WriteUser(q)
          \/ UpdateProfile(q) \/ SaveSettings(q) \/ ReadUser(q) \/ SaveUser(q)
    \/ \E v \in AVehicles : DeleteVehicle(v)
    \/ \E e \in AEmails : DeleteUser(e)

ASpec == AInit /\ [][ANext]_accounts

-----------------------------------------------------------------------------
ATypeOK ==
    /\ aFleet \in [AVehicles -> {Absent} \cup [status : {"draft", "declined", "active"}, parent : AParents]]
    /\ aUsers \in [AEmails -> AParents \cup {ANone}]
    /\ {aLimit, aHighest, aSet} \subseteq [AParents -> [Kinds -> ALimits \cup {0}]]
    /\ aRequest \in [ARequests -> [op : {"none", "register", "approve", "update", "user", "edit",
                                         "draft", "declined", "active"},
                                   id : AVehicles \cup AEmails \cup AParents \cup {ANone},
                                   parent : AParents \cup {ANone},
                                   step : {"none", "remove", "find", "count", "write", "read", "save"},
                                   limits : UNION {[K -> ALimits \cup {0}] : K \in SUBSET Kinds}]]
    /\ aCrossed \subseteq AParents /\ aBlind \in BOOLEAN

(* "No admin can exceed their assigned limits": unless a read failed, an      *)
(* administrator has never more active vehicles or users than the highest     *)
(* limit it was given, and one more for every further request that can be     *)
(* between its check and its write at the same time.  And its limits are      *)
(* those it was last given, although each edit of its record writes all of    *)
(* it, unless two edits overlapped: then the later one brings old limits back.*)
OverrunIsBounded ==
    aBlind \/ /\ \A p \in AParents, k \in Kinds :
                    InUse(k, p) < aHighest[p][k] + Cardinality(ARequests)
              /\ \A p \in AParents \ aCrossed :
                    (\A q \in ARequests : aRequest[q].step # "save" \/ aRequest[q].id # p)
                        => aLimit[p] = aSet[p]
=============================================================================
