------------------------------- MODULE AccountTree -------------------------------
(***************************************************************************)
(* Who is below an administrator, and which vehicles an account sees.  The *)
(* users table gives every account at most one parent, by its address;     *)
(* nothing keeps the table from naming a parent that does not exist, or    *)
(* accounts that are each other's parents.  Three functions walk it with a *)
(* stack: the filter of vehicles and the review of drafts collect a set of *)
(* addresses, the list of descendants collects a list of users.            *)
(*                                                                         *)
(* The table is what load_users() returned; a walk sees one snapshot.      *)
(***************************************************************************)
EXTENDS Integers, SequencesExt

CONSTANTS
    UUsers,      \* addresses with an account
    UGhost,      \* an address without one
    UVehicles    \* vehicles

ASSUME UAssumption == UGhost \notin UUsers /\ IsFiniteSet(UUsers)

VARIABLES
    uParent,    \* parent_email of every user
    uOwner,     \* parent_email of every vehicle
    uStatus,    \* status of every vehicle
    uStack, uSubtree,            \* the walk that collects a set
    uPending, uVisited, uListed  \* the walk that collects a list

walk == <<uParent, uOwner, uStatus, uStack, uSubtree, uPending, uVisited, uListed>>

UAddresses == UUsers \cup {UGhost}
UNone == "none"

(* parent_map.get(parent, []); the order, that of the table, says nothing.    *)
Children(parent) == {u \in UUsers : uParent[u] = parent}

UInit ==
    /\ uParent \in [UUsers -> UAddresses \cup {UNone}]
    /\ uOwner \in [UVehicles -> UAddresses] /\ uStatus \in [UVehicles -> {"active", "draft"}]
    /\ \E u \in UUsers :
          /\ uStack = <<u>> /\ uSubtree = {u}
          /\ uPending = <<u>> /\ uVisited = {} /\ uListed = <<>>

-----------------------------------------------------------------------------
(* Bug: a child that has a vehicle is not pushed.                             *)
CollectSubtreeBug ==
    /\ uStack # <<>>
    /\ LET new == {u \in Children(Last(uStack)) \ uSubtree : \A v \in UVehicles : uOwner[v] # u} IN
       /\ uSubtree' = uSubtree \cup Children(Last(uStack))
       /\ uStack' = Front(uStack) \o SetToSeq(new)
    /\ UNCHANGED <<uParent, uOwner, uStatus, uPending, uVisited, uListed>>

(* resolve_filtered_vehicles() of a main_admin, _get_pending_drafts_cached(). *)
CollectSubtree ==
    /\ uStack # <<>>
    /\ LET new == Children(Last(uStack)) \ uSubtree IN
       /\ uSubtree' = uSubtree \cup new
       /\ uStack' = Front(uStack) \o SetToSeq(new)
    /\ UNCHANGED <<uParent, uOwner, uStatus, uPending, uVisited, uListed>>

(* get_all_descendant_users_logic().                                          *)
ListDescendants ==
    /\ uPending # <<>>
    /\ LET current == Last(uPending) IN
       IF current \in uVisited
       THEN uPending' = Front(uPending) /\ UNCHANGED <<uVisited, uListed>>
       ELSE /\ uVisited' = uVisited \cup {current}
            /\ uListed' = uListed \o SetToSeq(Children(current))
            /\ uPending' = Front(uPending) \o SetToSeq(Children(current))
    /\ UNCHANGED <<uParent, uOwner, uStatus, uStack, uSubtree>>

UNext == CollectSubtree \/ ListDescendants

USpec == UInit /\ [][UNext]_walk

-----------------------------------------------------------------------------
ActiveVehicles == {v \in UVehicles : uStatus[v] = "active"}

(* What resolve_filtered_vehicles() gives each role.                          *)
SeenByMain       == {v \in ActiveVehicles : uOwner[v] \in uSubtree}
SeenByAdmin(u)   == {v \in ActiveVehicles : uOwner[v] = u}
SeenByUser(u)    == {v \in ActiveVehicles : uOwner[v] = uParent[u]}

(* The reference: who is in every set that has the users right below roots    *)
(* and with a user those right below it.                                      *)
Below(roots) ==
    {u \in UUsers : \A S \in SUBSET UUsers : (\A w \in UUsers : uParent[w] \in roots \cup S => w \in S) => u \in S}

UTypeOK ==
    /\ uParent \in [UUsers -> UAddresses \cup {UNone}] /\ uOwner \in [UVehicles -> UAddresses]
    /\ uStack \in Seq(UUsers) /\ uPending \in Seq(UUsers) /\ uListed \in Seq(UUsers)
    /\ uSubtree \subseteq UUsers /\ uVisited \subseteq UUsers

(* When the walks end, the set is the administrator and everybody below, and  *)
(* the list has everybody below once, in a table with several trees, unknown  *)
(* parents and cycles; and the administrator sees every active vehicle that   *)
(* an account below sees, be it an administrator's or a user's.               *)
SubtreeIsComplete ==
    uStack = <<>> /\ uPending = <<>> =>
        \E root \in uSubtree :
            /\ uSubtree = {root} \cup Below({root})
            /\ {uListed[i] : i \in DOMAIN uListed} = Below({root})
            /\ Len(uListed) = Cardinality(Below({root}))
            /\ \A u \in Below({root}) : SeenByAdmin(u) \cup SeenByUser(u) \subseteq SeenByMain
=============================================================================
