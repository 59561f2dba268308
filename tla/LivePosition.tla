---------------------------- MODULE LivePosition ----------------------------
(***************************************************************************)
(* What the live position of a vehicle is meant to be, with no tasks, no   *)
(* lock, no transaction and no cache: a register that only ever moves to a *)
(* newer stored record, and that ends up on the newest one.                *)
(***************************************************************************)
EXTENDS Integers

CONSTANT MaxTs      \* timestamps are 1..MaxTs; 0 is "no position yet"

VARIABLES stored,   \* timestamps of the records that are stored
          pos       \* timestamp of the record that is the live position

posVars == <<stored, pos>>

Init ==
    /\ stored \in SUBSET (1..MaxTs)
    /\ pos \in stored \cup {0}

Store(t) == stored' = stored \cup {t} /\ UNCHANGED pos

Advance(t) ==
    /\ t \in stored /\ t > pos
    /\ pos' = t
    /\ UNCHANGED stored

Next == \E t \in 1..MaxTs : Store(t) \/ Advance(t)

(* The register is never stuck behind a stored record for ever.              *)
CatchUp == \E t \in 1..MaxTs : Advance(t)

Spec == Init /\ [][Next]_posVars
FairSpec == Spec /\ WF_posVars(CatchUp)
=============================================================================
