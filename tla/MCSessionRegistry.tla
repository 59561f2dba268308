------------------------- MODULE MCSessionRegistry -------------------------
(* Bounded instances of SessionRegistry for TLC: a session connects once and   *)
(* never comes back, so sessions are interchangeable in the safety runs.       *)
EXTENDS SessionRegistry, TLC

Symmetry == Permutations(Sessions)
=============================================================================
