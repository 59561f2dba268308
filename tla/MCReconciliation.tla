-------------------------- MODULE MCReconciliation --------------------------
(* Small instances of Reconciliation: the vehicle's ignition is on in every   *)
(* even-numbered record.                                                      *)
EXTENDS Reconciliation

EvenOn == {t \in 1..MaxTs : t % 2 = 0}
=============================================================================
