------------------------ MODULE MCIngestionPipeline ------------------------
(* Bounded instances of IngestionPipeline for TLC.  Device d1 may connect      *)
(* twice and d2 once; they share partition 0, or have one each.                *)
EXTENDS IngestionPipeline, TLC

CONSTANTS d1, d2, c1, c2, c3

OneEach    == (c1 :> d1) @@ (c3 :> d2)
Reconnects == (c1 :> d1) @@ (c2 :> d1) @@ (c3 :> d2)
OneDevice  == (c1 :> d1) @@ (c2 :> d1)
Shared     == [d \in Devices |-> 0]
Split      == [d \in Devices |-> IF d = d1 THEN 0 ELSE 1]
=============================================================================
