--------------------------- MODULE MCCableFusion ---------------------------
(* TLC instances of CableFusion: four modules, the second with two outputs. *)
EXTENDS CableFusion

MCOutputs == [v \in 1 .. 4 |-> IF v = 2 THEN {"dry", "wet"} ELSE {"dry"}]
=============================================================================
