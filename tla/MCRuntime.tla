------------------------------ MODULE MCRuntime ------------------------------
(* Instances of Runtime for TLC. *)
EXTENDS Runtime

CONSTANTS g1, g2, w1, w2

SmallQueues == [d \in Dispatchers |-> IF d = "globald" THEN 4 ELSE 2]
=============================================================================
