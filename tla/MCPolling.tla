------------------------------ MODULE MCPolling ------------------------------
(* Instances of Polling for TLC. *)
EXTENDS Polling, TLC

CONSTANTS s1, s2, w1, w2

Tcp       == [s \in {s1, s2} |-> "tcp"]
Http      == [s \in {s1, s2} |-> "http"]
EventBroker == (s1 :> "event") @@ (s2 :> "broker")

FullSymmetry   == Permutations({w1, w2}) \union Permutations({s1, s2})
=============================================================================
