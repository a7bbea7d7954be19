---------------------------- MODULE MCDiscovery ----------------------------
(***************************************************************************)
(* Two processes, one of which keeps its identity.                         *)
(***************************************************************************)
EXTENDS Discovery

CONSTANTS Kept, Fresh, Users, Audit

\* The process that is started twice, and how often each one is.
CONSTANT Restarts
MCMaxBoots == [n \in Node |-> IF n = Restarts THEN 2 ELSE 1]
MCOffers == [n \in Node |-> IF n = Restarts THEN Path ELSE {Users}]
=============================================================================
