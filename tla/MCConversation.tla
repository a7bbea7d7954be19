---------------------------- MODULE MCConversation ----------------------------
(* Instances of Conversation for TLC. *)
EXTENDS Conversation

CONSTANTS c1, c2, r1, r2, k1, k2, f

\* No action reads the state of two connections, so the calls of the client
\* and the traffic of the foreign program are explored one without the other.
\* Of a state that satisfies it only MakeCall, ForeignSend and the breaking of a
\* foreign connection can lead out: none of these has a fairness condition, so
\* the temporal properties are checked on complete behaviours.
OneSide ==
    \/ \A c \in Calls : phase[c] = "new"
    \/ Foreign \subseteq open /\ \A r \in Requests : on[r] = NoConn
=============================================================================
