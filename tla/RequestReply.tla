---------------------------- MODULE RequestReply ----------------------------
(***************************************************************************)
(* What a conversation over a synchronous transport promises: a request is *)
(* answered at most once on the serving side, and whoever asked is told    *)
(* that answer and no other, or, when the peer could not be reached, that  *)
(* it was unavailable.                                                     *)
(***************************************************************************)
CONSTANTS
    Ids,       \* conversation identifiers, one per request
    Answers,   \* what a handler may answer
    NoAnswer

VARIABLES
    decided,   \* id -> the answer the serving side has settled on
    told       \* id -> what the asking side has been told

vars == <<decided, told>>

Init ==
    /\ decided = [r \in Ids |-> NoAnswer]
    /\ told = [r \in Ids |-> NoAnswer]

Decide(r) ==
    /\ decided[r] = NoAnswer
    /\ \E a \in Answers : decided' = [decided EXCEPT ![r] = a]
    /\ UNCHANGED told

Tell(r) ==
    /\ told[r] = NoAnswer
    /\ decided[r] # NoAnswer
    /\ told' = [told EXCEPT ![r] = decided[r]]
    /\ UNCHANGED decided

GiveUp(r) ==
    /\ told[r] = NoAnswer
    /\ decided[r] = NoAnswer
    /\ told' = [told EXCEPT ![r] = "unavailable"]
    /\ UNCHANGED decided

Next == \E r \in Ids : Decide(r) \/ Tell(r) \/ GiveUp(r)

Spec == Init /\ [][Next]_vars
=============================================================================
