----------------------------- MODULE BoundedFifo -----------------------------
(***************************************************************************)
(* What zpt::lf::queue<T> promises its callers: elements enter at one end, *)
(* leave at the other in the same order, each to exactly one thread, and   *)
(* never more than Capacity of them are inside.  A pop that finds nothing  *)
(* changes nothing, so it is a stuttering step here.                       *)
(***************************************************************************)
EXTENDS Naturals, Sequences

CONSTANTS Threads, Capacity, Elements, Null

VARIABLES
    items,      \* the elements inside, oldest first
    hand,       \* thread -> the element its pop has removed and not returned
    entered     \* elements that have been inside

vars == <<items, hand, entered>>

Init ==
    /\ items = <<>>
    /\ hand = [t \in Threads |-> Null]
    /\ entered = {}

Enqueue(e) ==
    /\ e \notin entered
    /\ Len(items) < Capacity
    /\ items' = Append(items, e)
    /\ entered' = entered \union {e}
    /\ UNCHANGED hand

Dequeue(t) ==
    /\ hand[t] = Null
    /\ items # <<>>
    /\ hand' = [hand EXCEPT ![t] = Head(items)]
    /\ items' = Tail(items)
    /\ UNCHANGED entered

Return(t) ==
    /\ hand[t] # Null
    /\ hand' = [hand EXCEPT ![t] = Null]
    /\ UNCHANGED <<items, entered>>

Next ==
    \/ \E e \in Elements : Enqueue(e)
    \/ \E t \in Threads : Dequeue(t) \/ Return(t)

Spec == Init /\ [][Next]_vars

=============================================================================
