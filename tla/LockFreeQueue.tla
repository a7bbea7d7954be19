---------------------------- MODULE LockFreeQueue ----------------------------
(***************************************************************************)
(* zpt::lf::queue<T>: the bounded multi-producer multi-consumer queue of   *)
(* common/lockfree/include/zapata/lockfree/queue.h.                        *)
(*                                                                         *)
(* Every action is one atomic access of one thread: a load, a store or a   *)
(* compare-and-swap.  The local variables of a call (`_pos', the element   *)
(* it carries) are functions of the thread.  Positions are unbounded       *)
(* naturals: the code's 64-bit counters do not wrap within any execution   *)
(* of interest.  Accesses are sequentially consistent (see README.md).     *)
(***************************************************************************)
EXTENDS Integers, Sequences, FiniteSets

CONSTANTS
    Threads,    \* callers of the queue: any of them may push, pop or clear
    Capacity,   \* number of slots, the constructor's bit_ceil(max)
    MaxPush     \* bound: number of push calls in a behaviour

ASSUME CapacityAssumption == Capacity \in Nat \ {0}
ASSUME MaxPushAssumption  == MaxPush \in Nat

VARIABLES
    seq,        \* slot -> its `sequence' token
    val,        \* slot -> its `value': an element or Null
    head,       \* __head: next position to push at
    tail,       \* __tail: next position to pop at
    size,       \* __size before reduction modulo 2^64
    shutdown,   \* __shutdown
    pc,         \* thread -> the access it is about to make
    pos,        \* thread -> `_pos'
    item,       \* thread -> `_value' in push, `_to_return' in pop
    clearing,   \* threads whose pop is one of those clear() makes
    born,       \* history: number of push calls; the elements are 1..born
    pushed,     \* history: elements in the order their position was claimed
    delivered,  \* history: elements a pop has returned
    dropped     \* history: elements a push gave up because of shutdown

vars == <<seq, val, head, tail, size, shutdown, pc, pos, item, clearing,
          born, pushed, delivered, dropped>>

shared  == <<seq, val, head, tail, size, shutdown>>
history == <<born, pushed, delivered, dropped>>

Null  == 0
Slots == 0 .. (Capacity - 1)

\* `_pos & __mask', the mask being Capacity - 1 for a power of two.
Slot(p) == p % Capacity

\* std::bit_ceil: the least power of two that is at least n.
BitCeil(n) ==
    LET k == CHOOSE k \in 0 .. n : 2^k >= n /\ \A j \in 0 .. (k - 1) : 2^j < n
    IN  2^k

PushLabels == {"push_load", "push_loop", "push_seq", "push_cas",
               "push_write", "push_publish", "push_size"}
PopLabels  == {"pop_load", "pop_loop", "pop_seq", "pop_cas",
               "pop_take", "pop_release", "pop_size"}
Labels     == {"idle"} \union PushLabels \union PopLabels

-----------------------------------------------------------------------------

Init ==
    /\ seq = [i \in Slots |-> i]
    /\ val = [i \in Slots |-> Null]
    /\ head = 0
    /\ tail = 0
    /\ size = 0
    /\ shutdown = FALSE
    /\ pc = [t \in Threads |-> "idle"]
    /\ pos = [t \in Threads |-> 0]
    /\ item = [t \in Threads |-> Null]
    /\ clearing = {}
    /\ born = 0
    /\ pushed = <<>>
    /\ delivered = {}
    /\ dropped = {}

At(t, label)   == pc[t] = label
Goto(t, label) == pc' = [pc EXCEPT ![t] = label]

\* A call returns: its locals are gone.
Return(t) ==
    /\ Goto(t, "idle")
    /\ pos' = [pos EXCEPT ![t] = 0]
    /\ item' = [item EXCEPT ![t] = Null]
    /\ clearing' = clearing \ {t}

-----------------------------------------------------------------------------
(* Faulty variants of some accesses.  They are not part of the              *)
(* specification: each is a slip the code could have contained, and each is *)
(* caught by one of the properties below.                                   *)

\* A push that does not look at __shutdown while it waits for room.
PushLoopIgnoresShutdown(t) ==
    /\ At(t, "push_loop")
    /\ Goto(t, "push_seq")
    /\ UNCHANGED <<shared, pos, item, clearing, history>>

\* A push that takes the previous lap's slot for a free one.
PushSeqIgnoresFull(t) ==
    /\ At(t, "push_seq")
    /\ LET dif == seq[Slot(pos[t])] - pos[t]
       IN  \/ dif <= 0 /\ Goto(t, "push_cas")
           \/ dif > 0 /\ Goto(t, "push_load")
    /\ UNCHANGED <<shared, pos, item, clearing, history>>

\* A fetch_add in place of the compare-and-swap.
PushCasFetchAdd(t) ==
    /\ At(t, "push_cas")
    /\ head' = head + 1
    /\ IF head = pos[t]
       THEN pushed' = Append(pushed, item[t]) /\ Goto(t, "push_write") /\ UNCHANGED pos
       ELSE pos' = [pos EXCEPT ![t] = head] /\ Goto(t, "push_loop") /\ UNCHANGED pushed
    /\ UNCHANGED <<seq, val, tail, size, shutdown, item, clearing,
                   born, delivered, dropped>>

\* The token is published together with the claim, before the value is written.
PushCasPublishes(t) ==
    /\ At(t, "push_cas")
    /\ head = pos[t]
    /\ head' = head + 1
    /\ pushed' = Append(pushed, item[t])
    /\ seq' = [seq EXCEPT ![Slot(pos[t])] = pos[t] + 1]
    /\ Goto(t, "push_write")
    /\ UNCHANGED <<val, tail, size, shutdown, pos, item, clearing,
                   born, delivered, dropped>>

\* A pop that reports a stale position as an empty queue.
PopSeqStaleIsEmpty(t) ==
    /\ At(t, "pop_seq")
    /\ IF seq[Slot(pos[t])] = pos[t] + 1
       THEN Goto(t, "pop_cas") /\ UNCHANGED <<pos, item, clearing>>
       ELSE Return(t)
    /\ UNCHANGED <<shared, history>>

\* clear() forgets to adjust the counter.
PopSizeClearForgets(t) ==
    /\ At(t, "pop_size")
    /\ size' = IF t \in clearing THEN size ELSE size - 1
    /\ delivered' = delivered \union {item[t]}
    /\ Return(t)
    /\ UNCHANGED <<seq, val, head, tail, shutdown, born, pushed, dropped>>

-----------------------------------------------------------------------------
(* push *)

PushCall(t) ==
    /\ At(t, "idle")
    /\ born < MaxPush
    /\ born' = born + 1
    /\ item' = [item EXCEPT ![t] = born + 1]
    /\ Goto(t, "push_load")
    /\ UNCHANGED <<shared, pos, clearing, pushed, delivered, dropped>>

\* `_pos = __head->load()', on entry and when the position is stale.
PushLoad(t) ==
    /\ At(t, "push_load")
    /\ pos' = [pos EXCEPT ![t] = head]
    /\ Goto(t, "push_loop")
    /\ UNCHANGED <<shared, item, clearing, history>>

PushLoop(t) ==
    /\ At(t, "push_loop")
    /\ \/ /\ shutdown
          /\ dropped' = dropped \union {item[t]}
          /\ Return(t)
       \/ /\ ~shutdown
          /\ Goto(t, "push_seq")
          /\ UNCHANGED <<pos, item, clearing, dropped>>
    /\ UNCHANGED <<shared, born, pushed, delivered>>

\* Ready at _pos, full (sleep and look again at the same position), or stale.
PushSeq(t) ==
    /\ At(t, "push_seq")
    /\ LET dif == seq[Slot(pos[t])] - pos[t]
       IN  \/ dif = 0 /\ Goto(t, "push_cas")
           \/ dif < 0 /\ Goto(t, "push_loop")
           \/ dif > 0 /\ Goto(t, "push_load")
    /\ UNCHANGED <<shared, pos, item, clearing, history>>

\* compare_exchange_weak on __head: it may also fail spuriously.
PushCas(t) ==
    /\ At(t, "push_cas")
    /\ \/ /\ head = pos[t]
          /\ head' = head + 1
          /\ pushed' = Append(pushed, item[t])
          /\ Goto(t, "push_write")
          /\ UNCHANGED pos
       \/ /\ pos' = [pos EXCEPT ![t] = head]
          /\ Goto(t, "push_loop")
          /\ UNCHANGED <<head, pushed>>
    /\ UNCHANGED <<seq, val, tail, size, shutdown, item, clearing,
                   born, delivered, dropped>>

PushWrite(t) ==
    /\ At(t, "push_write")
    /\ val' = [val EXCEPT ![Slot(pos[t])] = item[t]]
    /\ item' = [item EXCEPT ![t] = Null]
    /\ Goto(t, "push_publish")
    /\ UNCHANGED <<seq, head, tail, size, shutdown, pos, clearing, history>>

PushPublish(t) ==
    /\ At(t, "push_publish")
    /\ seq' = [seq EXCEPT ![Slot(pos[t])] = pos[t] + 1]
    /\ Goto(t, "push_size")
    /\ UNCHANGED <<val, head, tail, size, shutdown, pos, item, clearing, history>>

PushSize(t) ==
    /\ At(t, "push_size")
    /\ size' = size + 1
    /\ Return(t)
    /\ UNCHANGED <<seq, val, head, tail, shutdown, history>>

-----------------------------------------------------------------------------
(* pop and clear *)

PopCall(t) ==
    /\ At(t, "idle")
    /\ Goto(t, "pop_load")
    /\ UNCHANGED <<shared, pos, item, clearing, history>>

\* `while (pop() != nullptr);'
ClearCall(t) ==
    /\ At(t, "idle")
    /\ clearing' = clearing \union {t}
    /\ Goto(t, "pop_load")
    /\ UNCHANGED <<shared, pos, item, history>>

PopLoad(t) ==
    /\ At(t, "pop_load")
    /\ pos' = [pos EXCEPT ![t] = tail]
    /\ Goto(t, "pop_loop")
    /\ UNCHANGED <<shared, item, clearing, history>>

PopLoop(t) ==
    /\ At(t, "pop_loop")
    /\ \/ shutdown /\ Return(t)
       \/ ~shutdown /\ Goto(t, "pop_seq") /\ UNCHANGED <<pos, item, clearing>>
    /\ UNCHANGED <<shared, history>>

\* Published at _pos, nothing published (return nullptr), or stale.
PopSeq(t) ==
    /\ At(t, "pop_seq")
    /\ LET dif == seq[Slot(pos[t])] - (pos[t] + 1)
       IN  \/ dif = 0 /\ Goto(t, "pop_cas") /\ UNCHANGED <<pos, item, clearing>>
           \/ dif < 0 /\ Return(t)
           \/ dif > 0 /\ Goto(t, "pop_load") /\ UNCHANGED <<pos, item, clearing>>
    /\ UNCHANGED <<shared, history>>

PopCas(t) ==
    /\ At(t, "pop_cas")
    /\ \/ /\ tail = pos[t]
          /\ tail' = tail + 1
          /\ Goto(t, "pop_take")
          /\ UNCHANGED pos
       \/ /\ pos' = [pos EXCEPT ![t] = tail]
          /\ Goto(t, "pop_loop")
          /\ UNCHANGED tail
    /\ UNCHANGED <<seq, val, head, size, shutdown, item, clearing, history>>

\* `_cell.value.swap(_to_return)'
PopTake(t) ==
    /\ At(t, "pop_take")
    /\ item' = [item EXCEPT ![t] = val[Slot(pos[t])]]
    /\ val' = [val EXCEPT ![Slot(pos[t])] = Null]
    /\ Goto(t, "pop_release")
    /\ UNCHANGED <<seq, head, tail, size, shutdown, pos, clearing, history>>

PopRelease(t) ==
    /\ At(t, "pop_release")
    /\ seq' = [seq EXCEPT ![Slot(pos[t])] = pos[t] + Capacity]
    /\ Goto(t, "pop_size")
    /\ UNCHANGED <<val, head, tail, size, shutdown, pos, item, clearing, history>>

\* The element is returned; clear() destroys it and pops again.
PopSize(t) ==
    /\ At(t, "pop_size")
    /\ size' = size - 1
    /\ delivered' = delivered \union {item[t]}
    /\ Goto(t, IF t \in clearing THEN "pop_load" ELSE "idle")
    /\ pos' = [pos EXCEPT ![t] = 0]
    /\ item' = [item EXCEPT ![t] = Null]
    /\ UNCHANGED <<seq, val, head, tail, shutdown, clearing, born, pushed, dropped>>

-----------------------------------------------------------------------------

Shutdown ==
    /\ ~shutdown
    /\ shutdown' = TRUE
    /\ UNCHANGED <<seq, val, head, tail, size, pc, pos, item, clearing, history>>

Call(t) == PushCall(t) \/ PopCall(t) \/ ClearCall(t)

Step(t) ==
    \/ PushLoad(t) \/ PushLoop(t) \/ PushSeq(t) \/ PushCas(t)
    \/ PushWrite(t) \/ PushPublish(t) \/ PushSize(t)
    \/ PopLoad(t) \/ PopLoop(t) \/ PopSeq(t) \/ PopCas(t)
    \/ PopTake(t) \/ PopRelease(t) \/ PopSize(t)

Next == Shutdown \/ \E t \in Threads : Call(t) \/ Step(t)

Spec == Init /\ [][Next]_vars

\* The scheduler runs every thread that is inside a call.
FairSpec == Spec /\ \A t \in Threads : WF_vars(Step(t))

-----------------------------------------------------------------------------
(* Properties *)

TypeQueue ==
    /\ seq \in [Slots -> Nat]
    /\ val \in [Slots -> Nat]
    /\ head \in Nat
    /\ tail \in Nat
    /\ size \in Int
    /\ shutdown \in BOOLEAN

TypeThreads ==
    /\ pc \in [Threads -> Labels]
    /\ pos \in [Threads -> Nat]
    /\ item \in [Threads -> Nat]
    /\ clearing \subseteq Threads

TypeHistory ==
    /\ born \in Nat
    /\ pushed \in Seq(Nat)
    /\ Len(pushed) = head
    /\ delivered \subseteq Nat
    /\ dropped \subseteq Nat

\* Every variable has its type, and an element is recorded for every position
\* the compare-and-swap on __head has handed out.
TypeOK == TypeQueue /\ TypeThreads /\ TypeHistory

\* Threads between winning the compare-and-swap and handing the slot over.
Pushing(t) == pc[t] \in {"push_write", "push_publish"}
Popping(t) == pc[t] \in {"pop_take", "pop_release"}
Owns(t)    == Pushing(t) \/ Popping(t)

\* The non-atomic accesses to a slot's `value' never race: at most one thread
\* is between claiming a slot and advancing its token (queue.h:27-33).
ExclusiveSlot ==
    \A t, u \in Threads :
        Owns(t) /\ Owns(u) /\ Slot(pos[t]) = Slot(pos[u]) => t = u

\* "tail_ can never advance past head_" (queue.h:62), nor can head_ lap it.
CursorOrder == tail <= head /\ head <= tail + Capacity

\* FIFO: the pop that claimed a position carries away the element whose push
\* claimed that same position, whatever was interleaved.
Fifo ==
    \A t \in Threads :
        pc[t] \in {"pop_release", "pop_size"} => item[t] = pushed[pos[t] + 1]

\* size() differs from the number of claimed elements only by the calls that
\* have moved a cursor and not yet adjusted the counter (queue.h:84-85).
SizeAccounting ==
    LET ahead  == {t \in Threads : Pushing(t) \/ pc[t] = "push_size"}
        behind == {t \in Threads : Popping(t) \/ pc[t] = "pop_size"}
    IN  size = (head - tail) - Cardinality(ahead) + Cardinality(behind)

\* Nothing is lost, doubled or miscounted: every element is in exactly one place
\* (carried by the thread that pushes or pops it, in a slot, returned by a pop, or
\* given up by a push at shutdown), and size() is off by calls in progress only.
Conservation ==
    /\ \A e \in 1 .. born :
          LET carried == {t \in Threads : item[t] = e}
              stored  == {i \in Slots : val[i] = e}
              gone    == {s \in {1} : e \in delivered} \union {s \in {2} : e \in dropped}
          IN  Cardinality(carried) + Cardinality(stored) + Cardinality(gone) = 1
    /\ SizeAccounting

\* No call is refused for a stale reason.  pop() returns nullptr on a running queue
\* only from the front, when the queue is empty or the push of the front element has
\* not published it yet; push waits for room only at the end, when the ring is full
\* or the pop of the previous lap's element has not released the slot yet
\* (queue.h:145-149, 203-215).
NoFalseRefusal ==
    [][ \A t \in Threads :
          /\ pc[t] = "pop_seq" /\ pc'[t] = "idle" =>
                /\ pos[t] = tail
                /\ tail = head \/ \E u \in Threads : Pushing(u) /\ pos[u] = tail
          /\ pc[t] = "push_seq" /\ pc'[t] = "push_loop" =>
                /\ pos[t] = head
                /\ \/ head = tail + Capacity
                   \/ \E u \in Threads : Popping(u) /\ pos[u] + Capacity = head ]_vars

\* The abstract queue: an element enters when the compare-and-swap on __head
\* succeeds and leaves when the one on __tail does; until it is swapped out of
\* the slot, the element in a popping thread's hand is the slot's value.
Items == [i \in 1 .. (head - tail) |-> pushed[tail + i]]

Hand(t) ==
    CASE pc[t] = "pop_take"                       -> val[Slot(pos[t])]
      [] pc[t] \in {"pop_release", "pop_size"}    -> item[t]
      [] OTHER                                    -> Null

Abstract == INSTANCE BoundedFifo WITH
    Elements <- 1 .. MaxPush,
    items    <- Items,
    hand     <- [t \in Threads |-> Hand(t)],
    entered  <- {pushed[i] : i \in 1 .. Len(pushed)}

\* The lock-free steps implement the bounded FIFO queue (queue.h:51-63).
ImplementsFifo == Abstract!Spec

\* shutdown() makes every thread leave push, pop and clear (queue.h:166).
ShutdownReleases ==
    \A t \in Threads : (shutdown /\ pc[t] # "idle") ~> pc[t] = "idle"

-----------------------------------------------------------------------------
(* The inductive invariant behind ExclusiveSlot, CursorOrder and Fifo.  It  *)
(* reads the ring as a window of Capacity consecutive positions starting at *)
(* tail: the live ones up to head, then the ones free for the next pushes.  *)

PushTrying(t) == pc[t] \in {"push_loop", "push_seq", "push_cas"}
PopTrying(t)  == pc[t] \in {"pop_loop", "pop_seq", "pop_cas"}

\* A live position is claimed and not published, or published with its value.
LiveSlots ==
    \A p \in tail .. (head - 1) :
        \/ seq[Slot(p)] = p
        \/ seq[Slot(p)] = p + 1 /\ val[Slot(p)] = pushed[p + 1]

\* A free position carries its own token, or its previous lap's element is
\* still being taken out.
FreeSlots ==
    \A p \in head .. (tail + Capacity - 1) :
        \/ seq[Slot(p)] = p
        \/ p >= Capacity /\ seq[Slot(p)] = p - Capacity + 1

\* A thread that owns a slot for a push: the position is live, unpublished.
PushOwners ==
    \A t \in Threads :
        /\ Pushing(t) =>
              /\ tail <= pos[t] /\ pos[t] < head
              /\ seq[Slot(pos[t])] = pos[t]
        /\ pc[t] = "push_write" => item[t] = pushed[pos[t] + 1]
        /\ pc[t] = "push_publish" => val[Slot(pos[t])] = pushed[pos[t] + 1]

\* A thread that owns a slot for a pop: the position has left the live part
\* and its successor one lap later has not been claimed.
PopOwners ==
    \A t \in Threads :
        /\ Popping(t) =>
              /\ pos[t] < tail /\ head <= pos[t] + Capacity
              /\ seq[Slot(pos[t])] = pos[t] + 1
        /\ pc[t] = "pop_take" => val[Slot(pos[t])] = pushed[pos[t] + 1]
        /\ pc[t] \in {"pop_release", "pop_size"} =>
              pos[t] < tail /\ item[t] = pushed[pos[t] + 1]

\* A thread still trying: its position is not ahead of the cursor, and what it
\* read of the slot still holds if the cursor has not moved.
Readers ==
    \A t \in Threads :
        /\ PushTrying(t) => pos[t] <= head
        /\ PopTrying(t) => pos[t] <= tail
        /\ pc[t] = "push_cas" /\ pos[t] = head => seq[Slot(head)] = head
        /\ pc[t] = "pop_cas" /\ pos[t] = tail => seq[Slot(tail)] = tail + 1

\* No position is owned twice.
OneOwner ==
    \A t, u \in Threads :
        /\ Pushing(t) /\ Pushing(u) /\ pos[t] = pos[u] => t = u
        /\ Popping(t) /\ Popping(u) /\ pos[t] = pos[u] => t = u

\* The ring seen from the cursors: every slot of the window is in the phase its
\* position implies and has the owner that phase implies (queue.h:208-215).
RingInv ==
    /\ CursorOrder
    /\ LiveSlots
    /\ FreeSlots
    /\ PushOwners
    /\ PopOwners
    /\ Readers
    /\ OneOwner

=============================================================================
