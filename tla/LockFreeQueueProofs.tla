------------------------ MODULE LockFreeQueueProofs -------------------------
(***************************************************************************)
(* Proofs about LockFreeQueue, for any set of threads, any number of       *)
(* pushes and any capacity of at least two.                                *)
(***************************************************************************)
EXTENDS LockFreeQueue, TLAPS

\* A position maps to a slot of the ring (the mask of queue.h:244).
LEMMA SlotInRange == \A p \in Nat : Slot(p) \in Slots
  BY CapacityAssumption DEF Slot, Slots

\* The next lap of a position is in the same slot.
LEMMA SlotNextLap ==
  ASSUME NEW p \in Nat
  PROVE  Slot(p + Capacity) = Slot(p)
  <1> DEFINE a == p \div Capacity
             b == (p + Capacity) \div Capacity
             r == Slot(p)
             s == Slot(p + Capacity)
  <1>1. /\ a \in Int /\ b \in Int
        /\ p = Capacity * a + r
        /\ p + Capacity = Capacity * b + s
    BY CapacityAssumption DEF Slot
  <1>2. r \in Slots /\ s \in Slots
    BY SlotInRange, CapacityAssumption
  <1> HIDE DEF a, b, r, s
  <1>3. s - r = Capacity * (a + 1 - b)
    BY <1>1, <1>2, CapacityAssumption DEF Slots
  <1>4. a + 1 - b >= 1 => Capacity * (a + 1 - b) >= Capacity
    BY <1>1, CapacityAssumption
  <1>5. a + 1 - b <= -1 => Capacity * (a + 1 - b) <= -Capacity
    BY <1>1, CapacityAssumption
  <1>6. a + 1 - b = 0
    BY <1>1, <1>2, <1>3, <1>4, <1>5, CapacityAssumption DEF Slots
  <1>7. s = r
    BY <1>2, <1>3, <1>6, CapacityAssumption DEF Slots
  <1> QED
    BY <1>7 DEF r, s

\* Two positions closer than a lap are in different slots.
LEMMA SlotInjective ==
  ASSUME NEW p \in Nat, NEW q \in Nat, p < q, q < p + Capacity
  PROVE  Slot(p) # Slot(q)
  <1> DEFINE a == p \div Capacity
             b == q \div Capacity
  <1>1. /\ a \in Int /\ b \in Int
        /\ p = Capacity * a + Slot(p)
        /\ q = Capacity * b + Slot(q)
    BY CapacityAssumption DEF Slot
  <1>2. SUFFICES ASSUME Slot(p) = Slot(q) PROVE FALSE
    OBVIOUS
  <1> HIDE DEF a, b
  <1>3. q - p = Capacity * (b - a)
    BY <1>1, <1>2, SlotInRange, CapacityAssumption DEF Slots
  <1>4. b - a >= 1
    BY <1>1, <1>3, CapacityAssumption
  <1>5. Capacity * (b - a) >= Capacity
    BY <1>1, <1>4, CapacityAssumption
  <1> QED
    BY <1>3, <1>5, CapacityAssumption

-----------------------------------------------------------------------------
(* Type correctness *)

\* A call that returns leaves its thread's variables in their types.
LEMMA ReturnTypes ==
  ASSUME NEW t \in Threads, TypeThreads, Return(t)
  PROVE  TypeThreads'
  BY DEF TypeThreads, Return, Goto, Null, Labels

\* Every step keeps every variable in its type, and as many elements recorded
\* as positions claimed.
LEMMA TypeStep == TypeOK /\ [Next]_vars => TypeOK'
  <1> SUFFICES ASSUME TypeOK, [Next]_vars PROVE TypeOK'
    OBVIOUS
  <1>0. \A t \in Threads : Slot(pos[t]) \in Slots
    BY SlotInRange DEF TypeOK, TypeThreads
  <1> USE DEF TypeOK, TypeQueue, TypeThreads, TypeHistory, shared, history, At, Goto,
          Return, Null, Labels, PushLabels, PopLabels
  <1>1. CASE Shutdown
    BY <1>1 DEF Shutdown
  <1>2. ASSUME NEW t \in Threads, PushCall(t) PROVE TypeOK'
    <2>1. TypeQueue'
      BY <1>2 DEF PushCall
    <2>2. TypeThreads'
      BY <1>2 DEF PushCall
    <2>3. TypeHistory'
      BY <1>2 DEF PushCall
    <2> QED
      BY <2>1, <2>2, <2>3
  <1>3. ASSUME NEW t \in Threads, PushLoad(t) PROVE TypeOK'
    <2>1. TypeQueue'
      BY <1>3 DEF PushLoad
    <2>2. TypeThreads'
      BY <1>3 DEF PushLoad
    <2>3. TypeHistory'
      BY <1>3 DEF PushLoad
    <2> QED
      BY <2>1, <2>2, <2>3
  <1>4. ASSUME NEW t \in Threads, PushLoop(t) PROVE TypeOK'
    <2>1. TypeQueue'
      BY <1>4 DEF PushLoop
    <2>2. TypeThreads'
      <3>1. CASE Return(t)
        BY <3>1, ReturnTypes
      <3>2. CASE ~Return(t)
        <4> HIDE DEF Return
        <4> QED BY <1>4, <3>2 DEF PushLoop
      <3> QED
        BY <3>1, <3>2
    <2>3. TypeHistory'
      BY <1>4 DEF PushLoop
    <2> QED
      BY <2>1, <2>2, <2>3
  <1>5. ASSUME NEW t \in Threads, PushSeq(t) PROVE TypeOK'
    <2>1. TypeQueue'
      BY <1>5 DEF PushSeq
    <2>2. TypeThreads'
      BY <1>5 DEF PushSeq
    <2>3. TypeHistory'
      BY <1>5 DEF PushSeq
    <2> QED
      BY <2>1, <2>2, <2>3
  <1>6. ASSUME NEW t \in Threads, PushCas(t) PROVE TypeOK'
    <2>1. TypeQueue'
      BY <1>6 DEF PushCas
    <2>2. TypeThreads'
      BY <1>6 DEF PushCas
    <2>3. TypeHistory'
      <3>1. CASE head' = head + 1 /\ pushed' = Append(pushed, item[t])
        <4>1. pushed' \in Seq(Nat) /\ Len(pushed') = Len(pushed) + 1
          BY <3>1
        <4> QED
          BY <1>6, <3>1, <4>1 DEF PushCas
      <3>2. CASE UNCHANGED <<head, pushed>>
        BY <1>6, <3>2 DEF PushCas
      <3> QED
        BY <1>6, <3>1, <3>2 DEF PushCas
    <2> QED
      BY <2>1, <2>2, <2>3
  <1>7. ASSUME NEW t \in Threads, PushWrite(t) PROVE TypeOK'
    <2>1. TypeQueue'
      BY <1>0, CapacityAssumption, <1>7 DEF PushWrite
    <2>2. TypeThreads'
      BY <1>7 DEF PushWrite
    <2>3. TypeHistory'
      BY <1>7 DEF PushWrite
    <2> QED
      BY <2>1, <2>2, <2>3
  <1>8. ASSUME NEW t \in Threads, PushPublish(t) PROVE TypeOK'
    <2>1. TypeQueue'
      BY <1>0, CapacityAssumption, <1>8 DEF PushPublish
    <2>2. TypeThreads'
      BY <1>8 DEF PushPublish
    <2>3. TypeHistory'
      BY <1>8 DEF PushPublish
    <2> QED
      BY <2>1, <2>2, <2>3
  <1>9. ASSUME NEW t \in Threads, PushSize(t) PROVE TypeOK'
    <2>1. TypeQueue'
      BY <1>9 DEF PushSize
    <2>2. TypeThreads'
      BY <1>9 DEF PushSize
    <2>3. TypeHistory'
      BY <1>9 DEF PushSize
    <2> QED
      BY <2>1, <2>2, <2>3
  <1>10. ASSUME NEW t \in Threads, PopCall(t) PROVE TypeOK'
    <2>1. TypeQueue'
      BY <1>10 DEF PopCall
    <2>2. TypeThreads'
      BY <1>10 DEF PopCall
    <2>3. TypeHistory'
      BY <1>10 DEF PopCall
    <2> QED
      BY <2>1, <2>2, <2>3
  <1>11. ASSUME NEW t \in Threads, ClearCall(t) PROVE TypeOK'
    <2>1. TypeQueue'
      BY <1>11 DEF ClearCall
    <2>2. TypeThreads'
      BY <1>11 DEF ClearCall
    <2>3. TypeHistory'
      BY <1>11 DEF ClearCall
    <2> QED
      BY <2>1, <2>2, <2>3
  <1>12. ASSUME NEW t \in Threads, PopLoad(t) PROVE TypeOK'
    <2>1. TypeQueue'
      BY <1>12 DEF PopLoad
    <2>2. TypeThreads'
      BY <1>12 DEF PopLoad
    <2>3. TypeHistory'
      BY <1>12 DEF PopLoad
    <2> QED
      BY <2>1, <2>2, <2>3
  <1>13. ASSUME NEW t \in Threads, PopLoop(t) PROVE TypeOK'
    <2>1. TypeQueue'
      BY <1>13 DEF PopLoop
    <2>2. TypeThreads'
      <3>1. CASE Return(t)
        BY <3>1, ReturnTypes
      <3>2. CASE ~Return(t)
        <4> HIDE DEF Return
        <4> QED BY <1>13, <3>2 DEF PopLoop
      <3> QED
        BY <3>1, <3>2
    <2>3. TypeHistory'
      BY <1>13 DEF PopLoop
    <2> QED
      BY <2>1, <2>2, <2>3
  <1>14. ASSUME NEW t \in Threads, PopSeq(t) PROVE TypeOK'
    <2>1. TypeQueue'
      BY <1>14 DEF PopSeq
    <2>2. TypeThreads'
      <3>1. CASE Return(t)
        BY <3>1, ReturnTypes
      <3>2. CASE ~Return(t)
        <4> HIDE DEF Return
        <4> QED BY <1>14, <3>2 DEF PopSeq
      <3> QED
        BY <3>1, <3>2
    <2>3. TypeHistory'
      BY <1>14 DEF PopSeq
    <2> QED
      BY <2>1, <2>2, <2>3
  <1>15. ASSUME NEW t \in Threads, PopCas(t) PROVE TypeOK'
    <2>1. TypeQueue'
      BY <1>15 DEF PopCas
    <2>2. TypeThreads'
      BY <1>15 DEF PopCas
    <2>3. TypeHistory'
      BY <1>15 DEF PopCas
    <2> QED
      BY <2>1, <2>2, <2>3
  <1>16. ASSUME NEW t \in Threads, PopTake(t) PROVE TypeOK'
    <2>1. TypeQueue'
      BY <1>0, CapacityAssumption, <1>16 DEF PopTake
    <2>2. TypeThreads'
      BY <1>0, <1>16 DEF PopTake
    <2>3. TypeHistory'
      BY <1>16 DEF PopTake
    <2> QED
      BY <2>1, <2>2, <2>3
  <1>17. ASSUME NEW t \in Threads, PopRelease(t) PROVE TypeOK'
    <2>1. TypeQueue'
      BY <1>0, CapacityAssumption, <1>17 DEF PopRelease
    <2>2. TypeThreads'
      BY <1>17 DEF PopRelease
    <2>3. TypeHistory'
      BY <1>17 DEF PopRelease
    <2> QED
      BY <2>1, <2>2, <2>3
  <1>18. ASSUME NEW t \in Threads, PopSize(t) PROVE TypeOK'
    <2>1. TypeQueue'
      BY <1>18 DEF PopSize
    <2>2. TypeThreads'
      BY <1>18 DEF PopSize
    <2>3. TypeHistory'
      BY <1>18 DEF PopSize
    <2> QED
      BY <2>1, <2>2, <2>3
  <1>19. CASE UNCHANGED vars
    BY <1>19 DEF vars
  <1> QED
    BY <1>1, <1>2, <1>3, <1>4, <1>5, <1>6, <1>7, <1>8, <1>9, <1>10, <1>11, <1>12, <1>13, <1>14, <1>15, <1>16, <1>17, <1>18, <1>19
    DEF Next, Call, Step

\* The type invariant holds of every behaviour of the queue.
THEOREM TypeCorrect == Spec => []TypeOK
  <1>1. Init => TypeOK
    <2> SUFFICES ASSUME Init PROVE TypeOK
      OBVIOUS
    <2> USE CapacityAssumption DEF Init, Null
    <2>1. TypeQueue
      <3>1. Slots \subseteq Nat
        BY DEF Slots
      <3>2. seq \in [Slots -> Nat]
        BY <3>1
      <3>3. val \in [Slots -> Nat]
        OBVIOUS
      <3>4. head \in Nat /\ tail \in Nat /\ size \in Int
        OBVIOUS
      <3>5. shutdown \in BOOLEAN
        OBVIOUS
      <3> HIDE DEF Init
      <3> QED
        BY <3>2, <3>3, <3>4, <3>5 DEF TypeQueue
    <2>2. TypeThreads
      BY DEF TypeThreads, Labels
    <2>3. TypeHistory
      BY DEF TypeHistory
    <2> QED
      BY <2>1, <2>2, <2>3 DEF TypeOK
  <1> QED
    BY <1>1, TypeStep, PTL DEF Spec

-----------------------------------------------------------------------------
(* The ring invariant *)

\* Two different positions of the window are in different slots.
LEMMA Window ==
  ASSUME NEW a \in Nat, NEW p \in Nat, NEW q \in Nat, p # q,
         a <= p, p < a + Capacity, a <= q, q < a + Capacity
  PROVE  Slot(p) # Slot(q)
  <1>1. CASE p < q
    BY <1>1, SlotInjective, CapacityAssumption
  <1>2. CASE q < p
    BY <1>2, SlotInjective, CapacityAssumption
  <1> QED
    BY <1>1, <1>2

\* With at least two slots, a position whose slot carries its own token is not
\* a whole lap ahead of tail: the window still has room for it.  With a single
\* slot this is false, and so is everything below.
LEMMA RoomForClaim ==
  ASSUME Capacity >= 2, TypeOK, RingInv, seq[Slot(head)] = head
  PROVE  /\ head < tail + Capacity
         /\ \A t \in Threads : Popping(t) => head < pos[t] + Capacity
  <1> USE CapacityAssumption DEF TypeOK, TypeQueue, TypeThreads
  <1>1. ASSUME head = tail + Capacity PROVE FALSE
    <2>1. tail \in tail .. (head - 1)
      BY <1>1
    <2>2. seq[Slot(tail)] = tail \/ seq[Slot(tail)] = tail + 1
      BY <2>1 DEF RingInv, LiveSlots
    <2>3. Slot(tail) = Slot(head)
      BY <1>1, SlotNextLap
    <2> QED
      BY <1>1, <2>2, <2>3
  <1>2. ASSUME NEW t \in Threads, Popping(t), head = pos[t] + Capacity PROVE FALSE
    <2>1. Slot(pos[t]) = Slot(head)
      BY <1>2, SlotNextLap
    <2>2. seq[Slot(pos[t])] = pos[t] + 1
      BY <1>2 DEF RingInv, PopOwners
    <2> QED
      BY <1>2, <2>1, <2>2
  <1>3. head <= tail + Capacity
    BY DEF RingInv, CursorOrder
  <1>4. \A t \in Threads : Popping(t) => head <= pos[t] + Capacity
    BY DEF RingInv, PopOwners
  <1> QED
    BY <1>1, <1>2, <1>3, <1>4

\* A slot that is published at tail is live.
LEMMA PublishedIsLive ==
  ASSUME TypeOK, RingInv, seq[Slot(tail)] = tail + 1
  PROVE  tail < head /\ val[Slot(tail)] = pushed[tail + 1]
  <1> USE CapacityAssumption DEF TypeOK, TypeQueue
  <1>1. ASSUME tail = head PROVE FALSE
    <2>1. tail \in head .. (tail + Capacity - 1)
      BY <1>1
    <2> QED
      BY <2>1 DEF RingInv, FreeSlots
  <1>2. tail < head
    BY <1>1 DEF RingInv, CursorOrder
  <1>3. tail \in tail .. (head - 1)
    BY <1>2
  <1> QED
    BY <1>2, <1>3 DEF RingInv, LiveSlots


\* What a step changes of thread t, and of no other thread.
OnlyThread(t) ==
  /\ \A u \in Threads : u # t => pc'[u] = pc[u] /\ pos'[u] = pos[u] /\ item'[u] = item[u]

\* A step of one thread that touches neither the cursors nor a slot preserves
\* the invariant if the thread owns nothing afterwards and what it believes of
\* its position is true.
LEMMA LocalStep ==
  ASSUME RingInv, NEW t \in Threads, OnlyThread(t),
         UNCHANGED <<seq, val, head, tail, pushed>>,
         ~Owns(t)', pc'[t] # "pop_size",
         PushTrying(t)' => pos'[t] <= head,
         PopTrying(t)' => pos'[t] <= tail,
         pc'[t] = "push_cas" /\ pos'[t] = head => seq[Slot(head)] = head,
         pc'[t] = "pop_cas" /\ pos'[t] = tail => seq[Slot(tail)] = tail + 1
  PROVE  RingInv'
  <1>1. CursorOrder' /\ LiveSlots' /\ FreeSlots'
    BY DEF RingInv, CursorOrder, LiveSlots, FreeSlots
  <1>2. PushOwners'
    BY DEF RingInv, PushOwners, OnlyThread, Owns, Pushing
  <1>3. PopOwners'
    BY DEF RingInv, PopOwners, OnlyThread, Owns, Popping
  <1>4. Readers'
    BY DEF RingInv, Readers, OnlyThread, PushTrying, PopTrying
  <1>5. OneOwner'
    BY DEF RingInv, OneOwner, OnlyThread, Owns, Pushing, Popping
  <1> QED
    BY <1>1, <1>2, <1>3, <1>4, <1>5 DEF RingInv


\* Winning the compare-and-swap on __head.
LEMMA ClaimPush ==
  ASSUME Capacity >= 2, TypeOK, RingInv, NEW t \in Threads, PushCas(t), head' = head + 1
  PROVE  RingInv'
  <1> USE CapacityAssumption DEF TypeOK, TypeQueue, TypeThreads, TypeHistory
  <1>1. /\ pc[t] = "push_cas" /\ pos[t] = head
        /\ pushed' = Append(pushed, item[t])
        /\ pc' = [pc EXCEPT ![t] = "push_write"]
        /\ UNCHANGED <<seq, val, tail, pos, item>>
    BY DEF PushCas, At, Goto
  <1>2. seq[Slot(head)] = head
    BY <1>1 DEF RingInv, Readers
  <1>3. /\ head < tail + Capacity
        /\ \A u \in Threads : Popping(u) => head < pos[u] + Capacity
    BY <1>2, RoomForClaim
  <1>4. /\ \A p \in 1 .. head : pushed'[p] = pushed[p]
        /\ pushed'[head + 1] = item[t]
    BY <1>1
  <1>5. /\ \A u \in Threads : u # t => pc'[u] = pc[u]
        /\ pc'[t] = "push_write"
    BY <1>1
  <1>6. CursorOrder'
    BY <1>1, <1>3 DEF RingInv, CursorOrder
  <1>7. LiveSlots'
    <2> SUFFICES ASSUME NEW p \in tail .. head
                 PROVE  \/ seq[Slot(p)] = p
                        \/ seq[Slot(p)] = p + 1 /\ val[Slot(p)] = pushed'[p + 1]
      BY <1>1 DEF LiveSlots
    <2>1. CASE p = head
      BY <1>2, <2>1
    <2>2. CASE p # head
      <3>1. p \in tail .. (head - 1) /\ p + 1 \in 1 .. head
        BY <2>2
      <3> QED
        BY <1>4, <3>1 DEF RingInv, LiveSlots
    <2> QED
      BY <2>1, <2>2
  <1>8. FreeSlots'
    BY <1>1 DEF RingInv, FreeSlots
  <1>9. PushOwners'
    <2> SUFFICES ASSUME NEW u \in Threads
                 PROVE  /\ Pushing(u)' => /\ tail <= pos[u] /\ pos[u] < head + 1
                                          /\ seq[Slot(pos[u])] = pos[u]
                        /\ pc'[u] = "push_write" => item[u] = pushed'[pos[u] + 1]
                        /\ pc'[u] = "push_publish" => val[Slot(pos[u])] = pushed'[pos[u] + 1]
      BY <1>1 DEF PushOwners, Pushing
    <2>1. CASE u = t
      BY <1>1, <1>2, <1>4, <1>5, <2>1 DEF RingInv, CursorOrder
    <2>2. CASE u # t
      <3>1. Pushing(u)' <=> Pushing(u)
        BY <1>5, <2>2 DEF Pushing
      <3>2. Pushing(u) => pos[u] + 1 \in 1 .. head
        BY DEF RingInv, PushOwners
      <3>3. pc[u] \in {"push_write", "push_publish"} => Pushing(u)
        BY DEF Pushing
      <3> QED
        BY <1>4, <1>5, <2>2, <3>1, <3>2, <3>3 DEF RingInv, PushOwners
    <2> QED
      BY <2>1, <2>2
  <1>10. PopOwners'
    <2> SUFFICES ASSUME NEW u \in Threads, u # t
                 PROVE  /\ Popping(u) => /\ pos[u] < tail /\ head + 1 <= pos[u] + Capacity
                                         /\ seq[Slot(pos[u])] = pos[u] + 1
                        /\ pc[u] = "pop_take" => val[Slot(pos[u])] = pushed'[pos[u] + 1]
                        /\ pc[u] \in {"pop_release", "pop_size"} =>
                              pos[u] < tail /\ item[u] = pushed'[pos[u] + 1]
      BY <1>1, <1>5 DEF PopOwners, Popping
    <2>1. pc[u] \in {"pop_take", "pop_release", "pop_size"} => pos[u] + 1 \in 1 .. head
      BY DEF RingInv, PopOwners, Popping, CursorOrder
    <2> QED
      BY <1>3, <1>4, <2>1 DEF RingInv, PopOwners
  <1>11. Readers'
    BY <1>1, <1>5 DEF RingInv, Readers, PushTrying, PopTrying
  <1>12. OneOwner'
    <2>1. \A u \in Threads : u # t /\ Pushing(u) => pos[u] < pos[t]
      BY <1>1 DEF RingInv, PushOwners
    <2> QED
      BY <1>1, <1>5, <2>1 DEF RingInv, OneOwner, Pushing, Popping
  <1> QED
    BY <1>6, <1>7, <1>8, <1>9, <1>10, <1>11, <1>12 DEF RingInv


\* Winning the compare-and-swap on __tail.
LEMMA ClaimPop ==
  ASSUME TypeOK, RingInv, NEW t \in Threads, PopCas(t), tail' = tail + 1
  PROVE  RingInv'
  <1> USE CapacityAssumption DEF TypeOK, TypeQueue, TypeThreads, TypeHistory
  <1>1. /\ pc[t] = "pop_cas" /\ pos[t] = tail
        /\ pc' = [pc EXCEPT ![t] = "pop_take"]
        /\ UNCHANGED <<seq, val, head, pos, item, pushed>>
    BY DEF PopCas, At, Goto, history
  <1>2. seq[Slot(tail)] = tail + 1
    BY <1>1 DEF RingInv, Readers
  <1>3. tail < head /\ val[Slot(tail)] = pushed[tail + 1]
    BY <1>2, PublishedIsLive
  <1>4. /\ \A u \in Threads : u # t => pc'[u] = pc[u]
        /\ pc'[t] = "pop_take"
    BY <1>1
  <1>5. CursorOrder'
    BY <1>1, <1>3 DEF RingInv, CursorOrder
  <1>6. LiveSlots'
    BY <1>1 DEF RingInv, LiveSlots
  <1>7. FreeSlots'
    <2> SUFFICES ASSUME NEW p \in head .. (tail + Capacity)
                 PROVE  \/ seq[Slot(p)] = p
                        \/ p >= Capacity /\ seq[Slot(p)] = p - Capacity + 1
      BY <1>1 DEF FreeSlots
    <2>1. CASE p = tail + Capacity
      <3>1. Slot(tail + Capacity) = Slot(tail)
        BY SlotNextLap
      <3> QED
        BY <1>2, <2>1, <3>1
    <2>2. CASE p # tail + Capacity
      BY <2>2 DEF RingInv, FreeSlots
    <2> QED
      BY <2>1, <2>2
  <1>8. PushOwners'
    <2> SUFFICES ASSUME NEW u \in Threads, u # t
                 PROVE  Pushing(u) => pos[u] # tail
      BY <1>1, <1>4 DEF RingInv, PushOwners, Pushing
    <2> QED
      BY <1>2 DEF RingInv, PushOwners
  <1>9. PopOwners'
    <2> SUFFICES ASSUME NEW u \in Threads
                 PROVE  /\ Popping(u)' => /\ pos[u] < tail + 1 /\ head <= pos[u] + Capacity
                                          /\ seq[Slot(pos[u])] = pos[u] + 1
                        /\ pc'[u] = "pop_take" => val[Slot(pos[u])] = pushed[pos[u] + 1]
                        /\ pc'[u] \in {"pop_release", "pop_size"} =>
                              pos[u] < tail + 1 /\ item[u] = pushed[pos[u] + 1]
      BY <1>1 DEF PopOwners, Popping
    <2>1. CASE u = t
      BY <1>1, <1>2, <1>3, <1>4, <2>1 DEF RingInv, CursorOrder
    <2>2. CASE u # t
      <3>1. Popping(u)' <=> Popping(u)
        BY <1>4, <2>2 DEF Popping
      <3> QED
        BY <1>4, <2>2, <3>1 DEF RingInv, PopOwners
    <2> QED
      BY <2>1, <2>2
  <1>10. Readers'
    BY <1>1, <1>4 DEF RingInv, Readers, PushTrying, PopTrying
  <1>11. OneOwner'
    <2>1. \A u \in Threads : u # t /\ Popping(u) => pos[u] < pos[t]
      BY <1>1 DEF RingInv, PopOwners
    <2> QED
      BY <1>1, <1>4, <2>1 DEF RingInv, OneOwner, Pushing, Popping
  <1> QED
    BY <1>5, <1>6, <1>7, <1>8, <1>9, <1>10, <1>11 DEF RingInv

\* The slot of a pushing thread is the slot of its position and of no other
\* position of the window.
LEMMA PushSlot ==
  ASSUME TypeOK, RingInv, NEW t \in Threads, Pushing(t)
  PROVE  /\ Slot(pos[t]) \in Slots
         /\ \A p \in tail .. (tail + Capacity - 1) : p # pos[t] => Slot(p) # Slot(pos[t])
  <1> USE CapacityAssumption DEF TypeOK, TypeQueue, TypeThreads
  <1>1. tail <= pos[t] /\ pos[t] < tail + Capacity
    BY DEF RingInv, PushOwners, CursorOrder
  <1>2. ASSUME NEW p \in tail .. (tail + Capacity - 1), p # pos[t]
        PROVE  Slot(p) # Slot(pos[t])
    <2>1. p \in Nat /\ tail <= p /\ p < tail + Capacity
      BY <1>2
    <2> QED
      BY <1>1, <1>2, <2>1, Window
  <1>3. Slot(pos[t]) \in Slots
    BY SlotInRange
  <1> QED
    BY <1>2, <1>3

\* The slot of a popping thread is the one its position has a lap later.
LEMMA PopSlot ==
  ASSUME TypeOK, RingInv, NEW t \in Threads, Popping(t)
  PROVE  /\ Slot(pos[t]) \in Slots
         /\ Slot(pos[t]) = Slot(pos[t] + Capacity)
         /\ \A p \in tail .. (tail + Capacity - 1) :
                p # pos[t] + Capacity => Slot(p) # Slot(pos[t])
  <1> USE CapacityAssumption DEF TypeOK, TypeQueue, TypeThreads
  <1>1. tail <= pos[t] + Capacity /\ pos[t] + Capacity < tail + Capacity
    BY DEF RingInv, PopOwners, CursorOrder
  <1>2. Slot(pos[t]) = Slot(pos[t] + Capacity)
    BY SlotNextLap
  <1>3. ASSUME NEW p \in tail .. (tail + Capacity - 1), p # pos[t] + Capacity
        PROVE  Slot(p) # Slot(pos[t] + Capacity)
    <2>1. p \in Nat /\ tail <= p /\ p < tail + Capacity
      BY <1>3
    <2> QED
      BY <1>1, <1>3, <2>1, Window
  <1>4. Slot(pos[t]) \in Slots
    BY SlotInRange
  <1> QED
    BY <1>2, <1>3, <1>4

\* The invariant implies that no two threads own a slot.
LEMMA RingExclusive == TypeOK /\ RingInv => ExclusiveSlot
  <1> SUFFICES ASSUME TypeOK, RingInv, NEW t \in Threads, NEW u \in Threads,
                      Owns(t), Owns(u), Slot(pos[t]) = Slot(pos[u])
               PROVE  t = u
    BY DEF ExclusiveSlot
  <1> USE CapacityAssumption DEF TypeOK, TypeQueue, TypeThreads
  <1>1. CASE Pushing(t) /\ Pushing(u)
    <2>1. pos[u] \in tail .. (tail + Capacity - 1)
      BY <1>1 DEF RingInv, PushOwners, CursorOrder
    <2> QED
      BY <1>1, <2>1, PushSlot DEF RingInv, OneOwner
  <1>2. CASE Popping(t) /\ Popping(u)
    <2>1. pos[u] + Capacity \in tail .. (tail + Capacity - 1)
      BY <1>2 DEF RingInv, PopOwners, CursorOrder
    <2>2. pos[u] + Capacity = pos[t] + Capacity
      BY <1>2, <2>1, PopSlot
    <2> QED
      BY <1>2, <2>2 DEF RingInv, OneOwner
  <1>3. ASSUME NEW v \in Threads, NEW w \in Threads, Pushing(v), Popping(w)
        PROVE  Slot(pos[v]) # Slot(pos[w])
    <2>1. pos[v] \in tail .. (tail + Capacity - 1) /\ pos[v] # pos[w] + Capacity
      BY <1>3 DEF RingInv, PushOwners, PopOwners, CursorOrder
    <2> QED
      BY <1>3, <2>1, PopSlot
  <1> QED
    BY <1>1, <1>2, <1>3 DEF Owns


\* Storing the element in the claimed slot.
LEMMA WriteStep ==
  ASSUME TypeOK, RingInv, NEW t \in Threads, PushWrite(t)
  PROVE  RingInv'
  <1> USE CapacityAssumption DEF TypeOK, TypeQueue, TypeThreads, TypeHistory
  <1>1. /\ Pushing(t)
        /\ pc' = [pc EXCEPT ![t] = "push_publish"]
        /\ val' = [val EXCEPT ![Slot(pos[t])] = item[t]]
        /\ UNCHANGED <<seq, head, tail, pos, pushed>>
    BY DEF PushWrite, At, Goto, history, Pushing
  <1>2. /\ Slot(pos[t]) \in Slots
        /\ \A p \in tail .. (tail + Capacity - 1) : p # pos[t] => Slot(p) # Slot(pos[t])
    BY <1>1, PushSlot
  <1>3. /\ \A u \in Threads : u # t => pc'[u] = pc[u]
        /\ pc'[t] = "push_publish"
    BY <1>1
  <1>4. \A u \in Threads : u # t /\ Owns(u) => Slot(pos[u]) # Slot(pos[t])
    BY <1>1, RingExclusive DEF ExclusiveSlot, Owns
  <1>5. CursorOrder' /\ FreeSlots'
    BY <1>1 DEF RingInv, CursorOrder, FreeSlots
  <1>6. LiveSlots'
    <2> SUFFICES ASSUME NEW p \in tail .. (head - 1), seq[Slot(p)] = p + 1
                 PROVE  val'[Slot(p)] = val[Slot(p)]
      BY <1>1 DEF RingInv, LiveSlots
    <2>1. p # pos[t]
      BY <1>1 DEF RingInv, PushOwners
    <2>2. p \in tail .. (tail + Capacity - 1)
      BY DEF RingInv, CursorOrder
    <2>3. Slot(p) \in Slots
      BY SlotInRange
    <2> QED
      BY <1>1, <1>2, <2>1, <2>2, <2>3
  <1>7. PushOwners'
    <2> SUFFICES ASSUME NEW u \in Threads
                 PROVE  /\ Pushing(u)' => /\ tail <= pos[u] /\ pos[u] < head
                                          /\ seq[Slot(pos[u])] = pos[u]
                        /\ pc'[u] = "push_write" => item'[u] = pushed[pos[u] + 1]
                        /\ pc'[u] = "push_publish" => val'[Slot(pos[u])] = pushed[pos[u] + 1]
      BY <1>1 DEF PushOwners, Pushing
    <2>1. CASE u = t
      BY <1>1, <1>2, <1>3, <2>1 DEF RingInv, PushOwners, Pushing, PushWrite, At
    <2>2. CASE u # t
      <3>1. /\ Pushing(u)' <=> Pushing(u)
            /\ item'[u] = item[u]
        BY <1>3, <2>2 DEF Pushing, PushWrite
      <3>2. Pushing(u) => val'[Slot(pos[u])] = val[Slot(pos[u])]
        BY <1>1, <1>4, <2>2, SlotInRange DEF Owns
      <3> QED
        BY <1>3, <2>2, <3>1, <3>2 DEF RingInv, PushOwners, Pushing
    <2> QED
      BY <2>1, <2>2
  <1>8. PopOwners'
    <2> SUFFICES ASSUME NEW u \in Threads, u # t
                 PROVE  /\ item'[u] = item[u]
                        /\ pc[u] = "pop_take" => val'[Slot(pos[u])] = val[Slot(pos[u])]
      BY <1>1, <1>3 DEF RingInv, PopOwners, Popping
    <2> QED
      BY <1>1, <1>4, SlotInRange DEF Owns, Popping, PushWrite
  <1>9. Readers'
    BY <1>1, <1>3 DEF RingInv, Readers, PushTrying, PopTrying
  <1>10. OneOwner'
    BY <1>1, <1>3 DEF RingInv, OneOwner, Pushing, Popping
  <1> QED
    BY <1>5, <1>6, <1>7, <1>8, <1>9, <1>10 DEF RingInv

\* Advancing the token of a pushed slot.
LEMMA PublishStep ==
  ASSUME Capacity >= 2, TypeOK, RingInv, NEW t \in Threads, PushPublish(t)
  PROVE  RingInv'
  <1> USE CapacityAssumption DEF TypeOK, TypeQueue, TypeThreads, TypeHistory
  <1>1. /\ Pushing(t)
        /\ pc' = [pc EXCEPT ![t] = "push_size"]
        /\ seq' = [seq EXCEPT ![Slot(pos[t])] = pos[t] + 1]
        /\ UNCHANGED <<val, head, tail, pos, item, pushed>>
    BY DEF PushPublish, At, Goto, history, Pushing
  <1>2. /\ Slot(pos[t]) \in Slots
        /\ \A p \in tail .. (tail + Capacity - 1) : p # pos[t] => Slot(p) # Slot(pos[t])
    BY <1>1, PushSlot
  <1>3. /\ \A u \in Threads : u # t => pc'[u] = pc[u]
        /\ pc'[t] = "push_size"
    BY <1>1
  <1>4. \A u \in Threads : u # t /\ Owns(u) => Slot(pos[u]) # Slot(pos[t])
    BY <1>1, RingExclusive DEF ExclusiveSlot, Owns
  <1>5. \A p \in tail .. (tail + Capacity - 1) :
            p # pos[t] => seq'[Slot(p)] = seq[Slot(p)]
    BY <1>1, <1>2, SlotInRange
  <1>6. CursorOrder'
    BY <1>1 DEF RingInv, CursorOrder
  <1>7. LiveSlots'
    <2> SUFFICES ASSUME NEW p \in tail .. (head - 1)
                 PROVE  \/ seq'[Slot(p)] = p
                        \/ seq'[Slot(p)] = p + 1 /\ val[Slot(p)] = pushed[p + 1]
      BY <1>1 DEF LiveSlots
    <2>1. CASE p = pos[t]
      BY <1>1, <1>2, <2>1 DEF RingInv, PushOwners, PushPublish, At
    <2>2. CASE p # pos[t]
      <3>1. p \in tail .. (tail + Capacity - 1)
        BY DEF RingInv, CursorOrder
      <3> QED
        BY <1>5, <2>2, <3>1 DEF RingInv, LiveSlots
    <2> QED
      BY <2>1, <2>2
  <1>8. FreeSlots'
    <2> SUFFICES ASSUME NEW p \in head .. (tail + Capacity - 1)
                 PROVE  seq'[Slot(p)] = seq[Slot(p)]
      BY <1>1 DEF RingInv, FreeSlots
    <2>1. p \in tail .. (tail + Capacity - 1) /\ p # pos[t]
      BY <1>1 DEF RingInv, PushOwners, CursorOrder
    <2> QED
      BY <1>5, <2>1
  <1>9. \A u \in Threads : u # t /\ Owns(u) => seq'[Slot(pos[u])] = seq[Slot(pos[u])]
    BY <1>1, <1>4, SlotInRange
  <1>10. PushOwners'
    BY <1>1, <1>3, <1>9 DEF RingInv, PushOwners, Pushing, Owns
  <1>11. PopOwners'
    BY <1>1, <1>3, <1>9 DEF RingInv, PopOwners, Popping, Owns
  <1>12. Readers'
    <2>1. ASSUME NEW u \in Threads, pc[u] = "push_cas", pos[u] = head
          PROVE  seq'[Slot(head)] = head
      <3>1. seq[Slot(head)] = head
        BY <2>1 DEF RingInv, Readers
      <3>2. head \in tail .. (tail + Capacity - 1) /\ head # pos[t]
        BY <1>1, <3>1, RoomForClaim DEF RingInv, CursorOrder, PushOwners
      <3> QED
        BY <1>5, <3>1, <3>2
    <2>2. ASSUME NEW u \in Threads, pc[u] = "pop_cas", pos[u] = tail
          PROVE  seq'[Slot(tail)] = tail + 1
      <3>1. seq[Slot(tail)] = tail + 1
        BY <2>2 DEF RingInv, Readers
      <3>2. tail \in tail .. (tail + Capacity - 1) /\ tail # pos[t]
        BY <1>1, <3>1 DEF RingInv, PushOwners
      <3> QED
        BY <1>5, <3>1, <3>2
    <2> QED
      BY <1>1, <1>3, <2>1, <2>2 DEF RingInv, Readers, PushTrying, PopTrying
  <1>13. OneOwner'
    BY <1>1, <1>3 DEF RingInv, OneOwner, Pushing, Popping
  <1> QED
    BY <1>6, <1>7, <1>8, <1>10, <1>11, <1>12, <1>13 DEF RingInv

\* Swapping the element out of the claimed slot.
LEMMA TakeStep ==
  ASSUME TypeOK, RingInv, NEW t \in Threads, PopTake(t)
  PROVE  RingInv'
  <1> USE CapacityAssumption DEF TypeOK, TypeQueue, TypeThreads, TypeHistory
  <1>1. /\ Popping(t)
        /\ pc' = [pc EXCEPT ![t] = "pop_release"]
        /\ val' = [val EXCEPT ![Slot(pos[t])] = Null]
        /\ UNCHANGED <<seq, head, tail, pos, pushed>>
    BY DEF PopTake, At, Goto, history, Popping
  <1>2. /\ Slot(pos[t]) \in Slots
        /\ \A p \in tail .. (tail + Capacity - 1) :
               p # pos[t] + Capacity => Slot(p) # Slot(pos[t])
    BY <1>1, PopSlot
  <1>3. /\ \A u \in Threads : u # t => pc'[u] = pc[u]
        /\ pc'[t] = "pop_release"
    BY <1>1
  <1>4. \A u \in Threads : u # t /\ Owns(u) => Slot(pos[u]) # Slot(pos[t])
    BY <1>1, RingExclusive DEF ExclusiveSlot, Owns
  <1>5. CursorOrder' /\ FreeSlots'
    BY <1>1 DEF RingInv, CursorOrder, FreeSlots
  <1>6. LiveSlots'
    <2> SUFFICES ASSUME NEW p \in tail .. (head - 1)
                 PROVE  val'[Slot(p)] = val[Slot(p)]
      BY <1>1 DEF RingInv, LiveSlots
    <2>1. p # pos[t] + Capacity /\ p \in tail .. (tail + Capacity - 1)
      BY <1>1 DEF RingInv, PopOwners, CursorOrder
    <2>2. Slot(p) \in Slots
      BY SlotInRange
    <2> QED
      BY <1>1, <1>2, <2>1, <2>2
  <1>7. \A u \in Threads : u # t /\ Owns(u) => val'[Slot(pos[u])] = val[Slot(pos[u])]
    BY <1>1, <1>4, SlotInRange
  <1>8. \A u \in Threads : u # t => item'[u] = item[u]
    BY DEF PopTake
  <1>9. PushOwners'
    BY <1>1, <1>3, <1>7, <1>8 DEF RingInv, PushOwners, Pushing, Owns
  <1>10. PopOwners'
    <2> SUFFICES ASSUME NEW u \in Threads
                 PROVE  /\ Popping(u)' => /\ pos[u] < tail /\ head <= pos[u] + Capacity
                                          /\ seq[Slot(pos[u])] = pos[u] + 1
                        /\ pc'[u] = "pop_take" => val'[Slot(pos[u])] = pushed[pos[u] + 1]
                        /\ pc'[u] \in {"pop_release", "pop_size"} =>
                              pos[u] < tail /\ item'[u] = pushed[pos[u] + 1]
      BY <1>1 DEF PopOwners, Popping
    <2>1. CASE u = t
      <3>1. item'[t] = pushed[pos[t] + 1]
        BY DEF RingInv, PopOwners, PopTake, At
      <3> QED
        BY <1>1, <1>3, <2>1, <3>1 DEF RingInv, PopOwners
    <2>2. CASE u # t
      BY <1>3, <1>7, <1>8, <2>2 DEF RingInv, PopOwners, Popping, Owns
    <2> QED
      BY <2>1, <2>2
  <1>11. Readers'
    BY <1>1, <1>3 DEF RingInv, Readers, PushTrying, PopTrying
  <1>12. OneOwner'
    BY <1>1, <1>3 DEF RingInv, OneOwner, Pushing, Popping
  <1> QED
    BY <1>5, <1>6, <1>9, <1>10, <1>11, <1>12 DEF RingInv

\* Advancing the token of a popped slot to the next lap.
LEMMA ReleaseStep ==
  ASSUME Capacity >= 2, TypeOK, RingInv, NEW t \in Threads, PopRelease(t)
  PROVE  RingInv'
  <1> USE CapacityAssumption DEF TypeOK, TypeQueue, TypeThreads, TypeHistory
  <1>1. /\ Popping(t)
        /\ pc' = [pc EXCEPT ![t] = "pop_size"]
        /\ seq' = [seq EXCEPT ![Slot(pos[t])] = pos[t] + Capacity]
        /\ UNCHANGED <<val, head, tail, pos, item, pushed>>
    BY DEF PopRelease, At, Goto, history, Popping
  <1>2. /\ Slot(pos[t]) \in Slots
        /\ Slot(pos[t]) = Slot(pos[t] + Capacity)
        /\ \A p \in tail .. (tail + Capacity - 1) :
               p # pos[t] + Capacity => Slot(p) # Slot(pos[t])
    BY <1>1, PopSlot
  <1>3. /\ \A u \in Threads : u # t => pc'[u] = pc[u]
        /\ pc'[t] = "pop_size"
    BY <1>1
  <1>4. \A u \in Threads : u # t /\ Owns(u) => Slot(pos[u]) # Slot(pos[t])
    BY <1>1, RingExclusive DEF ExclusiveSlot, Owns
  <1>5. \A p \in tail .. (tail + Capacity - 1) :
            p # pos[t] + Capacity => seq'[Slot(p)] = seq[Slot(p)]
    BY <1>1, <1>2, SlotInRange
  <1>6. CursorOrder'
    BY <1>1 DEF RingInv, CursorOrder
  <1>7. LiveSlots'
    <2> SUFFICES ASSUME NEW p \in tail .. (head - 1)
                 PROVE  seq'[Slot(p)] = seq[Slot(p)]
      BY <1>1 DEF RingInv, LiveSlots
    <2>1. p \in tail .. (tail + Capacity - 1) /\ p # pos[t] + Capacity
      BY <1>1 DEF RingInv, PopOwners, CursorOrder
    <2> QED
      BY <1>5, <2>1
  <1>8. FreeSlots'
    <2> SUFFICES ASSUME NEW p \in head .. (tail + Capacity - 1)
                 PROVE  \/ seq'[Slot(p)] = p
                        \/ p >= Capacity /\ seq'[Slot(p)] = p - Capacity + 1
      BY <1>1 DEF FreeSlots
    <2>1. CASE p = pos[t] + Capacity
      BY <1>1, <1>2, <2>1
    <2>2. CASE p # pos[t] + Capacity
      <3>1. p \in tail .. (tail + Capacity - 1)
        BY DEF RingInv, CursorOrder
      <3> QED
        BY <1>5, <2>2, <3>1 DEF RingInv, FreeSlots
    <2> QED
      BY <2>1, <2>2
  <1>9. \A u \in Threads : u # t /\ Owns(u) => seq'[Slot(pos[u])] = seq[Slot(pos[u])]
    BY <1>1, <1>4, SlotInRange
  <1>10. PushOwners'
    BY <1>1, <1>3, <1>9 DEF RingInv, PushOwners, Pushing, Owns
  <1>11. PopOwners'
    <2>1. pos[t] < tail /\ item[t] = pushed[pos[t] + 1]
      BY DEF RingInv, PopOwners, PopRelease, At
    <2> QED
      BY <1>1, <1>3, <1>9, <2>1 DEF RingInv, PopOwners, Popping, Owns
  <1>12. Readers'
    <2>1. ASSUME NEW u \in Threads, pc[u] = "push_cas", pos[u] = head
          PROVE  seq'[Slot(head)] = head
      <3>1. seq[Slot(head)] = head
        BY <2>1 DEF RingInv, Readers
      <3>2. head \in tail .. (tail + Capacity - 1) /\ head # pos[t] + Capacity
        BY <1>1, <3>1, RoomForClaim DEF RingInv, CursorOrder
      <3> QED
        BY <1>5, <3>1, <3>2
    <2>2. ASSUME NEW u \in Threads, pc[u] = "pop_cas", pos[u] = tail
          PROVE  seq'[Slot(tail)] = tail + 1
      <3>1. seq[Slot(tail)] = tail + 1
        BY <2>2 DEF RingInv, Readers
      <3>2. tail < head
        BY <3>1, PublishedIsLive
      <3>3. tail \in tail .. (tail + Capacity - 1) /\ tail # pos[t] + Capacity
        BY <1>1, <3>2 DEF RingInv, PopOwners
      <3> QED
        BY <1>5, <3>1, <3>3
    <2> QED
      BY <1>1, <1>3, <2>1, <2>2 DEF RingInv, Readers, PushTrying, PopTrying
  <1>13. OneOwner'
    BY <1>1, <1>3 DEF RingInv, OneOwner, Pushing, Popping
  <1> QED
    BY <1>6, <1>7, <1>8, <1>10, <1>11, <1>12, <1>13 DEF RingInv

\* Every step of the queue preserves the ring invariant.
LEMMA RingStep ==
  ASSUME Capacity >= 2
  PROVE  TypeOK /\ RingInv /\ [Next]_vars => RingInv'
  <1> SUFFICES ASSUME TypeOK, RingInv, [Next]_vars PROVE RingInv'
    OBVIOUS
  <1>1. ASSUME NEW t \in Threads, PushCall(t) PROVE RingInv'
    <2>1. OnlyThread(t) /\ UNCHANGED <<seq, val, head, tail, pushed>>
      BY <1>1 DEF PushCall, Goto, Return, shared, history, OnlyThread, TypeOK, TypeThreads
    <2>2. pc'[t] \in {"push_load"}
      BY <1>1 DEF PushCall, At, Goto, Return, shared, TypeOK, TypeThreads
    <2> QED
      BY <2>1, <2>2, LocalStep DEF Owns, Pushing, Popping, PushTrying, PopTrying, TypeOK, TypeQueue
  <1>2. ASSUME NEW t \in Threads, PushLoad(t) PROVE RingInv'
    <2>1. OnlyThread(t) /\ UNCHANGED <<seq, val, head, tail, pushed>>
      BY <1>2 DEF PushLoad, Goto, Return, shared, history, OnlyThread, TypeOK, TypeThreads
    <2>2. pc'[t] \in {"push_loop"} /\ pos'[t] = head
      BY <1>2 DEF PushLoad, At, Goto, Return, shared, TypeOK, TypeThreads, TypeQueue
    <2> QED
      BY <2>1, <2>2, LocalStep DEF Owns, Pushing, Popping, PushTrying, PopTrying, TypeOK, TypeQueue
  <1>3. ASSUME NEW t \in Threads, PushLoop(t) PROVE RingInv'
    <2>1. OnlyThread(t) /\ UNCHANGED <<seq, val, head, tail, pushed>>
      BY <1>3 DEF PushLoop, Goto, Return, shared, history, OnlyThread, TypeOK, TypeThreads
    <2>2. pc'[t] \in {"idle", "push_seq"} /\ (pc'[t] = "push_seq" => pos'[t] <= head)
      BY <1>3 DEF PushLoop, At, Goto, Return, shared, TypeOK, TypeThreads, TypeQueue, RingInv, Readers, PushTrying, PopTrying
    <2> QED
      BY <2>1, <2>2, LocalStep DEF Owns, Pushing, Popping, PushTrying, PopTrying, TypeOK, TypeQueue
  <1>4. ASSUME NEW t \in Threads, PushSeq(t) PROVE RingInv'
    <2>1. Slot(pos[t]) \in Slots /\ pos[t] \in Nat
      BY SlotInRange DEF TypeOK, TypeThreads
    <2>2. OnlyThread(t) /\ UNCHANGED <<seq, val, head, tail, pushed>>
      BY <1>4 DEF PushSeq, Goto, Return, shared, history, OnlyThread, TypeOK, TypeThreads
    <2>3. /\ ~Owns(t)' /\ pc'[t] # "pop_size"
          /\ pc'[t] \in {"idle", "push_cas", "push_loop", "push_load"}
          /\ pc'[t] # "idle" => pos'[t] = pos[t]
      BY <1>4 DEF PushSeq, Goto, Return, Owns, Pushing, Popping, TypeOK, TypeThreads
    <2>4. pos[t] <= head
      BY <1>4 DEF PushSeq, At, RingInv, Readers, PushTrying
    <2>5. pc'[t] = "push_cas" => seq[Slot(pos[t])] = pos[t]
      BY <1>4, <2>1 DEF PushSeq, Goto, Return, TypeOK, TypeThreads, TypeQueue
    <2> QED
      BY <2>2, <2>3, <2>4, <2>5, LocalStep DEF PushTrying, PopTrying
  <1>5. ASSUME NEW t \in Threads, PushSize(t) PROVE RingInv'
    <2>1. OnlyThread(t) /\ UNCHANGED <<seq, val, head, tail, pushed>>
      BY <1>5 DEF PushSize, Goto, Return, shared, history, OnlyThread, TypeOK, TypeThreads
    <2>2. pc'[t] \in {"idle"}
      BY <1>5 DEF PushSize, At, Goto, Return, shared, TypeOK, TypeThreads
    <2> QED
      BY <2>1, <2>2, LocalStep DEF Owns, Pushing, Popping, PushTrying, PopTrying, TypeOK, TypeQueue
  <1>6. ASSUME NEW t \in Threads, PopCall(t) PROVE RingInv'
    <2>1. OnlyThread(t) /\ UNCHANGED <<seq, val, head, tail, pushed>>
      BY <1>6 DEF PopCall, Goto, Return, shared, history, OnlyThread, TypeOK, TypeThreads
    <2>2. pc'[t] \in {"pop_load"}
      BY <1>6 DEF PopCall, At, Goto, Return, shared, TypeOK, TypeThreads
    <2> QED
      BY <2>1, <2>2, LocalStep DEF Owns, Pushing, Popping, PushTrying, PopTrying, TypeOK, TypeQueue
  <1>7. ASSUME NEW t \in Threads, ClearCall(t) PROVE RingInv'
    <2>1. OnlyThread(t) /\ UNCHANGED <<seq, val, head, tail, pushed>>
      BY <1>7 DEF ClearCall, Goto, Return, shared, history, OnlyThread, TypeOK, TypeThreads
    <2>2. pc'[t] \in {"pop_load"}
      BY <1>7 DEF ClearCall, At, Goto, Return, shared, TypeOK, TypeThreads
    <2> QED
      BY <2>1, <2>2, LocalStep DEF Owns, Pushing, Popping, PushTrying, PopTrying, TypeOK, TypeQueue
  <1>8. ASSUME NEW t \in Threads, PopLoad(t) PROVE RingInv'
    <2>1. OnlyThread(t) /\ UNCHANGED <<seq, val, head, tail, pushed>>
      BY <1>8 DEF PopLoad, Goto, Return, shared, history, OnlyThread, TypeOK, TypeThreads
    <2>2. pc'[t] \in {"pop_loop"} /\ pos'[t] = tail
      BY <1>8 DEF PopLoad, At, Goto, Return, shared, TypeOK, TypeThreads, TypeQueue
    <2> QED
      BY <2>1, <2>2, LocalStep DEF Owns, Pushing, Popping, PushTrying, PopTrying, TypeOK, TypeQueue
  <1>9. ASSUME NEW t \in Threads, PopLoop(t) PROVE RingInv'
    <2>1. OnlyThread(t) /\ UNCHANGED <<seq, val, head, tail, pushed>>
      BY <1>9 DEF PopLoop, Goto, Return, shared, history, OnlyThread, TypeOK, TypeThreads
    <2>2. pc'[t] \in {"idle", "pop_seq"} /\ (pc'[t] = "pop_seq" => pos'[t] <= tail)
      BY <1>9 DEF PopLoop, At, Goto, Return, shared, TypeOK, TypeThreads, TypeQueue, RingInv, Readers, PushTrying, PopTrying
    <2> QED
      BY <2>1, <2>2, LocalStep DEF Owns, Pushing, Popping, PushTrying, PopTrying, TypeOK, TypeQueue
  <1>10. ASSUME NEW t \in Threads, PopSeq(t) PROVE RingInv'
    <2>1. Slot(pos[t]) \in Slots /\ pos[t] \in Nat
      BY SlotInRange DEF TypeOK, TypeThreads
    <2>2. OnlyThread(t) /\ UNCHANGED <<seq, val, head, tail, pushed>>
      BY <1>10 DEF PopSeq, Goto, Return, shared, history, OnlyThread, TypeOK, TypeThreads
    <2>3. /\ ~Owns(t)' /\ pc'[t] # "pop_size"
          /\ pc'[t] \in {"idle", "pop_cas", "pop_loop", "pop_load"}
          /\ pc'[t] # "idle" => pos'[t] = pos[t]
      BY <1>10 DEF PopSeq, Goto, Return, Owns, Pushing, Popping, TypeOK, TypeThreads
    <2>4. pos[t] <= tail
      BY <1>10 DEF PopSeq, At, RingInv, Readers, PopTrying
    <2>5. pc'[t] = "pop_cas" => seq[Slot(pos[t])] = pos[t] + 1
      BY <1>10, <2>1 DEF PopSeq, Goto, Return, TypeOK, TypeThreads, TypeQueue
    <2> QED
      BY <2>2, <2>3, <2>4, <2>5, LocalStep DEF PushTrying, PopTrying
  <1>11. ASSUME NEW t \in Threads, PopSize(t) PROVE RingInv'
    <2>1. OnlyThread(t) /\ UNCHANGED <<seq, val, head, tail, pushed>>
      BY <1>11 DEF PopSize, Goto, Return, shared, history, OnlyThread, TypeOK, TypeThreads
    <2>2. pc'[t] \in {"idle", "pop_load"}
      BY <1>11 DEF PopSize, At, Goto, Return, shared, TypeOK, TypeThreads
    <2> QED
      BY <2>1, <2>2, LocalStep DEF Owns, Pushing, Popping, PushTrying, PopTrying, TypeOK, TypeQueue
  <1>12. ASSUME NEW t \in Threads, PushCas(t) PROVE RingInv'
    <2>1. CASE head' = head + 1
      BY <1>12, <2>1, ClaimPush
    <2>2. CASE ~(head' = head + 1)
      <3>1. OnlyThread(t) /\ UNCHANGED <<seq, val, head, tail, pushed>>
        BY <1>12, <2>2 DEF PushCas, Goto, history, OnlyThread, TypeOK, TypeThreads
      <3>2. pc'[t] = "push_loop" /\ pos'[t] = head
        BY <1>12, <2>2 DEF PushCas, Goto, TypeOK, TypeThreads
      <3> QED
        BY <3>1, <3>2, LocalStep DEF Owns, Pushing, Popping, PushTrying, PopTrying, TypeOK, TypeQueue
    <2> QED
      BY <2>1, <2>2
  <1>13. ASSUME NEW t \in Threads, PopCas(t) PROVE RingInv'
    <2>1. CASE tail' = tail + 1
      BY <1>13, <2>1, ClaimPop
    <2>2. CASE ~(tail' = tail + 1)
      <3>1. OnlyThread(t) /\ UNCHANGED <<seq, val, head, tail, pushed>>
        BY <1>13, <2>2 DEF PopCas, Goto, history, OnlyThread, TypeOK, TypeThreads
      <3>2. pc'[t] = "pop_loop" /\ pos'[t] = tail
        BY <1>13, <2>2 DEF PopCas, Goto, TypeOK, TypeThreads
      <3> QED
        BY <3>1, <3>2, LocalStep DEF Owns, Pushing, Popping, PushTrying, PopTrying, TypeOK, TypeQueue
    <2> QED
      BY <2>1, <2>2
  <1>14. ASSUME NEW t \in Threads, PushWrite(t) PROVE RingInv'
    BY <1>14, WriteStep
  <1>15. ASSUME NEW t \in Threads, PushPublish(t) PROVE RingInv'
    BY <1>15, PublishStep
  <1>16. ASSUME NEW t \in Threads, PopTake(t) PROVE RingInv'
    BY <1>16, TakeStep
  <1>17. ASSUME NEW t \in Threads, PopRelease(t) PROVE RingInv'
    BY <1>17, ReleaseStep
  <1>18. ASSUME UNCHANGED <<seq, val, head, tail, pushed, pc, pos, item>> PROVE RingInv'
    BY <1>18 DEF RingInv, CursorOrder, LiveSlots, FreeSlots, PushOwners, PopOwners, Readers,
                OneOwner, Pushing, Popping, PushTrying, PopTrying
  <1>19. CASE Shutdown
    BY <1>19, <1>18 DEF Shutdown, history
  <1>20. CASE UNCHANGED vars
    BY <1>20, <1>18 DEF vars
  <1> QED
    BY <1>1, <1>2, <1>3, <1>4, <1>5, <1>6, <1>7, <1>8, <1>9, <1>10, <1>11, <1>12, <1>13, <1>14, <1>15, <1>16, <1>17, <1>19, <1>20
    DEF Next, Call, Step

\* In every behaviour of a queue of at least two slots each slot is in the phase
\* its position implies; this is what the other safety theorems follow from.
THEOREM RingCorrect ==
  ASSUME Capacity >= 2
  PROVE  Spec => []RingInv
  <1>1. Init => RingInv
    <2> SUFFICES ASSUME Init PROVE RingInv
      OBVIOUS
    <2>1. ASSUME NEW p \in 0 .. (Capacity - 1) PROVE seq[Slot(p)] = p
      <3>1. p \in Slots
        BY DEF Slots
      <3>2. p % Capacity = p
        BY CapacityAssumption
      <3>3. seq[p] = p
        BY <3>1 DEF Init
      <3> QED BY <3>2, <3>3 DEF Slot
    <2>2. head = 0 /\ tail = 0
      BY DEF Init
    <2>3. CursorOrder
      BY <2>2, CapacityAssumption DEF CursorOrder
    <2>4. LiveSlots
      BY <2>2 DEF LiveSlots
    <2>5. FreeSlots
      BY <2>1, <2>2, CapacityAssumption DEF FreeSlots
    <2>6. PushOwners /\ PopOwners /\ Readers /\ OneOwner
      BY DEF Init, PushOwners, PopOwners, Readers, OneOwner, Pushing, Popping,
             PushTrying, PopTrying
    <2> QED
      BY <2>3, <2>4, <2>5, <2>6 DEF RingInv
  <1>2. TypeOK /\ RingInv /\ [Next]_vars => RingInv'
    BY RingStep
  <1> QED
    BY <1>1, <1>2, TypeCorrect, PTL DEF Spec

\* No two threads ever own the same slot: the plain accesses to a slot's value
\* do not race (queue.h:27-33).
THEOREM SlotsNeverShared ==
  ASSUME Capacity >= 2
  PROVE  Spec => []ExclusiveSlot
  <1>1. Spec => []RingInv
    BY RingCorrect
  <1> QED
    BY <1>1, TypeCorrect, RingExclusive, PTL

\* The cursors never pass each other and at most Capacity positions are live
\* (queue.h:62 and 97-98).
THEOREM CursorsOrdered ==
  ASSUME Capacity >= 2
  PROVE  Spec => []CursorOrder
  <1>1. Spec => []RingInv
    BY RingCorrect
  <1>2. RingInv => CursorOrder
    BY DEF RingInv
  <1> QED
    BY <1>1, <1>2, PTL

\* The element a pop returns is the one pushed at the position it claimed.
THEOREM FifoOrder ==
  ASSUME Capacity >= 2
  PROVE  Spec => []Fifo
  <1>1. Spec => []RingInv
    BY RingCorrect
  <1>2. RingInv => Fifo
    BY DEF RingInv, PopOwners, Fifo
  <1> QED
    BY <1>1, <1>2, PTL

=============================================================================
