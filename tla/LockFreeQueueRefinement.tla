---------------------- MODULE LockFreeQueueRefinement -----------------------
(***************************************************************************)
(* Proofs about what becomes of the elements of LockFreeQueue, for any set *)
(* of threads, any number of pushes and any capacity of at least two: none *)
(* is lost or doubled, the counter is right, no call is refused without a  *)
(* cause, and the queue implements BoundedFifo.                            *)
(***************************************************************************)
EXTENDS LockFreeQueueProofs, FiniteSetTheorems

\* Where a thread has an element in its hands, and where it has not claimed a
\* position for it yet.
Unclaimed == {"push_load", "push_loop", "push_seq", "push_cas"}
Carrying  == Unclaimed \union {"push_write", "pop_release", "pop_size"}

\* A thread carries an element exactly there, and nothing but elements of push
\* calls is carried, stored, returned or given up.
Known ==
    /\ born \in 0 .. MaxPush
    /\ \A t \in Threads : IF pc[t] \in Carrying THEN item[t] \in 1 .. born ELSE item[t] = Null
    /\ \A i \in Slots : val[i] \in 0 .. born
    /\ delivered \subseteq 1 .. born /\ dropped \subseteq 1 .. born

\* No element is in two places.
OnePlace ==
    /\ \A t, u \in Threads : item[t] = item[u] /\ item[t] # Null => t = u
    /\ \A i, j \in Slots : val[i] = val[j] /\ val[i] # Null => i = j
    /\ \A t \in Threads, i \in Slots : item[t] = val[i] => item[t] = Null
    /\ \A t \in Threads : item[t] \notin delivered /\ item[t] \notin dropped
    /\ \A i \in Slots : val[i] \notin delivered /\ val[i] \notin dropped
    /\ \A e \in delivered : e \notin dropped

\* Every element is somewhere.
SomePlace ==
    \A e \in 1 .. born :
        \/ \E t \in Threads : item[t] = e
        \/ \E i \in Slots : val[i] = e
        \/ e \in delivered
        \/ e \in dropped

\* A slot that a push is about to write to is empty.
EmptySlots ==
    /\ \A p \in head .. (tail + Capacity - 1) : seq[Slot(p)] = p => val[Slot(p)] = Null
    /\ \A t \in Threads : pc[t] \in {"push_write", "pop_release"} => val[Slot(pos[t])] = Null

\* Positions are claimed for elements of push calls, for each element once.
Claims ==
    /\ \A k \in 1 .. head : pushed[k] \in 1 .. born
    /\ \A t \in Threads : pc[t] \in Unclaimed => \A k \in 1 .. head : pushed[k] # item[t]

\* The calls that have moved a cursor and have not adjusted __size yet.
Ahead  == {t \in Threads : pc[t] \in {"push_write", "push_publish", "push_size"}}
Behind == {t \in Threads : pc[t] \in {"pop_take", "pop_release", "pop_size"}}

Counted ==
    /\ IsFiniteSet(Ahead) /\ IsFiniteSet(Behind)
    /\ size = (head - tail) - Cardinality(Ahead) + Cardinality(Behind)

\* A pop at a position that has been popped finds a later token.
Stale == \A t \in Threads : PopTrying(t) /\ pos[t] < tail => seq[Slot(pos[t])] > pos[t]

\* What becomes of the elements.
AccountInv == Known /\ OnePlace /\ SomePlace /\ EmptySlots /\ Claims /\ Counted /\ Stale

-----------------------------------------------------------------------------
(* Steps that move no element.                                             *)

LocalLabels == {"idle", "pop_load", "pop_loop", "pop_seq", "pop_cas"} \union Unclaimed

\* A thread looks at the queue, and changes nothing but what it knows of it.
Local(t) ==
    /\ OnlyThread(t) /\ item'[t] = item[t]
    /\ UNCHANGED <<seq, val, head, tail, size, born, pushed, delivered, dropped>>
    /\ pc[t] \in LocalLabels /\ pc'[t] \in LocalLabels
    /\ pc[t] \in Unclaimed <=> pc'[t] \in Unclaimed
    /\ PopTrying(t)' => pos'[t] = tail \/ (PopTrying(t) /\ pos'[t] = pos[t])

\* The steps of that kind: loads, failed compare-and-swaps, calls of pop and
\* clear, and the returns of a pop with nothing in hand.
LEMMA LocalSteps ==
    ASSUME TypeOK, Known, NEW t \in Threads,
           \/ PushLoad(t) \/ (PushLoop(t) /\ ~shutdown) \/ PushSeq(t)
           \/ (PushCas(t) /\ head' # head + 1)
           \/ PopCall(t) \/ ClearCall(t) \/ PopLoad(t) \/ PopLoop(t) \/ PopSeq(t)
           \/ (PopCas(t) /\ tail' # tail + 1)
    PROVE  Local(t)
<1> USE DEF TypeOK, TypeQueue, TypeThreads, At, Goto, shared, history, OnlyThread, LocalLabels,
            Unclaimed, PopTrying
<1>1. CASE PushLoad(t)
  BY <1>1 DEF PushLoad, Local
<1>2. CASE PushLoop(t) /\ ~shutdown
  BY <1>2 DEF PushLoop, Local
<1>3. CASE PushSeq(t)
  BY <1>3 DEF PushSeq, Local
<1>4. CASE PushCas(t) /\ head' # head + 1
  BY <1>4 DEF PushCas, Local
<1>5. CASE PopCall(t) \/ ClearCall(t)
  BY <1>5 DEF PopCall, ClearCall, Local
<1>6. CASE PopLoad(t)
  BY <1>6 DEF PopLoad, Local
<1>7. CASE PopLoop(t)
  <2>1. item[t] = Null
    BY <1>7 DEF Known, Carrying, PopLoop
  <2> QED BY <1>7, <2>1 DEF PopLoop, Local, Return
<1>8. CASE PopSeq(t)
  <2>1. item[t] = Null
    BY <1>8 DEF Known, Carrying, PopSeq
  <2> QED BY <1>8, <2>1 DEF PopSeq, Local, Return
<1>9. CASE PopCas(t) /\ tail' # tail + 1
  BY <1>9 DEF PopCas, Local
<1> QED BY <1>1, <1>2, <1>3, <1>4, <1>5, <1>6, <1>7, <1>8, <1>9

\* A step that moves no element keeps every element where it is.
LEMMA PlacesKept ==
    ASSUME AccountInv, \A u \in Threads : item'[u] = item[u],
           UNCHANGED <<val, born, delivered, dropped>>
    PROVE  OnePlace' /\ SomePlace'
<1>1. OnePlace /\ SomePlace
  BY DEF AccountInv
<1>2. OnePlace'
  BY <1>1 DEF OnePlace
<1>3. SomePlace'
  BY <1>1 DEF SomePlace
<1> QED BY <1>2, <1>3

\* They keep every element where it is.
LEMMA LocalAccount ==
    ASSUME TypeOK, AccountInv, NEW t \in Threads, Local(t)
    PROVE  AccountInv'
<1>1. /\ \A u \in Threads : item'[u] = item[u] /\ (u # t => pc'[u] = pc[u] /\ pos'[u] = pos[u])
      /\ UNCHANGED <<seq, val, head, tail, size, born, pushed, delivered, dropped>>
      /\ pc[t] \in LocalLabels /\ pc'[t] \in LocalLabels
      /\ pc[t] \in Unclaimed <=> pc'[t] \in Unclaimed
  BY DEF Local, OnlyThread
<1>2. \A u \in Threads : /\ pc'[u] \in Carrying <=> pc[u] \in Carrying
                         /\ pc'[u] \in Unclaimed <=> pc[u] \in Unclaimed
                         /\ pc'[u] \in LocalLabels \/ (pc'[u] = pc[u] /\ pos'[u] = pos[u])
  BY <1>1 DEF Carrying, LocalLabels, Unclaimed
<1>3. Known'
  BY <1>1, <1>2 DEF AccountInv, Known
<1>4. OnePlace' /\ SomePlace'
  BY <1>1, PlacesKept
<1>5. EmptySlots'
  BY <1>1, <1>2 DEF AccountInv, EmptySlots, LocalLabels, Unclaimed
<1>6. Claims'
  BY <1>1, <1>2 DEF AccountInv, Claims
<1>7. Counted'
  <2>1. Ahead' = Ahead /\ Behind' = Behind
    BY <1>1 DEF Ahead, Behind, LocalLabels, Unclaimed
  <2> QED BY <2>1, <1>1 DEF AccountInv, Counted
<1>8. Stale'
  BY <1>1 DEF TypeOK, TypeQueue, AccountInv, Stale, Local, PopTrying
<1> QED BY <1>3, <1>4, <1>5, <1>6, <1>7, <1>8 DEF AccountInv

\* Who has adjusted __size changes it by one and leaves the set of those that
\* have not; who moves a cursor joins it.
LEMMA JoinOrLeave ==
    ASSUME NEW S, NEW t, IsFiniteSet(S)
    PROVE  /\ Cardinality(S) \in Int
           /\ t \notin S => /\ IsFiniteSet(S \union {t})
                            /\ Cardinality(S \union {t}) = Cardinality(S) + 1
           /\ t \in S => /\ IsFiniteSet(S \ {t})
                         /\ Cardinality(S \ {t}) = Cardinality(S) - 1
<1>1. Cardinality(S) \in Nat
  BY FS_CardinalityType
<1>2. t \notin S => /\ IsFiniteSet(S \union {t})
                    /\ Cardinality(S \union {t}) = Cardinality(S) + 1
  BY FS_AddElement
<1>3. t \in S => IsFiniteSet(S \ {t}) /\ Cardinality(S \ {t}) = Cardinality(S) - 1
  BY FS_RemoveElement
<1> QED BY <1>1, <1>2, <1>3

\* A step that goes on with what it has done keeps the set of those.
LEMMA SameCount ==
    ASSUME AccountInv, NEW t \in Threads, OnlyThread(t), UNCHANGED <<head, tail, size>>,
           t \in Ahead' <=> t \in Ahead, t \in Behind' <=> t \in Behind
    PROVE  Counted'
<1>1. Ahead' = Ahead /\ Behind' = Behind
  BY DEF Ahead, Behind, OnlyThread
<1> QED BY <1>1 DEF AccountInv, Counted

-----------------------------------------------------------------------------
(* push.                                                                   *)

\* A call of push brings a new element.
LEMMA PushCallAccount ==
    ASSUME TypeOK, AccountInv, NEW t \in Threads, PushCall(t)
    PROVE  AccountInv'
<1> USE DEF Null
<1>1. /\ OnlyThread(t) /\ pc[t] = "idle" /\ pc'[t] = "push_load" /\ item'[t] = born + 1
      /\ born < MaxPush /\ born' = born + 1 /\ born \in Nat
      /\ UNCHANGED <<seq, val, head, tail, size, pushed, delivered, dropped>>
  BY DEF PushCall, At, Goto, shared, OnlyThread, TypeOK, TypeThreads, TypeHistory
<1>2. \A u \in Threads : u # t => pc'[u] = pc[u] /\ pos'[u] = pos[u] /\ item'[u] = item[u]
  BY <1>1 DEF OnlyThread
<1>3. /\ \A u \in Threads : item[u] \in 0 .. born
      /\ \A i \in Slots : val[i] \in 0 .. born
      /\ \A e \in delivered \union dropped : e \in 1 .. born
      /\ item[t] = Null
  <2>1. Known
    BY DEF AccountInv
  <2>2. \A u \in Threads : item[u] \in 1 .. born \/ item[u] = Null
    BY <2>1 DEF Known
  <2>3. \A u \in Threads : item[u] \in 0 .. born
    BY <2>2, <1>1
  <2>4. item[t] = Null
    BY <2>1, <1>1 DEF Known, Carrying, Unclaimed
  <2> QED BY <2>1, <2>3, <2>4 DEF Known
<1>4. Known'
  <2>1. born' \in 0 .. MaxPush
    BY <1>1, MaxPushAssumption
  <2>2. \A u \in Threads : IF pc'[u] \in Carrying THEN item'[u] \in 1 .. born' ELSE item'[u] = Null
    <3>1. TAKE u \in Threads
    <3>2. CASE u = t
      BY <3>2, <1>1 DEF Carrying, Unclaimed
    <3>3. CASE u # t
      BY <3>3, <1>1, <1>2 DEF AccountInv, Known
    <3> QED BY <3>2, <3>3
  <2>3. \A i \in Slots : val'[i] \in 0 .. born'
    BY <1>1, <1>3
  <2>4. delivered' \subseteq 1 .. born' /\ dropped' \subseteq 1 .. born'
    BY <1>1, <1>3
  <2> QED BY <2>1, <2>2, <2>3, <2>4 DEF Known
<1>5. OnePlace'
  <2>1. \A u \in Threads : u # t => item'[u] = item[u] /\ item[u] # born + 1
    BY <1>1, <1>2, <1>3
  <2>2. /\ \A i \in Slots : val'[i] = val[i] /\ val[i] # born + 1
        /\ \A e \in delivered \union dropped : e # born + 1
    BY <1>1, <1>3
  <2> QED BY <2>1, <2>2, <1>1 DEF AccountInv, OnePlace
<1>6. SomePlace'
  <2>1. SUFFICES ASSUME NEW e \in 1 .. born'
                 PROVE  \/ \E u \in Threads : item'[u] = e
                        \/ \E i \in Slots : val'[i] = e
                        \/ e \in delivered'
                        \/ e \in dropped'
    BY DEF SomePlace
  <2>2. CASE e = born + 1
    BY <2>2, <1>1
  <2>3. CASE e # born + 1
    <3>1. e \in 1 .. born /\ e # Null
      BY <2>3, <1>1
    <3> QED BY <3>1, <1>1, <1>2, <1>3 DEF AccountInv, SomePlace
  <2> QED BY <2>2, <2>3
<1>7. EmptySlots'
  BY <1>1, <1>2 DEF AccountInv, EmptySlots
<1>8. Claims'
  <2>1. \A k \in 1 .. head : pushed[k] \in 1 .. born' /\ pushed[k] # born + 1
    BY <1>1 DEF AccountInv, Claims
  <2> QED BY <2>1, <1>1, <1>2 DEF AccountInv, Claims
<1>9. Counted'
  BY <1>1, SameCount DEF Ahead, Behind
<1>10. Stale'
  BY <1>1, <1>2 DEF AccountInv, Stale, PopTrying
<1> QED BY <1>4, <1>5, <1>6, <1>7, <1>8, <1>9, <1>10 DEF AccountInv

\* A push gives its element up at shutdown.
LEMMA PushDropAccount ==
    ASSUME TypeOK, AccountInv, NEW t \in Threads, PushLoop(t), shutdown
    PROVE  AccountInv'
<1> USE DEF Null
<1>1. /\ OnlyThread(t) /\ pc[t] = "push_loop" /\ pc'[t] = "idle" /\ item'[t] = Null
      /\ dropped' = dropped \union {item[t]}
      /\ UNCHANGED <<seq, val, head, tail, size, born, pushed, delivered>>
  BY DEF PushLoop, Return, At, Goto, shared, OnlyThread, TypeOK, TypeThreads
<1>2. \A u \in Threads : u # t => pc'[u] = pc[u] /\ pos'[u] = pos[u] /\ item'[u] = item[u]
  BY <1>1 DEF OnlyThread
<1>3. item[t] \in 1 .. born /\ item[t] # Null
  BY <1>1 DEF AccountInv, Known, Carrying, Unclaimed
<1>4. Known'
  <2>1. \A u \in Threads : IF pc'[u] \in Carrying THEN item'[u] \in 1 .. born ELSE item'[u] = Null
    BY <1>1, <1>2 DEF AccountInv, Known, Carrying, Unclaimed
  <2> QED BY <2>1, <1>1, <1>3 DEF AccountInv, Known
<1>5. OnePlace'
  <2>1. \A u \in Threads : item'[u] = item[u] \/ (u = t /\ item'[u] = Null)
    BY <1>1, <1>2
  <2>2. Null \notin delivered /\ Null \notin dropped'
    BY <1>1, <1>3 DEF AccountInv, Known
  <2>3. \A u \in Threads : item'[u] # item[t]
    BY <1>1, <1>2, <1>3 DEF AccountInv, OnePlace
  <2> QED BY <2>1, <2>2, <2>3, <1>1, <1>3 DEF AccountInv, OnePlace
<1>6. SomePlace'
  BY <1>1, <1>2 DEF AccountInv, SomePlace
<1>7. EmptySlots'
  BY <1>1, <1>2 DEF AccountInv, EmptySlots
<1>8. Claims'
  BY <1>1, <1>2 DEF AccountInv, Claims, Unclaimed
<1>9. Counted'
  BY <1>1, SameCount DEF Ahead, Behind
<1>10. Stale'
  BY <1>1, <1>2 DEF AccountInv, Stale, PopTrying
<1> QED BY <1>4, <1>5, <1>6, <1>7, <1>8, <1>9, <1>10 DEF AccountInv

\* A position is claimed; nothing was claimed for the element before, and the
\* slot is empty.
LEMMA PushClaimAccount ==
    ASSUME Capacity >= 2, TypeOK, RingInv, AccountInv, NEW t \in Threads, PushCas(t),
           head' = head + 1
    PROVE  AccountInv'
<1> USE DEF Null
<1>1. /\ OnlyThread(t) /\ pc[t] = "push_cas" /\ pc'[t] = "push_write" /\ item'[t] = item[t]
      /\ pos[t] = head /\ pos'[t] = head /\ pushed' = Append(pushed, item[t])
      /\ UNCHANGED <<seq, val, tail, size, born, delivered, dropped>>
      /\ head \in Nat /\ tail \in Nat /\ pushed \in Seq(Nat) /\ Len(pushed) = head
      /\ item[t] \in Nat /\ size \in Int
  BY DEF PushCas, At, Goto, OnlyThread, TypeOK, TypeThreads, TypeQueue, TypeHistory
<1>2. \A u \in Threads : item'[u] = item[u] /\ (u # t => pc'[u] = pc[u] /\ pos'[u] = pos[u])
  BY <1>1 DEF OnlyThread
<1>3. seq[Slot(head)] = head
  BY <1>1 DEF RingInv, Readers
<1>4. head < tail + Capacity
  BY <1>3, RoomForClaim
<1>5. /\ \A k \in 1 .. head : pushed'[k] = pushed[k]
      /\ pushed'[head + 1] = item[t]
  BY <1>1
<1>6. item[t] \in 1 .. born /\ born \in Nat
  BY <1>1 DEF AccountInv, Known, Carrying, Unclaimed
<1>7. Known'
  <2>1. \A u \in Threads : pc'[u] \in Carrying <=> pc[u] \in Carrying
    BY <1>1, <1>2 DEF Carrying, Unclaimed
  <2> QED BY <2>1, <1>1, <1>2 DEF AccountInv, Known
<1>8. OnePlace' /\ SomePlace'
  BY <1>1, <1>2, PlacesKept
<1>9. EmptySlots'
  <2>1. head \in head .. (tail + Capacity - 1)
    BY <1>1, <1>4, CapacityAssumption
  <2>2. val[Slot(head)] = Null
    BY <2>1, <1>3 DEF AccountInv, EmptySlots
  <2>3. \A p \in head' .. (tail + Capacity - 1) : p \in head .. (tail + Capacity - 1)
    BY <1>1, CapacityAssumption
  <2>4. \A p \in head' .. (tail + Capacity - 1) : seq[Slot(p)] = p => val[Slot(p)] = Null
    BY <2>3 DEF AccountInv, EmptySlots
  <2>5. \A u \in Threads : pc'[u] \in {"push_write", "pop_release"} => val[Slot(pos'[u])] = Null
    BY <2>2, <1>1, <1>2 DEF AccountInv, EmptySlots
  <2> QED BY <2>4, <2>5, <1>1 DEF EmptySlots
<1>10. Claims'
  <2>1. \A k \in 1 .. head' : k = head + 1 \/ k \in 1 .. head
    BY <1>1
  <2>2. \A k \in 1 .. head' : pushed'[k] \in 1 .. born
    BY <2>1, <1>5, <1>6 DEF AccountInv, Claims
  <2>3. ASSUME NEW u \in Threads, pc'[u] \in Unclaimed, NEW k \in 1 .. head'
        PROVE  pushed'[k] # item'[u]
    <3>1. u # t /\ pc[u] \in Unclaimed
      BY <2>3, <1>1, <1>2 DEF Unclaimed
    <3>2. CASE k = head + 1
      BY <3>1, <3>2, <1>2, <1>5, <1>6 DEF AccountInv, OnePlace
    <3>3. CASE k \in 1 .. head
      BY <3>1, <3>3, <1>2, <1>5 DEF AccountInv, Claims
    <3> QED BY <3>2, <3>3, <2>1
  <2> QED BY <2>2, <2>3, <1>1 DEF Claims
<1>11. Counted'
  <2>1. Ahead' = Ahead \union {t} /\ t \notin Ahead /\ Behind' = Behind
    BY <1>1, <1>2 DEF Ahead, Behind
  <2>2. /\ IsFiniteSet(Ahead) /\ IsFiniteSet(Behind)
        /\ size = (head - tail) - Cardinality(Ahead) + Cardinality(Behind)
    BY DEF AccountInv, Counted
  <2>3. /\ IsFiniteSet(Ahead') /\ Cardinality(Ahead') = Cardinality(Ahead) + 1
        /\ Cardinality(Ahead) \in Int /\ Cardinality(Behind) \in Int
    BY <2>1, <2>2, JoinOrLeave
  <2> QED BY <2>1, <2>2, <2>3, <1>1 DEF Counted
<1>12. Stale'
  BY <1>1, <1>2 DEF AccountInv, Stale, PopTrying
<1> QED BY <1>7, <1>8, <1>9, <1>10, <1>11, <1>12 DEF AccountInv

\* The element goes from the thread's hand into the slot, which was empty.
LEMMA PushWriteAccount ==
    ASSUME TypeOK, RingInv, AccountInv, NEW t \in Threads, PushWrite(t)
    PROVE  AccountInv'
<1> USE DEF Null
<1> DEFINE s == Slot(pos[t])
<1>1. /\ OnlyThread(t) /\ pc[t] = "push_write" /\ pc'[t] = "push_publish" /\ item'[t] = Null
      /\ pos' = pos /\ val' = [val EXCEPT ![s] = item[t]]
      /\ UNCHANGED <<seq, head, tail, size, born, pushed, delivered, dropped>>
  BY DEF PushWrite, At, Goto, OnlyThread, history, TypeOK, TypeThreads
<1>2. \A u \in Threads : u # t => pc'[u] = pc[u] /\ item'[u] = item[u]
  BY <1>1 DEF OnlyThread
<1>3. Pushing(t) /\ Owns(t)
  BY <1>1 DEF Pushing, Owns
<1>4. /\ s \in Slots /\ val \in [Slots -> Nat]
      /\ \A p \in tail .. (tail + Capacity - 1) : p # pos[t] => Slot(p) # s
  BY <1>3, PushSlot DEF TypeOK, TypeQueue
<1>5. \A u \in Threads : u # t /\ Owns(u) => Slot(pos[u]) # s
  BY <1>3, RingExclusive DEF ExclusiveSlot
<1> HIDE DEF s
<1>6. /\ val'[s] = item[t] /\ \A i \in Slots : i # s => val'[i] = val[i]
  BY <1>1, <1>4
<1>7. item[t] \in 1 .. born /\ item[t] # Null /\ born \in Nat
  BY <1>1 DEF AccountInv, Known, Carrying
<1>8. val[s] = Null
  BY <1>1 DEF AccountInv, EmptySlots, s
<1>9. Known'
  <2>1. \A u \in Threads : IF pc'[u] \in Carrying THEN item'[u] \in 1 .. born ELSE item'[u] = Null
    BY <1>1, <1>2 DEF AccountInv, Known, Carrying, Unclaimed
  <2>2. \A i \in Slots : val'[i] \in 0 .. born
    BY <1>6, <1>7 DEF AccountInv, Known
  <2> QED BY <2>1, <2>2, <1>1 DEF AccountInv, Known
<1>10. OnePlace'
  <2>1. \A u \in Threads : item'[u] # item[t] /\ (item'[u] = item[u] \/ item'[u] = Null)
    BY <1>1, <1>2, <1>7 DEF AccountInv, OnePlace
  <2>2. \A i \in Slots : i # s => val'[i] # item[t] /\ val'[i] = val[i]
    BY <1>6, <1>7 DEF AccountInv, OnePlace
  <2>3. \A u, v \in Threads : item'[u] = item'[v] /\ item'[u] # Null => u = v
    BY <1>1, <1>2 DEF AccountInv, OnePlace
  <2>4. \A i, j \in Slots : val'[i] = val'[j] /\ val'[i] # Null => i = j
    BY <2>2, <1>6 DEF AccountInv, OnePlace
  <2>5. \A u \in Threads, i \in Slots : item'[u] = val'[i] => item'[u] = Null
    BY <2>1, <2>2, <1>6 DEF AccountInv, OnePlace
  <2>6. Null \notin delivered /\ Null \notin dropped
    BY DEF AccountInv, Known
  <2>7. \A u \in Threads : item'[u] \notin delivered /\ item'[u] \notin dropped
    BY <2>1, <2>6 DEF AccountInv, OnePlace
  <2>8. \A i \in Slots : val'[i] \notin delivered /\ val'[i] \notin dropped
    BY <1>6 DEF AccountInv, OnePlace
  <2> QED BY <2>3, <2>4, <2>5, <2>7, <2>8, <1>1 DEF AccountInv, OnePlace
<1>11. SomePlace'
  <2>1. SUFFICES ASSUME NEW e \in 1 .. born
                 PROVE  \/ \E u \in Threads : item'[u] = e
                        \/ \E i \in Slots : val'[i] = e
                        \/ e \in delivered
                        \/ e \in dropped
    BY <1>1 DEF SomePlace
  <2>2. ASSUME NEW u \in Threads, item[u] = e
        PROVE  (\E v \in Threads : item'[v] = e) \/ \E i \in Slots : val'[i] = e
    BY <2>2, <1>2, <1>4, <1>6
  <2>3. ASSUME NEW i \in Slots, val[i] = e PROVE val'[i] = e
    BY <2>3, <1>6, <1>7, <1>8
  <2> QED BY <2>2, <2>3 DEF AccountInv, SomePlace
<1>12. EmptySlots'
  <2>1. ASSUME NEW p \in head .. (tail + Capacity - 1), seq[Slot(p)] = p
        PROVE  val'[Slot(p)] = Null
    <3>1. p \in tail .. (tail + Capacity - 1) /\ p # pos[t] /\ p \in Nat
      BY <2>1, <1>3, CapacityAssumption
         DEF RingInv, PushOwners, CursorOrder, TypeOK, TypeQueue, TypeThreads
    <3>2. Slot(p) # s /\ Slot(p) \in Slots
      BY <3>1, <1>4, SlotInRange
    <3> QED BY <2>1, <3>2, <1>6 DEF AccountInv, EmptySlots
  <2>2. ASSUME NEW u \in Threads, pc'[u] \in {"push_write", "pop_release"}
        PROVE  val'[Slot(pos[u])] = Null
    <3>1. u # t /\ Owns(u) /\ pc[u] \in {"push_write", "pop_release"}
      BY <2>2, <1>1, <1>2 DEF Owns, Pushing, Popping
    <3>2. Slot(pos[u]) # s /\ Slot(pos[u]) \in Slots
      BY <3>1, <1>5, SlotInRange DEF TypeOK, TypeThreads
    <3> QED BY <3>1, <3>2, <1>6 DEF AccountInv, EmptySlots
  <2> QED BY <2>1, <2>2, <1>1 DEF EmptySlots
<1>13. Claims'
  BY <1>1, <1>2 DEF AccountInv, Claims, Unclaimed
<1>14. Counted'
  BY <1>1, SameCount DEF Ahead, Behind
<1>15. Stale'
  BY <1>1, <1>2 DEF AccountInv, Stale, PopTrying
<1> QED BY <1>9, <1>10, <1>11, <1>12, <1>13, <1>14, <1>15 DEF AccountInv

\* The token of a written slot is advanced.
LEMMA PushPublishAccount ==
    ASSUME TypeOK, RingInv, AccountInv, NEW t \in Threads, PushPublish(t)
    PROVE  AccountInv'
<1>1. /\ OnlyThread(t) /\ pc[t] = "push_publish" /\ pc'[t] = "push_size" /\ item' = item
      /\ pos' = pos /\ seq' = [seq EXCEPT ![Slot(pos[t])] = pos[t] + 1]
      /\ UNCHANGED <<val, head, tail, size, born, pushed, delivered, dropped>>
  BY DEF PushPublish, At, Goto, OnlyThread, history, TypeOK, TypeThreads
<1>2. \A u \in Threads : u # t => pc'[u] = pc[u]
  BY <1>1 DEF OnlyThread
<1>3. Pushing(t) /\ pos[t] \in Nat /\ seq \in [Slots -> Nat]
  BY <1>1 DEF Pushing, TypeOK, TypeThreads, TypeQueue
<1>4. /\ Slot(pos[t]) \in Slots
      /\ \A p \in tail .. (tail + Capacity - 1) : p # pos[t] => Slot(p) # Slot(pos[t])
  BY <1>3, PushSlot
<1>5. Known'
  <2>1. \A u \in Threads : pc'[u] \in Carrying <=> pc[u] \in Carrying
    BY <1>1, <1>2 DEF Carrying, Unclaimed
  <2> QED BY <2>1, <1>1 DEF AccountInv, Known
<1>6. OnePlace' /\ SomePlace'
  BY <1>1, PlacesKept
<1>7. EmptySlots'
  <2>1. ASSUME NEW p \in head .. (tail + Capacity - 1), seq'[Slot(p)] = p
        PROVE  val[Slot(p)] = Null
    <3>1. p \in tail .. (tail + Capacity - 1) /\ p # pos[t] /\ p \in Nat
      BY <2>1, <1>3, CapacityAssumption
         DEF RingInv, PushOwners, CursorOrder, TypeOK, TypeQueue, TypeThreads
    <3>2. Slot(p) # Slot(pos[t]) /\ Slot(p) \in Slots
      BY <3>1, <1>4, SlotInRange
    <3>3. seq'[Slot(p)] = seq[Slot(p)]
      BY <3>2, <1>1, <1>3
    <3> QED BY <2>1, <3>3 DEF AccountInv, EmptySlots
  <2>2. ASSUME NEW u \in Threads, pc'[u] \in {"push_write", "pop_release"}
        PROVE  pc'[u] = pc[u]
    BY <2>2, <1>1, <1>2
  <2> QED BY <2>1, <2>2, <1>1 DEF AccountInv, EmptySlots
<1>8. Claims'
  BY <1>1, <1>2 DEF AccountInv, Claims, Unclaimed
<1>9. Counted'
  BY <1>1, SameCount DEF Ahead, Behind
<1>10. Stale'
  <2>1. seq[Slot(pos[t])] = pos[t]
    BY <1>3 DEF RingInv, PushOwners
  <2>2. \A i \in Slots : seq'[i] >= seq[i]
    BY <2>1, <1>1, <1>3, <1>4
  <2>3. \A u \in Threads : Slot(pos[u]) \in Slots /\ pos[u] \in Nat
    BY SlotInRange DEF TypeOK, TypeThreads
  <2>4. \A u \in Threads : seq[Slot(pos[u])] \in Nat /\ seq'[Slot(pos[u])] \in Nat
    BY <2>3, <1>1, <1>3
  <2> QED BY <2>2, <2>3, <2>4, <1>1, <1>2 DEF AccountInv, Stale, PopTrying
<1> QED BY <1>5, <1>6, <1>7, <1>8, <1>9, <1>10 DEF AccountInv

\* The counter is adjusted after a push.
LEMMA PushSizeAccount ==
    ASSUME TypeOK, AccountInv, NEW t \in Threads, PushSize(t)
    PROVE  AccountInv'
<1>1. /\ OnlyThread(t) /\ pc[t] = "push_size" /\ pc'[t] = "idle" /\ item'[t] = Null
      /\ size' = size + 1 /\ size \in Int /\ head \in Int /\ tail \in Int
      /\ UNCHANGED <<seq, val, head, tail, born, pushed, delivered, dropped>>
  BY DEF PushSize, Return, At, Goto, OnlyThread, history, TypeOK, TypeThreads, TypeQueue
<1>2. item[t] = Null
  BY <1>1 DEF AccountInv, Known, Carrying, Unclaimed
<1>3. \A u \in Threads : item'[u] = item[u] /\ (u # t => pc'[u] = pc[u] /\ pos'[u] = pos[u])
  BY <1>1, <1>2 DEF OnlyThread
<1>4. Known'
  <2>1. \A u \in Threads : pc'[u] \in Carrying <=> pc[u] \in Carrying
    BY <1>1, <1>3 DEF Carrying, Unclaimed
  <2> QED BY <2>1, <1>1, <1>3 DEF AccountInv, Known
<1>5. OnePlace' /\ SomePlace'
  BY <1>1, <1>3, PlacesKept
<1>6. EmptySlots' /\ Claims' /\ Stale'
  BY <1>1, <1>3 DEF AccountInv, EmptySlots, Claims, Unclaimed, Stale, PopTrying
<1>7. Counted'
  <2>1. Ahead' = Ahead \ {t} /\ t \in Ahead /\ Behind' = Behind
    BY <1>1, <1>3 DEF Ahead, Behind
  <2>2. /\ IsFiniteSet(Ahead) /\ IsFiniteSet(Behind)
        /\ size = (head - tail) - Cardinality(Ahead) + Cardinality(Behind)
    BY DEF AccountInv, Counted
  <2>3. /\ IsFiniteSet(Ahead') /\ Cardinality(Ahead') = Cardinality(Ahead) - 1
        /\ Cardinality(Ahead) \in Int /\ Cardinality(Behind) \in Int
    BY <2>1, <2>2, JoinOrLeave
  <2> QED BY <2>1, <2>2, <2>3, <1>1 DEF Counted
<1> QED BY <1>4, <1>5, <1>6, <1>7 DEF AccountInv

-----------------------------------------------------------------------------
(* pop.                                                                    *)

\* A position is claimed by a pop; the slot's next lap is not free before the
\* element is out.
LEMMA PopClaimAccount ==
    ASSUME Capacity >= 2, TypeOK, RingInv, AccountInv, NEW t \in Threads, PopCas(t),
           tail' = tail + 1
    PROVE  AccountInv'
<1>1. /\ OnlyThread(t) /\ pc[t] = "pop_cas" /\ pc'[t] = "pop_take" /\ item' = item
      /\ pos[t] = tail /\ pos' = pos
      /\ UNCHANGED <<seq, val, head, size, born, pushed, delivered, dropped>>
      /\ head \in Nat /\ tail \in Nat /\ size \in Int
  BY DEF PopCas, At, Goto, OnlyThread, history, TypeOK, TypeThreads, TypeQueue
<1>2. \A u \in Threads : u # t => pc'[u] = pc[u]
  BY <1>1 DEF OnlyThread
<1>3. seq[Slot(tail)] = tail + 1
  BY <1>1 DEF RingInv, Readers
<1>4. Known'
  <2>1. \A u \in Threads : pc'[u] \in Carrying <=> pc[u] \in Carrying
    BY <1>1, <1>2 DEF Carrying, Unclaimed
  <2> QED BY <2>1, <1>1 DEF AccountInv, Known
<1>5. OnePlace' /\ SomePlace'
  BY <1>1, PlacesKept
<1>6. EmptySlots'
  <2>1. ASSUME NEW p \in head .. (tail' + Capacity - 1), seq[Slot(p)] = p
        PROVE  val[Slot(p)] = Null
    <3>1. CASE p = tail + Capacity
      <4>1. seq[Slot(p)] = tail + 1
        BY <3>1, <1>1, <1>3, SlotNextLap
      <4> QED BY <2>1, <3>1, <4>1, <1>1, CapacityAssumption
    <3>2. CASE p # tail + Capacity
      <4>1. p \in head .. (tail + Capacity - 1)
        BY <2>1, <3>2, <1>1, CapacityAssumption
      <4> QED BY <2>1, <4>1 DEF AccountInv, EmptySlots
    <3> QED BY <3>1, <3>2
  <2>2. ASSUME NEW u \in Threads, pc'[u] \in {"push_write", "pop_release"}
        PROVE  pc'[u] = pc[u]
    BY <2>2, <1>1, <1>2
  <2> QED BY <2>1, <2>2, <1>1 DEF AccountInv, EmptySlots
<1>7. Claims'
  BY <1>1, <1>2 DEF AccountInv, Claims, Unclaimed
<1>8. Counted'
  <2>1. Behind' = Behind \union {t} /\ t \notin Behind /\ Ahead' = Ahead
    BY <1>1, <1>2 DEF Ahead, Behind
  <2>2. /\ IsFiniteSet(Ahead) /\ IsFiniteSet(Behind)
        /\ size = (head - tail) - Cardinality(Ahead) + Cardinality(Behind)
    BY DEF AccountInv, Counted
  <2>3. /\ IsFiniteSet(Behind') /\ Cardinality(Behind') = Cardinality(Behind) + 1
        /\ Cardinality(Ahead) \in Int /\ Cardinality(Behind) \in Int
    BY <2>1, <2>2, JoinOrLeave
  <2> QED BY <2>1, <2>2, <2>3, <1>1 DEF Counted
<1>9. Stale'
  <2>1. SUFFICES ASSUME NEW u \in Threads, PopTrying(u)', pos[u] < tail + 1
                 PROVE  seq[Slot(pos[u])] > pos[u]
    BY <1>1 DEF Stale
  <2>2. PopTrying(u) /\ pos[u] \in Nat
    BY <2>1, <1>1, <1>2 DEF PopTrying, TypeOK, TypeThreads
  <2>3. CASE pos[u] = tail
    BY <2>3, <1>1, <1>3
  <2>4. CASE pos[u] < tail
    BY <2>2, <2>4 DEF AccountInv, Stale
  <2> QED BY <2>1, <2>2, <2>3, <2>4, <1>1
<1> QED BY <1>4, <1>5, <1>6, <1>7, <1>8, <1>9 DEF AccountInv

\* The element goes from the slot into the thread's hand.
LEMMA PopTakeAccount ==
    ASSUME TypeOK, RingInv, AccountInv, NEW t \in Threads, PopTake(t)
    PROVE  AccountInv'
<1> USE DEF Null
<1> DEFINE s == Slot(pos[t])
<1>1. /\ OnlyThread(t) /\ pc[t] = "pop_take" /\ pc'[t] = "pop_release" /\ item'[t] = val[s]
      /\ pos' = pos /\ val' = [val EXCEPT ![s] = Null]
      /\ UNCHANGED <<seq, head, tail, size, born, pushed, delivered, dropped>>
  BY DEF PopTake, At, Goto, OnlyThread, history, TypeOK, TypeThreads
<1>2. \A u \in Threads : u # t => pc'[u] = pc[u] /\ item'[u] = item[u]
  BY <1>1 DEF OnlyThread
<1>3. s \in Slots /\ val \in [Slots -> Nat] /\ pos[t] \in Nat /\ head \in Nat /\ tail \in Nat
  BY SlotInRange DEF TypeOK, TypeThreads, TypeQueue
<1>4. val[s] \in 1 .. born /\ val[s] # Null /\ born \in Nat
  <2>1. val[s] = pushed[pos[t] + 1] /\ pos[t] < tail /\ tail <= head
    BY <1>1 DEF RingInv, PopOwners, Popping, CursorOrder
  <2>2. pos[t] + 1 \in 1 .. head
    BY <2>1, <1>3
  <2> QED BY <2>1, <2>2 DEF AccountInv, Claims, Known
<1> HIDE DEF s
<1>5. /\ val'[s] = Null /\ \A i \in Slots : i # s => val'[i] = val[i]
  BY <1>1, <1>3
<1>6. item[t] = Null
  BY <1>1 DEF AccountInv, Known, Carrying, Unclaimed
<1>7. Known'
  <2>1. \A u \in Threads : IF pc'[u] \in Carrying THEN item'[u] \in 1 .. born ELSE item'[u] = Null
    BY <1>1, <1>2, <1>4 DEF AccountInv, Known, Carrying
  <2>2. \A i \in Slots : val'[i] \in 0 .. born
    BY <1>4, <1>5 DEF AccountInv, Known
  <2> QED BY <2>1, <2>2, <1>1 DEF AccountInv, Known
<1>8. OnePlace'
  <2>1. \A u \in Threads : u # t => item'[u] # val[s] /\ item'[u] = item[u]
    BY <1>2, <1>3, <1>4 DEF AccountInv, OnePlace
  <2>2. \A i \in Slots : val'[i] # val[s] /\ (val'[i] = val[i] \/ val'[i] = Null)
    BY <1>3, <1>4, <1>5 DEF AccountInv, OnePlace
  <2>3. \A u, v \in Threads : item'[u] = item'[v] /\ item'[u] # Null => u = v
    BY <2>1, <1>1 DEF AccountInv, OnePlace
  <2>4. \A i, j \in Slots : val'[i] = val'[j] /\ val'[i] # Null => i = j
    BY <1>5 DEF AccountInv, OnePlace
  <2>5. \A u \in Threads, i \in Slots : item'[u] = val'[i] => item'[u] = Null
    BY <2>1, <2>2, <1>1 DEF AccountInv, OnePlace
  <2>6. Null \notin delivered /\ Null \notin dropped
    BY DEF AccountInv, Known
  <2>7. \A u \in Threads : item'[u] \notin delivered /\ item'[u] \notin dropped
    BY <2>1, <1>1, <1>3 DEF AccountInv, OnePlace
  <2>8. \A i \in Slots : val'[i] \notin delivered /\ val'[i] \notin dropped
    BY <2>2, <2>6 DEF AccountInv, OnePlace
  <2> QED BY <2>3, <2>4, <2>5, <2>7, <2>8, <1>1 DEF AccountInv, OnePlace
<1>9. SomePlace'
  <2>1. SUFFICES ASSUME NEW e \in 1 .. born
                 PROVE  \/ \E u \in Threads : item'[u] = e
                        \/ \E i \in Slots : val'[i] = e
                        \/ e \in delivered
                        \/ e \in dropped
    BY <1>1 DEF SomePlace
  <2>2. ASSUME NEW u \in Threads, item[u] = e PROVE item'[u] = e
    BY <2>2, <1>2, <1>4, <1>6
  <2>3. ASSUME NEW i \in Slots, val[i] = e
        PROVE  (\E v \in Threads : item'[v] = e) \/ \E j \in Slots : val'[j] = e
    BY <2>3, <1>1, <1>5
  <2> QED BY <2>2, <2>3 DEF AccountInv, SomePlace
<1>10. EmptySlots'
  <2>1. \A i \in Slots : val[i] = Null => val'[i] = Null
    BY <1>5
  <2>2. ASSUME NEW p \in head .. (tail + Capacity - 1), seq[Slot(p)] = p
        PROVE  val'[Slot(p)] = Null
    <3>1. p \in Nat
      BY <1>3, CapacityAssumption
    <3> QED BY <2>1, <2>2, <3>1, SlotInRange DEF AccountInv, EmptySlots
  <2>3. ASSUME NEW u \in Threads, pc'[u] \in {"push_write", "pop_release"}
        PROVE  val'[Slot(pos[u])] = Null
    <3>1. Slot(pos[u]) \in Slots
      BY SlotInRange DEF TypeOK, TypeThreads
    <3>2. CASE u = t
      BY <3>2, <1>5 DEF s
    <3>3. CASE u # t
      BY <3>1, <3>3, <2>1, <2>3, <1>2 DEF AccountInv, EmptySlots
    <3> QED BY <3>2, <3>3
  <2> QED BY <2>2, <2>3, <1>1 DEF EmptySlots
<1>11. Claims'
  BY <1>1, <1>2 DEF AccountInv, Claims, Unclaimed
<1>12. Counted'
  BY <1>1, SameCount DEF Ahead, Behind
<1>13. Stale'
  BY <1>1, <1>2 DEF AccountInv, Stale, PopTrying
<1> QED BY <1>7, <1>8, <1>9, <1>10, <1>11, <1>12, <1>13 DEF AccountInv

\* The token of a slot that has been emptied is advanced to the next lap.
LEMMA PopReleaseAccount ==
    ASSUME TypeOK, RingInv, AccountInv, NEW t \in Threads, PopRelease(t)
    PROVE  AccountInv'
<1>1. /\ OnlyThread(t) /\ pc[t] = "pop_release" /\ pc'[t] = "pop_size" /\ item' = item
      /\ pos' = pos /\ seq' = [seq EXCEPT ![Slot(pos[t])] = pos[t] + Capacity]
      /\ UNCHANGED <<val, head, tail, size, born, pushed, delivered, dropped>>
  BY DEF PopRelease, At, Goto, OnlyThread, history, TypeOK, TypeThreads
<1>2. \A u \in Threads : u # t => pc'[u] = pc[u]
  BY <1>1 DEF OnlyThread
<1>3. Popping(t) /\ pos[t] \in Nat /\ seq \in [Slots -> Nat]
  BY <1>1 DEF Popping, TypeOK, TypeThreads, TypeQueue
<1>4. /\ Slot(pos[t]) \in Slots
      /\ Slot(pos[t]) = Slot(pos[t] + Capacity)
      /\ \A p \in tail .. (tail + Capacity - 1) :
            p # pos[t] + Capacity => Slot(p) # Slot(pos[t])
  BY <1>3, PopSlot
<1>5. Known'
  <2>1. \A u \in Threads : pc'[u] \in Carrying <=> pc[u] \in Carrying
    BY <1>1, <1>2 DEF Carrying, Unclaimed
  <2> QED BY <2>1, <1>1 DEF AccountInv, Known
<1>6. OnePlace' /\ SomePlace'
  BY <1>1, PlacesKept
<1>7. EmptySlots'
  <2>1. ASSUME NEW p \in head .. (tail + Capacity - 1), seq'[Slot(p)] = p
        PROVE  val[Slot(p)] = Null
    <3>1. p \in tail .. (tail + Capacity - 1) /\ p \in Nat
      BY <2>1, CapacityAssumption DEF RingInv, CursorOrder, TypeOK, TypeQueue
    <3>2. CASE p = pos[t] + Capacity
      BY <3>2, <1>1, <1>4 DEF AccountInv, EmptySlots
    <3>3. CASE p # pos[t] + Capacity
      <4>1. Slot(p) # Slot(pos[t]) /\ Slot(p) \in Slots
        BY <3>1, <3>3, <1>4, SlotInRange
      <4>2. seq'[Slot(p)] = seq[Slot(p)]
        BY <4>1, <1>1, <1>3
      <4> QED BY <2>1, <4>2 DEF AccountInv, EmptySlots
    <3> QED BY <3>2, <3>3
  <2>2. ASSUME NEW u \in Threads, pc'[u] \in {"push_write", "pop_release"}
        PROVE  pc'[u] = pc[u]
    BY <2>2, <1>1, <1>2
  <2> QED BY <2>1, <2>2, <1>1 DEF AccountInv, EmptySlots
<1>8. Claims'
  BY <1>1, <1>2 DEF AccountInv, Claims, Unclaimed
<1>9. Counted'
  BY <1>1, SameCount DEF Ahead, Behind
<1>10. Stale'
  <2>1. seq[Slot(pos[t])] = pos[t] + 1
    BY <1>3 DEF RingInv, PopOwners
  <2>2. \A i \in Slots : seq'[i] >= seq[i]
    BY <2>1, <1>1, <1>3, <1>4, CapacityAssumption
  <2>3. \A u \in Threads : Slot(pos[u]) \in Slots /\ pos[u] \in Nat
    BY SlotInRange DEF TypeOK, TypeThreads
  <2>4. \A u \in Threads : seq[Slot(pos[u])] \in Nat /\ seq'[Slot(pos[u])] \in Nat
    BY <2>3, <1>1, <1>3, CapacityAssumption
  <2> QED BY <2>2, <2>3, <2>4, <1>1, <1>2 DEF AccountInv, Stale, PopTrying
<1> QED BY <1>5, <1>6, <1>7, <1>8, <1>9, <1>10 DEF AccountInv

\* The counter is adjusted and the element is returned.
LEMMA PopSizeAccount ==
    ASSUME TypeOK, AccountInv, NEW t \in Threads, PopSize(t)
    PROVE  AccountInv'
<1> USE DEF Null
<1>1. /\ OnlyThread(t) /\ pc[t] = "pop_size" /\ pc'[t] \in {"idle", "pop_load"}
      /\ item'[t] = Null /\ delivered' = delivered \union {item[t]}
      /\ size' = size - 1 /\ size \in Int /\ head \in Int /\ tail \in Int
      /\ UNCHANGED <<seq, val, head, tail, born, pushed, dropped>>
  BY DEF PopSize, At, Goto, OnlyThread, TypeOK, TypeThreads, TypeQueue
<1>2. \A u \in Threads : u # t => pc'[u] = pc[u] /\ pos'[u] = pos[u] /\ item'[u] = item[u]
  BY <1>1 DEF OnlyThread
<1>3. item[t] \in 1 .. born /\ item[t] # Null
  BY <1>1 DEF AccountInv, Known, Carrying
<1>4. Known'
  <2>1. \A u \in Threads : IF pc'[u] \in Carrying THEN item'[u] \in 1 .. born ELSE item'[u] = Null
    BY <1>1, <1>2 DEF AccountInv, Known, Carrying, Unclaimed
  <2> QED BY <2>1, <1>1, <1>3 DEF AccountInv, Known
<1>5. OnePlace'
  <2>1. \A u \in Threads : item'[u] = item[u] \/ (u = t /\ item'[u] = Null)
    BY <1>1, <1>2
  <2>2. Null \notin delivered' /\ Null \notin dropped
    BY <1>1, <1>3 DEF AccountInv, Known
  <2>3. \A u \in Threads : item'[u] # item[t]
    BY <1>1, <1>2, <1>3 DEF AccountInv, OnePlace
  <2> QED BY <2>1, <2>2, <2>3, <1>1, <1>3 DEF AccountInv, OnePlace
<1>6. SomePlace'
  BY <1>1, <1>2 DEF AccountInv, SomePlace
<1>7. EmptySlots' /\ Claims' /\ Stale'
  BY <1>1, <1>2 DEF AccountInv, EmptySlots, Claims, Unclaimed, Stale, PopTrying
<1>8. Counted'
  <2>1. Behind' = Behind \ {t} /\ t \in Behind /\ Ahead' = Ahead
    BY <1>1, <1>2 DEF Ahead, Behind
  <2>2. /\ IsFiniteSet(Ahead) /\ IsFiniteSet(Behind)
        /\ size = (head - tail) - Cardinality(Ahead) + Cardinality(Behind)
    BY DEF AccountInv, Counted
  <2>3. /\ IsFiniteSet(Behind') /\ Cardinality(Behind') = Cardinality(Behind) - 1
        /\ Cardinality(Ahead) \in Int /\ Cardinality(Behind) \in Int
    BY <2>1, <2>2, JoinOrLeave
  <2> QED BY <2>1, <2>2, <2>3, <1>1 DEF Counted
<1> QED BY <1>4, <1>5, <1>6, <1>7, <1>8 DEF AccountInv

-----------------------------------------------------------------------------
(* The theorems.                                                           *)

\* Every step of the queue keeps account of the elements.
LEMMA AccountStep ==
    ASSUME Capacity >= 2
    PROVE  TypeOK /\ RingInv /\ AccountInv /\ [Next]_vars => AccountInv'
<1> SUFFICES ASSUME TypeOK, RingInv, AccountInv, [Next]_vars PROVE AccountInv'
  OBVIOUS
<1>1. ASSUME NEW t \in Threads, PushLoop(t) PROVE AccountInv'
  <2>1. CASE shutdown
    BY <1>1, <2>1, PushDropAccount
  <2>2. CASE ~shutdown
    BY <1>1, <2>2, LocalSteps, LocalAccount DEF AccountInv
  <2> QED BY <2>1, <2>2
<1>2. ASSUME NEW t \in Threads, PushCas(t) PROVE AccountInv'
  <2>1. CASE head' = head + 1
    BY <1>2, <2>1, PushClaimAccount
  <2>2. CASE head' # head + 1
    BY <1>2, <2>2, LocalSteps, LocalAccount DEF AccountInv
  <2> QED BY <2>1, <2>2
<1>3. ASSUME NEW t \in Threads, PopCas(t) PROVE AccountInv'
  <2>1. CASE tail' = tail + 1
    BY <1>3, <2>1, PopClaimAccount
  <2>2. CASE tail' # tail + 1
    BY <1>3, <2>2, LocalSteps, LocalAccount DEF AccountInv
  <2> QED BY <2>1, <2>2
<1>4. ASSUME NEW t \in Threads,
             \/ PushLoad(t) \/ PushSeq(t) \/ PopCall(t) \/ ClearCall(t)
             \/ PopLoad(t) \/ PopLoop(t) \/ PopSeq(t)
      PROVE  AccountInv'
  BY <1>4, LocalSteps, LocalAccount DEF AccountInv
<1>5. ASSUME NEW t \in Threads, PushCall(t) PROVE AccountInv'
  BY <1>5, PushCallAccount
<1>6. ASSUME NEW t \in Threads, PushWrite(t) \/ PushPublish(t) \/ PushSize(t) PROVE AccountInv'
  BY <1>6, PushWriteAccount, PushPublishAccount, PushSizeAccount
<1>7. ASSUME NEW t \in Threads, PopTake(t) \/ PopRelease(t) \/ PopSize(t) PROVE AccountInv'
  BY <1>7, PopTakeAccount, PopReleaseAccount, PopSizeAccount
<1>8. ASSUME UNCHANGED <<seq, val, head, tail, size, pc, pos, item, history>> PROVE AccountInv'
  BY <1>8 DEF AccountInv, Known, OnePlace, SomePlace, EmptySlots, Claims, Counted, Ahead, Behind,
              Stale, PopTrying, history
<1>9. CASE Shutdown
  BY <1>9, <1>8 DEF Shutdown
<1>10. CASE UNCHANGED vars
  BY <1>10, <1>8 DEF vars, history
<1> QED BY <1>1, <1>2, <1>3, <1>4, <1>5, <1>6, <1>7, <1>9, <1>10 DEF Next, Call, Step

\* In every behaviour of a queue of at least two slots every element is in
\* exactly one place, and a slot is empty when it is written to.
THEOREM ElementsAccountedFor ==
    ASSUME Capacity >= 2
    PROVE  Spec => []AccountInv
<1>1. Init => AccountInv
  <2> SUFFICES ASSUME Init PROVE AccountInv
    OBVIOUS
  <2>1. /\ \A t \in Threads : pc[t] = "idle" /\ item[t] = Null /\ pos[t] = 0
        /\ \A i \in Slots : val[i] = Null
        /\ head = 0 /\ tail = 0 /\ size = 0 /\ born = 0 /\ delivered = {} /\ dropped = {}
    BY DEF Init
  <2>2. Known
    BY <2>1, MaxPushAssumption DEF Known, Carrying, Unclaimed, Null
  <2>3. OnePlace /\ SomePlace
    BY <2>1 DEF OnePlace, SomePlace
  <2>4. EmptySlots
    BY <2>1, SlotInRange, CapacityAssumption DEF EmptySlots
  <2>5. Claims
    BY <2>1 DEF Claims, Unclaimed
  <2>6. Counted
    <3>1. Ahead = {} /\ Behind = {}
      BY <2>1 DEF Ahead, Behind
    <3>2. IsFiniteSet(Ahead) /\ Cardinality(Ahead) = 0 /\ IsFiniteSet(Behind)
          /\ Cardinality(Behind) = 0
      BY <3>1, FS_EmptySet
    <3> QED BY <3>2, <2>1 DEF Counted
  <2>7. Stale
    BY <2>1 DEF Stale, PopTrying
  <2> QED BY <2>2, <2>3, <2>4, <2>5, <2>6, <2>7 DEF AccountInv
<1>2. TypeOK /\ RingInv /\ AccountInv /\ [Next]_vars => AccountInv'
  BY AccountStep
<1>3. Spec => []RingInv
  BY RingCorrect
<1> QED BY <1>1, <1>2, <1>3, TypeCorrect, PTL DEF Spec

\* One place is one place when places are counted.
LEMMA PlacesCounted ==
    ASSUME AccountInv
    PROVE  Conservation
<1> USE DEF Null
<1>1. SizeAccounting
  <2>1. /\ Ahead = {t \in Threads : Pushing(t) \/ pc[t] = "push_size"}
        /\ Behind = {t \in Threads : Popping(t) \/ pc[t] = "pop_size"}
    BY DEF Ahead, Behind, Pushing, Popping
  <2> QED BY <2>1 DEF AccountInv, Counted, SizeAccounting
<1>2. SUFFICES ASSUME NEW e \in 1 .. born
               PROVE  LET carried == {t \in Threads : item[t] = e}
                          stored  == {i \in Slots : val[i] = e}
                          gone    == {s \in {1} : e \in delivered}
                                        \union {s \in {2} : e \in dropped}
                      IN  Cardinality(carried) + Cardinality(stored) + Cardinality(gone) = 1
  BY <1>1 DEF Conservation
<1> DEFINE carried == {t \in Threads : item[t] = e}
           stored  == {i \in Slots : val[i] = e}
           gone    == {s \in {1} : e \in delivered} \union {s \in {2} : e \in dropped}
<1>3. e # Null
  OBVIOUS
<1>4. /\ \A t, u \in carried : t = u
      /\ \A i, j \in stored : i = j
      /\ carried = {} \/ stored = {}
      /\ carried = {} \/ gone = {}
      /\ stored = {} \/ gone = {}
      /\ gone \in {{}, {1}, {2}}
      /\ carried # {} \/ stored # {} \/ gone # {}
  <2>1. \A t, u \in carried : t = u
    BY <1>3 DEF AccountInv, OnePlace
  <2>2. \A i, j \in stored : i = j
    BY <1>3 DEF AccountInv, OnePlace
  <2>3. carried = {} \/ stored = {}
    BY <1>3 DEF AccountInv, OnePlace
  <2>4. (carried = {} \/ gone = {}) /\ (stored = {} \/ gone = {})
    BY DEF AccountInv, OnePlace
  <2>5. gone \in {{}, {1}, {2}}
    <3>1. e \notin delivered \/ e \notin dropped
      BY DEF AccountInv, OnePlace
    <3>2. {s \in {1} : e \in delivered} = IF e \in delivered THEN {1} ELSE {}
      OBVIOUS
    <3>3. {s \in {2} : e \in dropped} = IF e \in dropped THEN {2} ELSE {}
      OBVIOUS
    <3> QED BY <3>1, <3>2, <3>3
  <2>6. carried # {} \/ stored # {} \/ gone # {}
    BY DEF AccountInv, SomePlace
  <2> QED BY <2>1, <2>2, <2>3, <2>4, <2>5, <2>6
<1> HIDE DEF carried, stored, gone
<1>5. /\ Cardinality({}) = 0
      /\ \A x : Cardinality({x}) = 1
  BY FS_EmptySet, FS_Singleton
<1>6. Cardinality(carried) = IF carried = {} THEN 0 ELSE 1
  <2>1. ASSUME carried # {} PROVE \E x : carried = {x}
    BY <2>1, <1>4
  <2> QED BY <2>1, <1>5
<1>7. Cardinality(stored) = IF stored = {} THEN 0 ELSE 1
  <2>1. ASSUME stored # {} PROVE \E x : stored = {x}
    BY <2>1, <1>4
  <2> QED BY <2>1, <1>5
<1>8. Cardinality(gone) = IF gone = {} THEN 0 ELSE 1
  BY <1>4, <1>5
<1>9. Cardinality(carried) + Cardinality(stored) + Cardinality(gone) = 1
  BY <1>4, <1>6, <1>7, <1>8
<1> QED BY <1>9 DEF carried, stored, gone

\* Nothing is lost or doubled, and size() is off by the calls in progress only,
\* however pushes, pops, clear and shutdown are interleaved.
THEOREM NothingLost ==
    ASSUME Capacity >= 2
    PROVE  Spec => []Conservation
<1>1. Spec => []AccountInv
  BY ElementsAccountedFor
<1> QED BY <1>1, PlacesCounted, PTL

-----------------------------------------------------------------------------
(* A call is refused only while somebody is at work on the slot it needs.  *)

\* A slot of the window that is not ready has a thread at work on it: the push
\* that claimed it and has not published, or the pop that claimed it one lap
\* earlier and has not released it.  A push that has been overtaken finds a token
\* that is not behind its position.
AttendedLive ==
    \A p \in tail .. (head - 1) :
        seq[Slot(p)] = p => \E u \in Threads : Pushing(u) /\ pos[u] = p

AttendedFree ==
    \A p \in head .. (tail + Capacity - 1) :
        seq[Slot(p)] # p => \E u \in Threads : Popping(u) /\ pos[u] + Capacity = p

Overtaken == \A t \in Threads : PushTrying(t) /\ pos[t] < head => seq[Slot(pos[t])] >= pos[t]

AttendedInv == AttendedLive /\ AttendedFree /\ Overtaken

\* Steps that touch neither the cursors nor a token, and neither begin nor end the
\* work of a thread on its slot.
LEMMA QuietAttended ==
    ASSUME AttendedInv, NEW t \in Threads, OnlyThread(t), UNCHANGED <<seq, head, tail>>,
           Pushing(t) => Pushing(t)' /\ pos'[t] = pos[t],
           Popping(t) => Popping(t)' /\ pos'[t] = pos[t],
           head \in Nat,
           PushTrying(t)' => pos'[t] = head \/ (PushTrying(t) /\ pos'[t] = pos[t])
    PROVE  AttendedInv'
<1>1. \A u \in Threads : /\ Pushing(u) => Pushing(u)' /\ pos'[u] = pos[u]
                         /\ Popping(u) => Popping(u)' /\ pos'[u] = pos[u]
  BY DEF OnlyThread, Pushing, Popping
<1>2. AttendedLive'
  BY <1>1 DEF AttendedInv, AttendedLive
<1>3. AttendedFree'
  BY <1>1 DEF AttendedInv, AttendedFree
<1>4. Overtaken'
  BY DEF AttendedInv, Overtaken, OnlyThread, PushTrying
<1> QED BY <1>2, <1>3, <1>4 DEF AttendedInv

\* The compare-and-swap on __head: the new position is claimed by a thread that
\* will publish it, and its token is the position itself.
LEMMA PushClaimAttended ==
    ASSUME TypeOK, RingInv, AttendedInv, NEW t \in Threads, PushCas(t), head' = head + 1
    PROVE  AttendedInv'
<1>1. /\ OnlyThread(t) /\ pc[t] = "push_cas" /\ pc'[t] = "push_write" /\ pos' = pos
      /\ pos[t] = head /\ UNCHANGED <<seq, tail>> /\ head \in Nat /\ tail \in Nat
  BY DEF PushCas, At, Goto, OnlyThread, TypeOK, TypeThreads, TypeQueue
<1>2. seq[Slot(head)] = head
  BY <1>1 DEF RingInv, Readers
<1>3. \A u \in Threads : /\ Pushing(u) => Pushing(u)'
                         /\ Popping(u) => Popping(u)'
                         /\ PushTrying(u)' => PushTrying(u)
  BY <1>1 DEF OnlyThread, Pushing, Popping, PushTrying
<1>4. AttendedLive'
  <2>1. SUFFICES ASSUME NEW p \in tail .. head, seq[Slot(p)] = p
                 PROVE  \E u \in Threads : Pushing(u)' /\ pos[u] = p
    BY <1>1 DEF AttendedLive
  <2>2. CASE p = head
    BY <2>2, <1>1 DEF Pushing
  <2>3. CASE p # head
    <3>1. p \in tail .. (head - 1)
      BY <2>3, <1>1
    <3> QED BY <3>1, <2>1, <1>3 DEF AttendedInv, AttendedLive
  <2> QED BY <2>2, <2>3
<1>5. AttendedFree'
  <2>1. SUFFICES ASSUME NEW p \in (head + 1) .. (tail + Capacity - 1), seq[Slot(p)] # p
                 PROVE  \E u \in Threads : Popping(u)' /\ pos[u] + Capacity = p
    BY <1>1 DEF AttendedFree
  <2>2. p \in head .. (tail + Capacity - 1)
    BY <1>1, CapacityAssumption
  <2> QED BY <2>1, <2>2, <1>3 DEF AttendedInv, AttendedFree
<1>6. Overtaken'
  <2>1. SUFFICES ASSUME NEW u \in Threads, PushTrying(u), pos[u] < head + 1
                 PROVE  seq[Slot(pos[u])] >= pos[u]
    BY <1>1, <1>3 DEF Overtaken
  <2>2. CASE pos[u] = head
    BY <2>2, <1>1, <1>2
  <2>3. CASE pos[u] # head
    <3>1. pos[u] < head
      BY <2>1, <2>3, <1>1 DEF TypeOK, TypeThreads
    <3> QED BY <3>1, <2>1 DEF AttendedInv, Overtaken
  <2> QED BY <2>2, <2>3
<1> QED BY <1>4, <1>5, <1>6 DEF AttendedInv

\* The compare-and-swap on __tail: the position one lap later joins the window, and
\* the thread that claimed this one will release it.
LEMMA PopClaimAttended ==
    ASSUME TypeOK, AttendedInv, NEW t \in Threads, PopCas(t), tail' = tail + 1
    PROVE  AttendedInv'
<1>1. /\ OnlyThread(t) /\ pc[t] = "pop_cas" /\ pc'[t] = "pop_take" /\ pos' = pos
      /\ pos[t] = tail /\ UNCHANGED <<seq, head>> /\ head \in Nat /\ tail \in Nat
  BY DEF PopCas, At, Goto, OnlyThread, TypeOK, TypeThreads, TypeQueue
<1>2. \A u \in Threads : /\ Pushing(u) => Pushing(u)'
                         /\ Popping(u) => Popping(u)'
                         /\ PushTrying(u)' => PushTrying(u)
  BY <1>1 DEF OnlyThread, Pushing, Popping, PushTrying
<1>3. AttendedLive'
  <2>1. SUFFICES ASSUME NEW p \in (tail + 1) .. (head - 1), seq[Slot(p)] = p
                 PROVE  \E u \in Threads : Pushing(u)' /\ pos[u] = p
    BY <1>1 DEF AttendedLive
  <2>2. p \in tail .. (head - 1)
    BY <1>1
  <2> QED BY <2>1, <2>2, <1>2 DEF AttendedInv, AttendedLive
<1>4. AttendedFree'
  <2>1. SUFFICES ASSUME NEW p \in head .. (tail + 1 + Capacity - 1), seq[Slot(p)] # p
                 PROVE  \E u \in Threads : Popping(u)' /\ pos[u] + Capacity = p
    BY <1>1 DEF AttendedFree
  <2>2. CASE p = tail + Capacity
    BY <2>2, <1>1 DEF Popping
  <2>3. CASE p # tail + Capacity
    <3>1. p \in head .. (tail + Capacity - 1)
      BY <2>3, <1>1, CapacityAssumption
    <3> QED BY <3>1, <2>1, <1>2 DEF AttendedInv, AttendedFree
  <2> QED BY <2>2, <2>3
<1>5. Overtaken'
  BY <1>1, <1>2 DEF AttendedInv, Overtaken
<1> QED BY <1>3, <1>4, <1>5 DEF AttendedInv

\* A token only grows, so an overtaken push keeps finding one that is not behind.
LEMMA GrowingTokens ==
    ASSUME TypeOK, Overtaken, NEW t \in Threads, OnlyThread(t), head' = head, pos' = pos,
           ~PushTrying(t)', NEW i \in Slots, NEW k \in Nat, k >= seq[i],
           seq' = [seq EXCEPT ![i] = k]
    PROVE  Overtaken'
<1>1. SUFFICES ASSUME NEW u \in Threads, PushTrying(u)', pos[u] < head
               PROVE  seq'[Slot(pos[u])] >= pos[u]
  BY DEF Overtaken
<1>2. PushTrying(u)
  BY <1>1 DEF OnlyThread, PushTrying
<1>3. pos[u] \in Nat /\ Slot(pos[u]) \in Slots /\ seq[Slot(pos[u])] \in Nat
  BY SlotInRange DEF TypeOK, TypeThreads, TypeQueue
<1>4. seq[Slot(pos[u])] >= pos[u]
  BY <1>1, <1>2 DEF Overtaken
<1>5. seq'[Slot(pos[u])] = IF Slot(pos[u]) = i THEN k ELSE seq[Slot(pos[u])]
  BY <1>3 DEF TypeOK, TypeQueue
<1> QED BY <1>3, <1>4, <1>5

\* A push publishes its position: that slot needs nobody any more, and the tokens
\* of the other slots of the window are untouched.
LEMMA PushPublishAttended ==
    ASSUME TypeOK, RingInv, AttendedInv, NEW t \in Threads, PushPublish(t)
    PROVE  AttendedInv'
<1>1. /\ OnlyThread(t) /\ pc[t] = "push_publish" /\ pc'[t] = "push_size"
      /\ pos' = pos /\ seq' = [seq EXCEPT ![Slot(pos[t])] = pos[t] + 1]
      /\ UNCHANGED <<head, tail>>
  BY DEF PushPublish, At, Goto, OnlyThread, TypeOK, TypeThreads
<1>2. /\ Pushing(t) /\ pos[t] \in Nat /\ seq \in [Slots -> Nat] /\ head \in Nat /\ tail \in Nat
  BY <1>1 DEF Pushing, TypeOK, TypeThreads, TypeQueue
<1>3. /\ Slot(pos[t]) \in Slots
      /\ \A p \in tail .. (tail + Capacity - 1) : p # pos[t] => Slot(p) # Slot(pos[t])
  BY <1>2, PushSlot
<1>4. pos[t] < head /\ seq[Slot(pos[t])] = pos[t] /\ tail <= head /\ head <= tail + Capacity
  BY <1>2 DEF RingInv, PushOwners, CursorOrder
<1>5. \A u \in Threads : /\ Pushing(u) /\ u # t => Pushing(u)'
                         /\ Popping(u) => Popping(u)'
  BY <1>1 DEF OnlyThread, Pushing, Popping
<1>6. ASSUME NEW p \in tail .. (tail + Capacity - 1), p # pos[t]
      PROVE  seq'[Slot(p)] = seq[Slot(p)]
  <2>1. p \in Nat
    BY <1>2, CapacityAssumption
  <2>2. Slot(p) \in Slots /\ Slot(p) # Slot(pos[t])
    BY <2>1, <1>3, <1>6, SlotInRange
  <2> QED BY <2>2, <1>1, <1>2
<1>7. AttendedLive'
  <2>1. SUFFICES ASSUME NEW p \in tail .. (head - 1), seq'[Slot(p)] = p
                 PROVE  \E u \in Threads : Pushing(u)' /\ pos[u] = p
    BY <1>1 DEF AttendedLive
  <2>2. p # pos[t]
    BY <2>1, <1>1, <1>2, <1>3
  <2>3. p \in tail .. (tail + Capacity - 1)
    BY <1>2, <1>4, CapacityAssumption
  <2>4. seq[Slot(p)] = p
    BY <2>1, <2>2, <2>3, <1>6
  <2>5. PICK u \in Threads : Pushing(u) /\ pos[u] = p
    BY <2>4 DEF AttendedInv, AttendedLive
  <2> QED BY <2>2, <2>5, <1>5
<1>8. AttendedFree'
  <2>1. SUFFICES ASSUME NEW p \in head .. (tail + Capacity - 1), seq'[Slot(p)] # p
                 PROVE  \E u \in Threads : Popping(u)' /\ pos[u] + Capacity = p
    BY <1>1 DEF AttendedFree
  <2>2. p # pos[t] /\ p \in tail .. (tail + Capacity - 1)
    BY <1>2, <1>4, CapacityAssumption
  <2>3. seq[Slot(p)] # p
    BY <2>1, <2>2, <1>6
  <2> QED BY <2>3, <1>5 DEF AttendedInv, AttendedFree
<1>9. Overtaken'
  <2>1. ~PushTrying(t)' /\ pos[t] + 1 \in Nat /\ pos[t] + 1 >= seq[Slot(pos[t])]
    BY <1>1, <1>2, <1>4 DEF PushTrying
  <2> QED BY <2>1, <1>1, <1>3, GrowingTokens DEF AttendedInv
<1> QED BY <1>7, <1>8, <1>9 DEF AttendedInv

\* A pop releases its slot to the position one lap later.
LEMMA PopReleaseAttended ==
    ASSUME TypeOK, RingInv, AttendedInv, NEW t \in Threads, PopRelease(t)
    PROVE  AttendedInv'
<1>1. /\ OnlyThread(t) /\ pc[t] = "pop_release" /\ pc'[t] = "pop_size"
      /\ pos' = pos /\ seq' = [seq EXCEPT ![Slot(pos[t])] = pos[t] + Capacity]
      /\ UNCHANGED <<head, tail>>
  BY DEF PopRelease, At, Goto, OnlyThread, TypeOK, TypeThreads
<1>2. /\ Popping(t) /\ pos[t] \in Nat /\ seq \in [Slots -> Nat] /\ head \in Nat /\ tail \in Nat
  BY <1>1 DEF Popping, TypeOK, TypeThreads, TypeQueue
<1>3. /\ Slot(pos[t]) \in Slots /\ Slot(pos[t]) = Slot(pos[t] + Capacity)
      /\ \A p \in tail .. (tail + Capacity - 1) :
            p # pos[t] + Capacity => Slot(p) # Slot(pos[t])
  BY <1>2, PopSlot
<1>4. /\ head <= pos[t] + Capacity /\ seq[Slot(pos[t])] = pos[t] + 1
      /\ tail <= head /\ head <= tail + Capacity
  BY <1>2 DEF RingInv, PopOwners, CursorOrder
<1>5. \A u \in Threads : /\ Pushing(u) => Pushing(u)'
                         /\ Popping(u) /\ u # t => Popping(u)'
  BY <1>1 DEF OnlyThread, Pushing, Popping
<1>6. ASSUME NEW p \in tail .. (tail + Capacity - 1), p # pos[t] + Capacity
      PROVE  seq'[Slot(p)] = seq[Slot(p)]
  <2>1. p \in Nat
    BY <1>2, CapacityAssumption
  <2>2. Slot(p) \in Slots /\ Slot(p) # Slot(pos[t])
    BY <2>1, <1>3, <1>6, SlotInRange
  <2> QED BY <2>2, <1>1, <1>2
<1>7. AttendedLive'
  <2>1. SUFFICES ASSUME NEW p \in tail .. (head - 1), seq'[Slot(p)] = p
                 PROVE  \E u \in Threads : Pushing(u)' /\ pos[u] = p
    BY <1>1 DEF AttendedLive
  <2>2. p # pos[t] + Capacity /\ p \in tail .. (tail + Capacity - 1)
    BY <1>2, <1>4, CapacityAssumption
  <2>3. seq[Slot(p)] = p
    BY <2>1, <2>2, <1>6
  <2> QED BY <2>3, <1>5 DEF AttendedInv, AttendedLive
<1>8. AttendedFree'
  <2>1. SUFFICES ASSUME NEW p \in head .. (tail + Capacity - 1), seq'[Slot(p)] # p
                 PROVE  \E u \in Threads : Popping(u)' /\ pos[u] + Capacity = p
    BY <1>1 DEF AttendedFree
  <2>2. p # pos[t] + Capacity
    BY <2>1, <1>1, <1>2, <1>3
  <2>3. p \in tail .. (tail + Capacity - 1)
    BY <1>2, <1>4, CapacityAssumption
  <2>4. seq[Slot(p)] # p
    BY <2>1, <2>2, <2>3, <1>6
  <2>5. PICK u \in Threads : Popping(u) /\ pos[u] + Capacity = p
    BY <2>4 DEF AttendedInv, AttendedFree
  <2> QED BY <2>2, <2>5, <1>5
<1>9. Overtaken'
  <2>1. ~PushTrying(t)' /\ pos[t] + Capacity \in Nat /\ pos[t] + Capacity >= seq[Slot(pos[t])]
    BY <1>1, <1>2, <1>4, CapacityAssumption DEF PushTrying
  <2> QED BY <2>1, <1>1, <1>3, GrowingTokens DEF AttendedInv
<1> QED BY <1>7, <1>8, <1>9 DEF AttendedInv

\* Every step keeps somebody at work on every slot of the window that is not ready.
LEMMA AttendedStep == TypeOK /\ RingInv /\ AttendedInv /\ [Next]_vars => AttendedInv'
<1> SUFFICES ASSUME TypeOK, RingInv, AttendedInv, [Next]_vars PROVE AttendedInv'
  OBVIOUS
<1>0. head \in Nat
  BY DEF TypeOK, TypeQueue
<1>1. ASSUME NEW t \in Threads,
             \/ PushCall(t) \/ PushLoad(t) \/ PushLoop(t) \/ PushSeq(t) \/ PushSize(t)
             \/ (PushCas(t) /\ head' # head + 1)
             \/ PopCall(t) \/ ClearCall(t) \/ PopLoad(t) \/ PopLoop(t) \/ PopSeq(t) \/ PopSize(t)
             \/ (PopCas(t) /\ tail' # tail + 1)
      PROVE  AttendedInv'
  <2>1. OnlyThread(t) /\ UNCHANGED <<seq, head, tail>>
    BY <1>1 DEF PushCall, PushLoad, PushLoop, PushSeq, PushSize, PushCas, PopCall, ClearCall,
         PopLoad, PopLoop, PopSeq, PopSize, PopCas, OnlyThread, Goto, Return, shared, history,
         TypeOK, TypeThreads
  <2>2. ~Pushing(t) /\ ~Popping(t)
    BY <1>1 DEF PushCall, PushLoad, PushLoop, PushSeq, PushSize, PushCas, PopCall, ClearCall,
         PopLoad, PopLoop, PopSeq, PopSize, PopCas, At, Pushing, Popping
  <2>3. PushTrying(t)' => pos'[t] = head \/ (PushTrying(t) /\ pos'[t] = pos[t])
    BY <1>1 DEF PushCall, PushLoad, PushLoop, PushSeq, PushSize, PushCas, PopCall, ClearCall,
         PopLoad, PopLoop, PopSeq, PopSize, PopCas, At, Goto, Return, PushTrying, TypeOK,
         TypeThreads
  <2> QED BY <2>1, <2>2, <2>3, <1>0, QuietAttended
<1>2. ASSUME NEW t \in Threads, PushWrite(t) \/ PopTake(t) PROVE AttendedInv'
  <2>1. /\ OnlyThread(t) /\ UNCHANGED <<seq, head, tail, pos>>
        /\ \/ pc[t] = "push_write" /\ pc'[t] = "push_publish"
           \/ pc[t] = "pop_take" /\ pc'[t] = "pop_release"
    BY <1>2 DEF PushWrite, PopTake, At, Goto, OnlyThread, TypeOK, TypeThreads
  <2>2. /\ Pushing(t) => Pushing(t)' /\ pos'[t] = pos[t]
        /\ Popping(t) => Popping(t)' /\ pos'[t] = pos[t]
        /\ ~PushTrying(t)'
    BY <2>1 DEF Pushing, Popping, PushTrying
  <2> QED BY <2>1, <2>2, <1>0, QuietAttended
<1>3. ASSUME NEW t \in Threads, PushPublish(t) PROVE AttendedInv'
  BY <1>3, PushPublishAttended
<1>4. ASSUME NEW t \in Threads, PopRelease(t) PROVE AttendedInv'
  BY <1>4, PopReleaseAttended
<1>5. ASSUME NEW t \in Threads, PushCas(t) PROVE AttendedInv'
  BY <1>5, <1>1, PushClaimAttended
<1>6. ASSUME NEW t \in Threads, PopCas(t) PROVE AttendedInv'
  BY <1>6, <1>1, PopClaimAttended
<1>7. ASSUME UNCHANGED <<seq, head, tail, pc, pos>> PROVE AttendedInv'
  BY <1>7 DEF AttendedInv, AttendedLive, AttendedFree, Overtaken, Pushing, Popping, PushTrying
<1>8. CASE Shutdown
  BY <1>8, <1>7 DEF Shutdown
<1>9. CASE UNCHANGED vars
  BY <1>9, <1>7 DEF vars
<1> QED BY <1>1, <1>2, <1>3, <1>4, <1>5, <1>6, <1>8, <1>9 DEF Next, Call, Step

\* In every behaviour of a queue of at least two slots a slot that is not ready has
\* a thread at work on it: no position is claimed and forgotten, so no refused call
\* can be waiting for nobody.
THEOREM SlotsAttended ==
    ASSUME Capacity >= 2
    PROVE  Spec => []AttendedInv
<1>1. Init => AttendedInv
  <2> SUFFICES ASSUME Init PROVE AttendedInv
    OBVIOUS
  <2>1. head = 0 /\ tail = 0 /\ \A t \in Threads : pc[t] = "idle"
    BY DEF Init
  <2>2. AttendedLive /\ Overtaken
    BY <2>1 DEF AttendedLive, Overtaken, PushTrying
  <2>3. ASSUME NEW p \in 0 .. (Capacity - 1) PROVE seq[Slot(p)] = p
    <3>1. Slot(p) = p /\ p \in Slots
      BY <2>3, CapacityAssumption DEF Slot, Slots
    <3> QED BY <3>1 DEF Init
  <2>4. AttendedFree
    BY <2>1, <2>3, CapacityAssumption DEF AttendedFree
  <2> QED BY <2>2, <2>4 DEF AttendedInv
<1>2. Spec => []RingInv
  BY RingCorrect
<1> QED BY <1>1, <1>2, AttendedStep, TypeCorrect, PTL DEF Spec

\* When a thread moves on from looking at a token, the step is its own.
LEMMA OwnStep ==
    ASSUME TypeOK, Next, NEW t \in Threads, pc[t] \in {"pop_seq", "push_seq"}, pc'[t] # pc[t]
    PROVE  PopSeq(t) \/ PushSeq(t)
<1>1. ASSUME NEW u \in Threads, Call(u) \/ Step(u) PROVE u = t
  <2>1. OnlyThread(u) \/ u = t
    BY <1>1 DEF Call, Step, PushCall, PopCall, ClearCall, PushLoad, PushLoop, PushSeq,
         PushCas, PushWrite, PushPublish, PushSize, PopLoad, PopLoop, PopSeq, PopCas, PopTake,
         PopRelease, PopSize, Goto, Return, TypeOK, TypeThreads, OnlyThread
  <2> QED BY <2>1 DEF OnlyThread
<1>2. Call(t) \/ Step(t)
  BY <1>1 DEF Next, Shutdown
<1> QED
  BY <1>2 DEF Call, Step, PushCall, PopCall, ClearCall, PushLoad, PushLoop, PushCas, PushWrite,
       PushPublish, PushSize, PopLoad, PopLoop, PopCas, PopTake, PopRelease, PopSize, At

\* A pop that returns nullptr from a running queue stands at the front of an empty
\* queue or of one whose front element is being published.
LEMMA PopRefused ==
    ASSUME TypeOK, RingInv, AccountInv, AttendedInv, NEW t \in Threads, PopSeq(t),
           pc'[t] = "idle"
    PROVE  pos[t] = tail /\ (tail = head \/ \E u \in Threads : Pushing(u) /\ pos[u] = tail)
<1>1. /\ Slot(pos[t]) \in Slots /\ pos[t] \in Nat /\ tail \in Nat /\ head \in Nat
      /\ seq[Slot(pos[t])] \in Nat
  BY SlotInRange DEF TypeOK, TypeThreads, TypeQueue
<1>2. seq[Slot(pos[t])] - (pos[t] + 1) < 0 /\ pc[t] = "pop_seq"
  BY DEF PopSeq, At, Goto, Return, TypeOK, TypeThreads
<1>3. pos[t] <= tail
  BY <1>2 DEF RingInv, Readers, PopTrying
<1>4. ~(pos[t] < tail)
  BY <1>1, <1>2 DEF AccountInv, Stale, PopTrying
<1>5. pos[t] = tail
  BY <1>1, <1>3, <1>4
<1>6. ASSUME tail # head PROVE \E u \in Threads : Pushing(u) /\ pos[u] = tail
  <2>1. tail \in tail .. (head - 1)
    BY <1>1, <1>6 DEF RingInv, CursorOrder
  <2>2. seq[Slot(tail)] = tail \/ seq[Slot(tail)] = tail + 1
    BY <2>1 DEF RingInv, LiveSlots
  <2>3. seq[Slot(tail)] = tail
    BY <2>2, <1>1, <1>2, <1>5
  <2> QED BY <2>1, <2>3 DEF AttendedInv, AttendedLive
<1> QED BY <1>5, <1>6

\* A push that goes to sleep for room stands at the end of a full ring, or of one
\* whose next slot is being released.
LEMMA PushRefused ==
    ASSUME TypeOK, RingInv, AttendedInv, NEW t \in Threads, PushSeq(t), pc'[t] = "push_loop"
    PROVE  /\ pos[t] = head
           /\ \/ head = tail + Capacity
              \/ \E u \in Threads : Popping(u) /\ pos[u] + Capacity = head
<1>1. /\ Slot(pos[t]) \in Slots /\ pos[t] \in Nat /\ tail \in Nat /\ head \in Nat
      /\ seq[Slot(pos[t])] \in Nat
  BY SlotInRange DEF TypeOK, TypeThreads, TypeQueue
<1>2. seq[Slot(pos[t])] < pos[t] /\ pc[t] = "push_seq"
  BY <1>1 DEF PushSeq, At, Goto, TypeOK, TypeThreads
<1>3. pos[t] <= head /\ ~(pos[t] < head)
  BY <1>1, <1>2 DEF RingInv, Readers, PushTrying, AttendedInv, Overtaken
<1>4. pos[t] = head
  BY <1>1, <1>3
<1>5. ASSUME head # tail + Capacity
      PROVE  \E u \in Threads : Popping(u) /\ pos[u] + Capacity = head
  <2>1. head \in head .. (tail + Capacity - 1)
    BY <1>1, <1>5, CapacityAssumption DEF RingInv, CursorOrder
  <2>2. seq[Slot(head)] # head
    BY <1>1, <1>2, <1>4
  <2> QED BY <2>1, <2>2 DEF AttendedInv, AttendedFree
<1> QED BY <1>4, <1>5

\* pop returns nullptr on a running queue, and push waits for room, only where the
\* queue is empty or full or another call is about to make the slot ready: neither
\* mistakes a stale position for an empty or a full queue.
THEOREM RefusedForCause ==
    ASSUME Capacity >= 2
    PROVE  Spec => NoFalseRefusal
<1>1. TypeOK /\ RingInv /\ AccountInv /\ AttendedInv /\ [Next]_vars =>
        [\A t \in Threads :
          /\ pc[t] = "pop_seq" /\ pc'[t] = "idle" =>
                /\ pos[t] = tail
                /\ tail = head \/ \E u \in Threads : Pushing(u) /\ pos[u] = tail
          /\ pc[t] = "push_seq" /\ pc'[t] = "push_loop" =>
                /\ pos[t] = head
                /\ \/ head = tail + Capacity
                   \/ \E u \in Threads : Popping(u) /\ pos[u] + Capacity = head]_vars
  <2>1. SUFFICES ASSUME TypeOK, RingInv, AccountInv, AttendedInv, Next, NEW t \in Threads
                 PROVE  /\ pc[t] = "pop_seq" /\ pc'[t] = "idle" =>
                              /\ pos[t] = tail
                              /\ tail = head \/ \E u \in Threads : Pushing(u) /\ pos[u] = tail
                        /\ pc[t] = "push_seq" /\ pc'[t] = "push_loop" =>
                              /\ pos[t] = head
                              /\ \/ head = tail + Capacity
                                 \/ \E u \in Threads : Popping(u) /\ pos[u] + Capacity = head
    BY DEF vars
  <2>2. ASSUME pc[t] = "pop_seq", pc'[t] = "idle"
        PROVE  pos[t] = tail /\ (tail = head \/ \E u \in Threads : Pushing(u) /\ pos[u] = tail)
    <3>1. PopSeq(t)
      BY <2>1, <2>2, OwnStep DEF PushSeq, At
    <3> QED BY <2>1, <2>2, <3>1, PopRefused
  <2>3. ASSUME pc[t] = "push_seq", pc'[t] = "push_loop"
        PROVE  /\ pos[t] = head
               /\ \/ head = tail + Capacity
                  \/ \E u \in Threads : Popping(u) /\ pos[u] + Capacity = head
    <3>1. PushSeq(t)
      BY <2>1, <2>3, OwnStep DEF PopSeq, At
    <3> QED BY <2>1, <2>3, <3>1, PushRefused
  <2> QED BY <2>2, <2>3
<1>2. Spec => []AccountInv
  BY ElementsAccountedFor
<1>3. Spec => []RingInv
  BY RingCorrect
<1>4. Spec => []AttendedInv
  BY SlotsAttended
<1> QED BY <1>1, <1>2, <1>3, <1>4, TypeCorrect, PTL DEF Spec, NoFalseRefusal

-----------------------------------------------------------------------------
(* The queue implements BoundedFifo.                                       *)

\* The abstract queue's hands and history under the refinement mapping.
Hands   == [t \in Threads |-> Hand(t)]
Entered == {pushed[i] : i \in 1 .. Len(pushed)}

\* When two sequences differ by an Append or a Tail.
LEMMA SequenceShapes ==
    ASSUME NEW S, NEW q \in Seq(S), NEW r \in Seq(S)
    PROVE  /\ \A e \in S : /\ Len(r) = Len(q) + 1
                           /\ \A i \in 1 .. Len(q) : r[i] = q[i]
                           /\ r[Len(q) + 1] = e
                           => r = Append(q, e)
           /\ /\ q # <<>> /\ Len(r) = Len(q) - 1
              /\ \A i \in 1 .. Len(r) : r[i] = q[i + 1]
              => r = Tail(q)
  OBVIOUS

\* The abstract queue is the part of pushed between the cursors.
LEMMA ItemsFacts ==
    ASSUME TypeOK, RingInv
    PROVE  /\ Items \in Seq(Nat) /\ Len(Items) = head - tail
           /\ \A i \in 1 .. (head - tail) : Items[i] = pushed[tail + i]
<1>1. /\ head \in Nat /\ tail \in Nat /\ tail <= head /\ pushed \in Seq(Nat) /\ Len(pushed) = head
  BY DEF TypeOK, TypeQueue, TypeHistory, RingInv, CursorOrder
<1>2. head - tail \in Nat
  BY <1>1
<1>3. \A i \in 1 .. (head - tail) : pushed[tail + i] \in Nat
  BY <1>1
<1>4. Items \in [1 .. (head - tail) -> Nat]
  BY <1>3 DEF Items
<1>5. Items \in Seq(Nat) /\ Len(Items) = head - tail
  BY <1>2, <1>4
<1> QED BY <1>5 DEF Items

\* A step that changes neither cursor nor what anyone has in hand is invisible.
LEMMA Invisible ==
    ASSUME TypeOK, NEW t \in Threads, OnlyThread(t), UNCHANGED <<head, tail, pushed>>,
           Hand(t)' = Hand(t),
           \A u \in Threads : pc[u] = "pop_take" /\ u # t =>
                                 val'[Slot(pos[u])] = val[Slot(pos[u])]
    PROVE  UNCHANGED <<Items, Hands, Entered>>
<1>1. ASSUME NEW u \in Threads, u # t PROVE Hand(u)' = Hand(u)
  <2>1. pc'[u] = pc[u] /\ pos'[u] = pos[u] /\ item'[u] = item[u]
    BY <1>1 DEF OnlyThread
  <2>2. pc[u] = "pop_take" => val'[Slot(pos[u])] = val[Slot(pos[u])]
    BY <1>1
  <2> QED BY <2>1, <2>2 DEF Hand
<1>2. Hands' = Hands
  BY <1>1 DEF Hands
<1>3. Items' = Items /\ Entered' = Entered
  BY DEF Items, Entered
<1> QED BY <1>2, <1>3

\* An element enters when a push claims a position.
LEMMA ClaimEnqueues ==
    ASSUME Capacity >= 2, TypeOK, RingInv, TypeOK', RingInv', AccountInv,
           NEW t \in Threads, PushCas(t), head' = head + 1
    PROVE  /\ item[t] \in 1 .. MaxPush /\ item[t] \notin Entered
           /\ Len(Items) < Capacity /\ Items' = Append(Items, item[t])
           /\ Entered' = Entered \union {item[t]} /\ Hands' = Hands
<1>1. /\ OnlyThread(t) /\ pc[t] = "push_cas" /\ pc'[t] = "push_write" /\ pos[t] = head
      /\ pushed' = Append(pushed, item[t]) /\ UNCHANGED <<val, tail>>
      /\ head \in Nat /\ tail \in Nat /\ pushed \in Seq(Nat) /\ Len(pushed) = head
      /\ item[t] \in Nat /\ tail <= head
  BY DEF PushCas, At, Goto, OnlyThread, TypeOK, TypeThreads, TypeQueue, TypeHistory, RingInv,
         CursorOrder
<1>2. /\ \A k \in 1 .. head : pushed'[k] = pushed[k]
      /\ pushed'[head + 1] = item[t] /\ Len(pushed') = head + 1
  BY <1>1
<1>3. item[t] \in 1 .. MaxPush
  BY <1>1, MaxPushAssumption DEF AccountInv, Known, Carrying, Unclaimed
<1>4. item[t] \notin Entered
  BY <1>1 DEF AccountInv, Claims, Unclaimed, Entered
<1>5. seq[Slot(head)] = head
  BY <1>1 DEF RingInv, Readers
<1>6. head < tail + Capacity
  BY <1>5, RoomForClaim
<1>7. /\ Items \in Seq(Nat) /\ Len(Items) = head - tail
      /\ \A i \in 1 .. (head - tail) : Items[i] = pushed[tail + i]
  BY ItemsFacts
<1>8. /\ Items' \in Seq(Nat) /\ Len(Items') = (head + 1) - tail
      /\ \A i \in 1 .. ((head + 1) - tail) : Items'[i] = pushed'[tail + i]
  <2>1. (TypeOK /\ RingInv => /\ Items \in Seq(Nat) /\ Len(Items) = head - tail
                              /\ \A i \in 1 .. (head - tail) : Items[i] = pushed[tail + i])'
    BY ItemsFacts, PTL
  <2> QED BY <2>1, <1>1
<1>9. Len(Items) < Capacity
  BY <1>1, <1>6, <1>7, CapacityAssumption
<1>10. Items' = Append(Items, item[t])
  <2>1. \A i \in 1 .. Len(Items) : Items'[i] = Items[i]
    <3>1. TAKE i \in 1 .. Len(Items)
    <3>2. /\ i \in 1 .. (head - tail) /\ i \in 1 .. ((head + 1) - tail)
          /\ tail + i \in 1 .. head
      BY <1>1, <1>7
    <3> QED BY <3>2, <1>2, <1>7, <1>8
  <2>2. Items'[Len(Items) + 1] = item[t]
    <3>1. /\ Len(Items) + 1 = (head + 1) - tail
          /\ (head + 1) - tail \in 1 .. ((head + 1) - tail)
          /\ tail + ((head + 1) - tail) = head + 1
      BY <1>1, <1>7
    <3> QED BY <3>1, <1>2, <1>8
  <2>3. Len(Items') = Len(Items) + 1
    BY <1>1, <1>7, <1>8
  <2> QED BY <2>1, <2>2, <2>3, <1>1, <1>7, <1>8, SequenceShapes
<1>11. Entered' = Entered \union {item[t]}
  <2>1. 1 .. (head + 1) = (1 .. head) \union {head + 1}
    BY <1>1
  <2> QED BY <2>1, <1>1, <1>2 DEF Entered
<1>12. Hands' = Hands
  <2>1. Hand(t) = Null /\ Hand(t)' = Null
    BY <1>1 DEF Hand
  <2>2. ASSUME NEW u \in Threads, u # t PROVE Hand(u)' = Hand(u)
    BY <2>2, <1>1 DEF Hand, OnlyThread
  <2> QED BY <2>1, <2>2 DEF Hands
<1> QED BY <1>3, <1>4, <1>9, <1>10, <1>11, <1>12

\* An element leaves, for the thread's hand, when a pop claims its position.
LEMMA ClaimDequeues ==
    ASSUME TypeOK, RingInv, TypeOK', RingInv', AccountInv,
           NEW t \in Threads, PopCas(t), tail' = tail + 1
    PROVE  /\ Hands[t] = Null /\ Items # <<>>
           /\ Hands' = [Hands EXCEPT ![t] = Head(Items)] /\ Items' = Tail(Items)
           /\ Entered' = Entered
<1>1. /\ OnlyThread(t) /\ pc[t] = "pop_cas" /\ pc'[t] = "pop_take" /\ pos[t] = tail /\ pos' = pos
      /\ UNCHANGED <<val, head, pushed>> /\ head \in Nat /\ tail \in Nat
  BY DEF PopCas, At, Goto, OnlyThread, history, TypeOK, TypeThreads, TypeQueue
<1>2. seq[Slot(tail)] = tail + 1
  BY <1>1 DEF RingInv, Readers
<1>3. tail < head /\ val[Slot(tail)] = pushed[tail + 1]
  BY <1>2, PublishedIsLive
<1>4. /\ Items \in Seq(Nat) /\ Len(Items) = head - tail
      /\ \A i \in 1 .. (head - tail) : Items[i] = pushed[tail + i]
  BY ItemsFacts
<1>5. /\ Items' \in Seq(Nat) /\ Len(Items') = head - (tail + 1)
      /\ \A i \in 1 .. (head - (tail + 1)) : Items'[i] = pushed[(tail + 1) + i]
  <2>1. (TypeOK /\ RingInv => /\ Items \in Seq(Nat) /\ Len(Items) = head - tail
                              /\ \A i \in 1 .. (head - tail) : Items[i] = pushed[tail + i])'
    BY ItemsFacts, PTL
  <2> QED BY <2>1, <1>1
<1>6. Len(Items) > 0 /\ 1 \in 1 .. (head - tail)
  BY <1>1, <1>3, <1>4
<1>7. Items # <<>> /\ Head(Items) = pushed[tail + 1]
  <2>1. Items # <<>>
    BY <1>6
  <2>2. Head(Items) = Items[1]
    BY <2>1, <1>4
  <2> QED BY <2>1, <2>2, <1>4, <1>6
<1>8. Items' = Tail(Items)
  <2>1. Len(Items') = Len(Items) - 1
    BY <1>1, <1>4, <1>5
  <2>2. \A i \in 1 .. Len(Items') : Items'[i] = Items[i + 1]
    <3>1. TAKE i \in 1 .. Len(Items')
    <3>2. /\ i \in 1 .. (head - (tail + 1)) /\ i + 1 \in 1 .. (head - tail)
          /\ (tail + 1) + i = tail + (i + 1)
      BY <1>1, <1>5
    <3> QED BY <3>2, <1>4, <1>5
  <2> QED BY <2>1, <2>2, <1>4, <1>5, <1>7, SequenceShapes
<1>9. Hand(t) = Null /\ Hand(t)' = Head(Items)
  BY <1>1, <1>3, <1>7 DEF Hand
<1>10. ASSUME NEW u \in Threads, u # t PROVE Hand(u)' = Hand(u)
  BY <1>10, <1>1 DEF Hand, OnlyThread
<1>11. Hands' = [Hands EXCEPT ![t] = Head(Items)]
  BY <1>9, <1>10 DEF Hands
<1> QED BY <1>1, <1>7, <1>8, <1>9, <1>11 DEF Hands, Entered

\* The other steps of a thread are invisible, but for the return of a pop.
LEMMA OtherSteps ==
    ASSUME TypeOK, RingInv, AccountInv, NEW t \in Threads,
           \/ Local(t) \/ PushCall(t) \/ (PushLoop(t) /\ shutdown)
           \/ PushWrite(t) \/ PushPublish(t) \/ PushSize(t) \/ PopTake(t) \/ PopRelease(t)
    PROVE  UNCHANGED <<Items, Hands, Entered>>
<1> USE DEF At, Goto, shared, history, OnlyThread, TypeOK, TypeThreads
<1>1. CASE Local(t)
  BY <1>1, Invisible DEF Local, LocalLabels, Unclaimed, Hand
<1>2. CASE PushCall(t)
  BY <1>2, Invisible DEF PushCall, Hand
<1>3. CASE PushLoop(t) /\ shutdown
  BY <1>3, Invisible DEF PushLoop, Return, Hand
<1>4. CASE PushPublish(t) \/ PushSize(t)
  <2>1. /\ OnlyThread(t) /\ UNCHANGED <<head, tail, pushed>> /\ val' = val
        /\ pc[t] \in {"push_publish", "push_size"} /\ pc'[t] \in {"push_size", "idle"}
    BY <1>4 DEF PushPublish, PushSize, Return
  <2> QED BY <2>1, Invisible DEF Hand
<1>5. CASE PopRelease(t)
  BY <1>5, Invisible DEF PopRelease, Hand
<1>6. CASE PushWrite(t) \/ PopTake(t)
  <2>1. /\ OnlyThread(t) /\ UNCHANGED <<head, tail, pushed>> /\ pos' = pos
        /\ Owns(t) /\ \E x : val' = [val EXCEPT ![Slot(pos[t])] = x]
    BY <1>6 DEF PushWrite, PopTake, Owns, Pushing, Popping
  <2>2. ASSUME NEW u \in Threads, pc[u] = "pop_take", u # t
        PROVE  val'[Slot(pos[u])] = val[Slot(pos[u])]
    <3>1. Slot(pos[u]) # Slot(pos[t])
      BY <2>1, <2>2, RingExclusive DEF ExclusiveSlot, Owns, Popping
    <3> QED BY <2>1, <3>1, SlotInRange DEF TypeQueue
  <2>3. Hand(t)' = Hand(t)
    <3>1. CASE PushWrite(t)
      BY <3>1 DEF PushWrite, Hand
    <3>2. CASE PopTake(t)
      BY <3>2 DEF PopTake, Hand
    <3> QED BY <3>1, <3>2, <1>6
  <2> QED BY <2>1, <2>2, <2>3, Invisible
<1> QED BY <1>1, <1>2, <1>3, <1>4, <1>5, <1>6

\* A pop returns the element it has in hand.
LEMMA PopReturns ==
    ASSUME TypeOK, AccountInv, NEW t \in Threads, PopSize(t)
    PROVE  /\ Hands[t] # Null /\ Hands' = [Hands EXCEPT ![t] = Null]
           /\ UNCHANGED <<Items, Entered>>
<1>1. /\ OnlyThread(t) /\ pc[t] = "pop_size" /\ pc'[t] \in {"idle", "pop_load"}
      /\ UNCHANGED <<val, head, tail, pushed>>
  BY DEF PopSize, At, Goto, OnlyThread, TypeOK, TypeThreads
<1>2. item[t] # Null
  BY <1>1 DEF AccountInv, Known, Carrying, Null
<1>3. Hand(t) # Null /\ Hand(t)' = Null
  BY <1>1, <1>2 DEF Hand
<1>4. ASSUME NEW u \in Threads, u # t PROVE Hand(u)' = Hand(u)
  BY <1>4, <1>1 DEF Hand, OnlyThread
<1>5. Hands' = [Hands EXCEPT ![t] = Null]
  BY <1>3, <1>4 DEF Hands
<1> QED BY <1>1, <1>3, <1>5 DEF Hands, Items, Entered

\* Every step is one of the abstract queue or invisible there.
LEMMA StepRefines ==
    ASSUME Capacity >= 2, TypeOK, RingInv, TypeOK', RingInv', AccountInv, [Next]_vars
    PROVE  [Abstract!Next]_(Abstract!vars)
<1>1. SUFFICES \/ UNCHANGED <<Items, Hands, Entered>>
               \/ \E e \in 1 .. MaxPush : /\ e \notin Entered /\ Len(Items) < Capacity
                                          /\ Items' = Append(Items, e)
                                          /\ Entered' = Entered \union {e} /\ Hands' = Hands
               \/ \E t \in Threads : /\ Hands[t] = Null /\ Items # <<>>
                                     /\ Hands' = [Hands EXCEPT ![t] = Head(Items)]
                                     /\ Items' = Tail(Items) /\ Entered' = Entered
               \/ \E t \in Threads : /\ Hands[t] # Null /\ Hands' = [Hands EXCEPT ![t] = Null]
                                     /\ Items' = Items /\ Entered' = Entered
  BY DEF Abstract!Next, Abstract!vars, Abstract!Enqueue, Abstract!Dequeue, Abstract!Return,
         Hands, Entered
<1>2. ASSUME NEW t \in Threads, PushCas(t), head' = head + 1
      PROVE  \E e \in 1 .. MaxPush : /\ e \notin Entered /\ Len(Items) < Capacity
                                     /\ Items' = Append(Items, e)
                                     /\ Entered' = Entered \union {e} /\ Hands' = Hands
  BY <1>2, ClaimEnqueues
<1>3. ASSUME NEW t \in Threads, PopCas(t), tail' = tail + 1
      PROVE  /\ Hands[t] = Null /\ Items # <<>>
             /\ Hands' = [Hands EXCEPT ![t] = Head(Items)]
             /\ Items' = Tail(Items) /\ Entered' = Entered
  BY <1>3, ClaimDequeues
<1>4. ASSUME NEW t \in Threads, PopSize(t)
      PROVE  /\ Hands[t] # Null /\ Hands' = [Hands EXCEPT ![t] = Null]
             /\ Items' = Items /\ Entered' = Entered
  BY <1>4, PopReturns
<1>5. ASSUME NEW t \in Threads, Call(t) \/ Step(t), ~PopSize(t),
             ~(PushCas(t) /\ head' = head + 1), ~(PopCas(t) /\ tail' = tail + 1)
      PROVE  UNCHANGED <<Items, Hands, Entered>>
  <2>1. \/ Local(t) \/ PushCall(t) \/ (PushLoop(t) /\ shutdown)
        \/ PushWrite(t) \/ PushPublish(t) \/ PushSize(t) \/ PopTake(t) \/ PopRelease(t)
    BY <1>5, LocalSteps DEF Call, Step, AccountInv
  <2> QED BY <2>1, OtherSteps
<1>6. ASSUME UNCHANGED <<val, head, tail, pushed, pc, pos, item>>
      PROVE  UNCHANGED <<Items, Hands, Entered>>
  BY <1>6 DEF Items, Hands, Hand, Entered
<1>7. CASE Shutdown
  BY <1>7, <1>6 DEF Shutdown, history
<1>8. CASE UNCHANGED vars
  BY <1>8, <1>6 DEF vars
<1> QED BY <1>2, <1>3, <1>4, <1>5, <1>7, <1>8 DEF Next

\* The lock-free steps implement the bounded FIFO queue that callers rely on.
THEOREM QueueIsFifo ==
    ASSUME Capacity >= 2
    PROVE  Spec => ImplementsFifo
<1>1. Init => Abstract!Init
  <2> SUFFICES ASSUME Init PROVE Abstract!Init
    OBVIOUS
  <2>1. head = 0 /\ tail = 0 /\ pushed = <<>> /\ \A t \in Threads : pc[t] = "idle"
    BY DEF Init
  <2>2. Items = <<>>
    BY <2>1 DEF Items
  <2>3. [t \in Threads |-> Hand(t)] = [t \in Threads |-> Null]
    BY <2>1 DEF Hand
  <2>4. {pushed[i] : i \in 1 .. Len(pushed)} = {}
    BY <2>1
  <2> QED BY <2>2, <2>3, <2>4 DEF Abstract!Init
<1>2. TypeOK /\ RingInv /\ TypeOK' /\ RingInv' /\ AccountInv /\ [Next]_vars
        => [Abstract!Next]_(Abstract!vars)
  BY StepRefines
<1>3. Spec => []AccountInv
  BY ElementsAccountedFor
<1>4. Spec => []RingInv
  BY RingCorrect
<1> QED BY <1>1, <1>2, <1>3, <1>4, TypeCorrect, PTL DEF Spec, ImplementsFifo, Abstract!Spec
=============================================================================
