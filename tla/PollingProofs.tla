---------------------------- MODULE PollingProofs ----------------------------
(***************************************************************************)
(* Proofs about Polling for every set of streams and workers, every number *)
(* of slots and every bound: the claim token is a lock, no slot is lost or *)
(* shared, and no wakeup is lost, provided that every claimant looks at    *)
(* the result of mute (there are receive and call events only).            *)
(***************************************************************************)
EXTENDS Polling, FiniteSetTheorems, TLAPS

\* Labels of a thread that has claimed a stream and not yet started to erase it,
\* that is taking it out of the set, and that has the claim at all.
PreErase == {"del", "dispatch", "read", "write", "unmute", "erase"}
Cleared  == {"erase_maps", "erase_index"}
Unlinked == {"erase_null", "erase_del"}
Claiming == PreErase \union Cleared \union Unlinked

Resting        == {"idle", "wait", "loop", "stopped"}
PollerLabels   == {"wait", "loop", "stopped", "del", "dispatch", "erase", "finish"}
                     \union Cleared \union Unlinked
AcceptorLabels == {"idle", "ins_index", "ins_fd", "ins_maps", "ins_arm"}
WorkerLabels   == {"idle", "lookup", "claim", "del", "read", "write", "unmute", "arm",
                   "erase", "finish"} \union Cleared \union Unlinked

\* The events are receive and call: nobody goes on when mute has failed.
OnlyCalls == JobKinds \subseteq {"call"}

\* Which steps a kind of thread takes, that it has a stream while it does, and
\* that what it leaves behind is no receive event.
Control ==
    /\ pc[Poller] \in PollerLabels
    /\ pc[Acceptor] \in AcceptorLabels
    /\ \A w \in Workers : pc[w] \in WorkerLabels
    /\ \A t \in Threads : pc[t] \notin Resting => cur[t] \in Streams
    /\ \A w \in Workers : pc[w] \in {"lookup", "claim", "write"} => kind[w] = "call"
    /\ \A w \in Workers : pc[w] = "del" => kind[w] = "call"
    /\ \A t \in Threads : \A k \in 1 .. Len(after[t]) : after[t][k].kind = "call"

\* Thread t has claimed s; a receive event in the queue inherits the claim.
Engaged(t, s) == cur[t] = s /\ pc[t] \in Claiming
Inherited(s)  == \E k \in 1 .. Len(jobs) : jobs[k] = Job("receive", s)

\* A stream that nobody can have found yet: it is new, or in the first steps of
\* insert.
Inserting(s) == cur[Acceptor] = s /\ pc[Acceptor] \in {"ins_index", "ins_fd", "ins_maps"}

YoungInv ==
    \A s \in Streams : (status[s] = "new" \/ Inserting(s)) =>
        /\ s \notin known /\ s \notin armed /\ edata[s] = Unset /\ closed[s] = 0
        /\ \A t \in Threads \ {Acceptor} : cur[t] = s => pc[t] \in Resting \union {"lookup"}
        /\ ~Inherited(s)

InsertInv ==
    /\ \A s \in Streams : status[s] = "new" =>
          index[s] = NoIndex /\ (cur[Acceptor] = s => pc[Acceptor] = "idle")
    /\ pc[Acceptor] = "ins_index" => index[cur[Acceptor]] = NoIndex
    /\ pc[Acceptor] \in {"ins_fd", "ins_maps"} => index[cur[Acceptor]] \in Indexes

\* No stream has two receive events in the queue.
QueueInv ==
    \A j, k \in 1 .. Len(jobs) : jobs[j] = jobs[k] /\ jobs[j].kind = "receive" => j = k

\* One claimant at a time, and the token is gone while there is one.
LockInv ==
    \A s \in Streams :
        /\ \A t, u \in Threads : Engaged(t, s) /\ Engaged(u, s) => t = u
        /\ \A t \in Threads : Engaged(t, s) => ~Inherited(s) /\ \A i \in Indexes : token[i] # s
        /\ Inherited(s) => \A i \in Indexes : token[i] # s

\* s is in the slot that its __index names, and the token of the slot is zero.
InSlot(s) == index[s] \in Indexes /\ byFd[index[s]] = s /\ token[index[s]] = None

\* What the claimant relies on, stage by stage.
StageInv ==
    /\ \A s \in Streams : Inherited(s) => InSlot(s) /\ closed[s] = 0
    /\ \A t \in Threads :
          /\ pc[t] \in Claiming => closed[cur[t]] = 0
          /\ pc[t] \in PreErase => InSlot(cur[t])
          /\ pc[t] \in Cleared => /\ index[cur[t]] \in Indexes
                                  /\ byFd[index[cur[t]]] = None
                                  /\ token[index[cur[t]]] = None
          /\ pc[t] \in Unlinked \union {"erase_index"} => cur[t] \notin known
          /\ pc[t] = "erase_del" => index[cur[t]] = NoIndex

IsFree(i) == \E k \in 1 .. Len(free) : free[k] = i

\* The pool, the streams' indexes and the two arrays agree.
HolderInv ==
    \A i \in Indexes : \A r, s \in Streams : Holds(r, i) /\ Holds(s, i) => r = s
FreeInv ==
    \A i \in Indexes : IsFree(i) =>
        token[i] = None /\ byFd[i] = None /\ \A s \in Streams : ~Holds(s, i)
NoneLost ==
    \A i \in Indexes : IsFree(i) \/ \E s \in Streams : Holds(s, i)
TokenInv ==
    \A i \in Indexes : \A s \in Streams : token[i] = s =>
        Holds(s, i) /\ (byFd[i] = s \/ (cur[Acceptor] = s /\ pc[Acceptor] = "ins_fd"))
FdInv ==
    \A i \in Indexes : \A s \in Streams : byFd[i] = s => Holds(s, i)

\* No index is twice in the pool.
PoolInv == \A j, k \in 1 .. Len(free) : free[j] = free[k] => j = k

ClosedInv ==
    \A s \in Streams :
        /\ closed[s] <= 1
        /\ closed[s] = 1 => index[s] = NoIndex /\ s \notin known

\* A stream in the set that is released is registered, or about to be.
RegisteredInv ==
    \A s \in Streams :
        (s \in known /\ Hit(index[s], s)) =>
            \/ s \in armed
            \/ \E t \in Threads : cur[t] = s /\ pc[t] \in {"ins_arm", "arm"}

\* The event stream has no buffer of its own.
BufferInv == \A s \in Streams : Kind[s] = "event" => buffered[s] = 0

Inv ==
    /\ TypeOK /\ Control /\ YoungInv /\ InsertInv /\ QueueInv /\ LockInv /\ StageInv
    /\ HolderInv /\ FreeInv /\ NoneLost /\ TokenInv /\ FdInv /\ PoolInv
    /\ ClosedInv /\ BufferInv /\ RegisteredInv /\ IsFiniteSet(armed)

-----------------------------------------------------------------------------
(* Sequences.                                                              *)

\* What Append does to the length, the elements and the type of a sequence.
LEMMA AppendFacts ==
    ASSUME NEW S, NEW q \in Seq(S), NEW e \in S
    PROVE  /\ Append(q, e) \in Seq(S)
           /\ Len(Append(q, e)) = Len(q) + 1 /\ Len(q) \in Nat
           /\ \A k \in 1 .. Len(q) : Append(q, e)[k] = q[k]
           /\ Append(q, e)[Len(q) + 1] = e
  OBVIOUS

\* What Head and Tail return for a sequence that is not empty.
LEMMA TailFacts ==
    ASSUME NEW S, NEW q \in Seq(S), q # <<>>
    PROVE  /\ Head(q) \in S /\ Head(q) = q[1]
           /\ Tail(q) \in Seq(S)
           /\ Len(q) \in Nat \ {0} /\ Len(Tail(q)) = Len(q) - 1
           /\ \A k \in 1 .. Len(q) - 1 : Tail(q)[k] = q[k + 1]
  OBVIOUS

\* What concatenation returns.
LEMMA ConcatFacts ==
    ASSUME NEW S, NEW p \in Seq(S), NEW q \in Seq(S)
    PROVE  /\ p \o q \in Seq(S)
           /\ Len(p) \in Nat /\ Len(q) \in Nat /\ Len(p \o q) = Len(p) + Len(q)
           /\ \A k \in 1 .. Len(p) : (p \o q)[k] = p[k]
           /\ \A k \in Len(p) + 1 .. Len(p) + Len(q) : (p \o q)[k] = q[k - Len(p)]
  OBVIOUS

\* The events of the dispatcher's queue: their fields, and when they are equal.
LEMMA JobFacts ==
    /\ \A k \in JobKinds, s \in Streams : Job(k, s) \in JobSet
    /\ \A s \in Streams : Job("receive", s) \in JobSet
    /\ \A j \in JobSet : /\ j.kind \in JobKinds \union {"receive"} /\ j.stream \in Streams
                         /\ j = Job(j.kind, j.stream)
    /\ \A k, s : Job(k, s).kind = k /\ Job(k, s).stream = s
    /\ \A k, l, r, s : Job(k, r) = Job(l, s) => k = l /\ r = s
  BY DEF Job, JobSet

-----------------------------------------------------------------------------
(* How the queue of events changes, in terms of the claims its receive     *)
(* events inherit.                                                         *)

\* An event that is not a receive event changes nothing.
LEMMA AppendCall ==
    ASSUME TypeOK, QueueInv, NEW s \in Streams, "call" \in JobKinds,
           jobs' = Append(jobs, Job("call", s))
    PROVE  /\ jobs' \in Seq(JobSet) /\ QueueInv'
           /\ \A r \in Streams : Inherited(r)' <=> Inherited(r)
<1>1. jobs \in Seq(JobSet) /\ Job("call", s) \in JobSet
  BY JobFacts DEF TypeOK
<1>2. /\ jobs' \in Seq(JobSet) /\ Len(jobs') = Len(jobs) + 1 /\ Len(jobs) \in Nat
      /\ \A k \in 1 .. Len(jobs) : jobs'[k] = jobs[k]
      /\ jobs'[Len(jobs) + 1] = Job("call", s)
  BY <1>1, AppendFacts
<1>3. \A r : Job("call", s) # Job("receive", r)
  BY JobFacts
<1>4. \A r \in Streams : Inherited(r)' <=> Inherited(r)
  BY <1>2, <1>3 DEF Inherited
<1>5. QueueInv'
  BY <1>2, <1>1, JobFacts DEF QueueInv
<1> QED BY <1>2, <1>4, <1>5

\* A receive event inherits the claim of its stream.
LEMMA AppendReceive ==
    ASSUME TypeOK, QueueInv, NEW s \in Streams, ~Inherited(s),
           jobs' = Append(jobs, Job("receive", s))
    PROVE  /\ jobs' \in Seq(JobSet) /\ QueueInv'
           /\ \A r \in Streams : Inherited(r)' <=> Inherited(r) \/ r = s
<1>1. jobs \in Seq(JobSet) /\ Job("receive", s) \in JobSet
  BY JobFacts DEF TypeOK
<1>2. /\ jobs' \in Seq(JobSet) /\ Len(jobs') = Len(jobs) + 1 /\ Len(jobs) \in Nat
      /\ \A k \in 1 .. Len(jobs) : jobs'[k] = jobs[k]
      /\ jobs'[Len(jobs) + 1] = Job("receive", s)
  BY <1>1, AppendFacts
<1>3. \A r \in Streams : Inherited(r)' <=> Inherited(r) \/ r = s
  BY <1>2, JobFacts DEF Inherited
<1>4. QueueInv'
  BY <1>2, <1>1, JobFacts DEF QueueInv, Inherited
<1> QED BY <1>2, <1>3, <1>4

\* The event at the head of the queue is taken, and its claim with it.
LEMMA TakeHead ==
    ASSUME TypeOK, QueueInv, jobs # <<>>, jobs' = Tail(jobs)
    PROVE  /\ jobs' \in Seq(JobSet) /\ QueueInv'
           /\ Head(jobs).kind \in JobKinds \union {"receive"} /\ Head(jobs).stream \in Streams
           /\ \A r \in Streams : Inherited(r)' <=>
                 Inherited(r) /\ ~(Head(jobs).kind = "receive" /\ Head(jobs).stream = r)
           /\ Head(jobs).kind = "receive" => Inherited(Head(jobs).stream)
<1>1. jobs \in Seq(JobSet)
  BY DEF TypeOK
<1>2. /\ Head(jobs) \in JobSet /\ Head(jobs) = jobs[1]
      /\ jobs' \in Seq(JobSet)
      /\ Len(jobs) \in Nat \ {0} /\ Len(jobs') = Len(jobs) - 1
      /\ \A k \in 1 .. Len(jobs) - 1 : jobs'[k] = jobs[k + 1]
  BY <1>1, TailFacts
<1>3. /\ Head(jobs).kind \in JobKinds \union {"receive"} /\ Head(jobs).stream \in Streams
      /\ Head(jobs) = Job(Head(jobs).kind, Head(jobs).stream)
  BY <1>2, JobFacts
<1>4. QueueInv'
  <2>1. SUFFICES ASSUME NEW j \in 1 .. Len(jobs'), NEW k \in 1 .. Len(jobs'),
                        jobs'[j] = jobs'[k], jobs'[j].kind = "receive"
                 PROVE  j = k
    BY DEF QueueInv
  <2>2. j + 1 \in 1 .. Len(jobs) /\ k + 1 \in 1 .. Len(jobs)
    BY <1>2
  <2>3. jobs[j + 1] = jobs[k + 1] /\ jobs[j + 1].kind = "receive"
    BY <2>1, <1>2
  <2>4. j + 1 = k + 1
    BY <2>2, <2>3 DEF QueueInv
  <2> QED BY <2>4
<1>5. Head(jobs).kind = "receive" => Inherited(Head(jobs).stream)
  BY <1>2, <1>3 DEF Inherited
<1>6. ASSUME NEW r \in Streams
      PROVE  Inherited(r)' <=>
                 Inherited(r) /\ ~(Head(jobs).kind = "receive" /\ Head(jobs).stream = r)
  <2>1. ASSUME Inherited(r)'
        PROVE  Inherited(r) /\ ~(Head(jobs).kind = "receive" /\ Head(jobs).stream = r)
    <3>1. PICK k \in 1 .. Len(jobs') : jobs'[k] = Job("receive", r)
      BY <2>1 DEF Inherited
    <3>2. k + 1 \in 1 .. Len(jobs) /\ jobs[k + 1] = Job("receive", r) /\ k + 1 # 1
      BY <3>1, <1>2
    <3>3. Inherited(r)
      BY <3>2 DEF Inherited
    <3>4. 1 \in 1 .. Len(jobs) /\ jobs[k + 1].kind = "receive"
      BY <1>2, <3>2, JobFacts
    <3>5. ~(Head(jobs).kind = "receive" /\ Head(jobs).stream = r)
      BY <3>2, <3>4, <1>2, <1>3 DEF QueueInv
    <3> QED BY <3>3, <3>5
  <2>2. ASSUME Inherited(r), ~(Head(jobs).kind = "receive" /\ Head(jobs).stream = r)
        PROVE  Inherited(r)'
    <3>1. PICK k \in 1 .. Len(jobs) : jobs[k] = Job("receive", r)
      BY <2>2 DEF Inherited
    <3>2. k # 1
      BY <2>2, <3>1, <1>2, JobFacts
    <3>3. k - 1 \in 1 .. Len(jobs') /\ jobs'[k - 1] = Job("receive", r)
      BY <3>1, <3>2, <1>2
    <3> QED BY <3>3 DEF Inherited
  <2> QED BY <2>1, <2>2
<1> QED BY <1>2, <1>3, <1>4, <1>5, <1>6

\* The events a thread leaves behind are not receive events.
LEMMA AppendAfter ==
    ASSUME TypeOK, Control, QueueInv, NEW t \in Threads, jobs' = jobs \o after[t]
    PROVE  /\ jobs' \in Seq(JobSet) /\ QueueInv'
           /\ \A r \in Streams : Inherited(r)' <=> Inherited(r)
<1>1. /\ jobs \in Seq(JobSet) /\ after[t] \in Seq(JobSet)
      /\ \A k \in 1 .. Len(after[t]) : after[t][k].kind = "call"
  BY DEF TypeOK, Control
<1>2. /\ jobs' \in Seq(JobSet)
      /\ Len(jobs) \in Nat /\ Len(after[t]) \in Nat /\ Len(jobs') = Len(jobs) + Len(after[t])
      /\ \A k \in 1 .. Len(jobs) : jobs'[k] = jobs[k]
      /\ \A k \in Len(jobs) + 1 .. Len(jobs) + Len(after[t]) : jobs'[k] = after[t][k - Len(jobs)]
  BY <1>1, ConcatFacts
<1>3. \A k \in 1 .. Len(jobs') : k \notin 1 .. Len(jobs) => jobs'[k].kind = "call"
  <2>1. SUFFICES ASSUME NEW k \in 1 .. Len(jobs'), k \notin 1 .. Len(jobs)
                 PROVE  jobs'[k].kind = "call"
    OBVIOUS
  <2>2. k - Len(jobs) \in 1 .. Len(after[t]) /\ k \in Len(jobs) + 1 .. Len(jobs) + Len(after[t])
    BY <2>1, <1>2
  <2> QED BY <2>2, <1>1, <1>2
<1>4. \A r \in Streams : Inherited(r)' <=> Inherited(r)
  BY <1>2, <1>3, JobFacts DEF Inherited
<1>5. QueueInv'
  BY <1>2, <1>3 DEF QueueInv
<1> QED BY <1>2, <1>4, <1>5

-----------------------------------------------------------------------------
(* The steps.  For each one, what it does to every part of the invariant.  *)

\* Steps that touch neither a stream's slot, token or registration nor a thread.
LEMMA QuietStep ==
    ASSUME Inv, TypeOK', BufferInv',
           UNCHANGED <<setVars, edata, armed, status, jobs, threadVars, closed>>
    PROVE  Inv'
<1> USE DEF setVars, threadVars
<1>1. \A s : Inherited(s)' <=> Inherited(s)
  BY DEF Inherited
<1>2. \A s, i : Holds(s, i)' <=> Holds(s, i)
  BY DEF Holds
<1>3. Control' BY DEF Inv, Control
<1>4. YoungInv' BY <1>1 DEF Inv, YoungInv, Inserting
<1>5. InsertInv' BY DEF Inv, InsertInv
<1>6. QueueInv' /\ PoolInv' BY DEF Inv, QueueInv, PoolInv
<1>7. LockInv' BY <1>1 DEF Inv, LockInv, Engaged
<1>8. StageInv' BY <1>1 DEF Inv, StageInv, InSlot
<1>9. HolderInv' /\ FreeInv' /\ NoneLost' /\ TokenInv' /\ FdInv'
  BY <1>2 DEF Inv, HolderInv, FreeInv, NoneLost, TokenInv, FdInv, IsFree
<1>10. ClosedInv' BY DEF Inv, ClosedInv
<1>11. RegisteredInv' /\ IsFiniteSet(armed)' BY DEF Inv, RegisteredInv, Hit
<1> QED BY <1>3, <1>4, <1>5, <1>6, <1>7, <1>8, <1>9, <1>10, <1>11 DEF Inv

\* The types of what the events and the claims change.
Shapes ==
    /\ token \in [Indexes -> Streams \union {None}]
    /\ status \in [Streams -> {"new", "open", "ERRORING_OUT", "gone"}]
    /\ inbox \in [Streams -> Nat] /\ buffered \in [Streams -> Nat]
    /\ jobs \in Seq(JobSet)
    /\ pc \in [Threads -> Labels]
    /\ cur \in [Threads -> Streams \union {None}]
    /\ kind \in [Threads -> JobKinds \union {"none", "receive", "dialled", "hup", "in"}]
    /\ after \in [Threads -> Seq(JobSet)]

\* They are part of the type invariant.
LEMMA ShapesHold == TypeOK => Shapes
  BY DEF TypeOK, Shapes

\* What epoll_wait has returned or a pass has kept.
EventSet == {Event(s, h) : s \in Streams, h \in BOOLEAN}

\* Which records these are.
LEMMA EventFacts ==
    /\ \A s \in Streams : \A h \in BOOLEAN : Event(s, h) \in EventSet
    /\ \A e \in EventSet : e.stream \in Streams
  BY DEF Event, EventSet

\* When the sets and the counters do not change, these types are all there is to show.
LEMMA PollFrame ==
    ASSUME TypeOK, Shapes', work' \in Seq(EventSet), pending' \in Seq(EventSet),
           pass' \in {"batch", "retry"},
           UNCHANGED <<byFd, known, free, index, edata, armed, sent, hup, calls, closed,
                shutdown>>
    PROVE  TypeOK'
  BY DEF TypeOK, Shapes, EventSet

\* The same for a step that leaves the poller's events alone.
LEMMA TypeFrame ==
    ASSUME TypeOK, Shapes',
           UNCHANGED <<byFd, known, free, index, edata, armed, sent, hup, calls, pending, work,
                       pass, closed, shutdown>>
    PROVE  TypeOK'
  BY DEF TypeOK, Shapes

\* The same for what peers and callers do.
LEMMA OutsideFrame ==
    ASSUME TypeOK, sent' \in [Streams -> 0 .. MaxSent], inbox' \in [Streams -> Nat],
           hup' \subseteq Streams, shutdown' \in BOOLEAN,
           UNCHANGED <<setVars, edata, armed, status, buffered, jobs, calls, pollVars,
                       threadVars, closed>>
    PROVE  TypeOK'
<1> USE DEF setVars, pollVars, threadVars
<1>1. /\ token' \in [Indexes -> Streams \union {None}]
      /\ byFd' \in [Indexes -> Streams \union {None}]
      /\ known' \subseteq Streams /\ free' \in Seq(Indexes)
      /\ index' \in [Streams -> Indexes \union {NoIndex}]
      /\ edata' \in [Streams -> Indexes \union {NoIndex, Unset}]
      /\ armed' \subseteq Streams
      /\ status' \in [Streams -> {"new", "open", "ERRORING_OUT", "gone"}]
      /\ buffered' \in [Streams -> Nat]
      /\ jobs' \in Seq(JobSet) /\ calls' \in 0 .. MaxCalls
  BY DEF TypeOK
<1>2. \A q \in {pending, work}' : q \in Seq({Event(s, h) : s \in Streams, h \in BOOLEAN})
  BY DEF TypeOK
<1>3. /\ pass' \in {"batch", "retry"} /\ pc' \in [Threads -> Labels]
      /\ cur' \in [Threads -> Streams \union {None}]
      /\ kind' \in [Threads -> JobKinds \union {"none", "receive", "dialled", "hup", "in"}]
      /\ after' \in [Threads -> Seq(JobSet)] /\ closed' \in [Streams -> Nat]
  BY DEF TypeOK
<1> QED BY <1>1, <1>2, <1>3 DEF TypeOK

\* The same for what insert and erase do to the set.
LEMMA SetFrame ==
    ASSUME TypeOK, pc' \in [Threads -> Labels],
           byFd' \in [Indexes -> Streams \union {None}], known' \subseteq Streams,
           free' \in Seq(Indexes), index' \in [Streams -> Indexes \union {NoIndex}],
           edata' \in [Streams -> Indexes \union {NoIndex, Unset}], armed' \subseteq Streams,
           closed' \in [Streams -> Nat],
           UNCHANGED <<token, status, inbox, buffered, sent, hup, jobs, calls, pending, work,
                       pass, cur, kind, after, shutdown>>
    PROVE  TypeOK'
  BY DEF TypeOK

\* The types of the set.
LEMMA SetShapes ==
    ASSUME TypeOK
    PROVE  /\ byFd \in [Indexes -> Streams \union {None}] /\ known \subseteq Streams
           /\ free \in Seq(Indexes) /\ index \in [Streams -> Indexes \union {NoIndex}]
           /\ edata \in [Streams -> Indexes \union {NoIndex, Unset}] /\ armed \subseteq Streams
           /\ closed \in [Streams -> Nat]
  BY DEF TypeOK


\* Where a thread is tells which thread it is and that it has a stream.
LEMMA Position ==
    ASSUME Inv, NEW t \in Threads
    PROVE  /\ pc \in [Threads -> Labels] /\ cur \in [Threads -> Streams \union {None}]
           /\ pc[t] \notin Resting => cur[t] \in Streams
           /\ pc[t] \notin AcceptorLabels => t # Acceptor
           /\ pc[t] \notin PollerLabels => t # Poller
           /\ pc[t] \notin PollerLabels /\ pc[t] \notin AcceptorLabels => t \in Workers
<1>1. pc \in [Threads -> Labels] /\ cur \in [Threads -> Streams \union {None}]
  BY DEF Inv, TypeOK
<1>2. /\ pc[t] \notin Resting => cur[t] \in Streams
      /\ pc[t] \notin AcceptorLabels => t # Acceptor
      /\ pc[t] \notin PollerLabels => t # Poller
  BY DEF Inv, Control
<1> QED BY <1>1, <1>2 DEF Threads

\* A thread that has claimed a stream is the only one that deals with it.
LEMMA Alone ==
    ASSUME Inv, NEW t \in Threads, pc[t] \in Claiming
    PROVE  /\ ~Inserting(cur[t]) /\ status[cur[t]] # "new" /\ ~Inherited(cur[t])
           /\ \A i \in Indexes : token[i] # cur[t]
           /\ \A u \in Threads : u # t /\ pc[u] \in Claiming => cur[u] # cur[t]
<1> USE DEF Claiming, PreErase, Cleared, Unlinked
<1>1. cur[t] \in Streams /\ t # Acceptor
  BY Position DEF AcceptorLabels, Resting
<1>2. ~Inserting(cur[t]) /\ status[cur[t]] # "new"
  BY <1>1 DEF Inv, YoungInv, Resting
<1>3. /\ ~Inherited(cur[t]) /\ \A i \in Indexes : token[i] # cur[t]
      /\ \A u \in Threads : u # t /\ pc[u] \in Claiming => cur[u] # cur[t]
  BY <1>1 DEF Inv, LockInv, Engaged
<1> QED BY <1>2, <1>3

\* The null index is no slot.
LEMMA NullIndex == NoIndex \notin Indexes /\ Unset \notin Indexes
  BY CapacityAssumption DEF NoIndex, Unset, Indexes


\* The slot is emptied; the thread has the claim, so the token reads as zero.
LEMMA EraseStep ==
    ASSUME Inv, NEW t \in Threads, Erase(t)
    PROVE  Inv'
<1>1. /\ pc[t] = "erase" /\ byFd' = [byFd EXCEPT ![index[cur[t]]] = None]
      /\ pc' = [pc EXCEPT ![t] = "erase_maps"]
      /\ UNCHANGED <<token, known, free, index, edata, armed, status, inbox, buffered, sent,
                     hup, jobs, calls, pending, work, pass, cur, kind, after, closed, shutdown>>
  <2>1. pc[t] = "erase"
    BY DEF Erase, At
  <2>2. InSlot(cur[t])
    BY <2>1 DEF Inv, StageInv, PreErase
  <2> QED BY <2>1, <2>2 DEF Erase, InSlot, Goto, setVars, streamVars, pollVars, threadVars
<1>2. /\ pc \in [Threads -> Labels] /\ cur \in [Threads -> Streams \union {None}]
      /\ cur[t] \in Streams /\ t # Acceptor
  BY <1>1, Position DEF AcceptorLabels, Resting
<1>3. /\ ~Inserting(cur[t]) /\ status[cur[t]] # "new" /\ ~Inherited(cur[t])
      /\ \A i \in Indexes : token[i] # cur[t]
      /\ \A u \in Threads : u # t /\ pc[u] \in Claiming => cur[u] # cur[t]
  BY <1>1, Alone DEF Claiming, PreErase, Cleared, Unlinked
<1>4. \A s \in Streams : Inherited(s)' <=> Inherited(s)
  BY <1>1 DEF Inherited
<1>5. \A s, i : Holds(s, i)' <=> Holds(s, i)
  BY <1>1, <1>2 DEF Holds
<1>6. byFd \in [Indexes -> Streams \union {None}]
  BY DEF Inv, TypeOK
<1>7. InSlot(cur[t])
  BY <1>1 DEF Inv, StageInv, PreErase
<1>8. byFd' \in [Indexes -> Streams \union {None}]
  BY <1>1, <1>6
<1>9. TypeOK'
  <2>1. TypeOK
    BY DEF Inv
  <2>2. pc' \in [Threads -> Labels]
    BY <1>1, <1>2 DEF Labels
  <2> QED BY <1>1, <1>2, <1>8, <2>1, <2>2, SetShapes, SetFrame
<1>10. Control'
  BY <1>1, <1>2, <1>3, <1>4, <1>5, <1>6, <1>7, <1>8, ThreadAssumption DEF Inv, Control,
     PollerLabels, WorkerLabels, AcceptorLabels, Threads, Resting, Cleared, Unlinked
<1>11. YoungInv'
  BY <1>1, <1>2, <1>3, <1>4, <1>5, <1>6, <1>7, <1>8 DEF Inv, YoungInv, Inserting, Resting,
     Threads
<1>12. InsertInv'
  BY <1>1, <1>2, <1>3, <1>4, <1>5, <1>6, <1>7, <1>8 DEF Inv, InsertInv, Threads
<1>13. QueueInv'
  BY <1>1, <1>2, <1>3, <1>4, <1>5, <1>6, <1>7, <1>8 DEF Inv, QueueInv
<1>14. LockInv'
  BY <1>1, <1>2, <1>3, <1>4, <1>5, <1>6, <1>7, <1>8 DEF Inv, LockInv, Engaged, Claiming,
     PreErase, Cleared, Unlinked
<1>15. StageInv'
  BY <1>1, <1>2, <1>3, <1>4, <1>5, <1>6, <1>7, <1>8, NoneAssumption DEF Inv, StageInv, InSlot,
     Claiming, PreErase, Cleared, Unlinked
<1>16. HolderInv'
  BY <1>1, <1>2, <1>3, <1>4, <1>5, <1>6, <1>7, <1>8 DEF Inv, HolderInv
<1>17. FreeInv'
  BY <1>1, <1>2, <1>3, <1>4, <1>5, <1>6, <1>7, <1>8 DEF Inv, FreeInv, IsFree
<1>18. NoneLost'
  BY <1>1, <1>2, <1>3, <1>4, <1>5, <1>6, <1>7, <1>8 DEF Inv, NoneLost, IsFree
<1>19. TokenInv'
  BY <1>1, <1>2, <1>3, <1>4, <1>5, <1>6, <1>7, <1>8, NoneAssumption DEF Inv, TokenInv, Threads,
     InSlot
<1>20. FdInv'
  BY <1>1, <1>2, <1>3, <1>4, <1>5, <1>6, <1>7, <1>8, NoneAssumption DEF Inv, FdInv
<1>21. PoolInv'
  BY <1>1, <1>2, <1>3, <1>4, <1>5, <1>6, <1>7, <1>8 DEF Inv, PoolInv
<1>22. ClosedInv'
  BY <1>1, <1>2, <1>3, <1>4, <1>5, <1>6, <1>7, <1>8 DEF Inv, ClosedInv
<1>23. BufferInv'
  BY <1>1, <1>2, <1>3, <1>4, <1>5, <1>6, <1>7, <1>8 DEF Inv, BufferInv
<1>24. RegisteredInv'
  BY <1>1, <1>2, <1>3, <1>4, <1>5, <1>6, <1>7, <1>8 DEF Inv, RegisteredInv, Hit, Threads
<1>25. IsFiniteSet(armed)'
  BY <1>1 DEF Inv
<1> QED BY <1>9, <1>10, <1>11, <1>12, <1>13, <1>14, <1>15, <1>16, <1>17, <1>18, <1>19, <1>20,
          <1>21, <1>22, <1>23, <1>24, <1>25 DEF Inv


\* The stream is taken out of the maps.
LEMMA EraseMapsStep ==
    ASSUME Inv, NEW t \in Threads, EraseMaps(t)
    PROVE  Inv'
<1>1. /\ pc[t] = "erase_maps" /\ pc' = [pc EXCEPT ![t] = "erase_index"]
      /\ known' = known \ {cur[t]}
      /\ UNCHANGED <<token, byFd, free, index, edata, armed, status, inbox, buffered, sent,
                     hup, jobs, calls, pending, work, pass, cur, kind, after, closed, shutdown>>
  BY DEF EraseMaps, At, Goto, setVars, streamVars, pollVars, threadVars
<1>2. /\ pc \in [Threads -> Labels] /\ cur \in [Threads -> Streams \union {None}]
      /\ cur[t] \in Streams /\ t # Acceptor
  BY <1>1, Position DEF AcceptorLabels, Resting
<1>3. /\ ~Inserting(cur[t]) /\ status[cur[t]] # "new" /\ ~Inherited(cur[t])
      /\ \A i \in Indexes : token[i] # cur[t]
      /\ \A u \in Threads : u # t /\ pc[u] \in Claiming => cur[u] # cur[t]
  BY <1>1, Alone DEF Claiming, PreErase, Cleared, Unlinked
<1>4. \A s \in Streams : Inherited(s)' <=> Inherited(s)
  BY <1>1 DEF Inherited
<1>5. \A s, i : Holds(s, i)' <=> Holds(s, i)
  BY <1>1, <1>2 DEF Holds
<1>6. TypeOK'
  <2>1. TypeOK
    BY DEF Inv
  <2>2. pc' \in [Threads -> Labels]
    BY <1>1, <1>2 DEF Labels
  <2> QED BY <1>1, <1>2, <2>1, <2>2, SetShapes, SetFrame
<1>7. Control'
  BY <1>1, <1>2, <1>3, <1>4, <1>5, ThreadAssumption DEF Inv, Control, PollerLabels,
     WorkerLabels, AcceptorLabels, Threads, Resting, Cleared, Unlinked
<1>8. YoungInv'
  BY <1>1, <1>2, <1>3, <1>4, <1>5 DEF Inv, YoungInv, Inserting, Resting, Threads
<1>9. InsertInv'
  BY <1>1, <1>2, <1>3, <1>4, <1>5 DEF Inv, InsertInv, Threads
<1>10. QueueInv'
  BY <1>1, <1>2, <1>3, <1>4, <1>5 DEF Inv, QueueInv
<1>11. LockInv'
  BY <1>1, <1>2, <1>3, <1>4, <1>5 DEF Inv, LockInv, Engaged, Claiming, PreErase, Cleared,
     Unlinked
<1>12. StageInv'
  BY <1>1, <1>2, <1>3, <1>4, <1>5 DEF Inv, StageInv, InSlot, Claiming, PreErase, Cleared,
     Unlinked
<1>13. HolderInv'
  BY <1>1, <1>2, <1>3, <1>4, <1>5 DEF Inv, HolderInv
<1>14. FreeInv'
  BY <1>1, <1>2, <1>3, <1>4, <1>5 DEF Inv, FreeInv, IsFree
<1>15. NoneLost'
  BY <1>1, <1>2, <1>3, <1>4, <1>5 DEF Inv, NoneLost, IsFree
<1>16. TokenInv'
  BY <1>1, <1>2, <1>3, <1>4, <1>5 DEF Inv, TokenInv, Threads
<1>17. FdInv'
  BY <1>1, <1>2, <1>3, <1>4, <1>5 DEF Inv, FdInv
<1>18. PoolInv'
  BY <1>1, <1>2, <1>3, <1>4, <1>5 DEF Inv, PoolInv
<1>19. ClosedInv'
  BY <1>1, <1>2, <1>3, <1>4, <1>5 DEF Inv, ClosedInv
<1>20. BufferInv'
  BY <1>1, <1>2, <1>3, <1>4, <1>5 DEF Inv, BufferInv
<1>21. RegisteredInv'
  BY <1>1, <1>2, <1>3, <1>4, <1>5 DEF Inv, RegisteredInv, Hit, Threads
<1>22. IsFiniteSet(armed)'
  BY <1>1 DEF Inv
<1> QED BY <1>6, <1>7, <1>8, <1>9, <1>10, <1>11, <1>12, <1>13, <1>14, <1>15, <1>16, <1>17,
          <1>18, <1>19, <1>20, <1>21, <1>22 DEF Inv


\* The stream forgets its index, which is another stream's or free by now.
LEMMA EraseNullStep ==
    ASSUME Inv, NEW t \in Threads, EraseNull(t)
    PROVE  Inv'
<1>1. /\ pc[t] = "erase_null" /\ pc' = [pc EXCEPT ![t] = "erase_del"]
      /\ index' = [index EXCEPT ![cur[t]] = NoIndex]
      /\ UNCHANGED <<token, byFd, known, free, edata, armed, status, inbox, buffered, sent,
                     hup, jobs, calls, pending, work, pass, cur, kind, after, closed, shutdown>>
  BY DEF EraseNull, At, Goto, setVars, streamVars, pollVars, threadVars
<1>2. /\ pc \in [Threads -> Labels] /\ cur \in [Threads -> Streams \union {None}]
      /\ cur[t] \in Streams /\ t # Acceptor
  BY <1>1, Position DEF AcceptorLabels, Resting
<1>3. /\ ~Inserting(cur[t]) /\ status[cur[t]] # "new" /\ ~Inherited(cur[t])
      /\ \A i \in Indexes : token[i] # cur[t]
      /\ \A u \in Threads : u # t /\ pc[u] \in Claiming => cur[u] # cur[t]
  BY <1>1, Alone DEF Claiming, PreErase, Cleared, Unlinked
<1>4. \A s \in Streams : Inherited(s)' <=> Inherited(s)
  BY <1>1 DEF Inherited
<1>5. index \in [Streams -> Indexes \union {NoIndex}]
  BY DEF Inv, TypeOK
<1>6. \A i \in Indexes, s \in Streams : Holds(s, i)' <=> Holds(s, i)
  BY <1>1, <1>2, <1>5, NullIndex DEF Holds
<1>7. index' \in [Streams -> Indexes \union {NoIndex}]
  BY <1>1, <1>5
<1>8. TypeOK'
  <2>1. TypeOK
    BY DEF Inv
  <2>2. pc' \in [Threads -> Labels]
    BY <1>1, <1>2 DEF Labels
  <2> QED BY <1>1, <1>2, <1>7, <2>1, <2>2, SetShapes, SetFrame
<1>9. Control'
  BY <1>1, <1>2, <1>3, <1>4, <1>5, <1>6, <1>7, ThreadAssumption DEF Inv, Control, PollerLabels,
     WorkerLabels, AcceptorLabels, Threads, Resting, Cleared, Unlinked
<1>10. YoungInv'
  BY <1>1, <1>2, <1>3, <1>4, <1>5, <1>6, <1>7 DEF Inv, YoungInv, Inserting, Resting, Threads
<1>11. InsertInv'
  BY <1>1, <1>2, <1>3, <1>4, <1>5, <1>6, <1>7 DEF Inv, InsertInv, Threads, Inserting
<1>12. QueueInv'
  BY <1>1, <1>2, <1>3, <1>4, <1>5, <1>6, <1>7 DEF Inv, QueueInv
<1>13. LockInv'
  BY <1>1, <1>2, <1>3, <1>4, <1>5, <1>6, <1>7 DEF Inv, LockInv, Engaged, Claiming, PreErase,
     Cleared, Unlinked
<1>14. StageInv'
  BY <1>1, <1>2, <1>3, <1>4, <1>5, <1>6, <1>7, NullIndex DEF Inv, StageInv, InSlot, Claiming,
     PreErase, Cleared, Unlinked
<1>15. HolderInv'
  BY <1>1, <1>2, <1>3, <1>4, <1>5, <1>6, <1>7 DEF Inv, HolderInv
<1>16. FreeInv'
  BY <1>1, <1>2, <1>3, <1>4, <1>5, <1>6, <1>7 DEF Inv, FreeInv, IsFree
<1>17. NoneLost'
  BY <1>1, <1>2, <1>3, <1>4, <1>5, <1>6, <1>7 DEF Inv, NoneLost, IsFree
<1>18. TokenInv'
  BY <1>1, <1>2, <1>3, <1>4, <1>5, <1>6, <1>7 DEF Inv, TokenInv, Threads
<1>19. FdInv'
  BY <1>1, <1>2, <1>3, <1>4, <1>5, <1>6, <1>7 DEF Inv, FdInv
<1>20. PoolInv'
  BY <1>1, <1>2, <1>3, <1>4, <1>5, <1>6, <1>7 DEF Inv, PoolInv
<1>21. ClosedInv'
  BY <1>1, <1>2, <1>3, <1>4, <1>5, <1>6, <1>7 DEF Inv, ClosedInv
<1>22. BufferInv'
  BY <1>1, <1>2, <1>3, <1>4, <1>5, <1>6, <1>7 DEF Inv, BufferInv
<1>23. RegisteredInv'
  BY <1>1, <1>2, <1>3, <1>4, <1>5, <1>6, <1>7 DEF Inv, RegisteredInv, Hit, Threads
<1>24. IsFiniteSet(armed)'
  BY <1>1 DEF Inv
<1> QED BY <1>8, <1>9, <1>10, <1>11, <1>12, <1>13, <1>14, <1>15, <1>16, <1>17, <1>18, <1>19,
          <1>20, <1>21, <1>22, <1>23, <1>24 DEF Inv


\* The stream is unregistered and its DISCONNECTED callback made.
LEMMA EraseDelStep ==
    ASSUME Inv, NEW t \in Threads, EraseDel(t)
    PROVE  Inv'
<1>1. /\ pc[t] = "erase_del" /\ pc' = [pc EXCEPT ![t] = "finish"]
      /\ armed' = armed \ {cur[t]} /\ closed' = [closed EXCEPT ![cur[t]] = @ + 1]
      /\ UNCHANGED <<token, byFd, known, free, index, edata, status, inbox, buffered, sent,
                     hup, jobs, calls, pending, work, pass, cur, kind, after, shutdown>>
  BY DEF EraseDel, At, Goto, setVars, streamVars, pollVars, threadVars
<1>2. /\ pc \in [Threads -> Labels] /\ cur \in [Threads -> Streams \union {None}]
      /\ cur[t] \in Streams /\ t # Acceptor
  BY <1>1, Position DEF AcceptorLabels, Resting
<1>3. /\ ~Inserting(cur[t]) /\ status[cur[t]] # "new" /\ ~Inherited(cur[t])
      /\ \A i \in Indexes : token[i] # cur[t]
      /\ \A u \in Threads : u # t /\ pc[u] \in Claiming => cur[u] # cur[t]
  BY <1>1, Alone DEF Claiming, PreErase, Cleared, Unlinked
<1>4. \A s \in Streams : Inherited(s)' <=> Inherited(s)
  BY <1>1 DEF Inherited
<1>5. \A s, i : Holds(s, i)' <=> Holds(s, i)
  BY <1>1, <1>2 DEF Holds
<1>6. closed \in [Streams -> Nat] /\ closed[cur[t]] = 0 /\ index[cur[t]] = NoIndex /\ cur[t] \notin known
  BY <1>1, SetShapes DEF Inv, StageInv, Claiming, Unlinked
<1>7. TypeOK'
  <2>1. TypeOK
    BY DEF Inv
  <2>2. pc' \in [Threads -> Labels]
    BY <1>1, <1>2 DEF Labels
  <2> QED BY <1>1, <1>2, <1>6, <2>1, <2>2, SetShapes, SetFrame
<1>8. Control'
  BY <1>1, <1>2, <1>3, <1>4, <1>5, <1>6, ThreadAssumption DEF Inv, Control, PollerLabels,
     WorkerLabels, AcceptorLabels, Threads, Resting, Cleared, Unlinked
<1>9. YoungInv'
  BY <1>1, <1>2, <1>3, <1>4, <1>5, <1>6 DEF Inv, YoungInv, Inserting, Resting, Threads
<1>10. InsertInv'
  BY <1>1, <1>2, <1>3, <1>4, <1>5, <1>6 DEF Inv, InsertInv, Threads
<1>11. QueueInv'
  BY <1>1, <1>2, <1>3, <1>4, <1>5, <1>6 DEF Inv, QueueInv
<1>12. LockInv'
  BY <1>1, <1>2, <1>3, <1>4, <1>5, <1>6 DEF Inv, LockInv, Engaged, Claiming, PreErase, Cleared,
     Unlinked
<1>13. StageInv'
  BY <1>1, <1>2, <1>3, <1>4, <1>5, <1>6 DEF Inv, StageInv, InSlot, Claiming, PreErase, Cleared,
     Unlinked
<1>14. HolderInv'
  BY <1>1, <1>2, <1>3, <1>4, <1>5, <1>6 DEF Inv, HolderInv
<1>15. FreeInv'
  BY <1>1, <1>2, <1>3, <1>4, <1>5, <1>6 DEF Inv, FreeInv, IsFree
<1>16. NoneLost'
  BY <1>1, <1>2, <1>3, <1>4, <1>5, <1>6 DEF Inv, NoneLost, IsFree
<1>17. TokenInv'
  BY <1>1, <1>2, <1>3, <1>4, <1>5, <1>6 DEF Inv, TokenInv, Threads
<1>18. FdInv'
  BY <1>1, <1>2, <1>3, <1>4, <1>5, <1>6 DEF Inv, FdInv
<1>19. PoolInv'
  BY <1>1, <1>2, <1>3, <1>4, <1>5, <1>6 DEF Inv, PoolInv
<1>20. ClosedInv'
  BY <1>1, <1>2, <1>3, <1>4, <1>5, <1>6 DEF Inv, ClosedInv
<1>21. BufferInv'
  BY <1>1, <1>2, <1>3, <1>4, <1>5, <1>6 DEF Inv, BufferInv
<1>22. RegisteredInv'
  BY <1>1, <1>2, <1>3, <1>4, <1>5, <1>6 DEF Inv, RegisteredInv, Hit, Threads
<1>23. IsFiniteSet(armed)'
  BY <1>1, FS_RemoveElement DEF Inv
<1> QED BY <1>7, <1>8, <1>9, <1>10, <1>11, <1>12, <1>13, <1>14, <1>15, <1>16, <1>17, <1>18,
          <1>19, <1>20, <1>21, <1>22, <1>23 DEF Inv


\* The index goes back to the pool: nobody else holds it and it is not there yet.
LEMMA EraseIndexStep ==
    ASSUME Inv, NEW t \in Threads, EraseIndex(t)
    PROVE  Inv'
<1>1. /\ pc[t] = "erase_index" /\ pc' = [pc EXCEPT ![t] = "erase_null"]
      /\ free' = Append(free, index[cur[t]])
      /\ UNCHANGED <<token, byFd, known, index, edata, armed, status, inbox, buffered, sent,
                     hup, jobs, calls, pending, work, pass, cur, kind, after, closed, shutdown>>
  BY DEF EraseIndex, At, Goto, setVars, streamVars, pollVars, threadVars
<1>2. /\ pc \in [Threads -> Labels] /\ cur \in [Threads -> Streams \union {None}]
      /\ cur[t] \in Streams /\ t # Acceptor
  BY <1>1, Position DEF AcceptorLabels, Resting
<1>3. /\ ~Inserting(cur[t]) /\ status[cur[t]] # "new" /\ ~Inherited(cur[t])
      /\ \A i \in Indexes : token[i] # cur[t]
      /\ \A u \in Threads : u # t /\ pc[u] \in Claiming => cur[u] # cur[t]
  BY <1>1, Alone DEF Claiming, PreErase, Cleared, Unlinked
<1>4. \A s \in Streams : Inherited(s)' <=> Inherited(s)
  BY <1>1 DEF Inherited
<1>5. /\ index[cur[t]] \in Indexes /\ byFd[index[cur[t]]] = None /\ token[index[cur[t]]] = None
  BY <1>1 DEF Inv, StageInv, Cleared
<1>6. /\ free' \in Seq(Indexes) /\ Len(free') = Len(free) + 1 /\ Len(free) \in Nat
      /\ \A k \in 1 .. Len(free) : free'[k] = free[k]
      /\ free'[Len(free) + 1] = index[cur[t]]
  BY <1>1, <1>5, AppendFacts DEF Inv, TypeOK
<1>7. Holds(cur[t], index[cur[t]])
  BY <1>1, <1>3 DEF Holds, Claiming, Unlinked
<1>8. \A i : IsFree(i)' <=> IsFree(i) \/ i = index[cur[t]]
  BY <1>6 DEF IsFree
<1>9. ~IsFree(index[cur[t]])
  BY <1>2, <1>5, <1>7 DEF Inv, FreeInv
<1>10. \A i, s : Holds(s, i)' <=> Holds(s, i) /\ s # cur[t]
  BY <1>1, <1>2, <1>7 DEF Holds
<1>11. TypeOK'
  <2>1. TypeOK
    BY DEF Inv
  <2>2. pc' \in [Threads -> Labels]
    BY <1>1, <1>2 DEF Labels
  <2> QED BY <1>1, <1>2, <1>6, <2>1, <2>2, SetShapes, SetFrame
<1>12. Control'
  BY <1>1, <1>2, <1>3, <1>4, <1>5, <1>6, <1>7, <1>8, <1>9, <1>10, ThreadAssumption DEF Inv,
     Control, PollerLabels, WorkerLabels, AcceptorLabels, Threads, Resting, Cleared, Unlinked
<1>13. YoungInv'
  BY <1>1, <1>2, <1>3, <1>4, <1>5, <1>6, <1>7, <1>8, <1>9, <1>10 DEF Inv, YoungInv, Inserting,
     Resting, Threads
<1>14. InsertInv'
  BY <1>1, <1>2, <1>3, <1>4, <1>5, <1>6, <1>7, <1>8, <1>9, <1>10 DEF Inv, InsertInv, Threads
<1>15. QueueInv'
  BY <1>1, <1>2, <1>3, <1>4, <1>5, <1>6, <1>7, <1>8, <1>9, <1>10 DEF Inv, QueueInv
<1>16. LockInv'
  BY <1>1, <1>2, <1>3, <1>4, <1>5, <1>6, <1>7, <1>8, <1>9, <1>10 DEF Inv, LockInv, Engaged,
     Claiming, PreErase, Cleared, Unlinked
<1>17. StageInv'
  BY <1>1, <1>2, <1>3, <1>4, <1>5, <1>6, <1>7, <1>8, <1>9, <1>10 DEF Inv, StageInv, InSlot,
     Claiming, PreErase, Cleared, Unlinked
<1>18. HolderInv'
  BY <1>10 DEF Inv, HolderInv
<1>19. FreeInv'
  BY <1>1, <1>2, <1>5, <1>7, <1>8, <1>10 DEF Inv, FreeInv, HolderInv
<1>20. NoneLost'
  <2>1. \A i : Holds(cur[t], i) => i = index[cur[t]]
    BY DEF Holds
  <2> QED BY <2>1, <1>8, <1>10 DEF Inv, NoneLost
<1>21. TokenInv'
  BY <1>1, <1>2, <1>3, <1>10 DEF Inv, TokenInv
<1>22. FdInv'
  BY <1>1, <1>2, <1>5, <1>10, NoneAssumption DEF Inv, FdInv, Holds
<1>23. PoolInv'
  BY <1>6, <1>9 DEF Inv, PoolInv, IsFree
<1>24. ClosedInv'
  BY <1>1, <1>2, <1>3, <1>4, <1>5, <1>6, <1>7, <1>8, <1>9, <1>10 DEF Inv, ClosedInv
<1>25. BufferInv'
  BY <1>1, <1>2, <1>3, <1>4, <1>5, <1>6, <1>7, <1>8, <1>9, <1>10 DEF Inv, BufferInv
<1>26. RegisteredInv'
  BY <1>1, <1>2, <1>3, <1>4, <1>5, <1>6, <1>7, <1>8, <1>9, <1>10 DEF Inv, RegisteredInv, Hit,
     Threads
<1>27. IsFiniteSet(armed)'
  BY <1>1 DEF Inv
<1> QED BY <1>11, <1>12, <1>13, <1>14, <1>15, <1>16, <1>17, <1>18, <1>19, <1>20, <1>21, <1>22,
          <1>23, <1>24, <1>25, <1>26, <1>27 DEF Inv


\* EPOLL_CTL_DEL follows every successful claim.
LEMMA DelStep ==
    ASSUME Inv, NEW t \in Threads, Del(t)
    PROVE  Inv'
<1>1. /\ pc[t] = "del" /\ pc' = [pc EXCEPT ![t] = IF t = Poller THEN "dispatch" ELSE "write"]
      /\ armed' = armed \ {cur[t]}
      /\ UNCHANGED <<token, byFd, known, free, index, edata, status, inbox, buffered, sent,
                     hup, jobs, calls, pending, work, pass, cur, kind, after, closed, shutdown>>
  BY DEF Del, At, Goto, setVars, streamVars, pollVars, threadVars
<1>2. /\ pc \in [Threads -> Labels] /\ cur \in [Threads -> Streams \union {None}]
      /\ cur[t] \in Streams /\ t # Acceptor
  BY <1>1, Position DEF AcceptorLabels, Resting
<1>3. /\ ~Inserting(cur[t]) /\ status[cur[t]] # "new" /\ ~Inherited(cur[t])
      /\ \A i \in Indexes : token[i] # cur[t]
      /\ \A u \in Threads : u # t /\ pc[u] \in Claiming => cur[u] # cur[t]
  BY <1>1, Alone DEF Claiming, PreErase, Cleared, Unlinked
<1>4. \A s \in Streams : Inherited(s)' <=> Inherited(s)
  BY <1>1 DEF Inherited
<1>5. \A s, i : Holds(s, i)' <=> Holds(s, i)
  BY <1>1, <1>2 DEF Holds
<1>6. TypeOK'
  <2>1. TypeOK
    BY DEF Inv
  <2>2. pc' \in [Threads -> Labels]
    BY <1>1, <1>2 DEF Labels
  <2> QED BY <1>1, <1>2, <2>1, <2>2, SetShapes, SetFrame
<1>7. Control'
  BY <1>1, <1>2, <1>3, <1>4, <1>5, ThreadAssumption DEF Inv, Control, PollerLabels,
     WorkerLabels, AcceptorLabels, Threads, Resting, Cleared, Unlinked
<1>8. YoungInv'
  BY <1>1, <1>2, <1>3, <1>4, <1>5 DEF Inv, YoungInv, Inserting, Resting, Threads
<1>9. InsertInv'
  BY <1>1, <1>2, <1>3, <1>4, <1>5 DEF Inv, InsertInv, Threads
<1>10. QueueInv'
  BY <1>1, <1>2, <1>3, <1>4, <1>5 DEF Inv, QueueInv
<1>11. LockInv'
  BY <1>1, <1>2, <1>3, <1>4, <1>5 DEF Inv, LockInv, Engaged, Claiming, PreErase, Cleared,
     Unlinked
<1>12. StageInv'
  BY <1>1, <1>2, <1>3, <1>4, <1>5 DEF Inv, StageInv, InSlot, Claiming, PreErase, Cleared,
     Unlinked
<1>13. HolderInv'
  BY <1>1, <1>2, <1>3, <1>4, <1>5 DEF Inv, HolderInv
<1>14. FreeInv'
  BY <1>1, <1>2, <1>3, <1>4, <1>5 DEF Inv, FreeInv, IsFree
<1>15. NoneLost'
  BY <1>1, <1>2, <1>3, <1>4, <1>5 DEF Inv, NoneLost, IsFree
<1>16. TokenInv'
  BY <1>1, <1>2, <1>3, <1>4, <1>5 DEF Inv, TokenInv, Threads
<1>17. FdInv'
  BY <1>1, <1>2, <1>3, <1>4, <1>5 DEF Inv, FdInv
<1>18. PoolInv'
  BY <1>1, <1>2, <1>3, <1>4, <1>5 DEF Inv, PoolInv
<1>19. ClosedInv'
  BY <1>1, <1>2, <1>3, <1>4, <1>5 DEF Inv, ClosedInv
<1>20. BufferInv'
  BY <1>1, <1>2, <1>3, <1>4, <1>5 DEF Inv, BufferInv
<1>21. RegisteredInv'
  BY <1>1, <1>2, <1>3, <1>4, <1>5 DEF Inv, RegisteredInv, Hit, Threads
<1>22. IsFiniteSet(armed)'
  BY <1>1, FS_RemoveElement DEF Inv
<1> QED BY <1>6, <1>7, <1>8, <1>9, <1>10, <1>11, <1>12, <1>13, <1>14, <1>15, <1>16, <1>17,
          <1>18, <1>19, <1>20, <1>21, <1>22 DEF Inv

\* A thread that has the claim goes on to another step that needs it.
LEMMA ProceedStep ==
    ASSUME Inv, TypeOK', Control', BufferInv', NEW t \in Threads, NEW l \in PreErase,
           pc[t] \in PreErase, pc' = [pc EXCEPT ![t] = l],
           \A s \in Streams : status'[s] = "new" <=> status[s] = "new",
           UNCHANGED <<token, byFd, known, free, index, edata, armed, jobs, cur, closed>>
    PROVE  Inv'
<1>1. t # Acceptor /\ cur[t] \in Streams
  BY Position DEF PreErase, AcceptorLabels, Resting
<1>2. /\ pc \in [Threads -> Labels] /\ cur \in [Threads -> Streams \union {None}]
  BY Position
<1>3. \A s \in Streams : Inherited(s)' <=> Inherited(s)
  BY DEF Inherited
<1>4. \A s, i : Holds(s, i)' <=> Holds(s, i)
  BY <1>2 DEF Holds, PreErase
<1>5. YoungInv'
  BY <1>1, <1>2, <1>3, <1>4 DEF Inv, YoungInv, Inserting, Resting, Threads, PreErase
<1>6. InsertInv'
  BY <1>1, <1>2, <1>3, <1>4 DEF Inv, InsertInv, Threads
<1>7. QueueInv'
  BY <1>1, <1>2, <1>3, <1>4 DEF Inv, QueueInv
<1>8. LockInv'
  BY <1>1, <1>2, <1>3, <1>4 DEF Inv, LockInv, Engaged, Claiming, PreErase, Cleared, Unlinked
<1>9. StageInv'
  BY <1>1, <1>2, <1>3, <1>4 DEF Inv, StageInv, InSlot, Claiming, PreErase, Cleared, Unlinked
<1>10. HolderInv'
  BY <1>1, <1>2, <1>3, <1>4 DEF Inv, HolderInv
<1>11. FreeInv'
  BY <1>1, <1>2, <1>3, <1>4 DEF Inv, FreeInv, IsFree
<1>12. NoneLost'
  BY <1>1, <1>2, <1>3, <1>4 DEF Inv, NoneLost, IsFree
<1>13. TokenInv'
  BY <1>1, <1>2, <1>3, <1>4 DEF Inv, TokenInv, Threads
<1>14. FdInv'
  BY <1>1, <1>2, <1>3, <1>4 DEF Inv, FdInv
<1>15. PoolInv'
  BY <1>1, <1>2, <1>3, <1>4 DEF Inv, PoolInv
<1>16. ClosedInv'
  BY <1>1, <1>2, <1>3, <1>4 DEF Inv, ClosedInv
<1>17. RegisteredInv'
  BY <1>1, <1>2, <1>3, <1>4 DEF Inv, RegisteredInv, Hit, Threads, PreErase
<1>18. IsFiniteSet(armed)'
  BY DEF Inv
<1> QED BY <1>5, <1>6, <1>7, <1>8, <1>9, <1>10, <1>11, <1>12, <1>13, <1>14, <1>15, <1>16,
          <1>17, <1>18 DEF Inv


\* A thread that has no claim and nothing more to register lets go of its stream.
LEMMA DepartStep ==
    ASSUME Inv, TypeOK', Control', BufferInv', NEW t \in Threads, NEW l \in Resting,
           pc[t] \in {"finish", "lookup", "claim", "ins_index"}, pc' = [pc EXCEPT ![t] = l],
           cur' = [cur EXCEPT ![t] = None], QueueInv',
           \A s \in Streams : Inherited(s)' <=> Inherited(s),
           UNCHANGED <<token, byFd, known, free, index, edata, armed, status, closed>>
    PROVE  Inv'
<1>1. /\ pc \in [Threads -> Labels] /\ cur \in [Threads -> Streams \union {None}]
  BY Position
<1>2. t = Acceptor => l = "idle"
  BY <1>1 DEF Control, AcceptorLabels, Resting
<1>3. \A s \in Streams : \A i : Holds(s, i)' <=> Holds(s, i)
  BY <1>1, NoneAssumption DEF Holds, Resting
<1>4. YoungInv'
  BY <1>1, <1>2, <1>3, NoneAssumption DEF Inv, YoungInv, Inserting, Resting, Threads
<1>5. InsertInv'
  BY <1>1, <1>2, <1>3, NoneAssumption DEF Inv, InsertInv, Threads, Resting
<1>6. LockInv'
  BY <1>1, <1>2, <1>3, NoneAssumption DEF Inv, LockInv, Engaged, Claiming, PreErase, Cleared,
     Unlinked, Resting
<1>7. StageInv'
  BY <1>1, <1>2, <1>3, NoneAssumption DEF Inv, StageInv, InSlot, Claiming, PreErase, Cleared,
     Unlinked, Resting
<1>8. HolderInv'
  BY <1>1, <1>2, <1>3 DEF Inv, HolderInv
<1>9. FreeInv'
  BY <1>1, <1>2, <1>3 DEF Inv, FreeInv, IsFree
<1>10. NoneLost'
  BY <1>1, <1>2, <1>3 DEF Inv, NoneLost, IsFree
<1>11. TokenInv'
  BY <1>1, <1>2, <1>3, NoneAssumption DEF Inv, TokenInv, Threads, Resting
<1>12. FdInv'
  BY <1>1, <1>2, <1>3 DEF Inv, FdInv
<1>13. PoolInv'
  BY <1>1, <1>2, <1>3 DEF Inv, PoolInv
<1>14. ClosedInv'
  BY <1>1, <1>2, <1>3 DEF Inv, ClosedInv
<1>15. RegisteredInv'
  BY <1>1, <1>2, <1>3, NoneAssumption DEF Inv, RegisteredInv, Hit, Threads
<1>16. IsFiniteSet(armed)'
  BY DEF Inv
<1> QED BY <1>4, <1>5, <1>6, <1>7, <1>8, <1>9, <1>10, <1>11, <1>12, <1>13, <1>14, <1>15,
          <1>16 DEF Inv


\* The swap of the token succeeds: the stream has a claimant again, in the slot the token was in.
LEMMA AcquireStep ==
    ASSUME Inv, TypeOK', Control', BufferInv', NEW t \in Threads, NEW i \in Indexes,
           NEW s \in Streams,
           pc[t] \in {"claim", "loop"}, Claimed(i, s), ~Inserting(s),
           pc' = [pc EXCEPT ![t] = "del"], cur' = [cur EXCEPT ![t] = s],
           token' = [token EXCEPT ![i] = None],
           UNCHANGED <<byFd, known, free, index, edata, armed, status, jobs, closed>>
    PROVE  Inv'
<1>1. /\ pc \in [Threads -> Labels] /\ cur \in [Threads -> Streams \union {None}] /\ t # Acceptor
  BY Position DEF AcceptorLabels
<1>2. token \in [Indexes -> Streams \union {None}]
  BY DEF Inv, TypeOK
<1>3. token[i] = s /\ byFd[i] = s /\ Holds(s, i)
  BY DEF Claimed, Hit, Inv, TokenInv
<1>4. index[s] = i /\ status[s] # "new" /\ closed[s] = 0
  <2>1. index[s] = i
    BY <1>3 DEF Holds
  <2>2. index[s] # NoIndex
    BY <2>1, NullIndex
  <2>3. status[s] # "new"
    BY <2>2 DEF Inv, InsertInv
  <2>4. closed[s] \in Nat /\ closed[s] <= 1 /\ closed[s] # 1
    BY <2>2, SetShapes DEF Inv, ClosedInv
  <2> QED BY <2>1, <2>3, <2>4
<1>5. /\ ~Inherited(s) /\ \A u \in Threads : ~Engaged(u, s)
  BY <1>3 DEF Inv, LockInv
<1>6. \A j \in Indexes : j # i => token[j] # s
  BY <1>4 DEF Inv, TokenInv, Holds
<1>7. \A r \in Streams : Inherited(r)' <=> Inherited(r)
  BY DEF Inherited
<1>8. \A r, j : Holds(r, j)' <=> Holds(r, j)
  BY <1>1 DEF Holds
<1>9. /\ token'[i] = None /\ \A j \in Indexes : j # i => token'[j] = token[j]
  BY <1>2
<1>10. YoungInv'
  BY <1>1, <1>2, <1>3, <1>4, <1>5, <1>6, <1>7, <1>8, <1>9 DEF Inv, YoungInv, Inserting,
     Resting, Threads
<1>11. InsertInv'
  BY <1>1, <1>2, <1>3, <1>4, <1>5, <1>6, <1>7, <1>8, <1>9 DEF Inv, InsertInv, Threads
<1>12. QueueInv'
  BY <1>1, <1>2, <1>3, <1>4, <1>5, <1>6, <1>7, <1>8, <1>9 DEF Inv, QueueInv
<1>13. LockInv'
  BY <1>1, <1>5, <1>6, <1>7, <1>9, NoneAssumption DEF Inv, LockInv, Engaged, Claiming, PreErase
<1>14. StageInv'
  BY <1>1, <1>2, <1>3, <1>4, <1>5, <1>6, <1>7, <1>8, <1>9 DEF Inv, StageInv, InSlot, Claiming,
     PreErase, Cleared, Unlinked, Holds
<1>15. HolderInv'
  BY <1>1, <1>2, <1>3, <1>4, <1>5, <1>6, <1>7, <1>8, <1>9 DEF Inv, HolderInv
<1>16. FreeInv'
  BY <1>1, <1>2, <1>3, <1>4, <1>5, <1>6, <1>7, <1>8, <1>9 DEF Inv, FreeInv, IsFree
<1>17. NoneLost'
  BY <1>1, <1>2, <1>3, <1>4, <1>5, <1>6, <1>7, <1>8, <1>9 DEF Inv, NoneLost, IsFree
<1>18. TokenInv'
  BY <1>1, <1>2, <1>3, <1>4, <1>5, <1>6, <1>7, <1>8, <1>9, NoneAssumption DEF Inv, TokenInv,
     Threads
<1>19. FdInv'
  BY <1>1, <1>2, <1>3, <1>4, <1>5, <1>6, <1>7, <1>8, <1>9 DEF Inv, FdInv
<1>20. PoolInv'
  BY <1>1, <1>2, <1>3, <1>4, <1>5, <1>6, <1>7, <1>8, <1>9 DEF Inv, PoolInv
<1>21. ClosedInv'
  BY <1>1, <1>2, <1>3, <1>4, <1>5, <1>6, <1>7, <1>8, <1>9 DEF Inv, ClosedInv
<1>22. RegisteredInv'
  BY <1>1, <1>2, <1>3, <1>4, <1>5, <1>6, <1>7, <1>8, <1>9, NoneAssumption DEF Inv,
     RegisteredInv, Hit, Threads, Holds
<1>23. IsFiniteSet(armed)'
  BY DEF Inv
<1> QED BY <1>10, <1>11, <1>12, <1>13, <1>14, <1>15, <1>16, <1>17, <1>18, <1>19, <1>20,
          <1>21, <1>22, <1>23 DEF Inv


\* The claim is handed over to a receive event.
LEMMA InheritStep ==
    ASSUME Inv, TypeOK', Control', BufferInv', NEW t \in Threads, NEW l \in {"loop", "finish"},
           NEW c \in {None, cur[t]}, pc[t] \in PreErase, pc' = [pc EXCEPT ![t] = l],
           cur' = [cur EXCEPT ![t] = c], jobs' = Append(jobs, Job("receive", cur[t])),
           UNCHANGED <<token, byFd, known, free, index, edata, armed, status, closed>>
    PROVE  Inv'
<1>1. /\ pc \in [Threads -> Labels] /\ cur \in [Threads -> Streams \union {None}]
      /\ t # Acceptor /\ cur[t] \in Streams
  BY Position DEF PreErase, AcceptorLabels, Resting
<1>2. /\ ~Inserting(cur[t]) /\ status[cur[t]] # "new" /\ ~Inherited(cur[t])
      /\ \A i \in Indexes : token[i] # cur[t]
      /\ \A u \in Threads : u # t /\ pc[u] \in Claiming => cur[u] # cur[t]
  BY Alone DEF Claiming
<1>3. /\ QueueInv' /\ \A r \in Streams : Inherited(r)' <=> Inherited(r) \/ r = cur[t]
  BY <1>1, <1>2, AppendReceive DEF Inv
<1>4. InSlot(cur[t]) /\ closed[cur[t]] = 0
  BY DEF Inv, StageInv, Claiming
<1>5. \A s \in Streams : \A i : Holds(s, i)' <=> Holds(s, i)
  BY <1>1, NoneAssumption DEF Holds, PreErase
<1>6. YoungInv'
  BY <1>1, <1>2, <1>3, <1>4, <1>5, NoneAssumption DEF Inv, YoungInv, Inserting, Resting, Threads
<1>7. InsertInv'
  BY <1>1, <1>2, <1>3, <1>4, <1>5 DEF Inv, InsertInv, Threads
<1>8. LockInv'
  BY <1>1, <1>2, <1>3, <1>4, <1>5, NoneAssumption DEF Inv, LockInv, Engaged, Claiming,
     PreErase, Cleared, Unlinked
<1>9. StageInv'
  BY <1>1, <1>2, <1>3, <1>4, <1>5 DEF Inv, StageInv, InSlot, Claiming, PreErase, Cleared,
     Unlinked
<1>10. HolderInv'
  BY <1>1, <1>2, <1>3, <1>4, <1>5 DEF Inv, HolderInv
<1>11. FreeInv'
  BY <1>1, <1>2, <1>3, <1>4, <1>5 DEF Inv, FreeInv, IsFree
<1>12. NoneLost'
  BY <1>1, <1>2, <1>3, <1>4, <1>5 DEF Inv, NoneLost, IsFree
<1>13. TokenInv'
  BY <1>1, <1>2, <1>3, <1>4, <1>5 DEF Inv, TokenInv, Threads
<1>14. FdInv'
  BY <1>1, <1>2, <1>3, <1>4, <1>5 DEF Inv, FdInv
<1>15. PoolInv'
  BY <1>1, <1>2, <1>3, <1>4, <1>5 DEF Inv, PoolInv
<1>16. ClosedInv'
  BY <1>1, <1>2, <1>3, <1>4, <1>5 DEF Inv, ClosedInv
<1>17. RegisteredInv'
  BY <1>1, <1>2, <1>3, <1>4, <1>5, NoneAssumption DEF Inv, RegisteredInv, Hit, Threads, PreErase
<1>18. IsFiniteSet(armed)'
  BY DEF Inv
<1> QED BY <1>6, <1>7, <1>3, <1>8, <1>9, <1>10, <1>11, <1>12, <1>13, <1>14, <1>15, <1>16,
          <1>17, <1>18 DEF Inv

\* EPOLL_CTL_ADD after the release: whoever has claimed the stream meanwhile is not disturbed.
LEMMA ArmStep ==
    ASSUME Inv, NEW t \in Threads, Arm(t)
    PROVE  Inv'
<1>1. /\ pc[t] = "arm" /\ pc' = [pc EXCEPT ![t] = "finish"] /\ armed' = armed \union {cur[t]}
      /\ edata' = [edata EXCEPT ![cur[t]] = IF @ = Unset THEN index[cur[t]] ELSE @]
      /\ UNCHANGED <<token, byFd, known, free, index, status, inbox, buffered, sent, hup,
                     jobs, calls, pending, work, pass, cur, kind, after, closed, shutdown>>
  BY DEF Arm, At, Goto, Register, setVars, streamVars, pollVars, threadVars
<1>2. /\ pc \in [Threads -> Labels] /\ cur \in [Threads -> Streams \union {None}]
      /\ cur[t] \in Streams /\ t # Acceptor
  BY <1>1, Position DEF AcceptorLabels, Resting
<1>3. ~Inserting(cur[t]) /\ status[cur[t]] # "new"
  BY <1>1, <1>2 DEF Inv, YoungInv, Resting
<1>4. \A s \in Streams : Inherited(s)' <=> Inherited(s)
  BY <1>1 DEF Inherited
<1>5. \A s, i : Holds(s, i)' <=> Holds(s, i)
  BY <1>1, <1>2 DEF Holds
<1>6. edata' \in [Streams -> Indexes \union {NoIndex, Unset}]
  <2>1. /\ edata \in [Streams -> Indexes \union {NoIndex, Unset}]
        /\ index \in [Streams -> Indexes \union {NoIndex}]
    BY DEF Inv, TypeOK
  <2> QED BY <2>1, <1>1, <1>2
<1>7. TypeOK'
  <2>1. TypeOK
    BY DEF Inv
  <2>2. pc' \in [Threads -> Labels]
    BY <1>1, <1>2 DEF Labels
  <2> QED BY <1>1, <1>2, <1>6, <2>1, <2>2, SetShapes, SetFrame
<1>8. Control'
  BY <1>1, <1>2, <1>3, <1>4, <1>5, <1>6, ThreadAssumption DEF Inv, Control, PollerLabels,
     WorkerLabels, AcceptorLabels, Threads, Resting, Cleared, Unlinked
<1>9. YoungInv'
  BY <1>1, <1>2, <1>3, <1>4, <1>5, <1>6 DEF Inv, YoungInv, Inserting, Resting, Threads
<1>10. InsertInv'
  BY <1>1, <1>2, <1>3, <1>4, <1>5, <1>6 DEF Inv, InsertInv, Threads
<1>11. QueueInv'
  BY <1>1, <1>2, <1>3, <1>4, <1>5, <1>6 DEF Inv, QueueInv
<1>12. LockInv'
  BY <1>1, <1>2, <1>3, <1>4, <1>5, <1>6 DEF Inv, LockInv, Engaged, Claiming, PreErase, Cleared,
     Unlinked
<1>13. StageInv'
  BY <1>1, <1>2, <1>3, <1>4, <1>5, <1>6 DEF Inv, StageInv, InSlot, Claiming, PreErase, Cleared,
     Unlinked
<1>14. HolderInv'
  BY <1>1, <1>2, <1>3, <1>4, <1>5, <1>6 DEF Inv, HolderInv
<1>15. FreeInv'
  BY <1>1, <1>2, <1>3, <1>4, <1>5, <1>6 DEF Inv, FreeInv, IsFree
<1>16. NoneLost'
  BY <1>1, <1>2, <1>3, <1>4, <1>5, <1>6 DEF Inv, NoneLost, IsFree
<1>17. TokenInv'
  BY <1>1, <1>2, <1>3, <1>4, <1>5, <1>6 DEF Inv, TokenInv, Threads
<1>18. FdInv'
  BY <1>1, <1>2, <1>3, <1>4, <1>5, <1>6 DEF Inv, FdInv
<1>19. PoolInv'
  BY <1>1, <1>2, <1>3, <1>4, <1>5, <1>6 DEF Inv, PoolInv
<1>20. ClosedInv'
  BY <1>1, <1>2, <1>3, <1>4, <1>5, <1>6 DEF Inv, ClosedInv
<1>21. BufferInv'
  BY <1>1, <1>2, <1>3, <1>4, <1>5, <1>6 DEF Inv, BufferInv
<1>22. RegisteredInv'
  BY <1>1, <1>2, <1>3, <1>4, <1>5, <1>6 DEF Inv, RegisteredInv, Hit, Threads
<1>23. IsFiniteSet(armed)'
  BY <1>1, FS_AddElement DEF Inv
<1> QED BY <1>7, <1>8, <1>9, <1>10, <1>11, <1>12, <1>13, <1>14, <1>15, <1>16, <1>17, <1>18,
          <1>19, <1>20, <1>21, <1>22, <1>23 DEF Inv


\* EPOLL_CTL_ADD at the end of insert: the stream can be found already.
LEMMA InsertArmStep ==
    ASSUME Inv, InsertArm(Acceptor)
    PROVE  Inv'
<1>1. /\ pc[Acceptor] = "ins_arm" /\ pc' = [pc EXCEPT ![Acceptor] = "idle"]
      /\ armed' = armed \union {cur[Acceptor]} /\ cur' = [cur EXCEPT ![Acceptor] = None]
      /\ kind' = [kind EXCEPT ![Acceptor] = "none"] /\ after' = [after EXCEPT ![Acceptor] = <<>>]
      /\ edata' = [edata EXCEPT ![cur[Acceptor]] = IF @ = Unset THEN index[cur[Acceptor]] ELSE @]
      /\ UNCHANGED <<token, byFd, known, free, index, status, inbox, buffered, sent, hup,
                     jobs, calls, pending, work, pass, closed, shutdown>>
  BY DEF InsertArm, AfterInsert, Leave, At, Goto, Register, setVars, streamVars, pollVars,
     threadVars
<1>2. /\ pc \in [Threads -> Labels] /\ cur \in [Threads -> Streams \union {None}]
      /\ Acceptor \in Threads /\ cur[Acceptor] \in Streams
  BY <1>1, Position DEF Resting, Threads
<1>3. ~Inserting(cur[Acceptor]) /\ status[cur[Acceptor]] # "new"
  BY <1>1, <1>2 DEF Inv, InsertInv, Inserting
<1>4. \A s \in Streams : Inherited(s)' <=> Inherited(s)
  BY <1>1 DEF Inherited
<1>5. \A s \in Streams : \A i : Holds(s, i)' <=> Holds(s, i)
  BY <1>1, <1>2, NoneAssumption DEF Holds
<1>6. edata' \in [Streams -> Indexes \union {NoIndex, Unset}]
  <2>1. /\ edata \in [Streams -> Indexes \union {NoIndex, Unset}]
        /\ index \in [Streams -> Indexes \union {NoIndex}]
    BY DEF Inv, TypeOK
  <2> QED BY <2>1, <1>1, <1>2
<1>7. TypeOK'
  <2>1. TypeOK
    BY DEF Inv
  <2> QED BY <1>1, <1>2, <1>6, <2>1 DEF TypeOK, Labels
<1>8. Control'
  BY <1>1, <1>2, <1>3, <1>4, <1>5, <1>6, ThreadAssumption DEF Inv, Control, PollerLabels,
     WorkerLabels, AcceptorLabels, Threads, Resting, Cleared, Unlinked
<1>9. YoungInv'
  BY <1>1, <1>2, <1>3, <1>4, <1>5, <1>6, NoneAssumption DEF Inv, YoungInv, Inserting, Resting,
     Threads
<1>10. InsertInv'
  BY <1>1, <1>2, <1>3, <1>4, <1>5, <1>6 DEF Inv, InsertInv, Threads
<1>11. QueueInv'
  BY <1>1, <1>2, <1>3, <1>4, <1>5, <1>6 DEF Inv, QueueInv
<1>12. LockInv'
  BY <1>1, <1>2, <1>3, <1>4, <1>5, <1>6, NoneAssumption DEF Inv, LockInv, Engaged, Claiming,
     PreErase, Cleared, Unlinked
<1>13. StageInv'
  BY <1>1, <1>2, <1>3, <1>4, <1>5, <1>6, NoneAssumption DEF Inv, StageInv, InSlot, Claiming,
     PreErase, Cleared, Unlinked
<1>14. HolderInv'
  BY <1>1, <1>2, <1>3, <1>4, <1>5, <1>6 DEF Inv, HolderInv
<1>15. FreeInv'
  BY <1>1, <1>2, <1>3, <1>4, <1>5, <1>6 DEF Inv, FreeInv, IsFree
<1>16. NoneLost'
  BY <1>1, <1>2, <1>3, <1>4, <1>5, <1>6 DEF Inv, NoneLost, IsFree
<1>17. TokenInv'
  BY <1>1, <1>2, <1>3, <1>4, <1>5, <1>6, NoneAssumption DEF Inv, TokenInv, Threads
<1>18. FdInv'
  BY <1>1, <1>2, <1>3, <1>4, <1>5, <1>6 DEF Inv, FdInv
<1>19. PoolInv'
  BY <1>1, <1>2, <1>3, <1>4, <1>5, <1>6 DEF Inv, PoolInv
<1>20. ClosedInv'
  BY <1>1, <1>2, <1>3, <1>4, <1>5, <1>6 DEF Inv, ClosedInv
<1>21. BufferInv'
  BY <1>1, <1>2, <1>3, <1>4, <1>5, <1>6 DEF Inv, BufferInv
<1>22. RegisteredInv'
  BY <1>1, <1>2, <1>3, <1>4, <1>5, <1>6, NoneAssumption DEF Inv, RegisteredInv, Hit, Threads
<1>23. IsFiniteSet(armed)'
  BY <1>1, FS_AddElement DEF Inv
<1> QED BY <1>7, <1>8, <1>9, <1>10, <1>11, <1>12, <1>13, <1>14, <1>15, <1>16, <1>17, <1>18,
          <1>19, <1>20, <1>21, <1>22, <1>23 DEF Inv


\* The stream can be found from now on.
LEMMA InsertMapsStep ==
    ASSUME Inv, InsertMaps(Acceptor)
    PROVE  Inv'
<1>1. /\ pc[Acceptor] = "ins_maps" /\ pc' = [pc EXCEPT ![Acceptor] = "ins_arm"]
      /\ known' = known \union {cur[Acceptor]}
      /\ UNCHANGED <<token, byFd, free, index, edata, armed, status, inbox, buffered, sent,
                     hup, jobs, calls, pending, work, pass, cur, kind, after, closed, shutdown>>
  BY DEF InsertMaps, At, Goto, setVars, streamVars, pollVars, threadVars
<1>2. /\ pc \in [Threads -> Labels] /\ cur \in [Threads -> Streams \union {None}]
      /\ Acceptor \in Threads /\ cur[Acceptor] \in Streams
  BY <1>1, Position DEF Resting, Threads
<1>3. /\ cur[Acceptor] \notin known /\ cur[Acceptor] \notin armed /\ edata[cur[Acceptor]] = Unset
      /\ closed[cur[Acceptor]] = 0 /\ status[cur[Acceptor]] # "new" /\ ~Inherited(cur[Acceptor])
      /\ \A u \in Threads \ {Acceptor} : cur[u] = cur[Acceptor] =>
               pc[u] \in Resting \union {"lookup"}
  BY <1>1, <1>2 DEF Inv, YoungInv, Inserting, InsertInv
<1>4. \A s \in Streams : Inherited(s)' <=> Inherited(s)
  BY <1>1 DEF Inherited
<1>5. \A s, i : Holds(s, i)' <=> Holds(s, i)
  BY <1>1, <1>2 DEF Holds
<1>6. TypeOK'
  <2>1. TypeOK
    BY DEF Inv
  <2>2. pc' \in [Threads -> Labels]
    BY <1>1, <1>2 DEF Labels
  <2> QED BY <1>1, <1>2, <2>1, <2>2, SetShapes, SetFrame
<1>7. Control'
  BY <1>1, <1>2, <1>3, <1>4, <1>5, ThreadAssumption DEF Inv, Control, PollerLabels,
     WorkerLabels, AcceptorLabels, Threads, Resting, Cleared, Unlinked
<1>8. YoungInv'
  BY <1>1, <1>2, <1>3, <1>4, <1>5 DEF Inv, YoungInv, Inserting, Resting, Threads
<1>9. InsertInv'
  BY <1>1, <1>2, <1>3, <1>4, <1>5 DEF Inv, InsertInv, Threads
<1>10. QueueInv'
  BY <1>1, <1>2, <1>3, <1>4, <1>5 DEF Inv, QueueInv
<1>11. LockInv'
  BY <1>1, <1>2, <1>3, <1>4, <1>5 DEF Inv, LockInv, Engaged, Claiming, PreErase, Cleared,
     Unlinked
<1>12. StageInv'
  BY <1>1, <1>2, <1>3, <1>4, <1>5 DEF Inv, StageInv, InSlot, Claiming, PreErase, Cleared,
     Unlinked, Resting
<1>13. HolderInv'
  BY <1>1, <1>2, <1>3, <1>4, <1>5 DEF Inv, HolderInv
<1>14. FreeInv'
  BY <1>1, <1>2, <1>3, <1>4, <1>5 DEF Inv, FreeInv, IsFree
<1>15. NoneLost'
  BY <1>1, <1>2, <1>3, <1>4, <1>5 DEF Inv, NoneLost, IsFree
<1>16. TokenInv'
  BY <1>1, <1>2, <1>3, <1>4, <1>5 DEF Inv, TokenInv, Threads
<1>17. FdInv'
  BY <1>1, <1>2, <1>3, <1>4, <1>5 DEF Inv, FdInv
<1>18. PoolInv'
  BY <1>1, <1>2, <1>3, <1>4, <1>5 DEF Inv, PoolInv
<1>19. ClosedInv'
  BY <1>1, <1>2, <1>3, <1>4, <1>5 DEF Inv, ClosedInv
<1>20. BufferInv'
  BY <1>1, <1>2, <1>3, <1>4, <1>5 DEF Inv, BufferInv
<1>21. RegisteredInv'
  BY <1>1, <1>2, <1>3, <1>4, <1>5 DEF Inv, RegisteredInv, Hit, Threads
<1>22. IsFiniteSet(armed)'
  BY <1>1 DEF Inv
<1> QED BY <1>6, <1>7, <1>8, <1>9, <1>10, <1>11, <1>12, <1>13, <1>14, <1>15, <1>16, <1>17,
          <1>18, <1>19, <1>20, <1>21, <1>22 DEF Inv


\* The stream is put into the slot whose token is its uuid already.
LEMMA InsertFdStep ==
    ASSUME Inv, InsertFd(Acceptor)
    PROVE  Inv'
<1>1. /\ pc[Acceptor] = "ins_fd" /\ pc' = [pc EXCEPT ![Acceptor] = "ins_maps"]
      /\ byFd' = [byFd EXCEPT ![index[cur[Acceptor]]] = cur[Acceptor]]
      /\ UNCHANGED <<token, known, free, index, edata, armed, status, inbox, buffered, sent,
                     hup, jobs, calls, pending, work, pass, cur, kind, after, closed, shutdown>>
  BY DEF InsertFd, At, Goto, setVars, streamVars, pollVars, threadVars
<1>2. /\ pc \in [Threads -> Labels] /\ cur \in [Threads -> Streams \union {None}]
      /\ Acceptor \in Threads /\ cur[Acceptor] \in Streams
  BY <1>1, Position DEF Resting, Threads
<1>3. /\ cur[Acceptor] \notin known /\ cur[Acceptor] \notin armed /\ edata[cur[Acceptor]] = Unset
      /\ closed[cur[Acceptor]] = 0 /\ status[cur[Acceptor]] # "new" /\ ~Inherited(cur[Acceptor])
      /\ \A u \in Threads \ {Acceptor} : cur[u] = cur[Acceptor] =>
               pc[u] \in Resting \union {"lookup"}
  BY <1>1, <1>2 DEF Inv, YoungInv, Inserting, InsertInv
<1>4. \A s \in Streams : Inherited(s)' <=> Inherited(s)
  BY <1>1 DEF Inherited
<1>5. \A s, i : Holds(s, i)' <=> Holds(s, i)
  BY <1>1, <1>2 DEF Holds
<1>6. index[cur[Acceptor]] \in Indexes /\ Holds(cur[Acceptor], index[cur[Acceptor]])
  BY <1>1, <1>2, <1>3 DEF Inv, InsertInv, Holds, Resting
<1>7. byFd \in [Indexes -> Streams \union {None}]
  BY DEF Inv, TypeOK
<1>8. byFd' \in [Indexes -> Streams \union {None}]
  BY <1>1, <1>2, <1>7
<1>9. \A s \in Streams : s # cur[Acceptor] => ~Holds(s, index[cur[Acceptor]])
  BY <1>2, <1>6 DEF Inv, HolderInv
<1>10. \A u \in Threads : pc[u] \in PreErase \union Cleared =>
         /\ cur[u] \in Streams /\ index[cur[u]] \in Indexes /\ Holds(cur[u], index[cur[u]])
  <2>1. SUFFICES ASSUME NEW u \in Threads, pc[u] \in PreErase \union Cleared
                 PROVE  /\ cur[u] \in Streams /\ index[cur[u]] \in Indexes
                        /\ Holds(cur[u], index[cur[u]])
    OBVIOUS
  <2>2. cur[u] \in Streams /\ index[cur[u]] \in Indexes
    BY <2>1, Position DEF Inv, StageInv, InSlot, PreErase, Cleared, Resting
  <2>3. Holds(cur[u], index[cur[u]])
    BY <2>1, Alone DEF Holds, Claiming, PreErase, Cleared, Unlinked
  <2> QED BY <2>2, <2>3
<1>11. TypeOK'
  <2>1. TypeOK
    BY DEF Inv
  <2>2. pc' \in [Threads -> Labels]
    BY <1>1, <1>2 DEF Labels
  <2> QED BY <1>1, <1>2, <1>8, <2>1, <2>2, SetShapes, SetFrame
<1>12. Control'
  BY <1>1, <1>2, <1>3, <1>4, <1>5, <1>6, <1>7, <1>8, <1>9, <1>10, ThreadAssumption DEF Inv,
     Control, PollerLabels, WorkerLabels, AcceptorLabels, Threads, Resting, Cleared, Unlinked
<1>13. YoungInv'
  BY <1>1, <1>2, <1>3, <1>4, <1>5, <1>6, <1>7, <1>8, <1>9, <1>10 DEF Inv, YoungInv, Inserting,
     Resting, Threads
<1>14. InsertInv'
  BY <1>1, <1>2, <1>3, <1>4, <1>5, <1>6, <1>7, <1>8, <1>9, <1>10 DEF Inv, InsertInv, Threads
<1>15. QueueInv'
  BY <1>1, <1>2, <1>3, <1>4, <1>5, <1>6, <1>7, <1>8, <1>9, <1>10 DEF Inv, QueueInv
<1>16. LockInv'
  BY <1>1, <1>2, <1>3, <1>4, <1>5, <1>6, <1>7, <1>8, <1>9, <1>10 DEF Inv, LockInv, Engaged,
     Claiming, PreErase, Cleared, Unlinked
<1>17. StageInv'
  BY <1>1, <1>2, <1>3, <1>4, <1>5, <1>6, <1>7, <1>8, <1>9, <1>10 DEF Inv, StageInv, InSlot,
     Claiming, PreErase, Cleared, Unlinked, FdInv, Resting
<1>18. HolderInv'
  BY <1>1, <1>2, <1>3, <1>4, <1>5, <1>6, <1>7, <1>8, <1>9, <1>10 DEF Inv, HolderInv
<1>19. FreeInv'
  BY <1>1, <1>2, <1>3, <1>4, <1>5, <1>6, <1>7, <1>8, <1>9, <1>10 DEF Inv, FreeInv, IsFree
<1>20. NoneLost'
  BY <1>1, <1>2, <1>3, <1>4, <1>5, <1>6, <1>7, <1>8, <1>9, <1>10 DEF Inv, NoneLost, IsFree
<1>21. TokenInv'
  <2>1. SUFFICES ASSUME NEW i \in Indexes, NEW s \in Streams, token[i] = s
                 PROVE  Holds(s, i) /\ byFd'[i] = s
    BY <1>1, <1>5 DEF TokenInv
  <2>2. Holds(s, i) /\ (byFd[i] = s \/ cur[Acceptor] = s)
    BY <2>1 DEF Inv, TokenInv
  <2>3. CASE i = index[cur[Acceptor]]
    BY <2>2, <2>3, <1>1, <1>7, <1>9
  <2>4. CASE i # index[cur[Acceptor]]
    <3>1. s # cur[Acceptor]
      BY <2>2, <2>4 DEF Holds
    <3> QED BY <3>1, <2>2, <2>4, <1>1, <1>7
  <2> QED BY <2>3, <2>4
<1>22. FdInv'
  BY <1>1, <1>2, <1>3, <1>4, <1>5, <1>6, <1>7, <1>8, <1>9, <1>10 DEF Inv, FdInv
<1>23. PoolInv'
  BY <1>1, <1>2, <1>3, <1>4, <1>5, <1>6, <1>7, <1>8, <1>9, <1>10 DEF Inv, PoolInv
<1>24. ClosedInv'
  BY <1>1, <1>2, <1>3, <1>4, <1>5, <1>6, <1>7, <1>8, <1>9, <1>10 DEF Inv, ClosedInv
<1>25. BufferInv'
  BY <1>1, <1>2, <1>3, <1>4, <1>5, <1>6, <1>7, <1>8, <1>9, <1>10 DEF Inv, BufferInv
<1>26. RegisteredInv'
  BY <1>1, <1>2, <1>3, <1>4, <1>5, <1>6, <1>7, <1>8, <1>9, <1>10 DEF Inv, RegisteredInv, Hit,
     Threads
<1>27. IsFiniteSet(armed)'
  BY <1>1 DEF Inv
<1> QED BY <1>11, <1>12, <1>13, <1>14, <1>15, <1>16, <1>17, <1>18, <1>19, <1>20, <1>21, <1>22,
          <1>23, <1>24, <1>25, <1>26, <1>27 DEF Inv


\* A slot is taken from the pool; its token is zero, as for every index in the pool.
LEMMA InsertIndexStep ==
    ASSUME Inv, InsertIndex(Acceptor), free # <<>>
    PROVE  Inv'
<1>1. pc[Acceptor] = "ins_index"
  BY DEF InsertIndex, At
<1>2. /\ pc \in [Threads -> Labels] /\ cur \in [Threads -> Streams \union {None}]
      /\ Acceptor \in Threads /\ cur[Acceptor] \in Streams
  BY <1>1, Position DEF Resting, Threads
<1>3. /\ cur[Acceptor] \notin known /\ cur[Acceptor] \notin armed /\ edata[cur[Acceptor]] = Unset
      /\ closed[cur[Acceptor]] = 0 /\ status[cur[Acceptor]] # "new" /\ ~Inherited(cur[Acceptor])
      /\ \A u \in Threads \ {Acceptor} : cur[u] = cur[Acceptor] =>
               pc[u] \in Resting \union {"lookup"}
  BY <1>1, <1>2 DEF Inv, YoungInv, Inserting, InsertInv
<1>4. /\ free \in Seq(Indexes) /\ token \in [Indexes -> Streams \union {None}]
      /\ index \in [Streams -> Indexes \union {NoIndex}]
  BY DEF Inv, TypeOK
<1>5. /\ Head(free) \in Indexes /\ Head(free) = free[1]
      /\ Tail(free) \in Seq(Indexes)
      /\ Len(free) \in Nat \ {0} /\ Len(Tail(free)) = Len(free) - 1
      /\ \A k \in 1 .. Len(free) - 1 : Tail(free)[k] = free[k + 1]
  BY <1>4, TailFacts
<1>6. IsFree(Head(free))
  BY <1>5 DEF IsFree
<1>7. /\ token[Head(free)] = None /\ byFd[Head(free)] = None
      /\ \A s \in Streams : ~Holds(s, Head(free))
  BY <1>5, <1>6 DEF Inv, FreeInv
<1>8. /\ pc' = [pc EXCEPT ![Acceptor] = "ins_fd"] /\ free' = Tail(free)
      /\ index' = [index EXCEPT ![cur[Acceptor]] = Head(free)]
      /\ token' = [token EXCEPT ![Head(free)] = cur[Acceptor]]
      /\ UNCHANGED <<byFd, known, edata, armed, status, inbox, buffered, sent, hup, jobs,
                     calls, pending, work, pass, cur, kind, after, closed, shutdown>>
  BY <1>7 DEF InsertIndex, Goto, setVars, streamVars, pollVars, threadVars
<1>9. \A s \in Streams : Inherited(s)' <=> Inherited(s)
  BY <1>8 DEF Inherited
<1>10. /\ index'[cur[Acceptor]] = Head(free) /\ index[cur[Acceptor]] = NoIndex
      /\ \A s \in Streams : s # cur[Acceptor] => index'[s] = index[s]
  BY <1>1, <1>2, <1>4, <1>8 DEF Inv, InsertInv
<1>11. /\ token'[Head(free)] = cur[Acceptor]
      /\ \A i \in Indexes : i # Head(free) => token'[i] = token[i]
  BY <1>4, <1>5, <1>8
<1>12. \A s \in Streams : \A i \in Indexes :
         Holds(s, i)' <=> IF s = cur[Acceptor] THEN i = Head(free) ELSE Holds(s, i)
  BY <1>1, <1>2, <1>3, <1>8, <1>10 DEF Holds, Resting
<1>13. \A i \in Indexes : IsFree(i)' <=> IsFree(i) /\ i # Head(free)
  <2>1. SUFFICES ASSUME NEW i \in Indexes PROVE IsFree(i)' <=> IsFree(i) /\ i # Head(free)
    OBVIOUS
  <2>2. ASSUME IsFree(i)' PROVE IsFree(i) /\ i # Head(free)
    <3>1. PICK k \in 1 .. Len(free) - 1 : Tail(free)[k] = i
      BY <2>2, <1>5, <1>8 DEF IsFree
    <3>2. k + 1 \in 1 .. Len(free) /\ 1 \in 1 .. Len(free) /\ free[k + 1] = i /\ k + 1 # 1
      BY <3>1, <1>5
    <3> QED BY <3>2, <1>5 DEF IsFree, Inv, PoolInv
  <2>3. ASSUME IsFree(i), i # Head(free) PROVE IsFree(i)'
    <3>1. PICK k \in 1 .. Len(free) : free[k] = i
      BY <2>3 DEF IsFree
    <3>2. k - 1 \in 1 .. Len(free) - 1 /\ Tail(free)[k - 1] = i
      BY <3>1, <2>3, <1>5
    <3> QED BY <3>2, <1>5, <1>8 DEF IsFree
  <2> QED BY <2>2, <2>3
<1>14. \A u \in Threads : pc[u] \in PreErase \union Cleared =>
         /\ cur[u] \in Streams /\ index[cur[u]] \in Indexes /\ Holds(cur[u], index[cur[u]])
  <2>1. SUFFICES ASSUME NEW u \in Threads, pc[u] \in PreErase \union Cleared
                 PROVE  /\ cur[u] \in Streams /\ index[cur[u]] \in Indexes
                        /\ Holds(cur[u], index[cur[u]])
    OBVIOUS
  <2>2. cur[u] \in Streams /\ index[cur[u]] \in Indexes
    BY <2>1, Position DEF Inv, StageInv, InSlot, PreErase, Cleared, Resting
  <2>3. Holds(cur[u], index[cur[u]])
    BY <2>1, Alone DEF Holds, Claiming, PreErase, Cleared, Unlinked
  <2> QED BY <2>2, <2>3
<1>15. \A u \in Threads : pc'[u] \in Claiming =>
         u # Acceptor /\ pc'[u] = pc[u] /\ cur[u] # cur[Acceptor]
  BY <1>1, <1>2, <1>3, <1>8 DEF Claiming, PreErase, Cleared, Unlinked, Resting
<1>16. TypeOK'
  <2>1. TypeOK
    BY DEF Inv
  <2>2. /\ free' \in Seq(Indexes) /\ token' \in [Indexes -> Streams \union {None}]
        /\ index' \in [Streams -> Indexes \union {NoIndex}]
    BY <1>2, <1>4, <1>5, <1>8
  <2>3. pc' \in [Threads -> Labels]
    BY <1>2, <1>8 DEF Labels
  <2>4. UNCHANGED <<byFd, known, edata, armed, status, inbox, buffered, sent, hup, jobs, calls,
                     pending, work, pass, cur, kind, after, closed, shutdown>>
    BY <1>8
  <2> QED BY <2>1, <2>2, <2>3, <2>4 DEF TypeOK
<1>17. Control'
  BY <1>1, <1>2, <1>3, <1>4, <1>5, <1>6, <1>7, <1>8, <1>9, <1>10, <1>11, <1>12, <1>13, <1>14,
     <1>15, ThreadAssumption DEF Inv, Control, PollerLabels, WorkerLabels, AcceptorLabels,
          Threads, Resting, Cleared, Unlinked
<1>18. YoungInv'
  BY <1>1, <1>2, <1>3, <1>8, <1>9 DEF Inv, YoungInv, Inserting, Resting, Threads
<1>19. InsertInv'
  BY <1>1, <1>2, <1>3, <1>5, <1>8, <1>10 DEF Inv, InsertInv
<1>20. QueueInv'
  BY <1>1, <1>2, <1>3, <1>4, <1>5, <1>6, <1>7, <1>8, <1>9, <1>10, <1>11, <1>12, <1>13, <1>14,
     <1>15 DEF Inv, QueueInv
<1>21. LockInv'
  BY <1>2, <1>3, <1>8, <1>9, <1>11, <1>15 DEF Inv, LockInv, Engaged
<1>22. StageInv'
  <2>1. \A s \in Streams : Inherited(s)' => InSlot(s)' /\ closed'[s] = 0
    BY <1>3, <1>5, <1>7, <1>8, <1>9, <1>10, <1>11, NoneAssumption DEF Inv, StageInv, InSlot
  <2>3. \A u \in Threads : pc[u] \in PreErase \union Cleared => index[cur[u]] # Head(free)
    BY <1>7, <1>14
  <2>4. \A u \in Threads : pc[u] \in Claiming => cur[u] \in Streams
    BY Position DEF Claiming, PreErase, Cleared, Unlinked, Resting
  <2> QED BY <2>1, <1>15, <2>3, <2>4, <1>8, <1>10, <1>11
          DEF Inv, StageInv, InSlot, Claiming, PreErase, Cleared, Unlinked
<1>23. HolderInv'
  BY <1>7, <1>12 DEF Inv, HolderInv
<1>24. FreeInv'
  BY <1>8, <1>11, <1>12, <1>13 DEF Inv, FreeInv
<1>25. NoneLost'
  BY <1>2, <1>3, <1>5, <1>7, <1>10, <1>12, <1>13, NullIndex DEF Inv, NoneLost, Holds
<1>26. TokenInv'
  <2>1. SUFFICES ASSUME NEW i \in Indexes, NEW s \in Streams, token'[i] = s
                 PROVE  /\ Holds(s, i)'
                        /\ byFd[i] = s \/ (cur[Acceptor] = s /\ pc'[Acceptor] = "ins_fd")
    BY <1>8 DEF TokenInv
  <2>2. pc'[Acceptor] = "ins_fd"
    BY <1>2, <1>8
  <2>3. CASE i = Head(free)
    BY <2>1, <2>2, <2>3, <1>2, <1>11, <1>12
  <2>4. CASE i # Head(free)
    <3>1. Holds(s, i) /\ (byFd[i] = s \/ cur[Acceptor] = s)
      BY <2>1, <2>4, <1>11 DEF Inv, TokenInv
    <3>2. s # cur[Acceptor]
      BY <3>1, <1>10, NullIndex DEF Holds
    <3> QED BY <3>1, <3>2, <1>12
  <2> QED BY <2>3, <2>4
<1>27. FdInv'
  BY <1>1, <1>2, <1>5, <1>7, <1>8, <1>10, <1>12, NoneAssumption, NullIndex DEF Inv, FdInv, Holds
<1>28. PoolInv'
  <2>1. SUFFICES ASSUME NEW j \in 1 .. Len(free'), NEW k \in 1 .. Len(free'), free'[j] = free'[k]
                 PROVE  j = k
    BY DEF PoolInv
  <2>2. /\ j + 1 \in 1 .. Len(free) /\ k + 1 \in 1 .. Len(free)
        /\ free[j + 1] = free[k + 1]
    BY <2>1, <1>5, <1>8
  <2>3. j + 1 = k + 1
    BY <2>2 DEF Inv, PoolInv
  <2> QED BY <2>3
<1>29. ClosedInv'
  BY <1>2, <1>3, <1>8, <1>10 DEF Inv, ClosedInv, TypeOK
<1>30. BufferInv'
  BY <1>1, <1>2, <1>3, <1>4, <1>5, <1>6, <1>7, <1>8, <1>9, <1>10, <1>11, <1>12, <1>13, <1>14,
     <1>15 DEF Inv, BufferInv
<1>31. RegisteredInv'
  BY <1>1, <1>2, <1>3, <1>8, <1>10, <1>11 DEF Inv, RegisteredInv, Hit
<1>32. IsFiniteSet(armed)'
  BY <1>8 DEF Inv
<1> QED BY <1>16, <1>17, <1>18, <1>19, <1>20, <1>21, <1>22, <1>23, <1>24, <1>25, <1>26, <1>27,
          <1>28, <1>29, <1>30, <1>31, <1>32 DEF Inv

\* The token is put back: the claim ends, and the stream waits to be registered.
LEMMA ReleaseStep ==
    ASSUME Inv, NEW t \in Threads, pc[t] = "unmute", pc' = [pc EXCEPT ![t] = "arm"],
           token' = [token EXCEPT ![index[cur[t]]] = cur[t]],
           UNCHANGED <<byFd, known, free, index, edata, armed, status, inbox, buffered, sent,
                     hup, jobs, calls, pending, work, pass, cur, kind, after, closed, shutdown>>
    PROVE  Inv'
<1>1. InSlot(cur[t])
  BY DEF Inv, StageInv, PreErase
<1>2. /\ pc \in [Threads -> Labels] /\ cur \in [Threads -> Streams \union {None}]
      /\ cur[t] \in Streams /\ t # Acceptor
  BY Position DEF AcceptorLabels, Resting
<1>3. /\ ~Inserting(cur[t]) /\ status[cur[t]] # "new" /\ ~Inherited(cur[t])
      /\ \A i \in Indexes : token[i] # cur[t]
      /\ \A u \in Threads : u # t /\ pc[u] \in Claiming => cur[u] # cur[t]
  BY Alone DEF Claiming, PreErase
<1>4. \A s \in Streams : Inherited(s)' <=> Inherited(s)
  BY DEF Inherited
<1>5. \A s, i : Holds(s, i)' <=> Holds(s, i)
  BY <1>2 DEF Holds
<1>6. \A u \in Threads : pc[u] \in PreErase \union Cleared =>
         /\ cur[u] \in Streams /\ index[cur[u]] \in Indexes /\ Holds(cur[u], index[cur[u]])
  <2>1. SUFFICES ASSUME NEW u \in Threads, pc[u] \in PreErase \union Cleared
                 PROVE  /\ cur[u] \in Streams /\ index[cur[u]] \in Indexes
                        /\ Holds(cur[u], index[cur[u]])
    OBVIOUS
  <2>2. cur[u] \in Streams /\ index[cur[u]] \in Indexes
    BY <2>1, Position DEF Inv, StageInv, InSlot, PreErase, Cleared, Resting
  <2>3. Holds(cur[u], index[cur[u]])
    BY <2>1, Alone DEF Holds, Claiming, PreErase, Cleared, Unlinked
  <2> QED BY <2>2, <2>3
<1>7. token \in [Indexes -> Streams \union {None}]
  BY DEF Inv, TypeOK
<1>8. /\ index[cur[t]] \in Indexes /\ token'[index[cur[t]]] = cur[t]
      /\ \A i \in Indexes : i # index[cur[t]] => token'[i] = token[i]
  BY <1>1, <1>7 DEF InSlot
<1>9. Holds(cur[t], index[cur[t]])
  BY <1>6 DEF PreErase
<1>10. \A s \in Streams : s # cur[t] => ~Holds(s, index[cur[t]])
  BY <1>2, <1>8, <1>9 DEF Inv, HolderInv
<1>11. TypeOK'
  <2>1. TypeOK /\ Shapes
    BY ShapesHold DEF Inv
  <2>2. Shapes'
    BY <2>1, <1>2 DEF Shapes, Labels
  <2> QED BY <2>1, <2>2, TypeFrame
<1>12. Control'
  BY <1>2, ThreadAssumption DEF Inv, Control, WorkerLabels, PollerLabels, Resting, Cleared,
     Unlinked, Threads
<1>13. YoungInv'
  BY <1>2, <1>3, <1>4 DEF Inv, YoungInv, Inserting
<1>14. InsertInv'
  BY <1>1, <1>2, <1>3, <1>4, <1>5, <1>6, <1>7, <1>8, <1>9, <1>10 DEF Inv, InsertInv, Threads
<1>15. QueueInv'
  BY <1>1, <1>2, <1>3, <1>4, <1>5, <1>6, <1>7, <1>8, <1>9, <1>10 DEF Inv, QueueInv
<1>16. LockInv'
  BY <1>2, <1>3, <1>4, <1>8 DEF Inv, LockInv, Engaged, Claiming, PreErase, Cleared, Unlinked
<1>17. StageInv'
  <2>1. \A s \in Streams : Inherited(s)' => InSlot(s)' /\ closed'[s] = 0
    <3>1. SUFFICES ASSUME NEW s \in Streams, Inherited(s) PROVE InSlot(s)' /\ closed'[s] = 0
      BY <1>4
    <3>2. InSlot(s) /\ closed[s] = 0
      BY <3>1 DEF Inv, StageInv
    <3>3. Holds(s, index[s])
      BY <3>2 DEF Inv, FdInv, InSlot
    <3>4. index[s] # index[cur[t]]
      BY <3>1, <3>3, <1>3, <1>10
    <3> QED BY <3>2, <3>4, <1>8 DEF InSlot
  <2>2. \A u \in Threads : pc'[u] \in Claiming => u # t /\ pc'[u] = pc[u] /\ cur[u] # cur[t]
    BY <1>2, <1>3 DEF Claiming, PreErase, Cleared, Unlinked
  <2>3. \A u \in Threads : u # t /\ pc[u] \in PreErase \union Cleared =>
           index[cur[u]] # index[cur[t]]
    BY <1>3, <1>6, <1>10 DEF Claiming
  <2> QED BY <2>1, <2>2, <2>3, <1>8 DEF Inv, StageInv, InSlot, Claiming, PreErase, Cleared,
       Unlinked
<1>18. HolderInv'
  BY <1>1, <1>2, <1>3, <1>4, <1>5, <1>6, <1>7, <1>8, <1>9, <1>10 DEF Inv, HolderInv
<1>19. FreeInv'
  BY <1>2, <1>5, <1>8, <1>9 DEF Inv, FreeInv, IsFree
<1>20. NoneLost'
  BY <1>1, <1>2, <1>3, <1>4, <1>5, <1>6, <1>7, <1>8, <1>9, <1>10 DEF Inv, NoneLost, IsFree
<1>21. TokenInv'
  BY <1>1, <1>2, <1>5, <1>8, <1>9, NoneAssumption DEF Inv, TokenInv, InSlot
<1>22. FdInv'
  BY <1>1, <1>2, <1>3, <1>4, <1>5, <1>6, <1>7, <1>8, <1>9, <1>10 DEF Inv, FdInv
<1>23. PoolInv'
  BY <1>1, <1>2, <1>3, <1>4, <1>5, <1>6, <1>7, <1>8, <1>9, <1>10 DEF Inv, PoolInv
<1>24. ClosedInv'
  BY <1>1, <1>2, <1>3, <1>4, <1>5, <1>6, <1>7, <1>8, <1>9, <1>10 DEF Inv, ClosedInv
<1>25. BufferInv'
  BY <1>1, <1>2, <1>3, <1>4, <1>5, <1>6, <1>7, <1>8, <1>9, <1>10 DEF Inv, BufferInv
<1>26. RegisteredInv'
  BY <1>2, <1>8 DEF Inv, RegisteredInv, Hit
<1>27. IsFiniteSet(armed)'
  BY DEF Inv
<1> QED BY <1>11, <1>12, <1>13, <1>14, <1>15, <1>16, <1>17, <1>18, <1>19, <1>20, <1>21, <1>22,
          <1>23, <1>24, <1>25, <1>26, <1>27 DEF Inv


\* unmute: the stream is erased, delivered again, or released.
LEMMA UnmuteStep ==
    ASSUME Inv, NEW t \in Threads, Unmute(t)
    PROVE  Inv'
<1> USE DEF setVars, streamVars, pollVars, threadVars
<1>1. /\ pc[t] = "unmute" /\ pc[t] \in PreErase
      /\ UNCHANGED <<byFd, known, free, index, edata, armed, status, inbox, buffered, sent, hup,
                     calls, pending, work, pass, cur, kind, after, closed, shutdown>>
  BY DEF Unmute, At, PreErase
<1>2. /\ pc \in [Threads -> Labels] /\ cur \in [Threads -> Streams \union {None}]
      /\ cur[t] \in Streams /\ t \in Workers
  BY <1>1, Position DEF AcceptorLabels, PollerLabels, Resting, Cleared, Unlinked
<1>3. TypeOK /\ Control /\ BufferInv /\ Shapes
  BY ShapesHold DEF Inv
<1>4. BufferInv'
  BY <1>1, <1>3 DEF BufferInv
<1>5. CASE status[cur[t]] = "ERRORING_OUT"
  <2>1. pc' = [pc EXCEPT ![t] = "erase"] /\ UNCHANGED <<token, jobs>>
    BY <1>5 DEF Unmute, Goto
  <2>2. TypeOK'
    <3>1. Shapes'
      BY <2>1, <1>1, <1>2, <1>3 DEF Shapes, Labels
    <3> QED BY <3>1, <1>1, <1>3, TypeFrame
  <2>3. Control'
    BY <2>1, <1>1, <1>2, <1>3, ThreadAssumption DEF Control, Threads, WorkerLabels, Resting
  <2> QED BY <2>1, <2>2, <2>3, <1>1, <1>4, ProceedStep DEF PreErase
<1>6. CASE status[cur[t]] # "ERRORING_OUT" /\ HasNext(cur[t])
  <2>1. /\ pc' = [pc EXCEPT ![t] = "finish"] /\ jobs' = Append(jobs, Job("receive", cur[t]))
        /\ UNCHANGED token
    BY <1>6 DEF Unmute, Goto
  <2>2. jobs' \in Seq(JobSet)
    BY <2>1, <1>2, AppendFacts, JobFacts, <1>3 DEF TypeOK
  <2>3. TypeOK'
    <3>1. Shapes'
      BY <2>1, <2>2, <1>1, <1>2, <1>3 DEF Shapes, Labels
    <3> QED BY <3>1, <1>1, <1>3, TypeFrame
  <2>4. Control'
    BY <2>1, <1>1, <1>2, <1>3, ThreadAssumption DEF Control, Threads, WorkerLabels, Resting
  <2>5. cur' = [cur EXCEPT ![t] = cur[t]]
    BY <1>1, <1>2
  <2> QED BY <2>1, <2>3, <2>4, <2>5, <1>1, <1>4, InheritStep
<1>7. CASE status[cur[t]] # "ERRORING_OUT" /\ ~HasNext(cur[t])
  <2>1. InSlot(cur[t])
    BY <1>1 DEF Inv, StageInv
  <2>2. /\ pc' = [pc EXCEPT ![t] = "arm"] /\ token' = [token EXCEPT ![index[cur[t]]] = cur[t]]
        /\ UNCHANGED jobs
    BY <1>7, <2>1 DEF Unmute, Goto, InSlot
  <2> QED BY <2>2, <1>1, ReleaseStep
<1> QED BY <1>5, <1>6, <1>7

\* The event is destroyed, or the poller goes on: what is left behind is triggered.
LEMMA FinishStep ==
    ASSUME Inv, NEW t \in Threads, Finish(t)
    PROVE  Inv'
<1> USE DEF setVars, streamVars, pollVars, threadVars
<1>1. /\ pc[t] = "finish" /\ jobs' = jobs \o after[t]
      /\ pc' = [pc EXCEPT ![t] = IF t = Poller THEN "loop" ELSE "idle"]
      /\ cur' = [cur EXCEPT ![t] = None]
      /\ kind' = [kind EXCEPT ![t] = "none"] /\ after' = [after EXCEPT ![t] = <<>>]
      /\ UNCHANGED <<token, byFd, known, free, index, edata, armed, status, inbox, buffered, sent,
                     hup, calls, pending, work, pass, closed, shutdown>>
  BY DEF Finish, At, Leave, Goto
<1>2. /\ pc \in [Threads -> Labels] /\ cur \in [Threads -> Streams \union {None}]
      /\ t # Acceptor
  BY <1>1, Position DEF AcceptorLabels
<1>3. TypeOK /\ Control /\ BufferInv /\ QueueInv /\ Shapes
  BY ShapesHold DEF Inv
<1>4. /\ jobs' \in Seq(JobSet) /\ QueueInv'
      /\ \A s \in Streams : Inherited(s)' <=> Inherited(s)
  BY <1>1, <1>3, AppendAfter
<1>5. TypeOK'
  <2>1. Shapes'
    BY <1>1, <1>2, <1>3, <1>4 DEF Shapes, Labels
  <2> QED BY <2>1, <1>1, <1>3, TypeFrame
<1>6. Control'
  BY <1>1, <1>2, <1>3, ThreadAssumption
     DEF Control, Shapes, Threads, WorkerLabels, PollerLabels, Resting
<1>7. BufferInv'
  BY <1>1, <1>3 DEF BufferInv
<1>8. CASE t = Poller
  BY <1>1, <1>4, <1>5, <1>6, <1>7, <1>8, DepartStep DEF Resting
<1>9. CASE t # Poller
  BY <1>1, <1>4, <1>5, <1>6, <1>7, <1>9, DepartStep DEF Resting
<1> QED BY <1>8, <1>9

\* The insertion ends when the pool is empty.
LEMMA InsertFullStep ==
    ASSUME Inv, InsertIndex(Acceptor), free = <<>>
    PROVE  Inv'
<1> USE DEF setVars, streamVars, pollVars, threadVars
<1>1. /\ pc[Acceptor] = "ins_index"
      /\ pc' = [pc EXCEPT ![Acceptor] = "idle"]
      /\ cur' = [cur EXCEPT ![Acceptor] = None]
      /\ kind' = [kind EXCEPT ![Acceptor] = "none"] /\ after' = [after EXCEPT ![Acceptor] = <<>>]
      /\ UNCHANGED <<token, byFd, known, free, index, edata, armed, status, inbox, buffered, sent,
                     hup, jobs, calls, pending, work, pass, closed, shutdown>>
  BY DEF InsertIndex, AfterInsert, At, Leave, Goto
<1>2. /\ pc \in [Threads -> Labels] /\ cur \in [Threads -> Streams \union {None}]
      /\ Acceptor \in Threads
  BY Position DEF Threads
<1>3. TypeOK /\ Control /\ BufferInv /\ QueueInv /\ Shapes
  BY ShapesHold DEF Inv
<1>4. QueueInv' /\ \A s \in Streams : Inherited(s)' <=> Inherited(s)
  BY <1>1, <1>3 DEF QueueInv, Inherited
<1>5. TypeOK'
  <2>1. Shapes'
    BY <1>1, <1>2, <1>3, <1>4 DEF Shapes, Labels
  <2> QED BY <2>1, <1>1, <1>3, TypeFrame
<1>6. Control'
  BY <1>1, <1>2, <1>3, ThreadAssumption
     DEF Control, Shapes, Threads, AcceptorLabels, Resting
<1>7. BufferInv'
  BY <1>1, <1>3 DEF BufferInv
<1> QED BY <1>1, <1>2, <1>4, <1>5, <1>6, <1>7, DepartStep DEF Resting

\* receive: whatever it finds, it goes on to unmute with the claim.
LEMMA ReadStep ==
    ASSUME Inv, OnlyCalls, NEW w \in Workers, Read(w)
    PROVE  Inv'
<1> USE DEF setVars, streamVars, pollVars, threadVars
<1>1. /\ pc[w] = "read" /\ pc' = [pc EXCEPT ![w] = "unmute"]
      /\ UNCHANGED <<token, byFd, known, free, index, edata, armed, sent, hup, jobs, calls,
                     pending, work, pass, cur, kind, closed, shutdown>>
  BY DEF Read, At, Goto
<1>2. /\ pc \in [Threads -> Labels] /\ cur \in [Threads -> Streams \union {None}]
      /\ w \in Threads /\ cur[w] \in Streams
  BY <1>1, Position DEF Threads, Resting
<1>3. TypeOK /\ Control /\ BufferInv /\ QueueInv /\ Shapes
  BY ShapesHold DEF Inv
<1>4. after' = after \/ after' = [after EXCEPT ![w] = <<>>]
  BY DEF Read, OnlyCalls
<1>5. after' \in [Threads -> Seq(JobSet)]
  <2>1. after \in [Threads -> Seq(JobSet)] /\ <<>> \in Seq(JobSet)
    BY <1>3 DEF Shapes
  <2> QED BY <2>1, <1>4
<1>6. status' = status \/ status' = [status EXCEPT ![cur[w]] = "ERRORING_OUT"]
  BY DEF Read
<1>7. /\ status' \in [Streams -> {"new", "open", "ERRORING_OUT", "gone"}]
      /\ \A s \in Streams : status'[s] = "new" <=> status[s] = "new"
  <2>1. status[cur[w]] # "new"
    BY <1>1, <1>2, ThreadAssumption DEF Inv, YoungInv, Resting
  <2> QED BY <1>2, <1>3, <1>6, <2>1 DEF Shapes
<1>8. /\ inbox' \in [Streams -> Nat] /\ buffered' \in [Streams -> Nat]
      /\ BufferInv'
  <2>1. inbox \in [Streams -> Nat] /\ buffered \in [Streams -> Nat]
    BY <1>3 DEF Shapes
  <2>2. CASE UNCHANGED <<inbox, buffered>>
    BY <2>1, <2>2, <1>3 DEF BufferInv
  <2>3. CASE /\ buffered[cur[w]] + inbox[cur[w]] > 0 /\ Kind[cur[w]] = "event"
             /\ inbox' = [inbox EXCEPT ![cur[w]] = @ - 1] /\ UNCHANGED buffered
    <3>1. inbox[cur[w]] - 1 \in Nat
      BY <2>1, <2>3, <1>2, <1>3 DEF BufferInv
    <3> QED BY <2>1, <2>3, <3>1, <1>2, <1>3 DEF BufferInv
  <2>4. CASE /\ Kind[cur[w]] # "event" /\ buffered[cur[w]] > 0
             /\ buffered' = [buffered EXCEPT ![cur[w]] = @ - 1] /\ UNCHANGED inbox
    BY <2>1, <2>4, <1>2, <1>3 DEF BufferInv
  <2>5. CASE /\ buffered[cur[w]] + inbox[cur[w]] > 0
             /\ Kind[cur[w]] # "event" /\ ~(buffered[cur[w]] > 0)
             /\ buffered' = [buffered EXCEPT ![cur[w]] = inbox[cur[w]] - 1]
             /\ inbox' = [inbox EXCEPT ![cur[w]] = 0]
    BY <2>1, <2>5, <1>2, <1>3 DEF BufferInv
  <2> QED BY <2>2, <2>3, <2>4, <2>5 DEF Read
<1>9. TypeOK'
  <2>1. Shapes'
    BY <1>1, <1>2, <1>3, <1>5, <1>7, <1>8 DEF Shapes, Labels
  <2> QED BY <2>1, <1>1, <1>3, TypeFrame
<1>10. Control'
  <2>1. after \in [Threads -> Seq(JobSet)]
    BY <1>3 DEF Shapes
  <2>2. \A t \in Threads : \A k \in 1 .. Len(after'[t]) : after'[t][k].kind = "call"
    BY <2>1, <1>2, <1>3, <1>4 DEF Control
  <2> QED BY <1>1, <1>2, <1>3, <2>2, ThreadAssumption DEF Control, Threads, WorkerLabels, Resting
<1> QED BY <1>1, <1>2, <1>7, <1>8, <1>9, <1>10, ProceedStep DEF PreErase

\* basic_transport::send: written, failed or refused, a call goes on to unmute.
LEMMA WriteStep ==
    ASSUME Inv, OnlyCalls, NEW w \in Workers, Write(w)
    PROVE  Inv'
<1> USE DEF setVars, streamVars, pollVars, threadVars
<1>1. /\ pc[w] = "write"
      /\ UNCHANGED <<token, byFd, known, free, index, edata, armed, buffered, sent, hup,
                     jobs, calls, pending, work, pass, closed, shutdown>>
  BY DEF Write, At, Goto
<1>2. /\ pc \in [Threads -> Labels] /\ cur \in [Threads -> Streams \union {None}]
      /\ w \in Threads /\ cur[w] \in Streams
  BY <1>1, Position DEF Threads, Resting
<1>3. TypeOK /\ Control /\ BufferInv /\ QueueInv /\ Shapes
  BY ShapesHold DEF Inv
<1>4. kind[w] = "call"
  BY <1>1, <1>3 DEF Control
<1>5. pc' = [pc EXCEPT ![w] = "unmute"] /\ UNCHANGED <<cur, kind>>
  BY <1>4 DEF Write, Goto
<1>6. after' = after \/ after' = [after EXCEPT ![w] = <<Job("call", cur[w])>>]
  BY <1>4 DEF Write
<1>7. \A k \in 1 .. 1 : <<Job("call", cur[w])>>[k].kind = "call"
  BY JobFacts
<1>8. after' \in [Threads -> Seq(JobSet)]
  <2>1. "call" \in JobKinds
    BY <1>2, <1>3, <1>4 DEF Shapes
  <2>2. <<Job("call", cur[w])>> \in Seq(JobSet)
    BY <2>1, <1>2, JobFacts
  <2> QED BY <2>2, <1>3, <1>6 DEF Shapes
<1>9. \A t \in Threads : \A k \in 1 .. Len(after'[t]) : after'[t][k].kind = "call"
  <2>1. \A t \in Threads : \A k \in 1 .. Len(after[t]) : after[t][k].kind = "call"
    BY <1>3 DEF Control
  <2>2. after \in [Threads -> Seq(JobSet)] /\ Len(<<Job("call", cur[w])>>) = 1
    BY <1>3 DEF Shapes
  <2> QED BY <2>1, <2>2, <1>2, <1>6, <1>7
<1>10. /\ inbox' \in [Streams -> Nat]
       /\ status' \in [Streams -> {"new", "open", "ERRORING_OUT", "gone"}]
       /\ \A s \in Streams : status'[s] = "new" <=> status[s] = "new"
  <2>1. inbox \in [Streams -> Nat] /\ status \in [Streams -> {"new", "open", "ERRORING_OUT",
       "gone"}]
    BY <1>3 DEF Shapes
  <2>2. status[cur[w]] # "new"
    BY <1>1, <1>2, ThreadAssumption DEF Inv, YoungInv, Resting
  <2>3. /\ \/ inbox' = inbox
           \/ inbox' = [inbox EXCEPT ![cur[w]] = IF Kind[cur[w]] = "event" THEN @ + 1 ELSE @]
        /\ status' = status \/ status' = [status EXCEPT ![cur[w]] = "ERRORING_OUT"]
    BY DEF Write
  <2> QED BY <2>1, <2>2, <2>3, <1>2
<1>11. TypeOK'
  <2>1. Shapes'
    BY <1>1, <1>2, <1>3, <1>5, <1>8, <1>10 DEF Shapes, Labels
  <2> QED BY <2>1, <1>1, <1>3, TypeFrame
<1>12. Control'
  BY <1>1, <1>2, <1>3, <1>5, <1>9, ThreadAssumption DEF Control, Threads, WorkerLabels, Resting
<1>13. BufferInv'
  BY <1>1, <1>3 DEF BufferInv
<1> QED BY <1>1, <1>2, <1>5, <1>10, <1>11, <1>12, <1>13, ProceedStep DEF PreErase

\* The lookup of a call: the stream has been published, or the call ends.
LEMMA LookupStep ==
    ASSUME Inv, OnlyCalls, NEW w \in Workers, Lookup(w)
    PROVE  Inv'
<1> USE DEF setVars, streamVars, pollVars, threadVars
<1>1. /\ pc[w] = "lookup"
      /\ UNCHANGED <<token, byFd, known, free, index, edata, armed, inbox, buffered, sent,
                     hup, jobs, calls, pending, work, pass, closed, shutdown>>
  BY DEF Lookup, At
<1>2. /\ pc \in [Threads -> Labels] /\ cur \in [Threads -> Streams \union {None}]
      /\ w \in Threads /\ cur[w] \in Streams
  BY <1>1, Position DEF Threads, Resting
<1>3. TypeOK /\ Control /\ BufferInv /\ QueueInv /\ Shapes
  BY ShapesHold DEF Inv
<1>4. kind[w] = "call"
  BY <1>1, <1>3 DEF Control
<1>5. QueueInv' /\ BufferInv' /\ \A s \in Streams : Inherited(s)' <=> Inherited(s)
  BY <1>1, <1>3 DEF QueueInv, BufferInv, Inherited
<1>6. CASE cur[w] \notin known
  <2>1. /\ pc' = [pc EXCEPT ![w] = "idle"] /\ cur' = [cur EXCEPT ![w] = None]
        /\ kind' = [kind EXCEPT ![w] = "none"] /\ after' = [after EXCEPT ![w] = <<>>]
        /\ UNCHANGED status
    BY <1>4, <1>6 DEF Lookup, Leave, Goto
  <2>2. TypeOK'
    <3>1. Shapes'
      BY <2>1, <1>1, <1>2, <1>3 DEF Shapes, Labels
    <3> QED BY <3>1, <1>1, <1>3, TypeFrame
  <2>3. Control'
    BY <2>1, <1>2, <1>3, ThreadAssumption DEF Control, Shapes, Threads, WorkerLabels, Resting
  <2> QED BY <2>1, <2>2, <2>3, <1>1, <1>2, <1>5, DepartStep DEF Resting
<1>7. CASE cur[w] \in known
  <2>1. pc' = [pc EXCEPT ![w] = "claim"] /\ UNCHANGED <<cur, kind, after, status>>
    BY <1>7 DEF Lookup, Goto
  <2>2. w # Acceptor /\ w # Poller
    BY ThreadAssumption
  <2>3. \A s, i : Holds(s, i)' <=> Holds(s, i)
    BY <2>1, <1>1, <1>2 DEF Holds
  <2>4. TypeOK'
    <3>1. Shapes'
      BY <2>1, <1>1, <1>2, <1>3 DEF Shapes, Labels
    <3> QED BY <3>1, <1>1, <1>3, TypeFrame
  <2>5. Control'
    BY <2>1, <2>2, <1>2, <1>3, <1>4 DEF Control, Threads, WorkerLabels, Resting
  <2>6. YoungInv'
    BY <2>1, <2>2, <1>1, <1>2, <1>5, <1>7 DEF Inv, YoungInv, Inserting
  <2>7. InsertInv' /\ PoolInv' /\ ClosedInv'
    BY <2>1, <2>2, <1>1, <1>2 DEF Inv, InsertInv, PoolInv, ClosedInv
  <2>8. LockInv'
    BY <2>1, <1>1, <1>2, <1>5 DEF Inv, LockInv, Engaged, Claiming, PreErase, Cleared, Unlinked
  <2>9. StageInv'
    BY <2>1, <1>1, <1>2, <1>5 DEF Inv, StageInv, InSlot, Claiming, PreErase, Cleared, Unlinked
  <2>10. HolderInv' /\ FreeInv' /\ NoneLost' /\ TokenInv' /\ FdInv'
    BY <2>1, <2>2, <2>3, <1>1, <1>2 DEF Inv, HolderInv, FreeInv, NoneLost, TokenInv, FdInv, IsFree
  <2>11. RegisteredInv' /\ IsFiniteSet(armed)'
    BY <2>1, <1>1, <1>2 DEF Inv, RegisteredInv, Hit
  <2> QED BY <2>4, <2>5, <2>6, <2>7, <2>8, <2>9, <2>10, <2>11, <1>5 DEF Inv
<1> QED BY <1>6, <1>7

\* mute: the call gets the claim, or it is triggered again.
LEMMA ClaimStep ==
    ASSUME Inv, OnlyCalls, NEW w \in Workers, Claim(w)
    PROVE  Inv'
<1> USE DEF setVars, streamVars, pollVars, threadVars
<1>1. /\ pc[w] = "claim"
      /\ UNCHANGED <<byFd, known, free, index, edata, armed, status, inbox, buffered, sent,
                     hup, calls, pending, work, pass, closed, shutdown>>
  BY DEF Claim, At
<1>2. /\ pc \in [Threads -> Labels] /\ cur \in [Threads -> Streams \union {None}]
      /\ w \in Threads /\ cur[w] \in Streams
  BY <1>1, Position DEF Threads, Resting
<1>3. TypeOK /\ Control /\ BufferInv /\ QueueInv /\ Shapes
  BY ShapesHold DEF Inv
<1>4. kind[w] = "call" /\ "call" \in JobKinds
  <2>1. kind[w] = "call"
    BY <1>1, <1>3 DEF Control
  <2> QED BY <2>1, <1>2, <1>3 DEF Shapes
<1>5. ~Inserting(cur[w])
  BY <1>1, <1>2, ThreadAssumption DEF Inv, YoungInv, Resting
<1>6. Hit(index[cur[w]], cur[w]) => Claimed(index[cur[w]], cur[w])
  BY <1>2, <1>5 DEF Inv, TokenInv, Hit, Claimed, Inserting
<1>7. BufferInv'
  BY <1>1, <1>3 DEF BufferInv
<1>8. CASE Claimed(index[cur[w]], cur[w])
  <2>1. /\ token' = [token EXCEPT ![index[cur[w]]] = None] /\ index[cur[w]] \in Indexes
        /\ pc' = [pc EXCEPT ![w] = "del"] /\ UNCHANGED <<jobs, cur, kind, after>>
    BY <1>8 DEF Claim, Swap, Claimed, Hit, Goto
  <2>2. TypeOK'
    <3>1. Shapes'
      BY <2>1, <1>1, <1>2, <1>3 DEF Shapes, Labels
    <3> QED BY <3>1, <1>1, <1>3, TypeFrame
  <2>3. Control'
    BY <2>1, <1>2, <1>3, <1>4, ThreadAssumption DEF Control, Threads, WorkerLabels, Resting
  <2>4. cur' = [cur EXCEPT ![w] = cur[w]]
    BY <2>1, <1>2
  <2> QED BY <2>1, <2>2, <2>3, <2>4, <1>1, <1>2, <1>5, <1>7, <1>8, AcquireStep
<1>9. CASE ~Claimed(index[cur[w]], cur[w])
  <2>1. /\ jobs' = Append(jobs, Job("call", cur[w])) /\ UNCHANGED token
        /\ pc' = [pc EXCEPT ![w] = "idle"] /\ cur' = [cur EXCEPT ![w] = None]
        /\ kind' = [kind EXCEPT ![w] = "none"] /\ after' = [after EXCEPT ![w] = <<>>]
    BY <1>4, <1>6, <1>9 DEF Claim, Swap, Leave, Goto
  <2>2. /\ jobs' \in Seq(JobSet) /\ QueueInv'
        /\ \A s \in Streams : Inherited(s)' <=> Inherited(s)
    BY <2>1, <1>2, <1>3, <1>4, AppendCall
  <2>3. TypeOK'
    <3>1. Shapes'
      BY <2>1, <2>2, <1>1, <1>2, <1>3 DEF Shapes, Labels
    <3> QED BY <3>1, <1>1, <1>3, TypeFrame
  <2>4. Control'
    BY <2>1, <1>2, <1>3, ThreadAssumption DEF Control, Shapes, Threads, WorkerLabels, Resting
  <2> QED BY <2>1, <2>2, <2>3, <2>4, <1>1, <1>2, <1>7, DepartStep DEF Resting
<1> QED BY <1>8, <1>9

\* Peers, and polling::shutdown.
LEMMA EnvironmentStep ==
    ASSUME Inv, (\E s \in Streams : PeerSend(s) \/ PeerHangup(s)) \/ Shutdown
    PROVE  Inv'
<1> USE DEF setVars, streamVars, pollVars, threadVars
<1>1. TypeOK /\ BufferInv
  BY DEF Inv
<1>2. ASSUME NEW s \in Streams, PeerSend(s)
      PROVE  Inv'
  <2>1. sent[s] \in 0 .. MaxSent /\ sent[s] < MaxSent /\ inbox[s] \in Nat
    BY <1>1, <1>2 DEF TypeOK, PeerSend
  <2>2. sent[s] + 1 \in 0 .. MaxSent /\ inbox[s] + 1 \in Nat
    BY <2>1, BoundAssumption
  <2>3. /\ sent \in [Streams -> 0 .. MaxSent] /\ inbox \in [Streams -> Nat]
        /\ sent' = [sent EXCEPT ![s] = sent[s] + 1] /\ inbox' = [inbox EXCEPT ![s] = inbox[s] + 1]
    BY <1>1, <1>2 DEF TypeOK, PeerSend
  <2>4. sent' \in [Streams -> 0 .. MaxSent] /\ inbox' \in [Streams -> Nat]
    BY <2>2, <2>3
  <2>5. UNCHANGED <<token, byFd, known, free, index, edata, armed, status, buffered, hup,
                    jobs, calls, pending, work, pass, pc, cur, kind, after, closed, shutdown>>
    BY <1>2 DEF PeerSend
  <2>6. TypeOK'
    <3>1. hup' \subseteq Streams /\ shutdown' \in BOOLEAN
      BY <2>5, <1>1 DEF TypeOK
    <3> QED BY <3>1, <2>4, <2>5, <1>1, OutsideFrame
  <2>7. BufferInv'
    BY <2>5, <1>1 DEF BufferInv
  <2> QED BY <2>5, <2>6, <2>7, QuietStep
<1>3. ASSUME NEW s \in Streams, PeerHangup(s)
      PROVE  Inv'
  <2>1. hup' \subseteq Streams
    BY <1>1, <1>3 DEF TypeOK, PeerHangup
  <2>2. UNCHANGED <<token, byFd, known, free, index, edata, armed, status, inbox, buffered,
                    sent, jobs, calls, pending, work, pass, pc, cur, kind, after, closed, shutdown>>
    BY <1>3 DEF PeerHangup
  <2>3. TypeOK'
    BY <2>1, <2>2, <1>1 DEF TypeOK
  <2>4. BufferInv'
    BY <2>2, <1>1 DEF BufferInv
  <2> QED BY <2>2, <2>3, <2>4, QuietStep
<1>4. ASSUME Shutdown
      PROVE  Inv'
  <2>1. shutdown' \in BOOLEAN
    BY <1>4 DEF Shutdown
  <2>2. UNCHANGED <<token, byFd, known, free, index, edata, armed, status, inbox, buffered,
                    sent, hup, jobs, calls, pending, work, pass, pc, cur, kind, after, closed>>
    BY <1>4 DEF Shutdown
  <2>3. TypeOK'
    <3>1. sent \in [Streams -> 0 .. MaxSent] /\ inbox \in [Streams -> Nat] /\ hup \subseteq Streams
      BY <1>1 DEF TypeOK
    <3> QED BY <3>1, <2>1, <2>2, <1>1, OutsideFrame
  <2>4. BufferInv'
    BY <2>2, <1>1 DEF BufferInv
  <2> QED BY <2>2, <2>3, <2>4, QuietStep
<1> QED BY <1>2, <1>3, <1>4

\* The poller moves between its passes.
LEMMA PassStep ==
    ASSUME Inv, EpollWait \/ NextPass
    PROVE  Inv'
<1> USE DEF setVars, streamVars, pollVars, threadVars
<1>1. /\ pc[Poller] \in {"wait", "loop"}
      /\ \/ pc' = pc
         \/ \E l \in {"wait", "loop", "stopped"} : pc' = [pc EXCEPT ![Poller] = l]
      /\ UNCHANGED <<token, byFd, known, free, index, edata, armed, status, inbox, buffered,
                     sent, hup, jobs, calls, cur, kind, after, closed, shutdown>>
  BY DEF EpollWait, NextPass, At, Goto
<1>2. pc \in [Threads -> Labels] /\ Poller \in Threads /\ Poller # Acceptor
  BY Position, ThreadAssumption DEF Threads
<1>3. TypeOK /\ Control /\ BufferInv /\ QueueInv /\ Shapes
  BY ShapesHold DEF Inv
<1>4. /\ pc'[Poller] \in {"wait", "loop", "stopped"} /\ pc' \in [Threads -> Labels]
      /\ \A t \in Threads : t # Poller => pc'[t] = pc[t]
  BY <1>1, <1>2 DEF Labels
<1>5. work \in Seq(EventSet) /\ pending \in Seq(EventSet) /\ pass \in {"batch", "retry"}
  BY <1>3 DEF TypeOK, EventSet
<1>6. work' \in Seq(EventSet) /\ pending' \in Seq(EventSet) /\ pass' \in {"batch", "retry"}
  <2>1. CASE EpollWait
    <3>1. PICK S \in {ReadySet, {}} : \E order \in Orders(S) :
                work' = [k \in DOMAIN order |-> Event(order[k], order[k] \in hup)]
      BY <2>1 DEF EpollWait
    <3>2. PICK order \in Orders(S) :
                work' = [k \in DOMAIN order |-> Event(order[k], order[k] \in hup)]
      BY <3>1
    <3>3. S \subseteq armed /\ armed \subseteq Streams /\ IsFiniteSet(armed)
      <4>1. armed \subseteq Streams /\ IsFiniteSet(armed)
        BY DEF Inv, TypeOK
      <4> QED BY <4>1, <3>1 DEF ReadySet
    <3>4. Cardinality(S) \in Nat
      BY <3>3, FS_Subset, FS_CardinalityType
    <3>5. order \in [1 .. Cardinality(S) -> S]
      BY <3>2 DEF Orders
    <3>6. \A k \in 1 .. Cardinality(S) : Event(order[k], order[k] \in hup) \in EventSet
      <4>1. SUFFICES ASSUME NEW k \in 1 .. Cardinality(S)
                     PROVE  Event(order[k], order[k] \in hup) \in EventSet
        OBVIOUS
      <4>2. order[k] \in Streams
        BY <3>3, <3>5
      <4>3. (order[k] \in hup) \in BOOLEAN
        OBVIOUS
      <4> QED BY <4>2, <4>3, EventFacts
    <3>7. work' = [k \in 1 .. Cardinality(S) |-> Event(order[k], order[k] \in hup)]
      BY <3>2, <3>5
    <3>8. work' \in Seq(EventSet)
      BY <3>4, <3>6, <3>7
    <3>9. pending' = pending /\ pass' = "batch"
      BY <2>1 DEF EpollWait
    <3> QED BY <3>8, <3>9, <1>5
  <2>2. CASE NextPass
    <3>1. <<>> \in Seq(EventSet)
      OBVIOUS
    <3> QED BY <2>2, <3>1, <1>5 DEF NextPass
  <2> QED BY <2>1, <2>2
<1>7. TypeOK'
  <2>1. Shapes'
    BY <1>1, <1>3, <1>4 DEF Shapes
  <2> QED BY <2>1, <1>1, <1>3, <1>6, PollFrame
<1>8. Control'
  BY <1>1, <1>2, <1>3, <1>4, ThreadAssumption DEF Control, PollerLabels, Resting, Threads
<1>9. QueueInv' /\ BufferInv' /\ \A s \in Streams : Inherited(s)' <=> Inherited(s)
  BY <1>1, <1>3 DEF QueueInv, BufferInv, Inherited
<1>10. \A s, i : Holds(s, i)' <=> Holds(s, i)
  BY <1>1, <1>4 DEF Holds
<1>11. Acceptor \in Threads /\ pc'[Acceptor] = pc[Acceptor]
  BY <1>2, <1>4 DEF Threads
<1>12. YoungInv'
  BY <1>1, <1>4, <1>9, <1>11 DEF Inv, YoungInv, Inserting, Resting
<1>13. InsertInv' /\ PoolInv' /\ ClosedInv'
  BY <1>1, <1>11 DEF Inv, InsertInv, PoolInv, ClosedInv
<1>14. LockInv'
  BY <1>1, <1>2, <1>4, <1>9 DEF Inv, LockInv, Engaged, Claiming, PreErase, Cleared, Unlinked
<1>15. StageInv'
  BY <1>1, <1>2, <1>4, <1>9 DEF Inv, StageInv, InSlot, Claiming, PreErase, Cleared, Unlinked
<1>16. HolderInv' /\ FreeInv' /\ NoneLost' /\ TokenInv' /\ FdInv'
  BY <1>1, <1>10, <1>11 DEF Inv, HolderInv, FreeInv, NoneLost, TokenInv, FdInv, IsFree
<1>17. RegisteredInv' /\ IsFiniteSet(armed)'
  BY <1>1, <1>2, <1>4 DEF Inv, RegisteredInv, Hit
<1> QED BY <1>7, <1>8, <1>9, <1>12, <1>13, <1>14, <1>15, <1>16, <1>17 DEF Inv

\* process_event: the stream is claimed, or the event is kept.
LEMMA ProcessEventStep ==
    ASSUME Inv, ProcessEvent
    PROVE  Inv'
<1> USE DEF setVars, streamVars, pollVars, threadVars
<1>1. /\ pc[Poller] = "loop" /\ work # <<>> /\ work' = Tail(work)
      /\ UNCHANGED <<byFd, known, free, index, edata, armed, status, inbox, buffered, sent,
                     hup, jobs, calls, pass, closed, shutdown>>
  BY DEF ProcessEvent, At
<1>2. pc \in [Threads -> Labels] /\ Poller \in Threads /\ Poller # Acceptor
  BY Position, ThreadAssumption DEF Threads
<1>3. TypeOK /\ Control /\ BufferInv /\ QueueInv /\ Shapes
  BY ShapesHold DEF Inv
<1>4. work \in Seq(EventSet) /\ pending \in Seq(EventSet) /\ pass \in {"batch", "retry"}
  BY <1>3 DEF TypeOK, EventSet
<1>5. Head(work) \in EventSet /\ work' \in Seq(EventSet)
  BY <1>1, <1>4, TailFacts
<1>6. PICK s \in Payload(Head(work).stream) :
         /\ Swap(edata[s], s)
         /\ IF Claimed(edata[s], s)
            THEN /\ cur' = [cur EXCEPT ![Poller] = s]
                 /\ kind' = [kind EXCEPT ![Poller] = IF Head(work).hup THEN "hup" ELSE "in"]
                 /\ pc' = [pc EXCEPT ![Poller] = "del"]
                 /\ UNCHANGED <<pending, after>>
            ELSE /\ pending' = Append(pending, Head(work))
                 /\ UNCHANGED <<pc, cur, kind, after>>
  BY DEF ProcessEvent, Goto
<1>7. s \in Streams
  <2>1. Head(work).stream \in Streams
    BY <1>5, EventFacts
  <2> QED BY <2>1, <1>6 DEF Payload
<1>8. Hit(edata[s], s) => Claimed(edata[s], s) /\ ~Inserting(s)
  <2>1. ASSUME Hit(edata[s], s) PROVE ~Inserting(s)
    BY <2>1, <1>7, NullIndex DEF Inv, YoungInv, Hit
  <2> QED BY <2>1, <1>7 DEF Inv, TokenInv, Hit, Claimed, Inserting
<1>9. BufferInv'
  BY <1>1, <1>3 DEF BufferInv
<1>10. CASE Claimed(edata[s], s)
  <2>1. /\ token' = [token EXCEPT ![edata[s]] = None] /\ edata[s] \in Indexes /\ ~Inserting(s)
        /\ pc' = [pc EXCEPT ![Poller] = "del"] /\ cur' = [cur EXCEPT ![Poller] = s]
        /\ kind' = [kind EXCEPT ![Poller] = IF Head(work).hup THEN "hup" ELSE "in"]
        /\ UNCHANGED <<pending, after>>
    BY <1>6, <1>8, <1>10 DEF Swap, Claimed, Hit
  <2>2. Shapes'
    BY <2>1, <1>1, <1>2, <1>3, <1>7 DEF Shapes, Labels
  <2>3. TypeOK'
    <3>1. pending' \in Seq(EventSet) /\ pass' \in {"batch", "retry"}
      BY <2>1, <1>1, <1>4
    <3> QED BY <2>2, <3>1, <1>1, <1>3, <1>5, PollFrame
  <2>4. Control'
    BY <2>1, <1>2, <1>3, <1>7, ThreadAssumption DEF Control, Shapes, PollerLabels, Resting,
       Threads
  <2> QED BY <2>1, <2>3, <2>4, <1>1, <1>2, <1>7, <1>9, <1>10, AcquireStep
<1>11. CASE ~Claimed(edata[s], s)
  <2>1. /\ pending' = Append(pending, Head(work)) /\ UNCHANGED <<token, pc, cur, kind, after>>
    BY <1>6, <1>8, <1>11 DEF Swap
  <2>2. Shapes'
    BY <2>1, <1>1, <1>3 DEF Shapes
  <2>3. pending' \in Seq(EventSet) /\ pass' \in {"batch", "retry"}
    BY <2>1, <1>1, <1>4, <1>5, AppendFacts
  <2>4. TypeOK'
    BY <2>2, <2>3, <1>1, <1>3, <1>5, PollFrame
  <2> QED BY <2>1, <2>4, <1>1, <1>9, QuietStep
<1> QED BY <1>10, <1>11

\* After the claim the poller erases the stream or hands the claim over.
LEMMA DispatchStep ==
    ASSUME Inv, Dispatch
    PROVE  Inv'
<1> USE DEF setVars, streamVars, pollVars, threadVars
<1>1. /\ pc[Poller] = "dispatch" /\ pc[Poller] \in PreErase
      /\ UNCHANGED <<token, byFd, known, free, index, edata, armed, status, inbox, buffered,
                     sent, hup, calls, pending, work, pass, closed, shutdown>>
  BY DEF Dispatch, At, PreErase
<1>2. /\ pc \in [Threads -> Labels] /\ Poller \in Threads /\ Poller # Acceptor
      /\ cur[Poller] \in Streams
  BY <1>1, Position, ThreadAssumption DEF Threads, Resting
<1>3. TypeOK /\ Control /\ BufferInv /\ QueueInv /\ Shapes
  BY ShapesHold DEF Inv
<1>4. BufferInv'
  BY <1>1, <1>3 DEF BufferInv
<1>5. CASE kind[Poller] = "hup"
  <2>1. pc' = [pc EXCEPT ![Poller] = "erase"] /\ UNCHANGED <<jobs, cur, kind, after>>
    BY <1>5 DEF Dispatch, Goto
  <2>2. Shapes'
    BY <2>1, <1>1, <1>2, <1>3 DEF Shapes, Labels
  <2>3. TypeOK'
    BY <2>2, <1>1, <1>3, TypeFrame
  <2>4. Control'
    BY <2>1, <1>2, <1>3, ThreadAssumption DEF Control, PollerLabels, Resting, Threads
  <2> QED BY <2>1, <2>3, <2>4, <1>1, <1>2, <1>4, ProceedStep DEF PreErase
<1>6. CASE kind[Poller] # "hup"
  <2>1. /\ jobs' = Append(jobs, Job("receive", cur[Poller]))
        /\ pc' = [pc EXCEPT ![Poller] = "loop"] /\ cur' = [cur EXCEPT ![Poller] = None]
        /\ kind' = [kind EXCEPT ![Poller] = "none"] /\ after' = [after EXCEPT ![Poller] = <<>>]
    BY <1>6 DEF Dispatch, Leave, Goto
  <2>2. jobs' \in Seq(JobSet)
    BY <2>1, <1>2, <1>3, AppendFacts, JobFacts DEF Shapes
  <2>3. Shapes'
    BY <2>1, <2>2, <1>1, <1>2, <1>3 DEF Shapes, Labels
  <2>4. TypeOK'
    BY <2>3, <1>1, <1>3, TypeFrame
  <2>5. Control'
    BY <2>1, <1>2, <1>3, ThreadAssumption DEF Control, Shapes, PollerLabels, Resting, Threads
  <2> QED BY <2>1, <2>4, <2>5, <1>1, <1>2, <1>4, InheritStep
<1> QED BY <1>5, <1>6

\* make_call: a call event in the queue claims nothing.
LEMMA MakeCallStep ==
    ASSUME Inv, OnlyCalls, NEW k \in JobKinds, NEW s \in Streams, MakeCall(k, s)
    PROVE  Inv'
<1> USE DEF setVars, streamVars, pollVars, threadVars
<1>1. /\ jobs' = Append(jobs, Job("call", s)) /\ "call" \in JobKinds
      /\ calls < MaxCalls /\ calls' = calls + 1
      /\ UNCHANGED <<token, byFd, known, free, index, edata, armed, status, inbox, buffered,
                     sent, hup, pending, work, pass, pc, cur, kind, after, closed, shutdown>>
  BY DEF MakeCall, OnlyCalls
<1>2. \A r, i : Holds(r, i)' <=> Holds(r, i)
  BY <1>1 DEF Holds
<1>3. TypeOK /\ Control /\ BufferInv /\ QueueInv /\ Shapes
  BY ShapesHold DEF Inv
<1>4. /\ jobs' \in Seq(JobSet) /\ QueueInv'
      /\ \A r \in Streams : Inherited(r)' <=> Inherited(r)
  BY <1>1, <1>3, AppendCall
<1>5. calls' \in 0 .. MaxCalls
  <2>1. calls \in 0 .. MaxCalls
    BY <1>3 DEF TypeOK
  <2> QED BY <2>1, <1>1, BoundAssumption
<1>6. TypeOK'
  <2>1. UNCHANGED <<token, byFd, known, free, index, edata, armed, status, inbox, buffered,
                    sent, hup, pending, work, pass, pc, cur, kind, after, closed, shutdown>>
    BY <1>1
  <2> QED BY <2>1, <1>3, <1>4, <1>5 DEF TypeOK
<1>7. Control' /\ BufferInv'
  BY <1>1, <1>3 DEF Control, BufferInv
<1>8. YoungInv'
  BY <1>1, <1>4 DEF Inv, YoungInv, Inserting
<1>9. InsertInv' /\ PoolInv' /\ ClosedInv'
  BY <1>1 DEF Inv, InsertInv, PoolInv, ClosedInv
<1>10. LockInv'
  BY <1>1, <1>4 DEF Inv, LockInv, Engaged
<1>11. StageInv'
  BY <1>1, <1>4 DEF Inv, StageInv, InSlot
<1>12. HolderInv' /\ FreeInv' /\ NoneLost' /\ TokenInv' /\ FdInv'
  BY <1>1, <1>2 DEF Inv, HolderInv, FreeInv, NoneLost, TokenInv, FdInv, IsFree
<1>13. RegisteredInv' /\ IsFiniteSet(armed)'
  BY <1>1 DEF Inv, RegisteredInv, Hit
<1> QED BY <1>4, <1>6, <1>7, <1>8, <1>9, <1>10, <1>11, <1>12, <1>13 DEF Inv

\* listen_on: the stream is dropped after shutdown, or its insertion begins.
LEMMA AcceptStep ==
    ASSUME Inv, NEW s \in Streams, Accept(s)
    PROVE  Inv'
<1> USE DEF setVars, streamVars, pollVars, threadVars
<1>1. /\ pc[Acceptor] = "idle" /\ status[s] = "new"
      /\ UNCHANGED <<token, byFd, known, free, index, edata, armed, inbox, buffered, sent,
                     hup, jobs, calls, pending, work, pass, kind, after, closed, shutdown>>
  BY DEF Accept, At
<1>2. /\ pc \in [Threads -> Labels] /\ cur \in [Threads -> Streams \union {None}]
      /\ Acceptor \in Threads
  BY Position DEF Threads
<1>3. TypeOK /\ Control /\ BufferInv /\ QueueInv /\ Shapes
  BY ShapesHold DEF Inv
<1>4. \/ /\ status' = [status EXCEPT ![s] = "gone"] /\ UNCHANGED <<pc, cur>>
      \/ /\ status' = [status EXCEPT ![s] = "open"]
         /\ pc' = [pc EXCEPT ![Acceptor] = "ins_index"] /\ cur' = [cur EXCEPT ![Acceptor] = s]
  BY DEF Accept, Goto
<1>5. /\ status' \in [Streams -> {"new", "open", "ERRORING_OUT", "gone"}]
      /\ \A r \in Streams : status'[r] = "new" <=> status[r] = "new" /\ r # s
  BY <1>3, <1>4 DEF Shapes
<1>6. /\ pc' \in [Threads -> Labels] /\ cur' \in [Threads -> Streams \union {None}]
      /\ \A t \in Threads : t # Acceptor => pc'[t] = pc[t] /\ cur'[t] = cur[t]
      /\ \/ pc'[Acceptor] = "idle" /\ cur'[Acceptor] = cur[Acceptor]
         \/ pc'[Acceptor] = "ins_index" /\ cur'[Acceptor] = s
  BY <1>1, <1>2, <1>4 DEF Labels
<1>7. Shapes'
  BY <1>1, <1>3, <1>5, <1>6 DEF Shapes
<1>8. TypeOK'
  BY <1>1, <1>3, <1>7, TypeFrame
<1>9. Control'
  BY <1>1, <1>2, <1>3, <1>6, ThreadAssumption DEF Control, AcceptorLabels, Resting, Threads
<1>10. QueueInv' /\ BufferInv' /\ \A r \in Streams : Inherited(r)' <=> Inherited(r)
  BY <1>1, <1>3 DEF QueueInv, BufferInv, Inherited
<1>11. \A r, i : Holds(r, i)' <=> Holds(r, i)
  BY <1>1, <1>2, <1>6 DEF Holds
<1>12. YoungInv'
  BY <1>1, <1>5, <1>6, <1>10 DEF Inv, YoungInv, Inserting
<1>13. InsertInv' /\ PoolInv' /\ ClosedInv'
  BY <1>1, <1>5, <1>6 DEF Inv, InsertInv, PoolInv, ClosedInv
<1>14. LockInv'
  BY <1>1, <1>2, <1>6, <1>10 DEF Inv, LockInv, Engaged, Claiming, PreErase, Cleared, Unlinked
<1>15. StageInv'
  BY <1>1, <1>2, <1>6, <1>10 DEF Inv, StageInv, InSlot, Claiming, PreErase, Cleared, Unlinked
<1>16. HolderInv' /\ FreeInv' /\ NoneLost' /\ TokenInv' /\ FdInv'
  BY <1>1, <1>6, <1>11 DEF Inv, HolderInv, FreeInv, NoneLost, TokenInv, FdInv, IsFree
<1>17. RegisteredInv' /\ IsFiniteSet(armed)'
  BY <1>1, <1>2, <1>6 DEF Inv, RegisteredInv, Hit
<1> QED BY <1>8, <1>9, <1>10, <1>12, <1>13, <1>14, <1>15, <1>16, <1>17 DEF Inv

\* A worker takes an event, and with a receive event the claim it has inherited.
LEMMA TakeStep ==
    ASSUME Inv, OnlyCalls, NEW w \in Workers, Take(w)
    PROVE  Inv'
<1> USE DEF setVars, streamVars, pollVars, threadVars
<1> DEFINE s == Head(jobs).stream
           k == Head(jobs).kind
<1>1. /\ pc[w] = "idle" /\ jobs # <<>> /\ jobs' = Tail(jobs)
      /\ cur' = [cur EXCEPT ![w] = s] /\ kind' = [kind EXCEPT ![w] = k]
      /\ UNCHANGED <<token, byFd, known, free, index, edata, armed, status, inbox, buffered,
                     sent, hup, calls, pending, work, pass, after, closed, shutdown>>
  BY DEF Take, At
<1>2. /\ pc \in [Threads -> Labels] /\ cur \in [Threads -> Streams \union {None}]
      /\ w \in Threads /\ w # Acceptor /\ w # Poller
  BY Position, ThreadAssumption DEF Threads
<1>3. TypeOK /\ Control /\ BufferInv /\ QueueInv /\ Shapes
  BY ShapesHold DEF Inv
<1>4. /\ jobs' \in Seq(JobSet) /\ QueueInv'
      /\ k \in JobKinds \union {"receive"} /\ s \in Streams
      /\ \A r \in Streams : Inherited(r)' <=> Inherited(r) /\ ~(k = "receive" /\ s = r)
      /\ k = "receive" => Inherited(s)
  BY <1>1, <1>3, TakeHead
<1>5. k \in {"receive", "call"}
  BY <1>4 DEF OnlyCalls
<1>6. pc' = [pc EXCEPT ![w] = IF k = "receive" THEN "read" ELSE "lookup"]
  BY <1>5 DEF Take, Goto
<1>7. Shapes'
  <2>1. kind \in [Threads -> JobKinds \union {"none", "receive", "dialled", "hup", "in"}]
    BY <1>3 DEF Shapes
  <2>2. kind' \in [Threads -> JobKinds \union {"none", "receive", "dialled", "hup", "in"}]
    BY <2>1, <1>1, <1>4
  <2>3. pc' \in [Threads -> Labels] /\ cur' \in [Threads -> Streams \union {None}]
    BY <1>1, <1>2, <1>4, <1>6 DEF Labels
  <2>4. UNCHANGED <<token, status, inbox, buffered, after>>
    BY <1>1
  <2> QED BY <2>2, <2>3, <2>4, <1>3, <1>4 DEF Shapes
<1>8. TypeOK'
  BY <1>1, <1>3, <1>7, TypeFrame
<1> HIDE DEF s, k
<1>9. /\ pc'[w] = (IF k = "receive" THEN "read" ELSE "lookup") /\ cur'[w] = s /\ kind'[w] = k
      /\ \A t \in Threads : t # w => pc'[t] = pc[t] /\ cur'[t] = cur[t] /\ kind'[t] = kind[t]
      /\ Acceptor \in Threads /\ Poller \in Threads /\ Workers \subseteq Threads
  BY <1>1, <1>2, <1>3, <1>6 DEF Threads, Shapes
<1>10. Control'
  BY <1>1, <1>2, <1>3, <1>4, <1>5, <1>9 DEF Control, WorkerLabels, Resting
<1>11. BufferInv' /\ PoolInv' /\ ClosedInv' /\ InsertInv'
  BY <1>1, <1>2, <1>3, <1>9 DEF Inv, BufferInv, PoolInv, ClosedInv, InsertInv
<1>12. \A r, i : Holds(r, i)' <=> Holds(r, i)
  BY <1>1, <1>2, <1>9 DEF Holds
<1>13. YoungInv'
  BY <1>1, <1>2, <1>4, <1>9 DEF Inv, YoungInv, Inserting, Resting
<1>14. LockInv'
  BY <1>1, <1>2, <1>4, <1>9 DEF Inv, LockInv, Engaged, Claiming, PreErase, Cleared, Unlinked
<1>15. StageInv'
  BY <1>1, <1>2, <1>4, <1>9 DEF Inv, StageInv, InSlot, Claiming, PreErase, Cleared, Unlinked
<1>16. HolderInv' /\ FreeInv' /\ NoneLost' /\ TokenInv' /\ FdInv'
  BY <1>1, <1>2, <1>9, <1>12 DEF Inv, HolderInv, FreeInv, NoneLost, TokenInv, FdInv, IsFree
<1>17. RegisteredInv' /\ IsFiniteSet(armed)'
  BY <1>1, <1>2, <1>9 DEF Inv, RegisteredInv, Hit
<1> QED BY <1>4, <1>8, <1>10, <1>11, <1>13, <1>14, <1>15, <1>16, <1>17 DEF Inv

-----------------------------------------------------------------------------
(* The invariant, and what follows from it.                                *)

\* The invariant holds initially.
LEMMA InitInv == ASSUME Init PROVE Inv
<1> USE DEF Init
<1>1. Poller \in Threads /\ Acceptor \in Threads /\ Workers \subseteq Threads
  BY DEF Threads
<1>2. \A s \in Streams : ~Inherited(s)
  BY DEF Inherited
<1>3. free \in Seq(Indexes) /\ Len(free) = Capacity /\ \A k \in 1 .. Capacity : free[k] = k
  BY CapacityAssumption DEF Indexes
<1>4. TypeOK
  <2>1. Shapes
    BY DEF Shapes, Labels
  <2>2. /\ byFd \in [Indexes -> Streams \union {None}] /\ known \subseteq Streams
        /\ index \in [Streams -> Indexes \union {NoIndex}]
        /\ edata \in [Streams -> Indexes \union {NoIndex, Unset}]
        /\ armed \subseteq Streams /\ hup \subseteq Streams
        /\ closed \in [Streams -> Nat] /\ shutdown \in BOOLEAN
    OBVIOUS
  <2>3. sent \in [Streams -> 0 .. MaxSent] /\ calls \in 0 .. MaxCalls
    BY BoundAssumption
  <2>4. pending \in Seq(EventSet) /\ work \in Seq(EventSet)
    OBVIOUS
  <2>5. pass \in {"batch", "retry"}
    OBVIOUS
  <2> HIDE DEF Init
  <2> QED BY <2>1, <2>2, <2>3, <2>4, <2>5, <1>3 DEF TypeOK, Shapes, EventSet
<1>5. Control
  BY <1>1, ThreadAssumption DEF Control, PollerLabels, AcceptorLabels, WorkerLabels, Resting,
     Threads
<1>6. YoungInv /\ InsertInv
  BY <1>1, <1>2, ThreadAssumption, NoneAssumption DEF YoungInv, InsertInv, Inserting
<1>7. QueueInv /\ BufferInv /\ ClosedInv
  BY DEF QueueInv, BufferInv, ClosedInv
<1>8. LockInv /\ StageInv
  BY <1>2 DEF LockInv, StageInv, Engaged, Claiming, PreErase, Cleared, Unlinked, InSlot
<1>9. \A i \in Indexes, s \in Streams : ~Holds(s, i)
  BY NullIndex DEF Holds
<1>10. \A i \in Indexes : IsFree(i)
  BY <1>3 DEF IsFree, Indexes
<1>11. HolderInv /\ FreeInv /\ NoneLost /\ TokenInv /\ FdInv /\ PoolInv
  BY <1>3, <1>9, <1>10, NoneAssumption DEF HolderInv, FreeInv, NoneLost, TokenInv, FdInv, PoolInv
<1>12. RegisteredInv /\ IsFiniteSet(armed)
  BY FS_EmptySet DEF RegisteredInv
<1> QED BY <1>4, <1>5, <1>6, <1>7, <1>8, <1>11, <1>12 DEF Inv

\* Every step keeps the invariant.
LEMMA NextInv == ASSUME Inv, OnlyCalls, [Next]_vars PROVE Inv'
<1>1. Poller \in Threads /\ Acceptor \in Threads /\ Workers \subseteq Threads
  BY DEF Threads
<1>2. ASSUME NEW t \in Threads, EraseSteps(t) PROVE Inv'
  BY <1>2, EraseStep, EraseMapsStep, EraseIndexStep, EraseNullStep, EraseDelStep DEF EraseSteps
<1>3. ASSUME NEW w \in Workers, Insert(w) PROVE Inv'
  <2>1. pc[w] \in WorkerLabels
    BY DEF Inv, Control
  <2> QED BY <1>3, <2>1
          DEF Insert, InsertIndex, InsertFd, InsertMaps, InsertArm, At, WorkerLabels, Cleared,
               Unlinked
<1>4. CASE Insert(Acceptor)
  BY <1>4, InsertIndexStep, InsertFullStep, InsertFdStep, InsertMapsStep, InsertArmStep DEF Insert
<1>5. CASE PollerStep
  BY <1>1, <1>2, <1>5, PassStep, ProcessEventStep, DelStep, DispatchStep,
     FinishStep DEF PollerStep
<1>6. ASSUME NEW w \in Workers, WorkerStep(w) PROVE Inv'
  BY <1>1, <1>2, <1>3, <1>6, TakeStep, ReadStep, LookupStep, ClaimStep, DelStep, WriteStep,
     UnmuteStep, ArmStep, FinishStep DEF WorkerStep
<1>7. CASE UNCHANGED vars
  <2>1. UNCHANGED <<setVars, edata, armed, status, jobs, threadVars, closed>> /\ TypeOK' /\ BufferInv'
    <3>1. UNCHANGED <<token, byFd, known, free, index, edata, armed, status, inbox, buffered,
         sent, hup,
                      jobs, calls, pending, work, pass, pc, cur, kind, after, closed, shutdown>>
      BY <1>7 DEF vars, setVars, streamVars, pollVars, threadVars
    <3>2. TypeOK /\ BufferInv /\ Shapes
      BY ShapesHold DEF Inv
    <3>3. Shapes'
      BY <3>1, <3>2 DEF Shapes
    <3>4. TypeOK'
      BY <3>1, <3>2, <3>3, TypeFrame
    <3> QED BY <3>1, <3>2, <3>4 DEF BufferInv, setVars, threadVars
  <2> QED BY <2>1, QuietStep
<1> QED BY <1>4, <1>5, <1>6, <1>7, EnvironmentStep, AcceptStep, MakeCallStep DEF Next

\* The type invariant, ClaimExclusive, SlotAccounting and half of NoLostWakeup follow
\* from this invariant.
THEOREM PollingInvariant ==
    ASSUME OnlyCalls
    PROVE  Spec => []Inv
<1>1. Init => Inv
  BY InitInv
<1>2. Inv /\ [Next]_vars => Inv'
  BY NextInv
<1> QED BY <1>1, <1>2, PTL DEF Spec

\* The claim token works as a lock (stream_set::acquire and release), whatever the
\* number of streams, workers and slots.
THEOREM ClaimsAreExclusive ==
    ASSUME OnlyCalls
    PROVE  Spec => []ClaimExclusive
<1>1. ASSUME Inv PROVE ClaimExclusive
  <2>1. SUFFICES ASSUME NEW s \in Streams
                 PROVE  /\ Cardinality(Users(s)) + Cardinality(Queued(s)) <= 1
                        /\ (Users(s) # {} \/ Queued(s) # {}) => \A i \in Indexes : token[i] # s
    BY DEF ClaimExclusive
  <2>2. \A t \in Users(s) : t \in Threads /\ Engaged(t, s)
    BY DEF Users, Engaged, UsingLabels, Claiming, PreErase, Cleared, Unlinked
  <2>3. Queued(s) # {} => Inherited(s)
    BY DEF Queued, Inherited
  <2>4. \A j, k \in Queued(s) : j = k
    <3>1. \A j \in Queued(s) : j \in 1 .. Len(jobs) /\ jobs[j] = Job("receive", s)
      BY DEF Queued
    <3> QED BY <1>1, <3>1, JobFacts DEF Inv, QueueInv
  <2>5. \A t, u \in Users(s) : t = u
    BY <1>1, <2>2 DEF Inv, LockInv
  <2>6. (Users(s) # {} \/ Queued(s) # {}) => \A i \in Indexes : token[i] # s
    BY <1>1, <2>2, <2>3 DEF Inv, LockInv
  <2>7. ~(Users(s) # {} /\ Queued(s) # {})
    BY <1>1, <2>2, <2>3 DEF Inv, LockInv
  <2>8. \A S : (\A x, y \in S : x = y) => S = {} \/ \E x : S = {x}
    OBVIOUS
  <2>9. /\ Cardinality(Users(s)) \in {0, 1} /\ (Users(s) = {} => Cardinality(Users(s)) = 0)
    BY <2>5, <2>8, FS_EmptySet, FS_Singleton
  <2>10. /\ Cardinality(Queued(s)) \in {0, 1} /\ (Queued(s) = {} => Cardinality(Queued(s)) = 0)
    BY <2>4, <2>8, FS_EmptySet, FS_Singleton
  <2>11. Cardinality(Users(s)) + Cardinality(Queued(s)) <= 1
    BY <2>7, <2>9, <2>10
  <2> QED BY <2>6, <2>11
<1> QED BY <1>1, PollingInvariant, PTL

\* No slot of the stream set is lost or shared, streams are erased once, and a
\* token leads to its stream (stream_set::insert, acquire and erase).
THEOREM SlotsAreAccountedFor ==
    ASSUME OnlyCalls
    PROVE  Spec => []SlotAccounting
<1>1. ASSUME Inv PROVE SlotAccounting
  <2>1. TokenLeadsToStream
    <3>1. Acceptor \in Threads
      BY DEF Threads
    <3> QED BY <1>1, <3>1 DEF Inv, TokenInv, TokenLeadsToStream
  <2>2. \A j, k \in 1 .. Len(free) : free[j] = free[k] => j = k
    BY <1>1 DEF Inv, PoolInv
  <2>3. ASSUME NEW i \in Indexes
        PROVE  LET owners == {s \in Streams : Holds(s, i)}
               IN  IF \E k \in 1 .. Len(free) : free[k] = i
                   THEN owners = {} /\ token[i] = None /\ byFd[i] = None
                   ELSE Cardinality(owners) = 1
    <3> DEFINE owners == {s \in Streams : Holds(s, i)}
    <3>1. CASE IsFree(i)
      <4>1. token[i] = None /\ byFd[i] = None /\ owners = {}
        BY <1>1, <3>1 DEF Inv, FreeInv
      <4> QED BY <4>1, <3>1 DEF IsFree
    <3>2. CASE ~IsFree(i)
      <4>1. PICK s \in Streams : Holds(s, i)
        BY <1>1, <3>2 DEF Inv, NoneLost
      <4>2. owners = {s}
        BY <1>1, <4>1 DEF Inv, HolderInv
      <4>3. Cardinality(owners) = 1
        BY <4>2, FS_Singleton
      <4> QED BY <4>3, <3>2 DEF IsFree
    <3> QED BY <3>1, <3>2
  <2>4. ASSUME NEW s \in Streams
        PROVE  /\ closed[s] <= 1
               /\ closed[s] = 1 =>
                     s \notin known /\ \A i \in Indexes : token[i] # s /\ byFd[i] # s
    <3>1. closed[s] <= 1 /\ (closed[s] = 1 => index[s] = NoIndex /\ s \notin known)
      BY <1>1 DEF Inv, ClosedInv
    <3>2. \A i \in Indexes : (token[i] = s \/ byFd[i] = s) => index[s] = i
      BY <1>1 DEF Inv, TokenInv, FdInv, Holds
    <3> QED BY <3>1, <3>2, NullIndex
  <2> QED BY <2>1, <2>2, <2>3, <2>4 DEF SlotAccounting
<1> QED BY <1>1, PollingInvariant, PTL

-----------------------------------------------------------------------------
(* No stream is abandoned: whoever has claimed it lets go of it only by    *)
(* releasing it, by handing it over, or by taking it out of the set.       *)

\* The stream is released, its claim is queued, or a thread has it.
Attended(s) == Hit(index[s], s) \/ Inherited(s) \/ \E t \in Threads : Engaged(t, s)

\* Nobody has claimed a stream whose insertion goes on.
FreshInv ==
    pc[Acceptor] \in {"ins_fd", "ins_maps"} => Hit(index[cur[Acceptor]], cur[Acceptor])

AttendedInv == FreshInv /\ \A s \in known : Attended(s)

\* What a step of thread t must keep, claim by claim.
LEMMA AttendedStep ==
    ASSUME Inv, AttendedInv, NEW t \in Threads, t # Acceptor,
           \A u \in Threads : u # t => pc'[u] = pc[u] /\ cur'[u] = cur[u],
           known' \subseteq known,
           \A r \in Streams : (r \in known' \/ Inserting(r)) /\ Hit(index[r], r) =>
               Hit(index[r], r)' \/ (Engaged(t, r)' /\ ~Inserting(r)),
           \A r \in known' : Inherited(r) => Inherited(r)' \/ Engaged(t, r)',
           \A r \in known' : Engaged(t, r) =>
               Engaged(t, r)' \/ Inherited(r)' \/ Hit(index[r], r)'
    PROVE  AttendedInv'
<1>1. Acceptor \in Threads /\ pc'[Acceptor] = pc[Acceptor] /\ cur'[Acceptor] = cur[Acceptor]
  BY DEF Threads
<1>2. known \subseteq Streams
  BY DEF Inv, TypeOK
<1>3. FreshInv'
  <2>1. SUFFICES ASSUME pc[Acceptor] \in {"ins_fd", "ins_maps"}
                 PROVE  Hit(index[cur[Acceptor]], cur[Acceptor])'
    BY <1>1 DEF FreshInv
  <2>2. cur[Acceptor] \in Streams /\ Inserting(cur[Acceptor])
    BY <2>1, <1>1, Position DEF Inserting, Resting
  <2>3. Hit(index[cur[Acceptor]], cur[Acceptor])
    BY <2>1 DEF AttendedInv, FreshInv
  <2> DEFINE s == cur[Acceptor]
  <2>4. Hit(index[s], s)' \/ (Engaged(t, s)' /\ ~Inserting(s))
    BY <2>2, <2>3, <1>1
  <2> QED BY <2>2, <2>4, <1>1
<1>4. ASSUME NEW r \in known' PROVE Attended(r)'
  <2>1. r \in Streams /\ Attended(r)
    BY <1>2 DEF AttendedInv
  <2>2. CASE Hit(index[r], r)
    BY <2>1, <2>2 DEF Attended
  <2>3. CASE Inherited(r)
    BY <2>1, <2>3 DEF Attended
  <2>4. CASE \E u \in Threads : Engaged(u, r)
    <3>1. PICK u \in Threads : Engaged(u, r)
      BY <2>4
    <3>2. CASE u = t
      BY <3>1, <3>2 DEF Attended
    <3>3. CASE u # t
      BY <3>1, <3>3 DEF Attended, Engaged
    <3> QED BY <3>2, <3>3
  <2> QED BY <2>1, <2>2, <2>3, <2>4 DEF Attended
<1> QED BY <1>3, <1>4 DEF AttendedInv

\* Steps that leave the tokens, the set and the claims as they are.
LEMMA AttendedFrame ==
    ASSUME Inv, AttendedInv, NEW t \in Threads, t # Acceptor,
           \A u \in Threads : u # t => pc'[u] = pc[u] /\ cur'[u] = cur[u],
           UNCHANGED <<token, index>>, known' \subseteq known,
           \A r \in Streams : Inherited(r) => Inherited(r)',
           \A r \in known' : Engaged(t, r) => Engaged(t, r)' \/ Inherited(r)'
    PROVE  AttendedInv'
<1>1. known \subseteq Streams
  BY DEF Inv, TypeOK
<1>2. \A r : Hit(index[r], r)' <=> Hit(index[r], r)
  BY DEF Hit
<1> QED BY <1>1, <1>2, AttendedStep

\* Peers, calls and shutdown have no claims, and epoll_wait takes none.
LEMMA AttendedOutside ==
    ASSUME Inv, AttendedInv,
           \/ \E s \in Streams : PeerSend(s) \/ PeerHangup(s)
           \/ Shutdown \/ EpollWait \/ NextPass \/ UNCHANGED vars
           \/ OnlyCalls /\ \E s \in Streams, k \in JobKinds : MakeCall(k, s)
    PROVE  AttendedInv'
<1> USE DEF setVars, streamVars, pollVars, threadVars, vars
<1>1. /\ pc \in [Threads -> Labels] /\ Poller \in Threads /\ Poller # Acceptor
  BY Position, ThreadAssumption DEF Threads
<1>2. /\ UNCHANGED <<token, known, index, cur>>
      /\ pc' = pc \/ (pc[Poller] \in Resting /\ \E l : pc' = [pc EXCEPT ![Poller] = l])
  BY DEF PeerSend, PeerHangup, Shutdown, EpollWait, NextPass, MakeCall, At, Goto, Resting
<1>3. \A r \in Streams : Inherited(r) => Inherited(r)'
  <2>1. CASE UNCHANGED jobs
    BY <2>1 DEF Inherited
  <2>2. CASE OnlyCalls /\ \E s \in Streams, k \in JobKinds : MakeCall(k, s)
    <3>1. PICK s \in Streams, k \in JobKinds : MakeCall(k, s)
      BY <2>2
    <3>2. k = "call"
      BY <2>2, <3>1 DEF OnlyCalls
    <3>3. jobs' = Append(jobs, Job("call", s))
      BY <3>1, <3>2 DEF MakeCall
    <3> QED BY <3>2, <3>3, AppendCall DEF Inv
  <2> QED BY <2>1, <2>2 DEF PeerSend, PeerHangup, Shutdown, EpollWait, NextPass
<1>4. pc[Poller] \in Resting => pc[Poller] \notin Claiming
  BY DEF Resting, Claiming, PreErase, Cleared, Unlinked
<1>5. \A u \in Threads : u # Poller => pc'[u] = pc[u] /\ cur'[u] = cur[u]
  BY <1>1, <1>2
<1>6. \A r : Engaged(Poller, r) => Engaged(Poller, r)'
  BY <1>1, <1>2, <1>4 DEF Engaged
<1>7. UNCHANGED <<token, index>> /\ known' \subseteq known
  BY <1>2
<1> QED BY <1>1, <1>3, <1>5, <1>6, <1>7, AttendedFrame

\* The insertion of a stream: its token is in the slot before it is in the maps.
LEMMA AttendedInsert ==
    ASSUME Inv, AttendedInv, Insert(Acceptor) \/ \E s \in Streams : Accept(s)
    PROVE  AttendedInv'
<1> USE DEF setVars, streamVars, pollVars, threadVars
<1>1. /\ pc \in [Threads -> Labels] /\ cur \in [Threads -> Streams \union {None}]
      /\ Acceptor \in Threads /\ known \subseteq Streams
      /\ token \in [Indexes -> Streams \union {None}]
      /\ index \in [Streams -> Indexes \union {NoIndex}]
  BY DEF Threads, Inv, TypeOK
<1>2. /\ \A u \in Threads : u # Acceptor => pc'[u] = pc[u] /\ cur'[u] = cur[u]
      /\ UNCHANGED jobs
  BY <1>1 DEF Insert, InsertIndex, InsertFd, InsertMaps, InsertArm, Accept, AfterInsert, Goto,
     Leave, At
<1>3. \A r : Inherited(r) => Inherited(r)'
  BY <1>2 DEF Inherited
<1>4. pc[Acceptor] \in AcceptorLabels
  BY DEF Inv, Control
<1>5. \A r : ~Engaged(Acceptor, r)
  BY <1>4 DEF Engaged, AcceptorLabels, Claiming, PreErase, Cleared, Unlinked
<1>6. ASSUME NEW r \in known, Hit(index[r], r) => Hit(index[r], r)'
      PROVE  Attended(r)'
  <2>1. Attended(r)
    BY DEF AttendedInv
  <2>2. (\E t \in Threads : Engaged(t, r)) => \E t \in Threads : Engaged(t, r)'
    BY <1>2, <1>5 DEF Engaged
  <2> QED BY <2>1, <2>2, <1>3, <1>6 DEF Attended
<1>7. CASE UNCHANGED <<token, index>>
  <2>1. \A r : Hit(index[r], r)' <=> Hit(index[r], r)
    BY <1>7 DEF Hit
  <2>2. FreshInv'
    <3>1. pc'[Acceptor] \in {"ins_fd", "ins_maps"} =>
             pc[Acceptor] \in {"ins_fd", "ins_maps"} /\ cur'[Acceptor] = cur[Acceptor]
      <4>1. CASE \E s \in Streams : Accept(s)
        BY <4>1, <1>1 DEF Accept, Goto, At
      <4>2. CASE InsertIndex(Acceptor)
        <5>1. cur[Acceptor] \in Streams /\ index[cur[Acceptor]] = NoIndex
          BY <4>2, <1>1, Position DEF InsertIndex, At, Inv, InsertInv, Resting
        <5>2. ASSUME pc' = [pc EXCEPT ![Acceptor] = "ins_fd"],
                     index' = [index EXCEPT ![cur[Acceptor]] = Head(free)],
                     free # <<>>
              PROVE  FALSE
          <6>1. Head(free) \in Indexes
            BY <5>2, TailFacts DEF Inv, TypeOK
          <6> QED BY <6>1, <5>1, <5>2, <1>1, <1>7, NullIndex
        <5> QED BY <4>2, <5>2, <1>1 DEF InsertIndex, AfterInsert, Goto, Leave
      <4>3. CASE InsertFd(Acceptor)
        BY <4>3, <1>1 DEF InsertFd, Goto, At
      <4>4. CASE InsertMaps(Acceptor)
        BY <4>4, <1>1 DEF InsertMaps, Goto, At
      <4>5. CASE InsertArm(Acceptor)
        BY <4>5, <1>1 DEF InsertArm, AfterInsert, Leave, Goto, At
      <4> QED BY <4>1, <4>2, <4>3, <4>4, <4>5 DEF Insert
    <3>2. ASSUME pc'[Acceptor] \in {"ins_fd", "ins_maps"}
          PROVE  Hit(index[cur[Acceptor]], cur[Acceptor])'
      <4>1. Hit(index[cur[Acceptor]], cur[Acceptor]) /\ cur'[Acceptor] = cur[Acceptor]
        BY <3>1, <3>2 DEF AttendedInv, FreshInv
      <4> QED BY <4>1, <1>7 DEF Hit
    <3> QED BY <3>2 DEF FreshInv
  <2>3. known' = known \/ (pc[Acceptor] = "ins_maps" /\ known' = known \union {cur[Acceptor]}
                           /\ UNCHANGED cur)
    BY DEF Insert, InsertIndex, InsertFd, InsertMaps, InsertArm, Accept, At
  <2>4. pc[Acceptor] = "ins_maps" => Hit(index[cur[Acceptor]], cur[Acceptor])
    BY DEF AttendedInv, FreshInv
  <2>5. ASSUME NEW r \in known' PROVE Attended(r)'
    <3>1. CASE r \in known
      BY <3>1, <2>1, <1>6
    <3>2. CASE r \notin known
      <4>1. r = cur[Acceptor] /\ Hit(index[r], r)
        BY <3>2, <2>3, <2>4
      <4> QED BY <4>1, <2>1 DEF Attended
    <3> QED BY <3>1, <3>2
  <2> QED BY <2>2, <2>5 DEF AttendedInv
<1>8. CASE ~UNCHANGED <<token, index>>
  <2> DEFINE s == cur[Acceptor]
             i == Head(free)
  <2>1. /\ pc[Acceptor] = "ins_index" /\ free # <<>> /\ token[i] = None
        /\ index' = [index EXCEPT ![s] = i] /\ token' = [token EXCEPT ![i] = s]
        /\ UNCHANGED <<known, cur>>
    BY <1>8 DEF Insert, InsertIndex, InsertFd, InsertMaps, InsertArm, Accept, At
  <2>2. i \in Indexes /\ s \in Streams /\ Inserting(s)
    <3>1. i \in Indexes
      BY <2>1, TailFacts DEF Inv, TypeOK
    <3> QED BY <3>1, <2>1, <1>1, Position DEF Inserting, Resting
  <2>3. s \notin known
    BY <2>2 DEF Inv, YoungInv
  <2> HIDE DEF s, i
  <2>4. index'[s] = i /\ token'[i] = s
    BY <2>1, <2>2, <1>1
  <2>5. FreshInv'
    BY <2>1, <2>2, <2>4 DEF FreshInv, Hit, s
  <2>6. ASSUME NEW r \in known PROVE Attended(r)'
    <3>1. r \in Streams /\ r # s /\ r # None
      BY <2>3, <1>1, NoneAssumption
    <3>2. index'[r] = index[r]
      BY <3>1, <2>1, <1>1
    <3>3. ASSUME Hit(index[r], r) PROVE Hit(index[r], r)'
      <4>1. index[r] \in Indexes /\ token[index[r]] = r /\ index[r] # i
        BY <3>1, <3>3, <2>1 DEF Hit
      <4>2. token'[index[r]] = r
        BY <4>1, <2>1, <1>1
      <4> QED BY <4>1, <4>2, <3>2 DEF Hit
    <3> QED BY <3>3, <1>6
  <2> QED BY <2>1, <2>5, <2>6 DEF AttendedInv
<1> QED BY <1>7, <1>8

\* process_event: the poller gets the claim, or the event is kept.
LEMMA AttendedProcess ==
    ASSUME Inv, AttendedInv, ProcessEvent
    PROVE  AttendedInv'
<1> USE DEF setVars, streamVars, pollVars, threadVars
<1>1. /\ pc[Poller] = "loop" /\ work # <<>> /\ UNCHANGED <<byFd, known, index, edata, jobs>>
  BY DEF ProcessEvent, At
<1>2. /\ pc \in [Threads -> Labels] /\ cur \in [Threads -> Streams \union {None}]
      /\ Poller \in Threads /\ Poller # Acceptor
  BY Position, ThreadAssumption DEF Threads
<1>3. Head(work) \in EventSet
  BY <1>1, TailFacts DEF Inv, TypeOK, EventSet
<1>4. PICK s \in Payload(Head(work).stream) :
         /\ Swap(edata[s], s)
         /\ IF Claimed(edata[s], s)
            THEN cur' = [cur EXCEPT ![Poller] = s] /\ pc' = [pc EXCEPT ![Poller] = "del"]
            ELSE UNCHANGED <<pc, cur>>
  BY DEF ProcessEvent, Goto
<1>5. s \in Streams
  <2>1. Head(work).stream \in Streams
    BY <1>3, EventFacts
  <2> QED BY <2>1, <1>4 DEF Payload
<1>6. Hit(edata[s], s) => Claimed(edata[s], s) /\ ~Inserting(s)
  <2>1. ASSUME Hit(edata[s], s) PROVE ~Inserting(s)
    BY <2>1, <1>5, NullIndex DEF Inv, YoungInv, Hit
  <2> QED BY <2>1, <1>5 DEF Inv, TokenInv, Hit, Claimed, Inserting
<1>7. \A r : ~Engaged(Poller, r)
  BY <1>1 DEF Engaged, Claiming, PreErase, Cleared, Unlinked
<1>8. \A r : Inherited(r) => Inherited(r)'
  BY <1>1 DEF Inherited
<1>9. known' \subseteq known
  BY <1>1
<1>10. CASE Claimed(edata[s], s)
  <2>1. token' = [token EXCEPT ![edata[s]] = None] /\ token[edata[s]] = s
        /\ token \in [Indexes -> Streams \union {None}]
    BY <1>4, <1>10 DEF Swap, Claimed, Hit, Inv, TypeOK
  <2>2. pc'[Poller] = "del" /\ cur'[Poller] = s
        /\ \A u \in Threads : u # Poller => pc'[u] = pc[u] /\ cur'[u] = cur[u]
    BY <1>2, <1>4, <1>10
  <2>3. Engaged(Poller, s)' /\ ~Inserting(s)
    BY <2>2, <1>6, <1>10 DEF Engaged, Claiming, PreErase, Claimed
  <2>4. ASSUME NEW r \in Streams, Hit(index[r], r), r # s PROVE Hit(index[r], r)'
    <3>1. index[r] \in Indexes /\ token[index[r]] = r /\ index[r] # edata[s]
      BY <2>1, <2>4 DEF Hit
    <3>2. token'[index[r]] = r
      BY <3>1, <2>1
    <3> QED BY <3>1, <3>2, <1>1 DEF Hit
  <2> QED BY <2>2, <2>3, <2>4, <1>2, <1>7, <1>8, <1>9, AttendedStep
<1>11. CASE ~Claimed(edata[s], s)
  <2>1. UNCHANGED <<token, pc, cur>>
    BY <1>4, <1>6, <1>11 DEF Swap
  <2>2. UNCHANGED <<token, index>>
        /\ \A u \in Threads : u # Poller => pc'[u] = pc[u] /\ cur'[u] = cur[u]
    BY <2>1, <1>1
  <2> QED BY <2>2, <1>2, <1>7, <1>8, <1>9, AttendedFrame
<1> QED BY <1>10, <1>11

\* mute: the call gets the claim, or it is triggered again.
LEMMA AttendedClaim ==
    ASSUME Inv, AttendedInv, NEW w \in Workers, Claim(w)
    PROVE  AttendedInv'
<1> USE DEF setVars, streamVars, pollVars, threadVars
<1> DEFINE s == cur[w]
<1>1. pc[w] = "claim" /\ UNCHANGED <<byFd, known, index>>
  BY DEF Claim, At
<1>2. /\ pc \in [Threads -> Labels] /\ cur \in [Threads -> Streams \union {None}]
      /\ w \in Threads /\ s \in Streams /\ w # Acceptor
  BY <1>1, Position, ThreadAssumption DEF Threads, Resting
<1>3. TypeOK /\ Control /\ QueueInv /\ Shapes
  BY ShapesHold DEF Inv
<1>4. kind[w] = "call" /\ "call" \in JobKinds
  <2>1. kind[w] = "call"
    BY <1>1, <1>3 DEF Control
  <2> QED BY <2>1, <1>2, <1>3 DEF Shapes
<1>5. ~Inserting(s)
  BY <1>1, <1>2 DEF Inv, YoungInv, Resting
<1>6. Hit(index[s], s) => Claimed(index[s], s)
  BY <1>2, <1>5 DEF Inv, TokenInv, Hit, Claimed, Inserting
<1>7. \A r : ~Engaged(w, r)
  BY <1>1 DEF Engaged, Claiming, PreErase, Cleared, Unlinked
<1>8. known' \subseteq known
  BY <1>1
<1>9. CASE Claimed(index[s], s)
  <2>1. /\ token' = [token EXCEPT ![index[s]] = None] /\ token[index[s]] = s
        /\ token \in [Indexes -> Streams \union {None}]
        /\ pc' = [pc EXCEPT ![w] = "del"] /\ UNCHANGED <<jobs, cur>>
    BY <1>9, <1>3 DEF Claim, Swap, Claimed, Hit, Goto, Shapes
  <2> HIDE DEF s
  <2>2. /\ pc'[w] = "del" /\ cur'[w] = s
        /\ \A u \in Threads : u # w => pc'[u] = pc[u] /\ cur'[u] = cur[u]
    BY <1>2, <2>1 DEF s
  <2>3. Engaged(w, s)'
    <3>1. s' = s
      BY <2>1 DEF s
    <3> QED BY <2>2, <3>1 DEF Engaged, Claiming, PreErase
  <2>4. ASSUME NEW r \in Streams, Hit(index[r], r), r # s PROVE Hit(index[r], r)'
    <3>1. index[r] \in Indexes /\ token[index[r]] = r /\ index[r] # index[s]
      BY <2>1, <2>4 DEF Hit
    <3>2. token'[index[r]] = r
      BY <3>1, <2>1
    <3> QED BY <3>1, <3>2, <1>1 DEF Hit
  <2>5. \A r \in Streams : Hit(index[r], r) => Hit(index[r], r)' \/ (Engaged(w, r)' /\ ~Inserting(r))
    <3>1. s' = s
      BY <2>1 DEF s
    <3>2. ASSUME NEW r \in Streams, r = s PROVE Engaged(w, r)' /\ ~Inserting(r)
      BY <3>1, <3>2, <2>2, <1>5 DEF Engaged, Claiming, PreErase
    <3> QED BY <3>2, <2>4
  <2>6. \A r : Inherited(r) => Inherited(r)'
    BY <2>1 DEF Inherited
  <2> QED BY <2>2, <2>5, <2>6, <1>2, <1>7, <1>8, AttendedStep
<1>10. CASE ~Claimed(index[s], s)
  <2>1. /\ jobs' = Append(jobs, Job("call", s)) /\ UNCHANGED token
        /\ pc' = [pc EXCEPT ![w] = "idle"] /\ cur' = [cur EXCEPT ![w] = None]
    BY <1>4, <1>6, <1>10 DEF Claim, Swap, Leave, Goto
  <2>2. \A r \in Streams : Inherited(r) => Inherited(r)'
    BY <2>1, <1>2, <1>3, <1>4, AppendCall
  <2>3. UNCHANGED <<token, index>>
        /\ \A u \in Threads : u # w => pc'[u] = pc[u] /\ cur'[u] = cur[u]
    BY <2>1, <1>1, <1>2
  <2> QED BY <2>2, <2>3, <1>2, <1>7, <1>8, AttendedFrame
<1> QED BY <1>9, <1>10

\* A worker takes an event: a receive event brings the claim with it.
LEMMA AttendedTake ==
    ASSUME Inv, AttendedInv, NEW w \in Workers, Take(w)
    PROVE  AttendedInv'
<1> USE DEF setVars, streamVars, pollVars, threadVars
<1>1. /\ pc[w] = "idle" /\ jobs # <<>> /\ jobs' = Tail(jobs) /\ UNCHANGED <<token, known, index>>
      /\ cur' = [cur EXCEPT ![w] = Head(jobs).stream]
      /\ \E l : pc' = [pc EXCEPT ![w] = l] /\ (Head(jobs).kind = "receive" => l = "read")
  BY DEF Take, At, Goto
<1>2. /\ pc \in [Threads -> Labels] /\ cur \in [Threads -> Streams \union {None}]
      /\ w \in Threads /\ w # Acceptor /\ known \subseteq Streams
  BY Position, ThreadAssumption DEF Threads, Inv, TypeOK
<1>3. \A r \in Streams : Inherited(r)' <=>
         Inherited(r) /\ ~(Head(jobs).kind = "receive" /\ Head(jobs).stream = r)
  BY <1>1, TakeHead DEF Inv
<1>4. /\ cur'[w] = Head(jobs).stream /\ (Head(jobs).kind = "receive" => pc'[w] = "read")
      /\ \A u \in Threads : u # w => pc'[u] = pc[u] /\ cur'[u] = cur[u]
  BY <1>1, <1>2
<1>5. \A r \in Streams : Inherited(r) => Inherited(r)' \/ Engaged(w, r)'
  BY <1>3, <1>4 DEF Engaged, Claiming, PreErase
<1>6. \A r : ~Engaged(w, r)
  BY <1>1 DEF Engaged, Claiming, PreErase, Cleared, Unlinked
<1>7. \A r : Hit(index[r], r)' <=> Hit(index[r], r)
  BY <1>1 DEF Hit
<1>8. known' \subseteq known
  BY <1>1
<1> QED BY <1>2, <1>4, <1>5, <1>6, <1>7, <1>8, AttendedStep

\* The thread keeps its claim, or it had none.
LEMMA AttendedKeep ==
    ASSUME Inv, AttendedInv, OnlyCalls, NEW t \in Threads,
           \/ Del(t) \/ Erase(t) \/ EraseIndex(t)
           \/ t \in Workers /\ (Read(t) \/ Lookup(t) \/ Write(t) \/ Arm(t))
    PROVE  AttendedInv'
<1> USE DEF setVars, streamVars, pollVars, threadVars
<1>1. pc[t] \in {"del", "erase", "erase_index", "read", "lookup", "write", "arm"}
  BY DEF Del, Erase, EraseIndex, Read, Lookup, Write, Arm, At
<1>2. /\ pc \in [Threads -> Labels] /\ cur \in [Threads -> Streams \union {None}]
      /\ t # Acceptor /\ cur[t] \in Streams
  BY <1>1, Position DEF AcceptorLabels, Resting
<1>3. pc[t] = "erase" => index[cur[t]] \in Indexes /\ token[index[cur[t]]] = None
  BY DEF Inv, StageInv, InSlot, PreErase
<1>4. pc[t] = "write" => kind[t] = "call"
  BY <1>1, <1>2, Position DEF Inv, Control, PollerLabels, AcceptorLabels, Cleared, Unlinked
<1>5. /\ UNCHANGED <<token, known, index, jobs>>
      /\ \E l, c : /\ pc' = [pc EXCEPT ![t] = l] /\ cur' = [cur EXCEPT ![t] = c]
                   /\ pc[t] \notin {"lookup", "arm"} => l \in Claiming /\ c = cur[t]
  <2>1. CASE Del(t)
    BY <2>1, <1>2 DEF Del, Goto, Claiming, PreErase
  <2>2. CASE Erase(t)
    BY <2>2, <1>2, <1>3 DEF Erase, Goto, At, Claiming, Cleared
  <2>3. CASE EraseIndex(t)
    BY <2>3, <1>2 DEF EraseIndex, Goto, Claiming, Unlinked
  <2>4. CASE Read(t)
    BY <2>4, <1>2 DEF Read, Goto, Claiming, PreErase
  <2>5. CASE Lookup(t)
    <3>1. pc[t] = "lookup" /\ UNCHANGED <<token, known, index, jobs>>
      BY <2>5 DEF Lookup, At
    <3>2. \E l : pc' = [pc EXCEPT ![t] = l]
      BY <2>5 DEF Lookup, Goto, Leave
    <3>3. \E c : cur' = [cur EXCEPT ![t] = c]
      BY <2>5, <1>2 DEF Lookup, Leave
    <3> QED BY <3>1, <3>2, <3>3
  <2>6. CASE Write(t)
    <3>1. pc[t] = "write" /\ UNCHANGED <<token, known, index, jobs>>
      BY <2>6 DEF Write, At
    <3>2. pc' = [pc EXCEPT ![t] = "unmute"] /\ cur' = cur
      BY <2>6, <3>1, <1>4 DEF Write, Goto
    <3> QED BY <3>1, <3>2, <1>2 DEF Claiming, PreErase
  <2>7. CASE Arm(t)
    <3>1. /\ pc[t] = "arm" /\ UNCHANGED <<token, known, index, jobs>>
          /\ pc' = [pc EXCEPT ![t] = "finish"] /\ cur' = cur
      BY <2>7 DEF Arm, Goto, At
    <3> QED BY <3>1, <1>2
  <2> QED BY <2>1, <2>2, <2>3, <2>4, <2>5, <2>6, <2>7
<1>6. \A u \in Threads : u # t => pc'[u] = pc[u] /\ cur'[u] = cur[u]
  BY <1>2, <1>5
<1>7. pc[t] \in Claiming => pc'[t] \in Claiming /\ cur'[t] = cur[t]
  BY <1>2, <1>5 DEF Claiming, PreErase, Cleared, Unlinked
<1>8. \A r : Inherited(r) => Inherited(r)'
  BY <1>5 DEF Inherited
<1>9. \A r : Engaged(t, r) => Engaged(t, r)'
  BY <1>7 DEF Engaged
<1>10. UNCHANGED <<token, index>> /\ known' \subseteq known
  BY <1>5
<1> QED BY <1>2, <1>6, <1>8, <1>9, <1>10, AttendedFrame

\* erase: the claim ends when the stream has left the set.
LEMMA AttendedErase ==
    ASSUME Inv, AttendedInv, NEW t \in Threads,
           EraseMaps(t) \/ EraseNull(t) \/ EraseDel(t) \/ Finish(t)
    PROVE  AttendedInv'
<1> USE DEF setVars, streamVars, pollVars, threadVars
<1>1. pc[t] \in {"erase_maps", "erase_null", "erase_del", "finish"}
  BY DEF EraseMaps, EraseNull, EraseDel, Finish, At
<1>2. /\ pc \in [Threads -> Labels] /\ cur \in [Threads -> Streams \union {None}]
      /\ t # Acceptor /\ cur[t] \in Streams /\ Acceptor \in Threads
      /\ index \in [Streams -> Indexes \union {NoIndex}] /\ known \subseteq Streams
  <2>1. index \in [Streams -> Indexes \union {NoIndex}] /\ known \subseteq Streams
    BY SetShapes DEF Inv
  <2> QED BY <2>1, <1>1, Position DEF AcceptorLabels, Resting, Threads
<1>3. /\ UNCHANGED token /\ known' \subseteq known
      /\ \A u \in Threads : u # t => pc'[u] = pc[u] /\ cur'[u] = cur[u]
  BY <1>2 DEF EraseMaps, EraseNull, EraseDel, Finish, Goto, Leave
<1>4. pc[t] # "finish" => cur[t] \notin known'
  <2>1. CASE pc[t] = "erase_maps"
    BY <2>1 DEF EraseMaps, EraseNull, EraseDel, Finish, At
  <2>2. CASE pc[t] \in Unlinked
    BY <2>2, <1>3 DEF Inv, StageInv
  <2> QED BY <2>1, <2>2, <1>1 DEF Unlinked
<1>5. \A r \in known' : ~Engaged(t, r)
  BY <1>4 DEF Engaged, Claiming, PreErase, Cleared, Unlinked
<1>6. \A r \in Streams : Inherited(r) => Inherited(r)'
  <2>1. CASE UNCHANGED jobs
    BY <2>1 DEF Inherited
  <2>2. CASE Finish(t)
    BY <2>2, AppendAfter DEF Finish, Inv
  <2> QED BY <2>1, <2>2 DEF EraseMaps, EraseNull, EraseDel
<1>7. \A r \in Streams : (r \in known' \/ Inserting(r)) => index'[r] = index[r]
  <2>1. CASE UNCHANGED index
    BY <2>1
  <2>2. CASE EraseNull(t)
    <3>1. pc[t] = "erase_null" /\ index' = [index EXCEPT ![cur[t]] = NoIndex]
      BY <2>2 DEF EraseNull, At
    <3>2. ~Inserting(cur[t])
      BY <3>1, Alone DEF Claiming, Unlinked
    <3> QED BY <3>1, <3>2, <1>2, <1>4
  <2> QED BY <2>1, <2>2 DEF EraseMaps, EraseDel, Finish
<1>8. \A r \in Streams : (r \in known' \/ Inserting(r)) /\ Hit(index[r], r) => Hit(index[r], r)'
  BY <1>3, <1>7 DEF Hit
<1> QED BY <1>2, <1>3, <1>5, <1>6, <1>8, AttendedStep

\* The poller hands its claim over to the receive event, or it erases the stream.
LEMMA AttendedDispatch ==
    ASSUME Inv, AttendedInv, Dispatch
    PROVE  AttendedInv'
<1> USE DEF setVars, streamVars, pollVars, threadVars
<1> DEFINE s == cur[Poller]
<1>1. pc[Poller] = "dispatch" /\ UNCHANGED <<token, known, index>>
  BY DEF Dispatch, At
<1>2. /\ pc \in [Threads -> Labels] /\ cur \in [Threads -> Streams \union {None}]
      /\ Poller \in Threads /\ Poller # Acceptor /\ s \in Streams
  BY <1>1, Position, ThreadAssumption DEF Threads, Resting
<1>3. ~Inherited(s)
  BY <1>1, <1>2, Alone DEF Claiming, PreErase
<1>4. UNCHANGED <<token, index>> /\ known' \subseteq known
  BY <1>1
<1>5. CASE kind[Poller] = "hup"
  <2>1. pc' = [pc EXCEPT ![Poller] = "erase"] /\ UNCHANGED <<jobs, cur>>
    BY <1>5 DEF Dispatch, Goto
  <2>2. \A u \in Threads : u # Poller => pc'[u] = pc[u] /\ cur'[u] = cur[u]
    BY <2>1, <1>2
  <2>3. \A r : (Inherited(r) => Inherited(r)') /\ (Engaged(Poller, r) => Engaged(Poller, r)')
    BY <2>1, <1>2 DEF Inherited, Engaged, Claiming, PreErase
  <2> QED BY <2>2, <2>3, <1>2, <1>4, AttendedFrame
<1>6. CASE kind[Poller] # "hup"
  <2>1. /\ jobs' = Append(jobs, Job("receive", s))
        /\ pc' = [pc EXCEPT ![Poller] = "loop"] /\ cur' = [cur EXCEPT ![Poller] = None]
    BY <1>6 DEF Dispatch, Leave, Goto
  <2>2. \A u \in Threads : u # Poller => pc'[u] = pc[u] /\ cur'[u] = cur[u]
    BY <2>1, <1>2
  <2> HIDE DEF s
  <2>3. \A r \in Streams : Inherited(r)' <=> Inherited(r) \/ r = s
    BY <2>1, <1>2, <1>3, AppendReceive DEF Inv
  <2>4. \A r \in Streams : Engaged(Poller, r) => Inherited(r)'
    BY <2>3 DEF Engaged, s
  <2>5. known \subseteq Streams
    BY DEF Inv, TypeOK
  <2> QED BY <2>2, <2>3, <2>4, <2>5, <1>2, <1>4, AttendedFrame
<1> QED BY <1>5, <1>6

\* unmute: the claim is kept to erase, handed over, or given back.
LEMMA AttendedUnmute ==
    ASSUME Inv, AttendedInv, NEW t \in Threads, Unmute(t)
    PROVE  AttendedInv'
<1> USE DEF setVars, streamVars, pollVars, threadVars
<1> DEFINE s == cur[t]
<1>1. pc[t] = "unmute" /\ UNCHANGED <<known, index, cur>>
  BY DEF Unmute, At
<1>2. /\ pc \in [Threads -> Labels] /\ cur \in [Threads -> Streams \union {None}]
      /\ t # Acceptor /\ s \in Streams /\ known \subseteq Streams
      /\ token \in [Indexes -> Streams \union {None}]
  <2>1. known \subseteq Streams /\ token \in [Indexes -> Streams \union {None}]
    BY SetShapes, ShapesHold DEF Inv, Shapes
  <2> QED BY <2>1, <1>1, Position DEF AcceptorLabels, Resting
<1>3. ~Inherited(s) /\ InSlot(s)
  BY <1>1, Alone DEF Claiming, PreErase, Inv, StageInv
<1>4. known' \subseteq known
  BY <1>1
<1>5. CASE status[s] = "ERRORING_OUT"
  <2>1. pc' = [pc EXCEPT ![t] = "erase"] /\ UNCHANGED <<jobs, token>>
    BY <1>5 DEF Unmute, Goto
  <2>2. /\ UNCHANGED <<token, index>>
        /\ \A u \in Threads : u # t => pc'[u] = pc[u] /\ cur'[u] = cur[u]
    BY <2>1, <1>1, <1>2
  <2>3. \A r : (Inherited(r) => Inherited(r)') /\ (Engaged(t, r) => Engaged(t, r)')
    BY <2>1, <1>1, <1>2 DEF Inherited, Engaged, Claiming, PreErase
  <2> QED BY <2>2, <2>3, <1>2, <1>4, AttendedFrame
<1>6. CASE status[s] # "ERRORING_OUT" /\ HasNext(s)
  <2>1. /\ jobs' = Append(jobs, Job("receive", s)) /\ UNCHANGED token
        /\ pc' = [pc EXCEPT ![t] = "finish"]
    BY <1>6 DEF Unmute, Goto
  <2>2. /\ UNCHANGED <<token, index>>
        /\ \A u \in Threads : u # t => pc'[u] = pc[u] /\ cur'[u] = cur[u]
    BY <2>1, <1>1, <1>2
  <2> HIDE DEF s
  <2>3. \A r \in Streams : Inherited(r)' <=> Inherited(r) \/ r = s
    BY <2>1, <1>2, <1>3, AppendReceive DEF Inv
  <2>4. \A r \in Streams : Engaged(t, r) => Inherited(r)'
    BY <2>3 DEF Engaged, s
  <2> QED BY <2>2, <2>3, <2>4, <1>2, <1>4, AttendedFrame
<1>7. CASE status[s] # "ERRORING_OUT" /\ ~HasNext(s)
  <2>1. /\ token' = [token EXCEPT ![index[s]] = s] /\ UNCHANGED jobs
        /\ pc' = [pc EXCEPT ![t] = "arm"]
    BY <1>7, <1>3 DEF Unmute, Goto, InSlot
  <2>2. \A u \in Threads : u # t => pc'[u] = pc[u] /\ cur'[u] = cur[u]
    BY <2>1, <1>1, <1>2
  <2>3. index[s] \in Indexes /\ token[index[s]] = None
    BY <1>3 DEF InSlot
  <2> HIDE DEF s
  <2>4. \A r \in Streams : Hit(index[r], r) => Hit(index[r], r)'
    <3>1. SUFFICES ASSUME NEW r \in Streams, Hit(index[r], r) PROVE Hit(index[r], r)'
      OBVIOUS
    <3>2. index[r] \in Indexes /\ token[index[r]] = r /\ index[r] # index[s]
      BY <3>1, <2>3, NoneAssumption DEF Hit
    <3>3. token'[index[r]] = r
      BY <3>2, <2>1, <1>2
    <3> QED BY <3>2, <3>3, <1>1 DEF Hit
  <2>5. \A r \in Streams : Engaged(t, r) => Hit(index[r], r)'
    <3>1. token'[index[s]] = s
      BY <2>1, <2>3, <1>2
    <3> QED BY <3>1, <2>3, <1>1 DEF Engaged, Hit, s
  <2>6. \A r : Inherited(r) => Inherited(r)'
    BY <2>1 DEF Inherited
  <2> QED BY <2>2, <2>4, <2>5, <2>6, <1>2, <1>4, AttendedStep
<1> QED BY <1>5, <1>6, <1>7

\* Every step keeps every stream of the set attended.
LEMMA AttendedNext ==
    ASSUME Inv, AttendedInv, OnlyCalls, [Next]_vars
    PROVE  AttendedInv'
<1>1. Poller \in Threads /\ Acceptor \in Threads /\ Workers \subseteq Threads
  BY DEF Threads
<1>2. ASSUME NEW t \in Threads, EraseSteps(t) PROVE AttendedInv'
  BY <1>2, AttendedKeep, AttendedErase DEF EraseSteps
<1>3. ASSUME NEW w \in Workers, Insert(w) PROVE AttendedInv'
  <2>1. pc[w] \in WorkerLabels
    BY DEF Inv, Control
  <2> QED BY <1>3, <2>1
          DEF Insert, InsertIndex, InsertFd, InsertMaps, InsertArm, At, WorkerLabels, Cleared,
               Unlinked
<1>4. CASE PollerStep
  BY <1>1, <1>2, <1>4, AttendedOutside, AttendedProcess, AttendedKeep, AttendedDispatch,
     AttendedErase DEF PollerStep
<1>5. ASSUME NEW w \in Workers, WorkerStep(w) PROVE AttendedInv'
  BY <1>1, <1>2, <1>3, <1>5, AttendedTake, AttendedKeep, AttendedClaim, AttendedUnmute,
     AttendedErase DEF WorkerStep
<1> QED BY <1>4, <1>5, AttendedOutside, AttendedInsert DEF Next

\* A stream in the set is registered with epoll or about to be, or somebody has it
\* and will release it (polling::unmute, mute and poll, stream_set::acquire).
THEOREM WakeupsAreKept ==
    ASSUME OnlyCalls
    PROVE  Spec => []NoLostWakeup
<1>1. Init => AttendedInv
  <2>1. SUFFICES ASSUME Init PROVE AttendedInv
    OBVIOUS
  <2>2. pc[Acceptor] = "idle" /\ known = {}
    BY <2>1, ThreadAssumption DEF Init, Threads
  <2> QED BY <2>2 DEF AttendedInv, FreshInv
<1>2. Inv /\ AttendedInv /\ [Next]_vars => AttendedInv'
  BY AttendedNext
<1>3. Inv /\ AttendedInv => NoLostWakeup
  <2>1. SUFFICES ASSUME Inv, AttendedInv, NEW s \in known
                 PROVE  \/ /\ Hit(index[s], s)
                           /\ \/ s \in armed
                              \/ \E t \in Threads : cur[t] = s /\ pc[t] \in {"ins_arm", "arm"}
                        \/ Users(s) # {}
                        \/ Queued(s) # {}
    BY DEF NoLostWakeup
  <2>2. s \in Streams /\ Attended(s)
    BY <2>1 DEF Inv, TypeOK, AttendedInv
  <2>3. CASE Hit(index[s], s)
    BY <2>1, <2>2, <2>3 DEF Inv, RegisteredInv
  <2>4. CASE Inherited(s)
    BY <2>4 DEF Inherited, Queued
  <2>5. CASE \E t \in Threads : Engaged(t, s)
    <3>1. PICK t \in Threads : Engaged(t, s)
      BY <2>5
    <3>2. pc[t] # "erase_del"
      BY <3>1, <2>1 DEF Engaged, Inv, StageInv, Unlinked
    <3>3. t \in Users(s)
      BY <3>1, <3>2 DEF Engaged, Users, UsingLabels, Claiming, PreErase, Cleared, Unlinked
    <3> QED BY <3>3
  <2> QED BY <2>2, <2>3, <2>4, <2>5 DEF Attended
<1> QED BY <1>1, <1>2, <1>3, PollingInvariant, PTL DEF Spec

\* Every variable has its type; in particular no index but a slot's own goes back
\* to the pool (stream_set::erase) and no message count goes below zero.
THEOREM PollingTypes ==
    ASSUME OnlyCalls
    PROVE  Spec => []TypeOK
<1>1. Inv => TypeOK
  BY DEF Inv
<1> QED BY <1>1, PollingInvariant, PTL
=============================================================================
