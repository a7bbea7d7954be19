---------------------------- MODULE RuntimeProofs ----------------------------
(***************************************************************************)
(* Proofs about Runtime for every number of consumers, every capacity of   *)
(* the two queues and every bound: the counters of threads are right, no   *)
(* thread executes code that has been unloaded, a dispatcher that has been *)
(* stopped takes no event any more, and the process ends in order: its     *)
(* queues are stopped before it joins its threads and unloads plugins.     *)
(***************************************************************************)
EXTENDS Runtime, FiniteSetTheorems, TLAPS

Pushing        == {"trigger", "push"}
Stopping       == {"stop", "stop_queue", "stop_wait"}
MainLabels     == {"boot", "load", "poll", "drain", "join", "unload", "done"}
                     \union Pushing \union Stopping
ListenerLabels == {"unborn", "accept", "exited"} \union Pushing
ConsumerLabels == {"unborn", "pop", "run", "check", "exited"} \union Pushing \union Stopping

\* Which steps a kind of thread takes; a thread that triggers has something to
\* trigger and somewhere to go afterwards.
Control ==
    /\ pc[Main] \in MainLabels
    /\ pc[Listener] \in ListenerLabels
    /\ \A t \in Consumers : pc[t] \in ConsumerLabels
    /\ \A t \in Threads : pc[t] \in Pushing => todo[t] # <<>>
    /\ pc[Main] \in Pushing => cont[Main] \in {"load", "poll", "drain"}
    /\ pc[Listener] \in Pushing => cont[Listener] = "accept"
    /\ \A t \in Consumers : pc[t] \in Pushing => cont[t] = "check"

\* The plugins are loaded: their threads exist.
Booted == pc[Listener] # "unborn"

Booting == pc[Main] \in {"boot", "load"} \/ (pc[Main] \in Pushing /\ cont[Main] = "load")

BootInv ==
    /\ Booted <=> ~Booting
    /\ \A w \in Workers : pc[w] = "unborn" <=> ~Booted
    /\ \A g \in Globals : pc[g] # "unborn"

\* The consumers that run; the counters count them.
Live(S) == {t \in S : pc[t] \notin {"unborn", "exited"}}

CountInv ==
    /\ running["globald"] = Cardinality(Live(Globals))
    /\ running["transport"] = Cardinality(Live(Workers))
    /\ nThreads = Cardinality(Live(Globals)) + Cardinality(Live(Workers))

\* A dispatcher whose consumers have begun to exit is being stopped or has been,
\* and its queue is shut down before its __shutdown is reset.
StopInv ==
    /\ \A t \in Threads : pc[t] = "stop_wait" => Target(t) \in qshut
    /\ \A t \in Consumers : pc[t] = "exited" => Of(t) \in shut \union qshut

\* "again" is an event of the transport dispatcher, and nobody triggers anything
\* there before the plugins are loaded.
RouteInv ==
    /\ \A k \in 1 .. Len(queue["globald"]) : queue["globald"][k] # "again"
    /\ \A g \in Globals : ev[g] # "again"
    /\ \A t \in Threads : \A k \in 1 .. Len(todo[t]) :
          /\ todo[t][k].event = "again" => todo[t][k].disp = "transport"
          /\ todo[t][k].disp = "transport" => t \in Workers \union {Main}
    /\ cont[Main] = "load" => \A k \in 1 .. Len(todo[Main]) : todo[Main][k].disp = "globald"

Inv == TypeOK /\ Control /\ BootInv /\ CountInv /\ StopInv /\ RouteInv /\ NoCodeInUse

-----------------------------------------------------------------------------
(* Lemmas.                                                                 *)

Entries == [disp : Dispatchers, event : Events]

\* What Append does to the length, the elements and the type of a sequence.
LEMMA AppendFacts ==
    ASSUME NEW S, NEW q \in Seq(S), NEW e \in S
    PROVE  /\ Append(q, e) \in Seq(S)
           /\ Len(Append(q, e)) = Len(q) + 1 /\ Len(q) \in Nat
           /\ \A k \in 1 .. Len(q) : Append(q, e)[k] = q[k]
           /\ Append(q, e)[Len(q) + 1] = e
  OBVIOUS

\* What Head and Tail return for a sequence that is not empty.
LEMMA TailFacts ==
    ASSUME NEW S, NEW q \in Seq(S), q # <<>>
    PROVE  /\ Head(q) \in S /\ Head(q) = q[1]
           /\ Tail(q) \in Seq(S)
           /\ Len(q) \in Nat \ {0} /\ Len(Tail(q)) = Len(q) - 1
           /\ \A k \in 1 .. Len(q) - 1 : Tail(q)[k] = q[k + 1]
  OBVIOUS

\* A thread is the main one, the listener or a consumer of one dispatcher.
LEMMA Kinds ==
    /\ Main \in Threads /\ Listener \in Threads /\ Consumers \subseteq Threads
    /\ Main # Listener /\ Main \notin Consumers /\ Listener \notin Consumers
    /\ \A t \in Threads : t \in Consumers \/ t = Main \/ t = Listener
    /\ Globals \subseteq Consumers /\ Workers \subseteq Consumers
    /\ \A t \in Consumers : t \in Globals \/ t \in Workers
    /\ \A t \in Globals : t \notin Workers /\ Of(t) = "globald"
    /\ \A t \in Workers : t \notin Globals /\ Of(t) = "transport"
  BY ThreadAssumption DEF Threads, Consumers, Of

\* The sets of running consumers are finite, so they can be counted.
LEMMA LiveFinite ==
    /\ IsFiniteSet(Live(Globals)) /\ IsFiniteSet(Live(Workers))
    /\ Cardinality(Live(Globals)) \in Nat /\ Cardinality(Live(Workers)) \in Nat
<1>1. Live(Globals) \subseteq Globals /\ Live(Workers) \subseteq Workers
  BY DEF Live
<1>2. IsFiniteSet(Live(Globals)) /\ IsFiniteSet(Live(Workers))
  BY <1>1, FiniteAssumption, FS_Subset
<1> QED BY <1>2, FS_CardinalityType

\* The types of what a thread has.
LEMMA ThreadTypes ==
    ASSUME TypeOK
    PROVE  /\ pc \in [Threads -> Labels] /\ ev \in [Threads -> Events \union {"none"}]
           /\ todo \in [Threads -> Seq(Entries)] /\ cont \in [Threads -> Labels \union {"none"}]
  BY DEF TypeOK, Entries

\* A step that changes nothing else keeps the types when it keeps these.
LEMMA TypeFrame ==
    ASSUME TypeOK, pc' \in [Threads -> Labels], ev' \in [Threads -> Events \union {"none"}],
           todo' \in [Threads -> Seq(Entries)], cont' \in [Threads -> Labels \union {"none"}],
           queue' \in [Dispatchers -> Seq(Events)], \A d \in Dispatchers : QueueBound(d)',
           shut' \subseteq Dispatchers, qshut' \subseteq Dispatchers,
           registered' \subseteq Handlers,
           running' \in [Dispatchers -> Nat], nThreads' \in Nat, asked' \in BOOLEAN,
           received' \in 0 .. MaxReceive, streams' \in 0 .. MaxStream
    PROVE  TypeOK'
  BY DEF TypeOK, Entries

\* A thread that runs goes on running: the threads are as many as before, and
\* nobody comes back.
LEMMA MoveStep ==
    ASSUME Inv, NEW t \in Threads, NEW l \in Labels \ {"unborn", "exited", "unload", "done"},
           pc[t] \notin {"unborn", "exited", "unload", "done"}, pc' = [pc EXCEPT ![t] = l],
           Booting' <=> Booting, UNCHANGED <<running, nThreads>>
    PROVE  BootInv' /\ CountInv' /\ NoCodeInUse'
<1>1. pc \in [Threads -> Labels]
  BY DEF Inv, TypeOK
<1>2. /\ pc'[t] = l /\ \A u \in Threads : u # t => pc'[u] = pc[u]
  BY <1>1
<1>3. BootInv'
  BY <1>2, Kinds DEF Inv, BootInv, Booted
<1>4. Live(Globals)' = Live(Globals) /\ Live(Workers)' = Live(Workers)
  BY <1>2, Kinds DEF Live
<1>5. CountInv'
  BY <1>4 DEF Inv, CountInv
<1>6. NoCodeInUse'
  BY <1>2, Kinds DEF Inv, NoCodeInUse
<1> QED BY <1>3, <1>5, <1>6

-----------------------------------------------------------------------------
(* dispatcher::trigger.                                                    *)

\* On to the next event or back to where the thread was.
LEMMA AdvanceStep ==
    ASSUME Inv, NEW t \in Threads, pc[t] \in Pushing, Advance(t),
           queue' \in [Dispatchers -> Seq(Events)], \A d \in Dispatchers : QueueBound(d)',
           \A k \in 1 .. Len(queue'["globald"]) : queue'["globald"][k] # "again",
           UNCHANGED <<shut, qshut, running, nThreads, registered, ev, countVars>>
    PROVE  Inv'
<1> USE DEF countVars
<1>1. TypeOK /\ Control
  BY DEF Inv
<1>2. /\ pc \in [Threads -> Labels] /\ ev \in [Threads -> Events \union {"none"}]
      /\ todo \in [Threads -> Seq(Entries)] /\ cont \in [Threads -> Labels \union {"none"}]
      /\ todo[t] \in Seq(Entries) /\ todo[t] # <<>>
  BY <1>1, ThreadTypes DEF Control
<1>3. /\ Tail(todo[t]) \in Seq(Entries) /\ Len(todo[t]) \in Nat \ {0}
      /\ Len(Tail(todo[t])) = Len(todo[t]) - 1
      /\ \A k \in 1 .. Len(todo[t]) - 1 : Tail(todo[t])[k] = todo[t][k + 1]
  BY <1>2, TailFacts
<1>4. todo' = [todo EXCEPT ![t] = Tail(todo[t])]
  BY DEF Advance
<1>5. cont[t] \in {"load", "poll", "drain", "accept", "check"}
  BY <1>1, Kinds DEF Control
<1>6. PICK l \in {"trigger", cont[t]} :
         /\ pc' = [pc EXCEPT ![t] = l]
         /\ l = "trigger" => Len(todo[t]) > 1 /\ cont' = cont
         /\ l = cont[t] => cont' = [cont EXCEPT ![t] = "none"]
  <2>1. CASE Len(todo[t]) > 1
    BY <2>1, <1>5 DEF Advance, Goto
  <2>2. CASE ~(Len(todo[t]) > 1)
    BY <2>2, <1>5 DEF Advance, Goto
  <2> QED BY <2>1, <2>2
<1>7. /\ pc'[t] = l /\ \A u \in Threads : u # t =>
           pc'[u] = pc[u] /\ todo'[u] = todo[u] /\ cont'[u] = cont[u]
      /\ todo'[t] = Tail(todo[t]) /\ cont'[t] \in {cont[t], "none"}
      /\ l = "trigger" => cont'[t] = cont[t]
  BY <1>2, <1>4, <1>6
<1>8. l \in Labels \ {"unborn", "exited", "unload", "done"}
  BY <1>5, <1>6 DEF Labels
<1>9. TypeOK'
  <2>1. /\ shut \subseteq Dispatchers /\ qshut \subseteq Dispatchers
        /\ registered \subseteq Handlers
        /\ running \in [Dispatchers -> Nat] /\ nThreads \in Nat /\ asked \in BOOLEAN
        /\ received \in 0 .. MaxReceive /\ streams \in 0 .. MaxStream
    BY <1>1 DEF TypeOK
  <2>2. /\ pc' \in [Threads -> Labels] /\ todo' \in [Threads -> Seq(Entries)]
    BY <1>2, <1>3, <1>4, <1>6, <1>8
  <2>3. cont' \in [Threads -> Labels \union {"none"}]
    BY <1>2, <1>6
  <2> QED BY <2>1, <2>2, <2>3, <1>1, <1>2, TypeFrame
<1>10. Control'
  <2>1. l = "trigger" => Tail(todo[t]) # <<>>
    <3>1. SUFFICES ASSUME l = "trigger" PROVE Len(Tail(todo[t])) # 0
      BY <1>3
    <3>2. Len(todo[t]) > 1
      BY <3>1, <1>6
    <3>3. \A n, m \in Int : n > 1 /\ m = n - 1 => m # 0
      OBVIOUS
    <3>4. Len(todo[t]) \in Int /\ Len(Tail(todo[t])) = Len(todo[t]) - 1
      BY <1>3
    <3>5. Len(Tail(todo[t])) \in Int
      BY <3>4
    <3> QED BY <3>2, <3>3, <3>4, <3>5
  <2>2. pc'[Main] \in MainLabels /\ pc'[Listener] \in ListenerLabels
    BY <1>1, <1>6, <1>7, Kinds DEF Control, Pushing, MainLabels, ListenerLabels
  <2>3. \A u \in Consumers : pc'[u] \in ConsumerLabels
    BY <1>1, <1>6, <1>7, Kinds DEF Control, Pushing, ConsumerLabels
  <2>4. \A u \in Threads : pc'[u] \in Pushing => pc[u] \in Pushing /\ cont'[u] = cont[u]
    BY <1>5, <1>6, <1>7 DEF Pushing
  <2>5. \A u \in Threads : pc'[u] \in Pushing => todo'[u] # <<>>
    BY <2>1, <2>4, <1>1, <1>5, <1>6, <1>7 DEF Control, Pushing
  <2> QED BY <2>2, <2>3, <2>4, <2>5, <1>1, Kinds DEF Control
<1>11. Booting' <=> Booting
  BY <1>1, <1>6, <1>7, Kinds DEF Booting, Pushing, Control
<1>12. BootInv' /\ CountInv' /\ NoCodeInUse'
  BY <1>6, <1>8, <1>11, MoveStep DEF Pushing
<1>13. StopInv'
  BY <1>5, <1>6, <1>7, Kinds DEF Inv, StopInv
<1>14. RouteInv'
  <2>1. \A k \in 1 .. Len(Tail(todo[t])) :
           k + 1 \in 1 .. Len(todo[t]) /\ Tail(todo[t])[k] = todo[t][k + 1]
    BY <1>3
  <2>2. ASSUME NEW u \in Threads, NEW k \in 1 .. Len(todo'[u])
        PROVE  /\ todo'[u][k].event = "again" => todo'[u][k].disp = "transport"
               /\ todo'[u][k].disp = "transport" => u \in Workers \union {Main}
    <3>1. CASE u = t
      <4>1. k + 1 \in 1 .. Len(todo[t]) /\ todo'[t][k] = todo[t][k + 1]
        BY <2>1, <2>2, <3>1, <1>7
      <4> QED BY <4>1, <3>1 DEF Inv, RouteInv
    <3>2. CASE u # t
      <4>1. todo'[u] = todo[u]
        BY <3>2, <1>7
      <4> QED BY <4>1, <2>2 DEF Inv, RouteInv
    <3> QED BY <3>1, <3>2
  <2>3. ASSUME cont'[Main] = "load", NEW k \in 1 .. Len(todo'[Main])
        PROVE  todo'[Main][k].disp = "globald"
    <3>1. cont[Main] = "load"
      BY <2>3, <1>7, Kinds
    <3>2. CASE Main = t
      <4>1. k + 1 \in 1 .. Len(todo[t]) /\ todo'[t][k] = todo[t][k + 1]
        BY <2>1, <2>3, <3>2, <1>7
      <4> QED BY <4>1, <3>1, <3>2 DEF Inv, RouteInv
    <3>3. CASE Main # t
      <4>1. todo'[Main] = todo[Main]
        BY <3>3, <1>7, Kinds
      <4> QED BY <4>1, <2>3, <3>1 DEF Inv, RouteInv
    <3> QED BY <3>2, <3>3
  <2> QED BY <2>2, <2>3 DEF Inv, RouteInv
<1> QED BY <1>9, <1>10, <1>12, <1>13, <1>14 DEF Inv


\* A trigger is dropped while the dispatcher is being stopped, or goes on to push;
\* push adds the event to a queue that has room and has not been shut down.
LEMMA TriggerStepInv ==
    ASSUME Inv, NEW t \in Threads, TriggerStep(t)
    PROVE  Inv'
<1>1. TypeOK /\ Control
  BY DEF Inv
<1>2. /\ pc \in [Threads -> Labels] /\ ev \in [Threads -> Events \union {"none"}]
      /\ todo \in [Threads -> Seq(Entries)] /\ cont \in [Threads -> Labels \union {"none"}]
  BY <1>1, ThreadTypes
<1>3. /\ queue \in [Dispatchers -> Seq(Events)] /\ \A d \in Dispatchers : QueueBound(d)
      /\ \A k \in 1 .. Len(queue["globald"]) : queue["globald"][k] # "again"
  BY <1>1 DEF TypeOK, Inv, RouteInv
<1>4. CASE TriggerDropped(t)
  <2>1. pc[t] \in Pushing /\ Advance(t) /\ UNCHANGED <<dispVars, ev, countVars>>
    BY <1>4 DEF TriggerDropped, At, Pushing
  <2>2. queue' = queue /\ UNCHANGED <<shut, qshut, running, nThreads, registered, ev, countVars>>
    BY <2>1 DEF dispVars
  <2>3. \A d \in Dispatchers : QueueBound(d)'
    BY <2>2, <1>3 DEF QueueBound
  <2> QED BY <2>1, <2>2, <2>3, <1>3, AdvanceStep
<1>5. CASE TriggerAccepted(t)
  <2>1. /\ pc[t] = "trigger" /\ pc' = [pc EXCEPT ![t] = "push"]
        /\ UNCHANGED <<queue, shut, qshut, running, nThreads, registered, ev, todo, cont,
                       asked, received, streams>>
    BY <1>5 DEF TriggerAccepted, At, Goto, dispVars, countVars
  <2>2. pc'[t] = "push" /\ \A u \in Threads : u # t => pc'[u] = pc[u]
    BY <2>1, <1>2
  <2>3. TypeOK'
    <3>1. pc' \in [Threads -> Labels]
      BY <2>1, <1>2 DEF Labels
    <3> QED BY <3>1, <2>1, <1>1 DEF TypeOK, QueueBound
  <2>4. Control'
    BY <2>1, <2>2, <1>1, Kinds DEF Control, Pushing, MainLabels, ListenerLabels, ConsumerLabels
  <2>5. Booting' <=> Booting
    BY <2>1, <2>2, Kinds DEF Booting, Pushing
  <2>6. BootInv' /\ CountInv' /\ NoCodeInUse'
    BY <2>1, <2>5, MoveStep DEF Labels
  <2>7. StopInv' /\ RouteInv'
    BY <2>1, <2>2, Kinds DEF Inv, StopInv, RouteInv
  <2> QED BY <2>3, <2>4, <2>6, <2>7 DEF Inv
<1>6. CASE Push(t)
  <2> DEFINE d == Head(todo[t]).disp
             e == Head(todo[t]).event
  <2>1. /\ pc[t] \in Pushing /\ Advance(t)
        /\ UNCHANGED <<shut, qshut, running, nThreads, registered, ev, countVars>>
        /\ \/ queue' = queue
           \/ Len(queue[d]) < Capacity[d] /\ queue' = [queue EXCEPT ![d] = Append(queue[d], e)]
    BY <1>6 DEF Push, At, Pushing
  <2>2. todo[t] # <<>> /\ todo[t] \in Seq(Entries)
    BY <2>1, <1>1, <1>2 DEF Control
  <2>3. Head(todo[t]) \in Entries /\ Head(todo[t]) = todo[t][1] /\ 1 \in 1 .. Len(todo[t])
    BY <2>2, TailFacts
  <2>4. d \in Dispatchers /\ e \in Events /\ (d = "globald" => e # "again")
    BY <2>3 DEF Entries, Inv, RouteInv
  <2> HIDE DEF d, e
  <2>5. /\ Append(queue[d], e) \in Seq(Events)
        /\ Len(Append(queue[d], e)) = Len(queue[d]) + 1 /\ Len(queue[d]) \in Nat
        /\ \A k \in 1 .. Len(queue[d]) : Append(queue[d], e)[k] = queue[d][k]
        /\ Append(queue[d], e)[Len(queue[d]) + 1] = e
    BY <2>4, <1>3, AppendFacts
  <2>6. queue' \in [Dispatchers -> Seq(Events)]
    BY <2>1, <2>5, <1>3
  <2>7. \A c \in Dispatchers : QueueBound(c)'
    <3>1. TAKE c \in Dispatchers
    <3>2. Len(queue[c]) <= Capacity[c]
      BY <1>3 DEF QueueBound
    <3>3. CASE queue'[c] = queue[c]
      BY <3>2, <3>3 DEF QueueBound
    <3>4. CASE queue'[c] # queue[c]
      <4>1. c = d /\ queue'[d] = Append(queue[d], e) /\ Len(queue[d]) < Capacity[d]
        BY <3>4, <2>1, <2>4, <1>3
      <4>2. Capacity[d] \in Nat
        BY <2>4, CapacityAssumption
      <4> QED BY <4>1, <4>2, <2>5 DEF QueueBound
    <3> QED BY <3>3, <3>4
  <2>8. \A k \in 1 .. Len(queue'["globald"]) : queue'["globald"][k] # "again"
    <3>1. CASE queue' = queue
      BY <3>1, <1>3
    <3>2. CASE d # "globald" /\ queue' = [queue EXCEPT ![d] = Append(queue[d], e)]
      BY <3>2, <1>3
    <3>3. CASE d = "globald" /\ queue' = [queue EXCEPT ![d] = Append(queue[d], e)]
      <4>1. queue'["globald"] = Append(queue[d], e)
        BY <3>3, <2>4, <1>3
      <4> QED BY <4>1, <3>3, <2>4, <2>5, <1>3
    <3> QED BY <3>1, <3>2, <3>3, <2>1
  <2> QED BY <2>1, <2>6, <2>7, <2>8, AdvanceStep
<1> QED BY <1>4, <1>5, <1>6 DEF TriggerStep

-----------------------------------------------------------------------------
(* dispatcher::stop_consumers.                                             *)

\* Setting and resetting __shutdown, and shutting the queue down in between.
LEMMA StopStepInv ==
    ASSUME Inv, NEW t \in Threads, StopStep(t)
    PROVE  Inv'
<1>1. TypeOK /\ Control
  BY DEF Inv
<1>2. pc \in [Threads -> Labels] /\ Target(t) \in Dispatchers
  BY <1>1, ThreadTypes DEF Target, Dispatchers
<1>3. /\ pc[t] \in Stopping
      /\ UNCHANGED <<queue, running, nThreads, registered, ev, todo, cont, asked, received,
                     streams>>
  BY DEF StopStep, StopBegin, StopQueue, StopEnd, At, Stopping, countVars
<1>4. /\ qshut \subseteq qshut' /\ qshut' \subseteq Dispatchers /\ shut' \subseteq Dispatchers
      /\ \A d \in shut : d \in shut' \/ (d = Target(t) /\ pc[t] = "stop_wait")
  BY <1>1, <1>2 DEF StopStep, StopBegin, StopQueue, StopEnd, At, TypeOK
<1>5. t = Main \/ t \in Consumers
  BY <1>1, <1>3, Kinds DEF Control, ListenerLabels, Pushing, Stopping
<1>6. PICK l \in {"join", "check", "stop_queue", "stop_wait"} :
         /\ pc' = [pc EXCEPT ![t] = l]
         /\ l = "stop_wait" => Target(t) \in qshut'
         /\ l = "join" => t = Main
         /\ l = "check" => t # Main
  BY DEF StopStep, StopBegin, StopQueue, StopEnd, Goto, AfterStop
<1>7. pc'[t] = l /\ \A u \in Threads : u # t => pc'[u] = pc[u]
  BY <1>2, <1>6
<1>8. TypeOK'
  <2>1. pc' \in [Threads -> Labels]
    BY <1>2, <1>6 DEF Labels
  <2> QED BY <2>1, <1>1, <1>3, <1>4 DEF TypeOK, QueueBound
<1>9. Control'
  BY <1>1, <1>3, <1>5, <1>6, <1>7, Kinds
     DEF Control, Pushing, Stopping, MainLabels, ListenerLabels, ConsumerLabels
<1>10. Booting' <=> Booting
  BY <1>3, <1>6, <1>7, Kinds DEF Booting, Pushing, Stopping
<1>11. BootInv' /\ CountInv' /\ NoCodeInUse'
  BY <1>3, <1>6, <1>10, MoveStep DEF Labels, Stopping
<1>12. StopInv'
  BY <1>4, <1>6, <1>7, Kinds DEF Inv, StopInv
<1>13. RouteInv'
  BY <1>3 DEF Inv, RouteInv
<1> QED BY <1>8, <1>9, <1>11, <1>12, <1>13 DEF Inv

-----------------------------------------------------------------------------
(* What threads do between two triggers.                                   *)

\* What every step below keeps of the rest of the state.
Rest ==
    /\ queue' \in [Dispatchers -> Seq(Events)] /\ \A d \in Dispatchers : QueueBound(d)'
    /\ \A k \in 1 .. Len(queue'["globald"]) : queue'["globald"][k] # "again"
    /\ ev' \in [Threads -> Events \union {"none"}] /\ \A g \in Globals : ev'[g] # "again"
    /\ registered' \subseteq Handlers /\ asked' \in BOOLEAN
    /\ received' \in 0 .. MaxReceive /\ streams' \in 0 .. MaxStream

\* A step keeps these parts of the state when it leaves them alone.
LEMMA RestKept ==
    ASSUME Inv
    PROVE  /\ queue' = queue => /\ queue' \in [Dispatchers -> Seq(Events)]
                                /\ \A d \in Dispatchers : QueueBound(d)'
                                /\ \A k \in 1 .. Len(queue'["globald"]) :
                                      queue'["globald"][k] # "again"
           /\ ev' = ev => /\ ev' \in [Threads -> Events \union {"none"}]
                          /\ \A g \in Globals : ev'[g] # "again"
           /\ registered' = registered => registered' \subseteq Handlers
           /\ asked' = asked => asked' \in BOOLEAN
           /\ received' = received => received' \in 0 .. MaxReceive
           /\ streams' = streams => streams' \in 0 .. MaxStream
<1>1. queue' = queue => /\ queue' \in [Dispatchers -> Seq(Events)]
                        /\ \A d \in Dispatchers : QueueBound(d)'
                        /\ \A k \in 1 .. Len(queue'["globald"]) : queue'["globald"][k] # "again"
  BY DEF Inv, TypeOK, QueueBound, RouteInv
<1>2. ev' = ev => /\ ev' \in [Threads -> Events \union {"none"}]
                  /\ \A g \in Globals : ev'[g] # "again"
  BY DEF Inv, TypeOK, RouteInv
<1>3. /\ registered \subseteq Handlers /\ asked \in BOOLEAN
      /\ received \in 0 .. MaxReceive /\ streams \in 0 .. MaxStream
  BY DEF Inv, TypeOK
<1> QED BY <1>1, <1>2, <1>3

\* The places of a kind of thread other than those where it triggers or waits
\* for consumers.
Places(t) == IF t = Main THEN {"poll", "drain", "join", "stop"}
             ELSE IF t = Listener THEN {"accept"} ELSE {"pop", "run", "check", "stop"}

\* A thread goes to another place.
LEMMA GotoStep ==
    ASSUME Inv, Rest, NEW t \in Threads, NEW l \in Places(t), pc' = [pc EXCEPT ![t] = l],
           pc[t] \notin {"boot", "load", "unborn", "exited", "unload", "done"} \union Pushing,
           UNCHANGED <<shut, qshut, running, nThreads, todo, cont>>
    PROVE  Inv'
<1>1. TypeOK /\ Control
  BY DEF Inv
<1>2. /\ pc \in [Threads -> Labels] /\ todo \in [Threads -> Seq(Entries)]
      /\ cont \in [Threads -> Labels \union {"none"}]
  BY <1>1, ThreadTypes
<1>3. pc'[t] = l /\ \A u \in Threads : u # t => pc'[u] = pc[u]
  BY <1>2
<1>4. l \in Labels \ ({"boot", "load", "unborn", "exited", "unload", "done", "stop_wait"}
                        \union Pushing)
  BY DEF Places, Labels, Pushing
<1>5. TypeOK'
  <2>1. pc' \in [Threads -> Labels]
    BY <1>2, <1>4
  <2>2. /\ shut \subseteq Dispatchers /\ qshut \subseteq Dispatchers
        /\ running \in [Dispatchers -> Nat] /\ nThreads \in Nat
    BY <1>1 DEF TypeOK
  <2> QED BY <2>1, <2>2, <1>1, <1>2, TypeFrame DEF Rest
<1>6. Control'
  <2>1. pc'[Main] \in MainLabels /\ pc'[Listener] \in ListenerLabels
    BY <1>1, <1>3, Kinds DEF Control, Places, MainLabels, ListenerLabels, Stopping
  <2>2. \A u \in Consumers : pc'[u] \in ConsumerLabels
    BY <1>1, <1>3, Kinds DEF Control, Places, ConsumerLabels, Stopping
  <2>3. \A u \in Threads : pc'[u] \in Pushing => pc'[u] = pc[u]
    BY <1>3, <1>4
  <2> QED BY <2>1, <2>2, <2>3, <1>1, Kinds DEF Control
<1>7. Booting' <=> Booting
  BY <1>3, <1>4, Kinds DEF Booting
<1>8. BootInv' /\ CountInv' /\ NoCodeInUse'
  BY <1>4, <1>7, MoveStep
<1>9. StopInv'
  BY <1>3, <1>4, Kinds DEF Inv, StopInv
<1>10. RouteInv'
  BY DEF Inv, RouteInv, Rest
<1> QED BY <1>5, <1>6, <1>8, <1>9, <1>10 DEF Inv

\* Where a kind of thread goes after it has triggered its events.
Returns(t) == IF t = Main THEN {"load", "poll", "drain"}
              ELSE IF t = Listener THEN {"accept"} ELSE {"check"}

\* A thread begins to trigger events.
LEMMA TriggerAllStep ==
    ASSUME Inv, Rest, NEW t \in Threads, NEW es \in Seq(Entries), NEW c \in Returns(t),
           es # <<>>, TriggerAll(t, es, c),
           pc[t] \notin {"unborn", "exited", "unload", "done"} \union Pushing,
           pc[t] \in {"boot", "load"} <=> c = "load",
           \A k \in 1 .. Len(es) : es[k].event = "again" => es[k].disp = "transport",
           \A k \in 1 .. Len(es) : es[k].disp = "transport" => t \in Workers \union {Main},
           c = "load" => \A k \in 1 .. Len(es) : es[k].disp = "globald",
           UNCHANGED <<shut, qshut, running, nThreads>>
    PROVE  Inv'
<1>1. TypeOK /\ Control
  BY DEF Inv
<1>2. /\ pc \in [Threads -> Labels] /\ todo \in [Threads -> Seq(Entries)]
      /\ cont \in [Threads -> Labels \union {"none"}]
  BY <1>1, ThreadTypes
<1>3. /\ pc' = [pc EXCEPT ![t] = "trigger"] /\ todo' = [todo EXCEPT ![t] = es]
      /\ cont' = [cont EXCEPT ![t] = c]
  BY DEF TriggerAll, Goto
<1>4. /\ pc'[t] = "trigger" /\ todo'[t] = es /\ cont'[t] = c
      /\ \A u \in Threads : u # t => pc'[u] = pc[u] /\ todo'[u] = todo[u] /\ cont'[u] = cont[u]
  BY <1>2, <1>3
<1>5. c \in Labels
  BY DEF Returns, Labels
<1>6. TypeOK'
  <2>1. pc' \in [Threads -> Labels]
    BY <1>2, <1>3 DEF Labels
  <2>2. todo' \in [Threads -> Seq(Entries)]
    BY <1>2, <1>3
  <2>3. cont' \in [Threads -> Labels \union {"none"}]
    BY <1>2, <1>3, <1>5
  <2>4. /\ shut \subseteq Dispatchers /\ qshut \subseteq Dispatchers
        /\ running \in [Dispatchers -> Nat] /\ nThreads \in Nat
    BY <1>1 DEF TypeOK
  <2> QED BY <2>1, <2>2, <2>3, <2>4, <1>1, TypeFrame DEF Rest
<1>7. Control'
  <2>1. pc'[Main] \in MainLabels /\ pc'[Listener] \in ListenerLabels
    BY <1>1, <1>4, Kinds DEF Control, MainLabels, ListenerLabels, Pushing
  <2>2. \A u \in Consumers : pc'[u] \in ConsumerLabels
    BY <1>1, <1>4, Kinds DEF Control, ConsumerLabels, Pushing
  <2>3. \A u \in Threads : pc'[u] \in Pushing => todo'[u] # <<>>
    BY <1>1, <1>4 DEF Control
  <2>4. /\ pc'[Main] \in Pushing => cont'[Main] \in {"load", "poll", "drain"}
        /\ pc'[Listener] \in Pushing => cont'[Listener] = "accept"
        /\ \A u \in Consumers : pc'[u] \in Pushing => cont'[u] = "check"
    BY <1>1, <1>4, Kinds DEF Control, Returns
  <2> QED BY <2>1, <2>2, <2>3, <2>4 DEF Control
<1>8. Booting' <=> Booting
  BY <1>1, <1>4, Kinds DEF Booting, Pushing
<1>9. BootInv' /\ CountInv' /\ NoCodeInUse'
  BY <1>3, <1>8, MoveStep DEF Labels
<1>10. StopInv'
  BY <1>4, Kinds DEF Inv, StopInv
<1>11. RouteInv'
  <2>1. ASSUME NEW u \in Threads, NEW k \in 1 .. Len(todo'[u])
        PROVE  /\ todo'[u][k].event = "again" => todo'[u][k].disp = "transport"
               /\ todo'[u][k].disp = "transport" => u \in Workers \union {Main}
    <3>1. CASE u = t
      BY <2>1, <3>1, <1>4
    <3>2. CASE u # t
      BY <2>1, <3>2, <1>4 DEF Inv, RouteInv
    <3> QED BY <3>1, <3>2
  <2>2. ASSUME cont'[Main] = "load", NEW k \in 1 .. Len(todo'[Main])
        PROVE  todo'[Main][k].disp = "globald"
    <3>1. CASE t = Main
      BY <2>2, <3>1, <1>4
    <3>2. CASE t # Main
      BY <2>2, <3>2, <1>4, Kinds DEF Inv, RouteInv
    <3> QED BY <3>1, <3>2
  <2> QED BY <2>1, <2>2 DEF RouteInv, Rest
<1> QED BY <1>6, <1>7, <1>9, <1>10, <1>11 DEF Inv

-----------------------------------------------------------------------------
(* dispatcher::loop and the events.                                        *)

\* A consumer pops an event, which is then not in the queue any more.
LEMMA PopInv ==
    ASSUME Inv, NEW t \in Consumers, Pop(t)
    PROVE  Inv'
<1>1. TypeOK /\ t \in Threads /\ Of(t) \in Dispatchers
  BY Kinds DEF Inv, Of, Dispatchers
<1>2. /\ pc[t] = "pop" /\ pc' = [pc EXCEPT ![t] = "run"]
      /\ UNCHANGED <<shut, qshut, running, nThreads, registered, todo, cont, asked, received,
                     streams>>
  BY DEF Pop, At, Goto, countVars
<1>3. /\ queue[Of(t)] # <<>> /\ queue' = [queue EXCEPT ![Of(t)] = Tail(queue[Of(t)])]
      /\ ev' = [ev EXCEPT ![t] = Head(queue[Of(t)])]
  BY DEF Pop
<1>4. /\ queue \in [Dispatchers -> Seq(Events)] /\ ev \in [Threads -> Events \union {"none"}]
      /\ \A d \in Dispatchers : QueueBound(d)
  BY <1>1 DEF TypeOK
<1>5. queue[Of(t)] \in Seq(Events)
  BY <1>1, <1>4
<1>6. /\ Head(queue[Of(t)]) \in Events /\ Head(queue[Of(t)]) = queue[Of(t)][1]
      /\ Tail(queue[Of(t)]) \in Seq(Events)
      /\ Len(queue[Of(t)]) \in Nat \ {0} /\ Len(Tail(queue[Of(t)])) = Len(queue[Of(t)]) - 1
      /\ \A k \in 1 .. Len(queue[Of(t)]) - 1 : Tail(queue[Of(t)])[k] = queue[Of(t)][k + 1]
  BY <1>3, <1>5, TailFacts
<1>7. queue' \in [Dispatchers -> Seq(Events)]
  BY <1>3, <1>4, <1>6
<1>8. \A d \in Dispatchers : QueueBound(d)'
  <2>1. TAKE d \in Dispatchers
  <2>2. Len(queue[d]) <= Capacity[d] /\ Capacity[d] \in Nat
    BY <1>4, CapacityAssumption DEF QueueBound
  <2>3. CASE d # Of(t)
    BY <2>2, <2>3, <1>3, <1>4 DEF QueueBound
  <2>4. CASE d = Of(t)
    <3>1. queue'[d] = Tail(queue[d])
      BY <2>4, <1>1, <1>3, <1>4
    <3>2. \A n, m, c \in Int : m = n - 1 /\ n <= c => m <= c
      OBVIOUS
    <3>3. Len(queue[d]) \in Int /\ Len(Tail(queue[d])) = Len(queue[d]) - 1 /\ Capacity[d] \in Int
      BY <2>2, <2>4, <1>6
    <3>4. Len(Tail(queue[d])) \in Int
      BY <3>3
    <3>5. Len(Tail(queue[d])) <= Capacity[d]
      BY <2>2, <3>2, <3>3, <3>4
    <3> QED BY <3>1, <3>5 DEF QueueBound
  <2> QED BY <2>3, <2>4
<1>9. \A k \in 1 .. Len(queue'["globald"]) : queue'["globald"][k] # "again"
  <2>1. \A k \in 1 .. Len(queue["globald"]) : queue["globald"][k] # "again"
    BY DEF Inv, RouteInv
  <2>2. CASE Of(t) # "globald"
    BY <2>1, <2>2, <1>3, <1>4
  <2>3. CASE Of(t) = "globald"
    <3>1. queue'["globald"] = Tail(queue["globald"])
      BY <2>3, <1>1, <1>3, <1>4
    <3>2. TAKE k \in 1 .. Len(queue'["globald"])
    <3>3. k + 1 \in 1 .. Len(queue["globald"])
          /\ Tail(queue["globald"])[k] = queue["globald"][k + 1]
      BY <3>1, <2>3, <1>6
    <3> QED BY <3>1, <3>3, <2>1
  <2> QED BY <2>2, <2>3
<1>10. ev' \in [Threads -> Events \union {"none"}]
  BY <1>3, <1>4, <1>6
<1>11. \A g \in Globals : ev'[g] # "again"
  <2>1. 1 \in 1 .. Len(queue[Of(t)])
    BY <1>6
  <2>2. t \in Globals => Head(queue[Of(t)]) # "again"
    BY <2>1, <1>6, Kinds DEF Inv, RouteInv
  <2>3. \A u \in Threads : ev'[u] = IF u = t THEN Head(queue[Of(t)]) ELSE ev[u]
    BY <1>3, <1>4
  <2> QED BY <2>2, <2>3, Kinds DEF Inv, RouteInv
<1>12. Rest
  BY <1>2, <1>7, <1>8, <1>9, <1>10, <1>11, RestKept DEF Rest
<1>13. "run" \in Places(t)
  BY Kinds DEF Places
<1> QED BY <1>1, <1>2, <1>12, <1>13, GotoStep DEF Pushing

\* Nothing to pop, and the loop's condition.
LEMMA LoopInv ==
    ASSUME Inv, NEW t \in Consumers, PopNothing(t) \/ LoopAgain(t)
    PROVE  Inv'
<1>1. t \in Threads
  BY Kinds
<1>2. /\ pc[t] \in {"pop", "check"}
      /\ UNCHANGED <<queue, ev, registered, asked, received, streams>>
      /\ UNCHANGED <<shut, qshut, running, nThreads, todo, cont>>
  BY DEF PopNothing, LoopAgain, At, dispVars, countVars
<1>3. PICK l \in {"pop", "check"} : pc' = [pc EXCEPT ![t] = l]
  BY DEF PopNothing, LoopAgain, Goto
<1>4. l \in Places(t)
  BY <1>3, Kinds DEF Places
<1>5. Rest
  BY <1>2, RestKept DEF Rest
<1> QED BY <1>1, <1>2, <1>3, <1>4, <1>5, GotoStep DEF Pushing

\* A consumer leaves: there is one less of its dispatcher, which is being stopped.
LEMMA LoopEndInv ==
    ASSUME Inv, NEW t \in Consumers, LoopEnd(t)
    PROVE  Inv'
<1>1. TypeOK /\ Control /\ t \in Threads
  BY Kinds DEF Inv
<1>2. /\ pc[t] = "check" /\ pc' = [pc EXCEPT ![t] = "exited"] /\ Of(t) \in shut
      /\ running' = [running EXCEPT ![Of(t)] = running[Of(t)] - 1] /\ nThreads' = nThreads - 1
      /\ UNCHANGED <<queue, shut, qshut, registered, ev, todo, cont, asked, received, streams>>
  BY DEF LoopEnd, At, Goto, countVars
<1>3. /\ pc \in [Threads -> Labels] /\ ev \in [Threads -> Events \union {"none"}]
      /\ todo \in [Threads -> Seq(Entries)] /\ cont \in [Threads -> Labels \union {"none"}]
  BY <1>1, ThreadTypes
<1>4. pc'[t] = "exited" /\ \A u \in Threads : u # t => pc'[u] = pc[u]
  BY <1>1, <1>2, <1>3
<1>5. /\ IsFiniteSet(Live(Globals)) /\ IsFiniteSet(Live(Workers))
      /\ Cardinality(Live(Globals)) \in Nat /\ Cardinality(Live(Workers)) \in Nat
  BY LiveFinite
<1>6. /\ running["globald"] = Cardinality(Live(Globals))
      /\ running["transport"] = Cardinality(Live(Workers))
      /\ nThreads = Cardinality(Live(Globals)) + Cardinality(Live(Workers))
      /\ running \in [Dispatchers -> Nat] /\ nThreads \in Nat
  BY <1>1 DEF Inv, CountInv, TypeOK
<1>7. CountInv' /\ running' \in [Dispatchers -> Nat] /\ nThreads' \in Nat
  <2>1. CASE t \in Globals
    <3>1. /\ Of(t) = "globald" /\ t \in Live(Globals)
          /\ Live(Workers)' = Live(Workers) /\ Live(Globals)' = Live(Globals) \ {t}
      BY <2>1, <1>2, <1>4, Kinds DEF Live
    <3>2. Cardinality(Live(Globals) \ {t}) = Cardinality(Live(Globals)) - 1
          /\ IsFiniteSet(Live(Globals) \ {t})
      BY <3>1, <1>5, FS_RemoveElement
    <3>3. Cardinality(Live(Globals) \ {t}) \in Nat
      BY <3>2, FS_CardinalityType
    <3>4. /\ running'["globald"] = running["globald"] - 1
          /\ running'["transport"] = running["transport"]
      BY <3>1, <1>2, <1>6 DEF Dispatchers
    <3>5. CountInv'
      BY <3>1, <3>2, <3>4, <1>2, <1>5, <1>6 DEF CountInv
    <3>6. running["globald"] - 1 \in Nat /\ nThreads - 1 \in Nat
      BY <3>2, <3>3, <1>5, <1>6
    <3> QED BY <3>1, <3>5, <3>6, <1>2, <1>6 DEF Dispatchers
  <2>2. CASE t \in Workers
    <3>1. /\ Of(t) = "transport" /\ t \in Live(Workers)
          /\ Live(Globals)' = Live(Globals) /\ Live(Workers)' = Live(Workers) \ {t}
      BY <2>2, <1>2, <1>4, Kinds DEF Live
    <3>2. Cardinality(Live(Workers) \ {t}) = Cardinality(Live(Workers)) - 1
          /\ IsFiniteSet(Live(Workers) \ {t})
      BY <3>1, <1>5, FS_RemoveElement
    <3>3. Cardinality(Live(Workers) \ {t}) \in Nat
      BY <3>2, FS_CardinalityType
    <3>4. /\ running'["transport"] = running["transport"] - 1
          /\ running'["globald"] = running["globald"]
      BY <3>1, <1>2, <1>6 DEF Dispatchers
    <3>5. CountInv'
      BY <3>1, <3>2, <3>4, <1>2, <1>5, <1>6 DEF CountInv
    <3>6. running["transport"] - 1 \in Nat /\ nThreads - 1 \in Nat
      BY <3>2, <3>3, <1>5, <1>6
    <3> QED BY <3>1, <3>5, <3>6, <1>2, <1>6 DEF Dispatchers
  <2> QED BY <2>1, <2>2, Kinds
<1>8. TypeOK'
  <2>1. pc' \in [Threads -> Labels]
    BY <1>2, <1>3 DEF Labels
  <2>2. shut \subseteq Dispatchers /\ qshut \subseteq Dispatchers
    BY <1>1 DEF TypeOK
  <2>3. Rest
    BY <1>2, RestKept DEF Rest
  <2> QED BY <2>1, <2>2, <2>3, <1>1, <1>2, <1>3, <1>7, TypeFrame DEF Rest
<1>9. Control'
  BY <1>1, <1>2, <1>4, Kinds DEF Control, ConsumerLabels, Pushing
<1>10. BootInv'
  <2>1. Booting' <=> Booting
    BY <1>2, <1>4, Kinds DEF Booting
  <2> QED BY <2>1, <1>2, <1>4, Kinds DEF Inv, BootInv, Booted
<1>11. StopInv'
  BY <1>2, <1>4, Kinds DEF Inv, StopInv
<1>12. RouteInv'
  BY <1>2 DEF Inv, RouteInv
<1>13. NoCodeInUse'
  BY <1>4, Kinds DEF Inv, NoCodeInUse
<1> QED BY <1>7, <1>8, <1>9, <1>10, <1>11, <1>12, <1>13 DEF Inv

\* A sequence of one entry, as the provers need it.
LEMMA SingleFacts ==
    ASSUME NEW S, NEW x \in S
    PROVE  /\ <<x>> \in Seq(S) /\ <<x>> # <<>> /\ Len(<<x>>) = 1
           /\ \A k \in 1 .. Len(<<x>>) : <<x>>[k] = x
  OBVIOUS

\* What is left of the state to look at when a consumer executes an event.
LEMMA ExecutesRest ==
    ASSUME Inv, NEW t \in Consumers, NEW e, Executes(t, e)
    PROVE  /\ t \in Threads /\ pc[t] = "run" /\ ev[t] = e
           /\ ev' \in [Threads -> Events \union {"none"}] /\ \A g \in Globals : ev'[g] # "again"
           /\ {"check", "stop"} \subseteq Places(t) /\ Returns(t) = {"check"}
<1>1. t \in Threads /\ pc[t] = "run" /\ ev[t] = e /\ ev' = [ev EXCEPT ![t] = "none"]
  BY Kinds DEF Executes, At
<1>2. ev \in [Threads -> Events \union {"none"}] /\ \A g \in Globals : ev[g] # "again"
  BY DEF Inv, TypeOK, RouteInv
<1>3. ev' \in [Threads -> Events \union {"none"}]
  BY <1>1, <1>2
<1>4. \A u \in Threads : ev'[u] = IF u = t THEN "none" ELSE ev[u]
  BY <1>1, <1>2
<1>5. \A g \in Globals : ev'[g] # "again"
  BY <1>2, <1>4, Kinds
<1> QED BY <1>1, <1>3, <1>5, Kinds DEF Places, Returns

\* A system event becomes one of its handler, on the global dispatcher.
LEMMA RunSystemEventInv ==
    ASSUME Inv, NEW t \in Consumers, RunSystemEvent(t)
    PROVE  Inv'
<1>1. PICK e \in SystemEvents :
         /\ Executes(t, e)
         /\ IF e \in DOMAIN HandlerOf /\ HandlerOf[e] \in registered
            THEN TriggerAll(t, <<On("globald", HandlerOf[e])>>, "check")
            ELSE Goto(t, "check") /\ UNCHANGED <<todo, cont>>
  BY DEF RunSystemEvent
<1>2. /\ UNCHANGED <<shut, qshut, running, nThreads>>
      /\ UNCHANGED <<queue, registered, asked, received, streams>>
  BY DEF RunSystemEvent, dispVars, countVars
<1>3. /\ t \in Threads /\ pc[t] = "run"
      /\ ev' \in [Threads -> Events \union {"none"}] /\ \A g \in Globals : ev'[g] # "again"
      /\ "check" \in Places(t) /\ "check" \in Returns(t)
  BY <1>1, ExecutesRest
<1>4. Rest
  BY <1>2, <1>3, RestKept DEF Rest
<1>5. CASE e \in DOMAIN HandlerOf /\ HandlerOf[e] \in registered
  <2> DEFINE x == On("globald", HandlerOf[e])
  <2>1. HandlerOf[e] \in Handlers /\ HandlerOf[e] # "again"
    BY <1>5 DEF Handlers, HandlerOf
  <2>2. x \in Entries /\ x.disp = "globald" /\ x.event # "again"
    BY <2>1 DEF On, Entries, Events, Dispatchers
  <2>3. TriggerAll(t, <<x>>, "check")
    BY <1>1, <1>5
  <2> HIDE DEF x
  <2>4. /\ <<x>> \in Seq(Entries) /\ <<x>> # <<>> /\ Len(<<x>>) = 1
        /\ \A k \in 1 .. Len(<<x>>) : <<x>>[k] = x
    BY <2>2, SingleFacts
  <2> QED BY <2>2, <2>3, <2>4, <1>2, <1>3, <1>4, TriggerAllStep DEF Pushing
<1>6. CASE ~(e \in DOMAIN HandlerOf /\ HandlerOf[e] \in registered)
  BY <1>1, <1>2, <1>3, <1>4, <1>6, GotoStep DEF Pushing, Goto
<1> QED BY <1>5, <1>6

\* The handlers unregister themselves.
LEMMA RunHandlerInv ==
    ASSUME Inv, NEW t \in Consumers, RunStopThreads(t) \/ RunMinionShutdown(t)
    PROVE  Inv'
<1>1. PICK e : Executes(t, e)
  BY DEF RunStopThreads, RunMinionShutdown
<1>2. /\ UNCHANGED <<shut, qshut, running, nThreads, todo, cont>>
      /\ UNCHANGED <<queue, asked, received, streams>>
      /\ registered' \subseteq registered
  BY DEF RunStopThreads, RunMinionShutdown, countVars
<1>3. PICK l \in {"stop", "check"} : pc' = [pc EXCEPT ![t] = l]
  BY DEF RunStopThreads, RunMinionShutdown, Goto
<1>4. /\ t \in Threads /\ pc[t] = "run" /\ l \in Places(t)
      /\ ev' \in [Threads -> Events \union {"none"}] /\ \A g \in Globals : ev'[g] # "again"
  BY <1>1, <1>3, ExecutesRest
<1>5. registered' \subseteq Handlers
  BY <1>2 DEF Inv, TypeOK
<1>6. Rest
  BY <1>2, <1>4, <1>5, RestKept DEF Rest
<1> QED BY <1>2, <1>3, <1>4, <1>6, GotoStep DEF Pushing

\* A transport event that runs once, and the system event of a stream it drops.
LEMMA RunOnceInv ==
    ASSUME Inv, NEW t \in Consumers, RunOnce(t)
    PROVE  Inv'
<1>1. Executes(t, "once")
  BY DEF RunOnce
<1>2. /\ UNCHANGED <<shut, qshut, running, nThreads>>
      /\ UNCHANGED <<queue, registered, asked, received>>
  BY DEF RunOnce, dispVars
<1>3. /\ t \in Threads /\ pc[t] = "run"
      /\ ev' \in [Threads -> Events \union {"none"}] /\ \A g \in Globals : ev'[g] # "again"
      /\ "check" \in Places(t) /\ "check" \in Returns(t)
  BY <1>1, ExecutesRest
<1>4. streams' \in 0 .. MaxStream
  BY BoundAssumption DEF RunOnce, Inv, TypeOK
<1>5. Rest
  BY <1>2, <1>3, <1>4, RestKept DEF Rest
<1>6. CASE Goto(t, "check") /\ UNCHANGED <<todo, cont, streams>>
  BY <1>2, <1>3, <1>5, <1>6, GotoStep DEF Pushing, Goto
<1>7. CASE TriggerAll(t, <<On("globald", "stream")>>, "check")
  <2> DEFINE x == On("globald", "stream")
  <2>1. x \in Entries /\ x.disp = "globald" /\ x.event # "again"
    BY DEF On, Entries, Events, SystemEvents, Dispatchers
  <2>2. TriggerAll(t, <<x>>, "check")
    BY <1>7
  <2> HIDE DEF x
  <2>3. /\ <<x>> \in Seq(Entries) /\ <<x>> # <<>> /\ Len(<<x>>) = 1
        /\ \A k \in 1 .. Len(<<x>>) : <<x>>[k] = x
    BY <2>1, SingleFacts
  <2> QED BY <2>1, <2>2, <2>3, <1>2, <1>3, <1>5, TriggerAllStep DEF Pushing
<1> QED BY <1>6, <1>7 DEF RunOnce

\* An event that is triggered again is one of the transport dispatcher.
LEMMA RunAgainInv ==
    ASSUME Inv, NEW t \in Consumers, RunAgain(t)
    PROVE  Inv'
<1>1. Executes(t, "again")
  BY DEF RunAgain
<1>2. /\ UNCHANGED <<shut, qshut, running, nThreads>>
      /\ UNCHANGED <<queue, registered, asked, received, streams>>
  BY DEF RunAgain, dispVars, countVars
<1>3. /\ t \in Threads /\ pc[t] = "run" /\ ev[t] = "again"
      /\ ev' \in [Threads -> Events \union {"none"}] /\ \A g \in Globals : ev'[g] # "again"
      /\ "check" \in Places(t) /\ "check" \in Returns(t)
  BY <1>1, ExecutesRest
<1>4. t \in Workers
  BY <1>3, Kinds DEF Inv, RouteInv
<1>5. Rest
  BY <1>2, <1>3, RestKept DEF Rest
<1>6. CASE Goto(t, "check") /\ UNCHANGED <<todo, cont>>
  BY <1>2, <1>3, <1>5, <1>6, GotoStep DEF Pushing, Goto
<1>7. CASE TriggerAll(t, <<On("transport", "again")>>, "check")
  <2> DEFINE x == On("transport", "again")
  <2>1. x \in Entries /\ x.disp = "transport"
    BY DEF On, Entries, Events, Dispatchers
  <2>2. TriggerAll(t, <<x>>, "check")
    BY <1>7
  <2> HIDE DEF x
  <2>3. /\ <<x>> \in Seq(Entries) /\ <<x>> # <<>> /\ Len(<<x>>) = 1
        /\ \A k \in 1 .. Len(<<x>>) : <<x>>[k] = x
    BY <2>1, SingleFacts
  <2> QED BY <2>1, <2>2, <2>3, <1>2, <1>3, <1>4, <1>5, TriggerAllStep DEF Pushing
<1> QED BY <1>6, <1>7 DEF RunAgain

\* Every step of a consumer keeps the invariant.
LEMMA ConsumerStepInv ==
    ASSUME Inv, NEW t \in Consumers, ConsumerStep(t)
    PROVE  Inv'
  BY PopInv, LoopInv, LoopEndInv, RunSystemEventInv, RunHandlerInv, RunOnceInv, RunAgainInv
     DEF ConsumerStep

-----------------------------------------------------------------------------
(* zpt::runtime::run, and the listener.                                    *)

\* The triggers of the main thread and of the listener.
LEMMA MainTriggerInv ==
    ASSUME Inv, Start \/ PollReceive \/ PollEnd \/ Accept
    PROVE  Inv'
<1>1. /\ UNCHANGED <<shut, qshut, running, nThreads>>
      /\ UNCHANGED <<queue, ev, registered, asked>>
  BY DEF Start, PollReceive, PollEnd, Accept, dispVars, countVars
<1>2. received' \in 0 .. MaxReceive /\ streams' \in 0 .. MaxStream
  BY BoundAssumption DEF Start, PollReceive, PollEnd, Accept, countVars, Inv, TypeOK
<1>3. Rest
  BY <1>1, <1>2, RestKept DEF Rest
<1>4. Main \in Threads /\ Listener \in Threads /\ Main # Listener
  BY Kinds
<1>5. CASE Start
  <2> DEFINE x == On("globald", "BOOTING")
  <2>1. x \in Entries /\ x.disp = "globald" /\ x.event # "again"
    BY DEF On, Entries, Events, SystemEvents, Dispatchers
  <2>2. TriggerAll(Main, <<x>>, "load") /\ pc[Main] = "boot"
    BY <1>5 DEF Start, At
  <2> HIDE DEF x
  <2>3. /\ <<x>> \in Seq(Entries) /\ <<x>> # <<>> /\ Len(<<x>>) = 1
        /\ \A k \in 1 .. Len(<<x>>) : <<x>>[k] = x
    BY <2>1, SingleFacts
  <2>4. "load" \in Returns(Main)
    BY DEF Returns
  <2> QED BY <2>1, <2>2, <2>3, <2>4, <1>1, <1>3, <1>4, TriggerAllStep DEF Pushing
<1>6. CASE PollReceive
  <2>1. PICK e \in {"once", "again"} : TriggerAll(Main, <<On("transport", e)>>, "poll")
    BY <1>6 DEF PollReceive
  <2> DEFINE x == On("transport", e)
  <2>2. x \in Entries /\ x.disp = "transport"
    BY <2>1 DEF On, Entries, Events, Dispatchers
  <2>3. TriggerAll(Main, <<x>>, "poll") /\ pc[Main] = "poll"
    BY <2>1, <1>6 DEF PollReceive, At
  <2> HIDE DEF x
  <2>4. /\ <<x>> \in Seq(Entries) /\ <<x>> # <<>> /\ Len(<<x>>) = 1
        /\ \A k \in 1 .. Len(<<x>>) : <<x>>[k] = x
    BY <2>2, SingleFacts
  <2>5. "poll" \in Returns(Main)
    BY DEF Returns
  <2> QED BY <2>2, <2>3, <2>4, <2>5, <1>1, <1>3, <1>4, TriggerAllStep DEF Pushing
<1>7. CASE PollEnd
  <2> DEFINE x == On("globald", "SHUTTING_DOWN")
             y == On("globald", "EXITING")
  <2>1. /\ x \in Entries /\ x.disp = "globald" /\ x.event # "again"
        /\ y \in Entries /\ y.disp = "globald" /\ y.event # "again"
    BY DEF On, Entries, Events, SystemEvents, Dispatchers
  <2>2. TriggerAll(Main, <<x, y>>, "drain") /\ pc[Main] = "poll"
    BY <1>7 DEF PollEnd, At
  <2> HIDE DEF x, y
  <2>3. /\ <<x, y>> \in Seq(Entries) /\ <<x, y>> # <<>>
        /\ \A k \in 1 .. Len(<<x, y>>) : <<x, y>>[k] \in {x, y}
    BY <2>1
  <2>4. "drain" \in Returns(Main)
    BY DEF Returns
  <2> QED BY <2>1, <2>2, <2>3, <2>4, <1>1, <1>3, <1>4, TriggerAllStep DEF Pushing
<1>8. CASE Accept
  <2> DEFINE x == On("globald", "stream")
  <2>1. x \in Entries /\ x.disp = "globald" /\ x.event # "again"
    BY DEF On, Entries, Events, SystemEvents, Dispatchers
  <2>2. TriggerAll(Listener, <<x>>, "accept") /\ pc[Listener] = "accept"
    BY <1>8 DEF Accept, At
  <2> HIDE DEF x
  <2>3. /\ <<x>> \in Seq(Entries) /\ <<x>> # <<>> /\ Len(<<x>>) = 1
        /\ \A k \in 1 .. Len(<<x>>) : <<x>>[k] = x
    BY <2>1, SingleFacts
  <2>4. "accept" \in Returns(Listener)
    BY <1>4 DEF Returns
  <2> QED BY <2>1, <2>2, <2>3, <2>4, <1>1, <1>3, <1>4, TriggerAllStep DEF Pushing
<1> QED BY <1>5, <1>6, <1>7, <1>8

\* The end of the wait for the global queue to be empty.
LEMMA DrainedInv ==
    ASSUME Inv, Drained
    PROVE  Inv'
<1>1. /\ pc[Main] = "drain" /\ pc' = [pc EXCEPT ![Main] = "stop"]
      /\ UNCHANGED <<shut, qshut, running, nThreads, todo, cont>>
      /\ UNCHANGED <<queue, ev, registered, asked, received, streams>>
  BY DEF Drained, At, Goto, dispVars, countVars
<1>2. Rest
  BY <1>1, RestKept DEF Rest
<1>3. "stop" \in Places(Main) /\ Main \in Threads
  BY Kinds DEF Places
<1> QED BY <1>1, <1>2, <1>3, GotoStep DEF Pushing

\* What a step of the main thread or the listener that triggers nothing and
\* counts nothing keeps.
LEMMA EndFrame ==
    ASSUME Inv, pc' \in [Threads -> Labels], UNCHANGED <<dispVars, ev, todo, cont, countVars>>
    PROVE  TypeOK' /\ RouteInv'
<1>1. TypeOK /\ UNCHANGED <<queue, shut, qshut, running, nThreads, registered, ev, todo, cont,
                            asked, received, streams>>
  BY DEF Inv, dispVars, countVars
<1>2. TypeOK'
  BY <1>1 DEF TypeOK, QueueBound
<1> QED BY <1>1, <1>2 DEF Inv, RouteInv

\* join_threads returns when the counter of threads is zero: then every consumer
\* has left, because the plugins have been loaded.
LEMMA JoinedInv ==
    ASSUME Inv, Joined
    PROVE  Inv'
<1>1. /\ TypeOK /\ Control /\ pc[Main] = "join" /\ nThreads = 0
      /\ pc' = [pc EXCEPT ![Main] = "unload"]
      /\ UNCHANGED <<dispVars, ev, todo, cont, countVars>>
      /\ UNCHANGED <<shut, qshut, running, nThreads, todo, cont>>
  BY DEF Inv, Joined, At, Goto, dispVars
<1>2. pc \in [Threads -> Labels] /\ Main \in Threads
  BY <1>1, ThreadTypes, Kinds
<1>3. pc'[Main] = "unload" /\ \A u \in Threads : u # Main => pc'[u] = pc[u]
  BY <1>1, <1>2
<1>4. TypeOK' /\ RouteInv'
  <2>1. pc' \in [Threads -> Labels]
    BY <1>1, <1>2 DEF Labels
  <2> QED BY <2>1, <1>1, EndFrame
<1>5. Control'
  BY <1>1, <1>3, Kinds DEF Control, MainLabels, Pushing
<1>6. Live(Globals)' = Live(Globals) /\ Live(Workers)' = Live(Workers)
  BY <1>3, Kinds DEF Live
<1>7. CountInv'
  BY <1>1, <1>6 DEF Inv, CountInv
<1>8. Booted /\ BootInv'
  <2>1. ~Booting /\ ~Booting'
    BY <1>1, <1>3 DEF Booting, Pushing
  <2> QED BY <2>1, <1>3, Kinds DEF Inv, BootInv, Booted
<1>9. StopInv'
  BY <1>1, <1>3, Kinds DEF Inv, StopInv
<1>10. NoCodeInUse'
  <2>1. Cardinality(Live(Globals)) = 0 /\ Cardinality(Live(Workers)) = 0
    BY <1>1, LiveFinite DEF Inv, CountInv
  <2>2. Live(Globals) = {} /\ Live(Workers) = {}
    BY <2>1, LiveFinite, FS_EmptySet
  <2>3. \A u \in Consumers : pc[u] = "exited"
    BY <2>2, <1>8, Kinds DEF Live, Inv, BootInv
  <2> QED BY <2>3, <1>3, Kinds DEF NoCodeInUse
<1> QED BY <1>4, <1>5, <1>7, <1>8, <1>9, <1>10 DEF Inv

\* The plugins are unloaded: the listener has left before its code is unmapped.
LEMMA UnloadInv ==
    ASSUME Inv, Unload
    PROVE  Inv'
<1>1. /\ TypeOK /\ Control /\ pc[Main] = "unload" /\ pc[Listener] = "accept"
      /\ pc' = [pc EXCEPT ![Main] = "done", ![Listener] = "exited"]
      /\ UNCHANGED <<dispVars, ev, todo, cont, countVars>>
      /\ UNCHANGED <<shut, qshut, running, nThreads, todo, cont>>
  BY DEF Inv, Unload, At, dispVars
<1>2. pc \in [Threads -> Labels] /\ Main \in Threads /\ Listener \in Threads /\ Main # Listener
  BY <1>1, ThreadTypes, Kinds
<1>3. /\ pc'[Main] = "done" /\ pc'[Listener] = "exited"
      /\ \A u \in Threads : u # Main /\ u # Listener => pc'[u] = pc[u]
  BY <1>1, <1>2
<1>4. TypeOK' /\ RouteInv'
  <2>1. pc' \in [Threads -> Labels]
    BY <1>1, <1>2 DEF Labels
  <2> QED BY <2>1, <1>1, EndFrame
<1>5. Control'
  BY <1>1, <1>3, Kinds DEF Control, MainLabels, ListenerLabels, Pushing
<1>6. Live(Globals)' = Live(Globals) /\ Live(Workers)' = Live(Workers)
  BY <1>3, Kinds DEF Live
<1>7. CountInv'
  BY <1>1, <1>6 DEF Inv, CountInv
<1>8. BootInv'
  <2>1. ~Booting /\ ~Booting'
    BY <1>1, <1>3 DEF Booting, Pushing
  <2> QED BY <2>1, <1>1, <1>3, Kinds DEF Inv, BootInv, Booted
<1>9. StopInv'
  BY <1>1, <1>3, Kinds DEF Inv, StopInv
<1>10. NoCodeInUse'
  BY <1>1, <1>3, Kinds DEF Inv, NoCodeInUse
<1> QED BY <1>4, <1>5, <1>7, <1>8, <1>9, <1>10 DEF Inv

\* The plugins are loaded: the consumers of the transport dispatcher are counted,
\* and exist.
LEMMA BootStepInv ==
    ASSUME Inv, Boot
    PROVE  Inv'
<1> DEFINE x == On("globald", "FINISHED_BOOT")
<1>1. /\ TypeOK /\ Control /\ pc[Main] = "load" /\ registered' = Handlers
      /\ running' = [running EXCEPT !["transport"] = Cardinality(Workers)]
      /\ nThreads' = nThreads + Cardinality(Workers)
      /\ todo' = [todo EXCEPT ![Main] = <<x>>] /\ cont' = [cont EXCEPT ![Main] = "poll"]
      /\ UNCHANGED <<queue, ev, asked, received, streams>> /\ UNCHANGED <<shut, qshut>>
  BY DEF Inv, Boot, At, countVars
<1>2. x \in Entries /\ x.disp = "globald" /\ x.event # "again"
  BY DEF On, Entries, Events, SystemEvents, Dispatchers
<1> HIDE DEF x
<1>3. /\ <<x>> \in Seq(Entries) /\ <<x>> # <<>> /\ Len(<<x>>) = 1
      /\ \A k \in 1 .. Len(<<x>>) : <<x>>[k] = x
  BY <1>2, SingleFacts
<1>4. /\ pc \in [Threads -> Labels] /\ todo \in [Threads -> Seq(Entries)]
      /\ cont \in [Threads -> Labels \union {"none"}]
      /\ running \in [Dispatchers -> Nat] /\ nThreads \in Nat
      /\ Main \in Threads /\ Listener \in Threads /\ Main # Listener
  BY <1>1, ThreadTypes, Kinds DEF TypeOK
<1>5. /\ pc'[Main] = "trigger" /\ pc'[Listener] = "accept"
      /\ \A w \in Workers : pc'[w] = "pop"
      /\ \A g \in Globals : pc'[g] = pc[g]
  BY Kinds DEF Boot
<1>6. /\ todo'[Main] = <<x>> /\ cont'[Main] = "poll"
      /\ \A u \in Threads : u # Main => todo'[u] = todo[u] /\ cont'[u] = cont[u]
  BY <1>1, <1>4
<1>7. IsFiniteSet(Workers) /\ Cardinality(Workers) \in Nat
  BY FiniteAssumption, FS_CardinalityType
<1>8. TypeOK'
  <2>1. pc' \in [Threads -> Labels]
    <3> DEFINE f(t) == CASE t = Main     -> "trigger"
                         [] t = Listener -> "accept"
                         [] t \in Workers -> "pop"
                         [] t \in Globals -> pc[t]
    <3>1. pc' = [t \in Threads |-> f(t)]
      BY DEF Boot
    <3> HIDE DEF f
    <3>2. \A t \in Threads : pc'[t] = f(t) /\ pc'[t] \in Labels
      BY <3>1, <1>4, <1>5, Kinds DEF Labels
    <3> QED BY <3>1, <3>2
  <2>2. todo' \in [Threads -> Seq(Entries)]
    BY <1>1, <1>3, <1>4
  <2>3. cont' \in [Threads -> Labels \union {"none"}]
    BY <1>1, <1>4 DEF Labels
  <2>4. running' \in [Dispatchers -> Nat] /\ nThreads' \in Nat
    <3>1. \A m, n \in Nat : m + n \in Nat
      OBVIOUS
    <3>2. nThreads' \in Nat
      BY <3>1, <1>1, <1>4, <1>7
    <3>3. running' \in [Dispatchers -> Nat]
      BY <1>1, <1>4, <1>7, Zenon
    <3> QED BY <3>2, <3>3
  <2>5. shut \subseteq Dispatchers /\ qshut \subseteq Dispatchers
    BY <1>1 DEF TypeOK
  <2>6. Rest
    BY <1>1, RestKept DEF Rest
  <2> QED BY <2>1, <2>2, <2>3, <2>4, <2>5, <2>6, <1>1, TypeFrame DEF Rest
<1>9. Control'
  <2>1. pc'[Main] \in MainLabels /\ pc'[Listener] \in ListenerLabels
    BY <1>5 DEF MainLabels, ListenerLabels, Pushing
  <2>2. \A u \in Consumers : pc'[u] \in ConsumerLabels
    BY <1>1, <1>5, Kinds DEF Control, ConsumerLabels
  <2>3. \A u \in Threads : pc'[u] \in Pushing => todo'[u] # <<>>
    BY <1>1, <1>3, <1>5, <1>6, Kinds DEF Control, Pushing
  <2> QED BY <2>1, <2>2, <2>3, <1>1, <1>5, <1>6, Kinds DEF Control, Pushing
<1>10. BootInv'
  <2>1. ~Booting'
    BY <1>5, <1>6 DEF Booting
  <2> QED BY <2>1, <1>5 DEF Inv, BootInv, Booted
<1>11. CountInv'
  <2>1. pc[Listener] = "unborn"
    BY <1>1 DEF Inv, BootInv, Booted, Booting
  <2>2. Live(Workers) = {} /\ Live(Globals)' = Live(Globals) /\ Live(Workers)' = Workers
    BY <2>1, <1>5 DEF Inv, BootInv, Booted, Live
  <2>3. Cardinality(Live(Workers)) = 0
    BY <2>2, FS_EmptySet
  <2>4. running'["globald"] = running["globald"] /\ running'["transport"] = Cardinality(Workers)
    BY <1>1, <1>4 DEF Dispatchers
  <2>5. /\ running["globald"] = Cardinality(Live(Globals))
        /\ nThreads = Cardinality(Live(Globals)) + Cardinality(Live(Workers))
    BY DEF Inv, CountInv
  <2>6. \A m \in Nat : \A n : n = m + 0 => n = m
    OBVIOUS
  <2>7. nThreads = Cardinality(Live(Globals))
    BY <2>3, <2>5, <2>6, LiveFinite
  <2> QED BY <2>2, <2>4, <2>5, <2>7, <1>1 DEF CountInv
<1>12. StopInv'
  BY <1>1, <1>5, Kinds DEF Inv, StopInv
<1>13. RouteInv'
  <2>1. ASSUME NEW u \in Threads, NEW k \in 1 .. Len(todo'[u])
        PROVE  /\ todo'[u][k].event = "again" => todo'[u][k].disp = "transport"
               /\ todo'[u][k].disp = "transport" => u \in Workers \union {Main}
    <3>1. CASE u = Main
      BY <2>1, <3>1, <1>2, <1>3, <1>6
    <3>2. CASE u # Main
      BY <2>1, <3>2, <1>6 DEF Inv, RouteInv
    <3> QED BY <3>1, <3>2
  <2> QED BY <2>1, <1>1, <1>6 DEF Inv, RouteInv
<1>14. NoCodeInUse'
  BY <1>5 DEF NoCodeInUse
<1> QED BY <1>8, <1>9, <1>10, <1>11, <1>12, <1>13, <1>14 DEF Inv

\* Shutdown is asked for.
LEMMA AskInv ==
    ASSUME Inv, AskShutdown
    PROVE  Inv'
<1>1. UNCHANGED <<queue, shut, qshut, running, nThreads, registered, pc, ev, todo, cont,
                  received, streams>> /\ asked' = TRUE
  BY DEF AskShutdown, dispVars, threadVars
<1>2. TypeOK'
  BY <1>1 DEF Inv, TypeOK, QueueBound
<1> QED BY <1>1, <1>2 DEF Inv, Control, BootInv, Booted, Booting, CountInv, Live, StopInv, RouteInv,
                          NoCodeInUse

-----------------------------------------------------------------------------
(* The theorems.                                                           *)

\* The global dispatcher has its consumers when the process starts.
LEMMA InitInv == Init => Inv
<1> SUFFICES ASSUME Init PROVE Inv
  OBVIOUS
<1>1. /\ IsFiniteSet(Globals) /\ Cardinality(Globals) \in Nat
  BY FiniteAssumption, FS_CardinalityType
<1>2. /\ queue = [d \in Dispatchers |-> <<>>] /\ shut = {} /\ qshut = {} /\ registered = {}
      /\ running = [d \in Dispatchers |-> IF d = "globald" THEN Cardinality(Globals) ELSE 0]
      /\ nThreads = Cardinality(Globals)
      /\ asked = FALSE /\ received = 0 /\ streams = 0
  BY DEF Init
<1>3. /\ pc = [t \in Threads |-> IF t = Main THEN "boot"
                                 ELSE IF t \in Globals THEN "pop" ELSE "unborn"]
      /\ ev = [t \in Threads |-> "none"] /\ todo = [t \in Threads |-> <<>>]
      /\ cont = [t \in Threads |-> "none"]
  BY DEF Init
<1>4. \A t \in Threads : /\ ev[t] = "none" /\ todo[t] = <<>> /\ cont[t] = "none"
                         /\ pc[t] = IF t = Main THEN "boot"
                                    ELSE IF t \in Globals THEN "pop" ELSE "unborn"
  BY <1>3
<1>5. \A S : <<>> \in Seq(S) /\ Len(<<>>) = 0
  OBVIOUS
<1>6. TypeOK
  <2>1. queue \in [Dispatchers -> Seq(Events)]
    BY <1>2, <1>5
  <2>2. \A d \in Dispatchers : QueueBound(d)
    BY <1>2, <1>5, CapacityAssumption DEF QueueBound
  <2>3. running \in [Dispatchers -> Nat] /\ nThreads \in Nat
    BY <1>1, <1>2
  <2>4. pc \in [Threads -> Labels]
    BY <1>3 DEF Labels
  <2>5. ev \in [Threads -> Events \union {"none"}] /\ cont \in [Threads -> Labels \union {"none"}]
    BY <1>3
  <2>6. todo \in [Threads -> Seq([disp : Dispatchers, event : Events])]
    BY <1>3, <1>5
  <2>7. received \in 0 .. MaxReceive /\ streams \in 0 .. MaxStream
    BY <1>2, BoundAssumption
  <2> QED BY <2>1, <2>2, <2>3, <2>4, <2>5, <2>6, <2>7, <1>2 DEF TypeOK
<1>7. Control
  BY <1>4, Kinds DEF Control, Pushing, MainLabels, ListenerLabels, ConsumerLabels
<1>8. BootInv
  BY <1>4, Kinds DEF BootInv, Booted, Booting
<1>9. CountInv
  <2>1. Live(Globals) = Globals /\ Live(Workers) = {}
    BY <1>4, Kinds DEF Live
  <2>2. Cardinality(Live(Workers)) = 0
    BY <2>1, FS_EmptySet
  <2>3. running["globald"] = Cardinality(Globals) /\ running["transport"] = 0
    BY <1>2 DEF Dispatchers
  <2>4. \A m \in Nat : m + 0 = m
    OBVIOUS
  <2> QED BY <2>1, <2>2, <2>3, <2>4, <1>1, <1>2 DEF CountInv
<1>10. StopInv
  BY <1>4, Kinds DEF StopInv
<1>11. RouteInv
  <2>1. queue["globald"] = <<>>
    BY <1>2 DEF Dispatchers
  <2> QED BY <2>1, <1>4, <1>5, Kinds DEF RouteInv
<1>12. NoCodeInUse
  BY <1>4, Kinds DEF NoCodeInUse
<1> QED BY <1>6, <1>7, <1>8, <1>9, <1>10, <1>11, <1>12 DEF Inv

\* Every step keeps the invariant.
LEMMA NextInv == Inv /\ [Next]_vars => Inv'
<1> SUFFICES ASSUME Inv, [Next]_vars PROVE Inv'
  OBVIOUS
<1>1. ASSUME NEW t \in Threads, TriggerStep(t) \/ StopStep(t) PROVE Inv'
  BY <1>1, TriggerStepInv, StopStepInv
<1>2. ASSUME NEW t \in Consumers, ConsumerStep(t) PROVE Inv'
  BY <1>2, ConsumerStepInv
<1>3. CASE MainStep
  BY <1>3, MainTriggerInv, DrainedInv, JoinedInv, UnloadInv, BootStepInv DEF MainStep
<1>4. CASE Accept
  BY <1>4, MainTriggerInv
<1>5. CASE AskShutdown
  BY <1>5, AskInv
<1>6. CASE UNCHANGED vars
  <2>1. UNCHANGED <<queue, shut, qshut, running, nThreads, registered, pc, ev, todo, cont,
                    asked, received, streams>>
    BY <1>6 DEF vars, dispVars, threadVars, countVars
  <2>2. TypeOK'
    BY <2>1 DEF Inv, TypeOK, QueueBound
  <2> QED BY <2>1, <2>2 DEF Inv, Control, BootInv, Booted, Booting, CountInv, Live, StopInv,
                            RouteInv, NoCodeInUse
<1> QED BY <1>1, <1>2, <1>3, <1>4, <1>5, <1>6 DEF Next

\* The counters of threads count the consumers that run, the plugins' threads
\* exist from boot on, a consumer leaves only a dispatcher that is being stopped,
\* and the queue is shut down before __shutdown is reset.
THEOREM RuntimeInvariant == Spec => []Inv
<1>1. Init => Inv
  BY InitInv
<1>2. Inv /\ [Next]_vars => Inv'
  BY NextInv
<1> QED BY <1>1, <1>2, PTL DEF Spec

\* Queues respect their capacity, and the counters of threads never go below
\* zero.
THEOREM RuntimeTypes == Spec => []TypeOK
<1>1. Inv => TypeOK
  BY DEF Inv
<1> QED BY <1>1, RuntimeInvariant, PTL

\* Nobody executes code of a plugin that has been unloaded: when join_threads
\* returns no consumer is left, and a plugin is unmapped after its listener has
\* ended.
THEOREM UnloadedCodeIsUnused == Spec => []NoCodeInUse
<1>1. Inv => NoCodeInUse
  BY DEF Inv
<1> QED BY <1>1, RuntimeInvariant, PTL

\* start_consumers starts at least one consumer on each dispatcher (it takes a
\* request for none as one for the default number).
Staffed == Globals # {} /\ Workers # {}

\* The step of a thread that adds an event to a queue.
LEMMA GrowthIsPush ==
    ASSUME Inv, [Next]_vars, NEW d \in Dispatchers, ~(Len(queue'[d]) <= Len(queue[d]))
    PROVE  \E t \in Threads : pc[t] = "push" /\ d = Head(todo[t]).disp /\ d \notin qshut
<1>1. queue \in [Dispatchers -> Seq(Events)] /\ queue[d] \in Seq(Events) /\ Len(queue[d]) \in Nat
  BY DEF Inv, TypeOK
<1>2. queue' # queue
  BY <1>1
<1>3. (\E t \in Threads : Push(t)) \/ (\E t \in Consumers : Pop(t))
  BY <1>2 DEF Next, vars, dispVars, TriggerStep, TriggerDropped, TriggerAccepted, StopStep,
              StopBegin, StopQueue, StopEnd, ConsumerStep, PopNothing, LoopAgain, LoopEnd,
              RunSystemEvent, RunStopThreads, RunMinionShutdown, RunOnce, RunAgain, MainStep,
              Start, Boot, PollReceive, PollEnd, Drained, Joined, Unload, Accept, AskShutdown
<1>4. ASSUME NEW t \in Consumers, Pop(t) PROVE FALSE
  <2>1. /\ Of(t) \in Dispatchers /\ queue[Of(t)] # <<>>
        /\ queue' = [queue EXCEPT ![Of(t)] = Tail(queue[Of(t)])]
    BY <1>4 DEF Pop, Of, Dispatchers
  <2>2. d = Of(t) /\ queue'[d] = Tail(queue[d])
    BY <2>1, <1>1
  <2>3. Len(Tail(queue[d])) = Len(queue[d]) - 1
    BY <2>1, <2>2, <1>1, TailFacts
  <2> QED BY <2>2, <2>3, <1>1
<1>5. PICK t \in Threads : Push(t)
  BY <1>3, <1>4
<1>6. /\ pc[t] = "push" /\ Head(todo[t]).disp \notin qshut
      /\ queue' = [queue EXCEPT ![Head(todo[t]).disp] =
                      Append(queue[Head(todo[t]).disp], Head(todo[t]).event)]
  BY <1>2, <1>5 DEF Push, At
<1>7. Head(todo[t]).disp = d
  BY <1>1, <1>6
<1> QED BY <1>6, <1>7

\* A dispatcher that has been stopped takes no event any more: its consumers are
\* gone only when its queue is shut down, and push leaves such a queue alone.
THEOREM StoppedDispatchersTakeNothing == ASSUME Staffed PROVE Spec => StoppedForGood
<1>1. Inv /\ [Next]_vars =>
         [\A d \in Dispatchers :
             (d \notin shut /\ running[d] = 0) => Len(queue'[d]) <= Len(queue[d])]_vars
  <2>1. SUFFICES ASSUME Inv, [Next]_vars, NEW d \in Dispatchers, d \notin shut, running[d] = 0,
                        ~(Len(queue'[d]) <= Len(queue[d]))
                 PROVE  FALSE
    OBVIOUS
  <2>2. PICK t \in Threads : pc[t] = "push" /\ d = Head(todo[t]).disp /\ d \notin qshut
    BY <2>1, GrowthIsPush
  <2>3. todo[t] # <<>> /\ todo[t] \in Seq(Entries) /\ Control
    BY <2>1, <2>2, ThreadTypes DEF Inv, Control, Pushing
  <2>4. Head(todo[t]) = todo[t][1] /\ 1 \in 1 .. Len(todo[t])
    BY <2>3, TailFacts
  <2>5. CASE d = "globald"
    <3>1. Live(Globals) = {}
      BY <2>1, <2>5, LiveFinite, FS_EmptySet DEF Inv, CountInv
    <3>2. PICK g \in Globals : pc[g] = "exited"
      BY <3>1, <2>1 DEF Staffed, Live, Inv, BootInv
    <3> QED BY <3>2, <2>1, <2>2, <2>5, Kinds DEF Inv, StopInv
  <2>6. CASE d = "transport"
    <3>1. t \in Workers \union {Main}
      BY <2>1, <2>2, <2>4, <2>6 DEF Inv, RouteInv
    <3>2. cont[Main] = "load" => t # Main
      BY <2>1, <2>2, <2>4, <2>6 DEF Inv, RouteInv
    <3>3. ~Booting
      <4>1. CASE t = Main
        BY <4>1, <3>2, <2>2 DEF Booting, Pushing
      <4>2. CASE t \in Workers
        BY <4>2, <2>1, <2>2 DEF Inv, BootInv
      <4> QED BY <4>1, <4>2, <3>1
    <3>4. Live(Workers) = {}
      BY <2>1, <2>6, LiveFinite, FS_EmptySet DEF Inv, CountInv
    <3>5. PICK w \in Workers : pc[w] = "exited"
      BY <3>3, <3>4, <2>1 DEF Staffed, Live, Inv, BootInv
    <3> QED BY <3>5, <2>1, <2>2, <2>6, Kinds DEF Inv, StopInv
  <2> QED BY <2>5, <2>6 DEF Dispatchers
<1> QED BY <1>1, RuntimeInvariant, PTL DEF Spec, StoppedForGood

-----------------------------------------------------------------------------
(* The end of the process, when the global dispatcher has one consumer.    *)

\* Where the events of the end are: a consumer that has popped an event executes
\* it next; "stop_threads" is an event of the global dispatcher, so that only its
\* consumers stop anything; only run() announces SHUTTING_DOWN, and only run() has
\* more than one event to trigger.
Proper(t, k, x) ==
    /\ k > 1 => t = Main
    /\ x.event = "stop_threads" => x.disp = "globald"
    /\ x.event = "SHUTTING_DOWN" => t = Main

PlaceInv ==
    /\ \A t \in Consumers : ev[t] # "none" => pc[t] = "run"
    /\ \A w \in Workers : ev[w] # "stop_threads" /\ pc[w] \notin Stopping
    /\ \A k \in 1 .. Len(queue["transport"]) : queue["transport"][k] # "stop_threads"
    /\ \A t \in Threads : \A k \in 1 .. Len(todo[t]) : Proper(t, k, todo[t][k])

\* The stages of the handler of SHUTTING_DOWN: in the queue, being triggered by the
\* consumer g that has found it registered, and stopping the transport engine.
Occurs(e, q) == \E k \in 1 .. Len(q) : q[k] = e
Held(e)      == Occurs(e, queue["globald"])

Passing(g) ==
    /\ pc[g] \in Pushing
    /\ todo[g][1].disp = "globald" /\ todo[g][1].event = "stop_threads"

Acting(g) ==
    \/ ev[g] = "stop_threads"
    \/ pc[g] \in {"stop", "stop_queue"}
    \/ "transport" \in qshut

Underway(g) ==
    \/ Held("SHUTTING_DOWN") \/ ev[g] = "SHUTTING_DOWN"
    \/ Passing(g) \/ Held("stop_threads")
    \/ Acting(g)

\* EXITING is behind SHUTTING_DOWN: while the latter is on its way to its handler,
\* the queue that the drain loop looks at is not empty.
Followed(q) ==
    \A i \in 1 .. Len(q) : q[i] = "SHUTTING_DOWN" =>
        \E j \in 1 .. Len(q) : i < j /\ q[j] = "EXITING"

Ordered(g) ==
    /\ Followed(queue["globald"])
    /\ ev[g] = "SHUTTING_DOWN" \/ Passing(g) => Held("EXITING")

\* What the main thread may rely on at each stage of the end.
StopFlags(g) ==
    /\ "globald" \in shut => pc[Main] \in {"stop_queue", "stop_wait"}
    /\ "globald" \in qshut => pc[Main] \in {"stop_wait", "join", "unload", "done"}
    /\ pc[Main] \in {"join", "unload", "done"} => "globald" \in qshut /\ pc[g] = "exited"

Handling(g) ==
    /\ "transport" \in shut => "transport" \in qshut \/ pc[g] = "stop_queue"
    /\ Booted => "stop_threads" \in registered \/ Acting(g)

Last     == <<On("globald", "EXITING")>>
LastTwo  == <<On("globald", "SHUTTING_DOWN"), On("globald", "EXITING")>>
Ending   == pc[Main] \in Pushing /\ cont[Main] = "drain"

Journey(g) ==
    /\ Ending => todo[Main] = LastTwo \/ (todo[Main] = Last /\ Underway(g))
    /\ pc[Main] = "drain" => Underway(g) /\ Ordered(g)
    /\ pc[Main] \in Stopping \union {"join", "unload", "done"} => Acting(g)

EndInv(g) == PlaceInv /\ StopFlags(g) /\ Handling(g) /\ Journey(g)

\* What a queue holds, and in which order, after its first event is popped.
LEMMA PopOrder ==
    ASSUME NEW q \in Seq(Events), q # <<>>
    PROVE  /\ \A e : Occurs(e, q) => Head(q) = e \/ Occurs(e, Tail(q))
           /\ Followed(q) => /\ Followed(Tail(q))
                             /\ Head(q) = "SHUTTING_DOWN" => Occurs("EXITING", Tail(q))
<1> DEFINE r == Tail(q)
           n == Len(q)
<1>1. /\ Head(q) = q[1] /\ n \in Nat \ {0} /\ Len(r) = n - 1
      /\ \A k \in 1 .. n - 1 : r[k] = q[k + 1]
  BY TailFacts
<1> HIDE DEF r, n
<1>2. \A k \in 1 .. n : k = 1 \/ (k - 1 \in 1 .. Len(r) /\ r[k - 1] = q[k])
  <2>1. TAKE k \in 1 .. n
  <2>2. k = 1 \/ (k - 1 \in 1 .. n - 1 /\ (k - 1) + 1 = k)
    BY <1>1
  <2> QED BY <2>2, <1>1
<1>3. \A e : Occurs(e, q) => Head(q) = e \/ Occurs(e, r)
  BY <1>1, <1>2 DEF Occurs, n
<1>4. ASSUME Followed(q), NEW i \in 1 .. Len(r), r[i] = "SHUTTING_DOWN"
      PROVE  \E j \in 1 .. Len(r) : i < j /\ r[j] = "EXITING"
  <2>1. i + 1 \in 1 .. n /\ q[i + 1] = "SHUTTING_DOWN"
    BY <1>1, <1>4
  <2>2. PICK j \in 1 .. n : i + 1 < j /\ q[j] = "EXITING"
    BY <2>1, <1>4 DEF Followed, n
  <2>3. j - 1 \in 1 .. Len(r) /\ i < j - 1 /\ r[j - 1] = q[j]
    BY <2>2, <1>1, <1>2
  <2> QED BY <2>2, <2>3
<1>5. ASSUME Followed(q), q[1] = "SHUTTING_DOWN" PROVE Occurs("EXITING", r)
  <2>1. 1 \in 1 .. n
    BY <1>1
  <2>2. PICK j \in 1 .. n : 1 < j /\ q[j] = "EXITING"
    BY <2>1, <1>5 DEF Followed, n
  <2>3. j - 1 \in 1 .. Len(r) /\ r[j - 1] = q[j]
    BY <2>2, <1>2
  <2> QED BY <2>2, <2>3 DEF Occurs
<1> QED BY <1>1, <1>3, <1>4, <1>5 DEF Followed, r

\* What a queue holds, and in which order, after an event is pushed: pushing
\* EXITING puts the order right, and only SHUTTING_DOWN disturbs it.
LEMMA PushOrder ==
    ASSUME NEW q \in Seq(Events), NEW x \in Events
    PROVE  /\ Occurs(x, Append(q, x))
           /\ \A e : Occurs(e, q) => Occurs(e, Append(q, x))
           /\ x = "EXITING" => Followed(Append(q, x))
           /\ Followed(q) /\ x # "SHUTTING_DOWN" => Followed(Append(q, x))
<1> DEFINE r == Append(q, x)
           n == Len(q)
<1>1. /\ Len(r) = n + 1 /\ n \in Nat /\ r[n + 1] = x
      /\ \A k \in 1 .. n : r[k] = q[k]
  BY AppendFacts
<1> HIDE DEF r, n
<1>2. \A k \in 1 .. n : k \in 1 .. Len(r) /\ k < n + 1
  BY <1>1
<1>3. n + 1 \in 1 .. Len(r) /\ \A k \in 1 .. Len(r) : k = n + 1 \/ k \in 1 .. n
  BY <1>1
<1>4. Occurs(x, r)
  BY <1>1, <1>3 DEF Occurs
<1>5. \A e : Occurs(e, q) => Occurs(e, r)
  BY <1>1, <1>2 DEF Occurs, n
<1>6. ASSUME x = "EXITING" PROVE Followed(r)
  <2>1. ASSUME NEW i \in 1 .. Len(r), r[i] = "SHUTTING_DOWN" PROVE i < n + 1
    <3>1. i # n + 1
      BY <2>1, <1>1, <1>6
    <3> QED BY <3>1, <1>2, <1>3
  <2> QED BY <2>1, <1>1, <1>3, <1>6 DEF Followed
<1>7. ASSUME Followed(q), x # "SHUTTING_DOWN" PROVE Followed(r)
  <2>1. SUFFICES ASSUME NEW i \in 1 .. Len(r), r[i] = "SHUTTING_DOWN"
                 PROVE  \E j \in 1 .. Len(r) : i < j /\ r[j] = "EXITING"
    BY DEF Followed
  <2>2. i \in 1 .. n /\ q[i] = "SHUTTING_DOWN"
    BY <2>1, <1>1, <1>3, <1>7
  <2>3. PICK j \in 1 .. n : i < j /\ q[j] = "EXITING"
    BY <2>2, <1>7 DEF Followed, n
  <2> QED BY <2>3, <1>1, <1>2
<1> QED BY <1>4, <1>5, <1>6, <1>7 DEF r

-----------------------------------------------------------------------------
(* Where the events of the end are.                                        *)

\* A thread's list of events to trigger is as before, loses its first, or is a new
\* one; with what a step does to events and labels this keeps their places.
LEMMA PlaceFrame ==
    ASSUME Inv, PlaceInv,
           \A u \in Consumers : ev'[u] = "none" \/ pc'[u] = "run",
           \A w \in Workers : ev'[w] # "stop_threads" /\ pc'[w] \notin Stopping,
           \A k \in 1 .. Len(queue'["transport"]) : queue'["transport"][k] # "stop_threads",
           \A u \in Threads : \/ todo'[u] = todo[u]
                              \/ todo[u] # <<>> /\ todo'[u] = Tail(todo[u])
                              \/ \A k \in 1 .. Len(todo'[u]) : Proper(u, k, todo'[u][k])
    PROVE  PlaceInv'
<1>1. todo \in [Threads -> Seq(Entries)]
  BY ThreadTypes DEF Inv
<1>2. ASSUME NEW u \in Threads, NEW k \in 1 .. Len(todo'[u]) PROVE Proper(u, k, todo'[u][k])
  <2>1. CASE todo'[u] = todo[u]
    BY <1>2, <2>1 DEF PlaceInv
  <2>2. CASE todo[u] # <<>> /\ todo'[u] = Tail(todo[u])
    <3>1. /\ Len(todo[u]) \in Nat \ {0} /\ Len(Tail(todo[u])) = Len(todo[u]) - 1
          /\ \A i \in 1 .. Len(todo[u]) - 1 : Tail(todo[u])[i] = todo[u][i + 1]
      BY <2>2, <1>1, TailFacts
    <3>2. k \in 1 .. Len(todo[u]) - 1 /\ k + 1 \in 1 .. Len(todo[u])
      BY <3>1, <2>2, <1>2
    <3>3. Proper(u, k + 1, todo'[u][k]) /\ k + 1 > 1
      BY <3>1, <3>2, <2>2 DEF PlaceInv
    <3> QED BY <3>3 DEF Proper
  <2> QED BY <2>1, <2>2, <1>2
<1>3. \A u \in Threads : \A k \in 1 .. Len(todo'[u]) : Proper(u, k, todo[u][k])'
  BY <1>2 DEF Proper
<1> QED BY <1>3 DEF PlaceInv

\* The same for a step of one thread that pops nothing.
LEMMA PlaceLocal ==
    ASSUME Inv, PlaceInv, NEW t \in Threads, NEW l, pc' = [pc EXCEPT ![t] = l],
           ev' = ev \/ ev' = [ev EXCEPT ![t] = "none"],
           pc[t] = "run" => ev' = [ev EXCEPT ![t] = "none"],
           l \in Stopping => t \notin Workers,
           \A k \in 1 .. Len(queue'["transport"]) : queue'["transport"][k] # "stop_threads",
           \A u \in Threads : \/ todo'[u] = todo[u]
                              \/ todo[u] # <<>> /\ todo'[u] = Tail(todo[u])
                              \/ \A k \in 1 .. Len(todo'[u]) : Proper(u, k, todo'[u][k])
    PROVE  PlaceInv'
<1>1. pc \in [Threads -> Labels] /\ ev \in [Threads -> Events \union {"none"}]
  BY ThreadTypes DEF Inv
<1>2. /\ pc'[t] = l /\ \A u \in Threads : u # t => pc'[u] = pc[u] /\ ev'[u] = ev[u]
      /\ ev'[t] = ev[t] \/ ev'[t] = "none"
      /\ pc[t] = "run" => ev'[t] = "none"
  BY <1>1
<1>3. \A u \in Consumers : ev'[u] = "none" \/ pc'[u] = "run"
  <2>1. \A u \in Consumers : ev[u] # "none" => pc[u] = "run"
    BY DEF PlaceInv
  <2> QED BY <2>1, <1>2, Kinds
<1>4. \A w \in Workers : ev'[w] # "stop_threads" /\ pc'[w] \notin Stopping
  <2>1. \A w \in Workers : ev[w] # "stop_threads" /\ pc[w] \notin Stopping
    BY DEF PlaceInv
  <2> QED BY <2>1, <1>2, Kinds
<1> QED BY <1>3, <1>4, PlaceFrame

\* trigger() pushes what the thread has to trigger, where it belongs.
LEMMA PlaceTrigger ==
    ASSUME Inv, PlaceInv, NEW t \in Threads, TriggerStep(t)
    PROVE  PlaceInv'
<1>1. Control /\ pc[t] \in Pushing /\ ev' = ev
  BY DEF Inv, TriggerStep, TriggerDropped, TriggerAccepted, Push, At, Pushing
<1>2. todo \in [Threads -> Seq(Entries)] /\ todo[t] \in Seq(Entries) /\ todo[t] # <<>>
  BY <1>1, ThreadTypes DEF Inv, Control
<1>3. Head(todo[t]) = todo[t][1] /\ 1 \in 1 .. Len(todo[t]) /\ Head(todo[t]) \in Entries
  BY <1>2, TailFacts
<1>4. Proper(t, 1, Head(todo[t]))
  BY <1>3 DEF PlaceInv
<1>5. \A k \in 1 .. Len(queue["transport"]) : queue["transport"][k] # "stop_threads"
  BY DEF PlaceInv
<1>6. \A k \in 1 .. Len(queue'["transport"]) : queue'["transport"][k] # "stop_threads"
  <2>1. CASE queue' = queue
    BY <2>1, <1>5
  <2>2. CASE queue' # queue
    <3> DEFINE d == Head(todo[t]).disp
               e == Head(todo[t]).event
    <3>1. queue' = [queue EXCEPT ![d] = Append(queue[d], e)]
      BY <2>2 DEF TriggerStep, TriggerDropped, TriggerAccepted, Push, dispVars
    <3>2. d \in Dispatchers /\ e \in Events /\ (d = "transport" => e # "stop_threads")
      BY <1>3, <1>4 DEF Entries, Proper
    <3> HIDE DEF d, e
    <3>3. queue \in [Dispatchers -> Seq(Events)]
      BY DEF Inv, TypeOK
    <3>4. CASE d # "transport"
      BY <3>1, <3>3, <3>4, <1>5
    <3>5. CASE d = "transport"
      <4>1. queue'["transport"] = Append(queue["transport"], e) /\ queue["transport"] \in Seq(Events)
        BY <3>1, <3>2, <3>3, <3>5
      <4>2. /\ Len(Append(queue["transport"], e)) = Len(queue["transport"]) + 1
            /\ Len(queue["transport"]) \in Nat
            /\ \A k \in 1 .. Len(queue["transport"]) :
                  Append(queue["transport"], e)[k] = queue["transport"][k]
            /\ Append(queue["transport"], e)[Len(queue["transport"]) + 1] = e
        BY <4>1, <3>2, AppendFacts
      <4>3. \A k \in 1 .. Len(queue["transport"]) + 1 :
               k \in 1 .. Len(queue["transport"]) \/ k = Len(queue["transport"]) + 1
        BY <4>2
      <4> QED BY <4>1, <4>2, <4>3, <3>2, <3>5, <1>5
    <3> QED BY <3>4, <3>5
  <2> QED BY <2>1, <2>2
<1>7. \E l \in {"push", "trigger", cont[t]} : pc' = [pc EXCEPT ![t] = l]
  BY DEF TriggerStep, TriggerDropped, TriggerAccepted, Push, Advance, Goto
<1>8. cont[t] \in {"load", "poll", "drain", "accept", "check"}
  BY <1>1, Kinds DEF Control
<1>9. todo' = todo \/ todo' = [todo EXCEPT ![t] = Tail(todo[t])]
  BY DEF TriggerStep, TriggerDropped, TriggerAccepted, Push, Advance
<1>10. \A u \in Threads : todo'[u] = todo[u] \/ (todo[u] # <<>> /\ todo'[u] = Tail(todo[u]))
  BY <1>2, <1>9
<1>11. pc[t] # "run"
  BY <1>1 DEF Pushing
<1> QED BY <1>1, <1>6, <1>7, <1>8, <1>10, <1>11, PlaceLocal DEF Stopping

\* Only the main thread and consumers of the global dispatcher stop anything.
LEMMA PlaceStop ==
    ASSUME Inv, PlaceInv, NEW t \in Threads, StopStep(t)
    PROVE  PlaceInv' /\ t \notin Workers
<1>1. pc[t] \in Stopping /\ ev' = ev /\ todo' = todo /\ queue' = queue
  BY DEF StopStep, StopBegin, StopQueue, StopEnd, At, Stopping
<1>2. t \notin Workers /\ pc[t] # "run"
  BY <1>1 DEF PlaceInv, Stopping
<1>3. \E l : pc' = [pc EXCEPT ![t] = l]
  BY DEF StopStep, StopBegin, StopQueue, StopEnd, Goto
<1>4. \A k \in 1 .. Len(queue'["transport"]) : queue'["transport"][k] # "stop_threads"
  BY <1>1 DEF PlaceInv
<1> QED BY <1>1, <1>2, <1>3, <1>4, PlaceLocal

\* A consumer pops an event of its own dispatcher.
LEMMA PlacePop ==
    ASSUME Inv, PlaceInv, NEW t \in Consumers, Pop(t)
    PROVE  PlaceInv'
<1>1. /\ pc' = [pc EXCEPT ![t] = "run"] /\ todo' = todo /\ queue[Of(t)] # <<>>
      /\ queue' = [queue EXCEPT ![Of(t)] = Tail(queue[Of(t)])]
      /\ ev' = [ev EXCEPT ![t] = Head(queue[Of(t)])]
  BY DEF Pop, Goto
<1>2. /\ pc \in [Threads -> Labels] /\ ev \in [Threads -> Events \union {"none"}]
      /\ queue \in [Dispatchers -> Seq(Events)] /\ t \in Threads /\ Of(t) \in Dispatchers
  BY ThreadTypes, Kinds DEF Inv, TypeOK, Of, Dispatchers
<1>3. /\ pc'[t] = "run" /\ ev'[t] = Head(queue[Of(t)])
      /\ \A u \in Threads : u # t => pc'[u] = pc[u] /\ ev'[u] = ev[u]
  BY <1>1, <1>2
<1>4. /\ Head(queue[Of(t)]) = queue[Of(t)][1]
      /\ Len(queue[Of(t)]) \in Nat \ {0} /\ Len(Tail(queue[Of(t)])) = Len(queue[Of(t)]) - 1
      /\ \A k \in 1 .. Len(queue[Of(t)]) - 1 : Tail(queue[Of(t)])[k] = queue[Of(t)][k + 1]
  BY <1>1, <1>2, TailFacts
<1>5. \A k \in 1 .. Len(queue["transport"]) : queue["transport"][k] # "stop_threads"
  BY DEF PlaceInv
<1>6. \A u \in Consumers : ev'[u] = "none" \/ pc'[u] = "run"
  BY <1>3, Kinds DEF PlaceInv
<1>7. \A w \in Workers : ev'[w] # "stop_threads" /\ pc'[w] \notin Stopping
  <2>1. ASSUME t \in Workers PROVE Head(queue[Of(t)]) # "stop_threads"
    <3>1. Of(t) = "transport" /\ 1 \in 1 .. Len(queue[Of(t)])
      BY <2>1, <1>4, Kinds
    <3> QED BY <3>1, <1>4, <1>5
  <2>2. \A w \in Workers : ev[w] # "stop_threads" /\ pc[w] \notin Stopping
    BY DEF PlaceInv
  <2> QED BY <2>1, <2>2, <1>3, Kinds DEF Stopping
<1>8. \A k \in 1 .. Len(queue'["transport"]) : queue'["transport"][k] # "stop_threads"
  <2>1. CASE Of(t) # "transport"
    BY <2>1, <1>1, <1>2, <1>5
  <2>2. CASE Of(t) = "transport"
    <3>1. queue'["transport"] = Tail(queue["transport"])
      BY <2>2, <1>1, <1>2
    <3>2. TAKE k \in 1 .. Len(queue'["transport"])
    <3>3. k + 1 \in 1 .. Len(queue["transport"])
          /\ Tail(queue["transport"])[k] = queue["transport"][k + 1]
      BY <3>1, <2>2, <1>4
    <3> QED BY <3>1, <3>3, <1>5
  <2> QED BY <2>1, <2>2
<1> QED BY <1>1, <1>6, <1>7, <1>8, PlaceFrame

\* A thread that begins to trigger the event x.
LEMMA PlaceNew ==
    ASSUME Inv, NEW t \in Threads, NEW x \in Entries, Proper(t, 1, x),
           todo' = [todo EXCEPT ![t] = <<x>>]
    PROVE  \A u \in Threads : todo'[u] = todo[u]
                              \/ \A k \in 1 .. Len(todo'[u]) : Proper(u, k, todo'[u][k])
<1>1. todo \in [Threads -> Seq(Entries)]
  BY ThreadTypes DEF Inv
<1>2. todo'[t] = <<x>> /\ \A u \in Threads : u # t => todo'[u] = todo[u]
  BY <1>1
<1>3. \A k \in 1 .. Len(<<x>>) : k = 1 /\ <<x>>[k] = x
  BY SingleFacts
<1> QED BY <1>2, <1>3

\* The entries that consumers, the listener and the poller trigger.
LEMMA Entrants ==
    /\ \A e \in {"stop_threads", "minion_shutdown", "stream", "BOOTING"} :
          On("globald", e) \in Entries /\ \A t : Proper(t, 1, On("globald", e))
    /\ \A e \in {"once", "again"} :
          On("transport", e) \in Entries /\ \A t : Proper(t, 1, On("transport", e))
  BY DEF On, Entries, Proper, Dispatchers, Events, SystemEvents, Handlers, HandlerOf

\* The rest of a consumer's loop: only a handler that runs on the global dispatcher
\* stops the transport engine.
LEMMA PlaceConsumer ==
    ASSUME Inv, PlaceInv, NEW t \in Consumers, ConsumerStep(t), ~Pop(t)
    PROVE  PlaceInv'
<1>1. t \in Threads
  BY Kinds
<1>2. queue' = queue
  BY DEF ConsumerStep, PopNothing, LoopAgain, LoopEnd, RunSystemEvent, RunStopThreads,
         RunMinionShutdown, RunOnce, RunAgain, dispVars
<1>3. \A k \in 1 .. Len(queue'["transport"]) : queue'["transport"][k] # "stop_threads"
  BY <1>2 DEF PlaceInv
<1>4. CASE PopNothing(t) \/ LoopAgain(t) \/ LoopEnd(t)
  <2>1. ev' = ev /\ todo' = todo /\ pc[t] # "run"
        /\ \E l \in {"check", "pop", "exited"} : pc' = [pc EXCEPT ![t] = l]
    BY <1>4 DEF PopNothing, LoopAgain, LoopEnd, Goto, At
  <2> QED BY <2>1, <1>1, <1>3, PlaceLocal DEF Stopping
<1>5. CASE RunStopThreads(t)
  <2>1. /\ ev' = [ev EXCEPT ![t] = "none"] /\ todo' = todo /\ pc' = [pc EXCEPT ![t] = "stop"]
        /\ ev[t] = "stop_threads"
    BY <1>5 DEF RunStopThreads, Executes, Goto
  <2>2. t \notin Workers
    BY <2>1 DEF PlaceInv
  <2> QED BY <2>1, <2>2, <1>1, <1>3, PlaceLocal
<1>6. ASSUME ev' = [ev EXCEPT ![t] = "none"],
             \E l \in {"check", "trigger"} : pc' = [pc EXCEPT ![t] = l],
             \/ todo' = todo
             \/ \E x \in Entries : Proper(t, 1, x) /\ todo' = [todo EXCEPT ![t] = <<x>>]
      PROVE  PlaceInv'
  <2>1. \A u \in Threads : todo'[u] = todo[u]
                           \/ \A k \in 1 .. Len(todo'[u]) : Proper(u, k, todo'[u][k])
    BY <1>1, <1>6, PlaceNew
  <2> QED BY <2>1, <1>1, <1>3, <1>6, PlaceLocal DEF Stopping
<1>7. CASE RunSystemEvent(t)
  <2>1. PICK e \in SystemEvents :
           /\ Executes(t, e)
           /\ IF e \in DOMAIN HandlerOf /\ HandlerOf[e] \in registered
              THEN TriggerAll(t, <<On("globald", HandlerOf[e])>>, "check")
              ELSE Goto(t, "check") /\ UNCHANGED <<todo, cont>>
    BY <1>7 DEF RunSystemEvent
  <2>2. e \in DOMAIN HandlerOf => HandlerOf[e] \in {"stop_threads", "minion_shutdown"}
    BY DEF HandlerOf
  <2>3. CASE e \in DOMAIN HandlerOf /\ HandlerOf[e] \in registered
    BY <2>1, <2>2, <2>3, <1>6, Entrants DEF Executes, TriggerAll, Goto
  <2>4. CASE ~(e \in DOMAIN HandlerOf /\ HandlerOf[e] \in registered)
    BY <2>1, <2>4, <1>6 DEF Executes, Goto
  <2> QED BY <2>3, <2>4
<1>8. CASE RunMinionShutdown(t)
  BY <1>8, <1>6 DEF RunMinionShutdown, Executes, Goto
<1>9. CASE RunOnce(t)
  BY <1>9, <1>6, Entrants DEF RunOnce, Executes, Goto, TriggerAll
<1>10. CASE RunAgain(t)
  BY <1>10, <1>6, Entrants DEF RunAgain, Executes, Goto, TriggerAll
<1> QED BY <1>4, <1>5, <1>7, <1>8, <1>9, <1>10 DEF ConsumerStep

\* The main thread and the listener trigger what is theirs.
LEMMA PlaceOthers ==
    ASSUME Inv, PlaceInv, MainStep \/ Accept \/ AskShutdown \/ UNCHANGED vars
    PROVE  PlaceInv'
<1>1. /\ queue' = queue /\ ev' = ev
      /\ Main \in Threads /\ Listener \in Threads /\ Main \notin Workers /\ Listener \notin Workers
      /\ pc[Main] # "run" /\ pc[Listener] # "run"
  <2>1. queue' = queue /\ ev' = ev
    BY DEF MainStep, Start, Boot, PollReceive, PollEnd, Drained, Joined, Unload, Accept, AskShutdown,
           vars, dispVars, threadVars
  <2> QED BY <2>1, Kinds DEF Inv, Control, MainLabels, ListenerLabels, Pushing, Stopping
<1>2. \A k \in 1 .. Len(queue'["transport"]) : queue'["transport"][k] # "stop_threads"
  BY <1>1 DEF PlaceInv
<1>3. ASSUME NEW t \in {Main, Listener}, NEW l, pc' = [pc EXCEPT ![t] = l],
             \/ todo' = todo
             \/ \E x \in Entries : Proper(t, 1, x) /\ todo' = [todo EXCEPT ![t] = <<x>>]
      PROVE  PlaceInv'
  <2>1. \A u \in Threads : todo'[u] = todo[u]
                           \/ \A k \in 1 .. Len(todo'[u]) : Proper(u, k, todo'[u][k])
    BY <1>1, <1>3, PlaceNew
  <2> QED BY <2>1, <1>1, <1>2, <1>3, PlaceLocal
<1>4. CASE Start \/ PollReceive \/ Drained \/ Joined
  BY <1>3, <1>4, Entrants DEF Start, PollReceive, Drained, Joined, TriggerAll, Goto
<1>5. CASE Accept
  BY <1>3, <1>5, Entrants DEF Accept, TriggerAll, Goto
<1>6. CASE PollEnd
  <2>1. /\ pc' = [pc EXCEPT ![Main] = "trigger"] /\ todo' = [todo EXCEPT ![Main] = LastTwo]
    BY <1>6 DEF PollEnd, TriggerAll, Goto, LastTwo
  <2>2. todo \in [Threads -> Seq(Entries)]
    BY ThreadTypes DEF Inv
  <2>3. \A k \in 1 .. Len(LastTwo) : Proper(Main, k, LastTwo[k])
    BY DEF LastTwo, Proper, On
  <2>4. \A u \in Threads : todo'[u] = todo[u]
                           \/ \A k \in 1 .. Len(todo'[u]) : Proper(u, k, todo'[u][k])
    BY <2>1, <2>2, <2>3, <1>1
  <2> QED BY <2>1, <2>4, <1>1, <1>2, PlaceLocal
<1>7. CASE Boot
  <2>1. /\ \A w \in Workers : pc'[w] = "pop" /\ pc[w] = "unborn"
        /\ \A g \in Globals : pc'[g] = pc[g]
    <3>1. pc[Listener] = "unborn"
      BY <1>7 DEF Inv, BootInv, Booted, Booting, Boot, At
    <3> QED BY <3>1, <1>7, Kinds DEF Boot, Inv, BootInv, Booted
  <2>2. On("globald", "FINISHED_BOOT") \in Entries /\ Proper(Main, 1, On("globald", "FINISHED_BOOT"))
    BY DEF On, Entries, Proper, Dispatchers, Events, SystemEvents
  <2>3. \A u \in Threads : todo'[u] = todo[u]
                           \/ \A k \in 1 .. Len(todo'[u]) : Proper(u, k, todo'[u][k])
    BY <2>2, <1>1, <1>7, PlaceNew DEF Boot
  <2>4. \A u \in Consumers : ev'[u] = "none" \/ pc'[u] = "run"
    <3>1. \A u \in Consumers : ev[u] # "none" => pc[u] = "run"
      BY DEF PlaceInv
    <3> QED BY <3>1, <2>1, <1>1, Kinds
  <2>5. \A w \in Workers : ev'[w] # "stop_threads" /\ pc'[w] \notin Stopping
    BY <2>1, <1>1 DEF PlaceInv, Stopping
  <2> QED BY <2>3, <2>4, <2>5, <1>2, PlaceFrame
<1>8. CASE Unload
  <2>1. pc' = [pc EXCEPT ![Main] = "done", ![Listener] = "exited"] /\ todo' = todo
    BY <1>8 DEF Unload
  <2>2. pc \in [Threads -> Labels]
    BY ThreadTypes DEF Inv
  <2>3. \A u \in Consumers : pc'[u] = pc[u]
    BY <2>1, <2>2, Kinds
  <2> QED BY <2>1, <2>3, <1>1, Kinds DEF PlaceInv, Proper
<1>9. CASE AskShutdown \/ UNCHANGED vars
  BY <1>9 DEF AskShutdown, vars, dispVars, threadVars, PlaceInv, Proper
<1> QED BY <1>4, <1>5, <1>6, <1>7, <1>8, <1>9 DEF MainStep

\* Every step keeps the events of the end in their places.
LEMMA PlaceStep == Inv /\ PlaceInv /\ [Next]_vars => PlaceInv'
  BY PlaceTrigger, PlaceStop, PlacePop, PlaceConsumer, PlaceOthers DEF Next

-----------------------------------------------------------------------------
(* The way of SHUTTING_DOWN to its handler: the steps of the threads other *)
(* than the main one.                                                      *)

\* What a step of another thread leaves to the main thread: the stage that the
\* handler has reached is not lost.
Kept(g) ==
    /\ pc'[Main] = pc[Main] /\ todo'[Main] = todo[Main] /\ cont'[Main] = cont[Main]
    /\ "globald" \in shut' => "globald" \in shut
    /\ "globald" \in qshut' <=> "globald" \in qshut
    /\ pc[g] = "exited" => pc'[g] = "exited"
    /\ Acting(g) => Acting(g)'
    /\ "globald" \notin shut \union qshut /\ Booted /\ Underway(g) => Underway(g)'
    /\ Ordered(g) => Ordered(g)'
    /\ Handling(g)'

\* The handler is where it was when neither the queue nor its consumer has moved.
LEMMA StageFrame ==
    ASSUME NEW g, pc'[g] = pc[g], ev'[g] = ev[g], todo'[g] = todo[g],
           queue'["globald"] = queue["globald"],
           "transport" \in qshut' <=> "transport" \in qshut
    PROVE  /\ Acting(g)' <=> Acting(g)
           /\ Underway(g)' <=> Underway(g)
           /\ Ordered(g)' <=> Ordered(g)
<1>1. Passing(g)' <=> Passing(g)
  BY DEF Passing
<1>2. \A e : Held(e)' <=> Held(e)
  BY DEF Held, Occurs
<1>3. Acting(g)' <=> Acting(g)
  BY DEF Acting
<1>4. Underway(g)' <=> Underway(g)
  BY <1>1, <1>2, <1>3 DEF Underway
<1>5. Ordered(g)' <=> Ordered(g)
  BY <1>1, <1>2 DEF Ordered, Followed
<1> QED BY <1>3, <1>4, <1>5

\* A step that leaves queues and flags alone and takes the consumer through its loop.
LEMMA KeptQuiet ==
    ASSUME NEW g \in Globals, Handling(g),
           pc'[Main] = pc[Main], todo'[Main] = todo[Main], cont'[Main] = cont[Main],
           Booted' => Booted,
           UNCHANGED <<queue, shut, qshut>>,
           "stop_threads" \in registered => "stop_threads" \in registered',
           \/ pc'[g] = pc[g] /\ ev'[g] = ev[g] /\ todo'[g] = todo[g]
           \/ /\ pc[g] \notin {"exited", "stop", "stop_queue"} /\ ev[g] # "stop_threads"
              /\ ev[g] = "SHUTTING_DOWN" \/ Passing(g) <=>
                    ev'[g] = "SHUTTING_DOWN" \/ Passing(g)'
    PROVE  Kept(g)
<1>1. CASE pc'[g] = pc[g] /\ ev'[g] = ev[g] /\ todo'[g] = todo[g]
  <2>1. /\ Acting(g)' <=> Acting(g)
        /\ Underway(g)' <=> Underway(g)
        /\ Ordered(g)' <=> Ordered(g)
    BY <1>1, StageFrame
  <2>2. Handling(g)'
    BY <2>1, <1>1 DEF Handling
  <2> QED BY <2>1, <2>2, <1>1 DEF Kept
<1>2. CASE /\ pc[g] \notin {"exited", "stop", "stop_queue"} /\ ev[g] # "stop_threads"
           /\ ev[g] = "SHUTTING_DOWN" \/ Passing(g) <=>
                 ev'[g] = "SHUTTING_DOWN" \/ Passing(g)'
  <2>1. \A e : Held(e)' <=> Held(e)
    BY DEF Held, Occurs
  <2>2. Acting(g) => Acting(g)'
    BY <1>2 DEF Acting
  <2>3. Underway(g) => Underway(g)'
    BY <1>2, <2>1, <2>2 DEF Underway
  <2>4. Ordered(g) => Ordered(g)'
    BY <1>2, <2>1 DEF Ordered, Followed
  <2>5. Handling(g)'
    BY <2>2, <1>2 DEF Handling
  <2> QED BY <2>2, <2>3, <2>4, <2>5, <1>2 DEF Kept
<1> QED BY <1>1, <1>2

\* Thread t takes a step of its own: the others are where they were.
LEMMA Elsewhere ==
    ASSUME Inv, NEW t \in Threads, NEW l, pc' = [pc EXCEPT ![t] = l],
           ev' = ev \/ \E e : ev' = [ev EXCEPT ![t] = e],
           todo' = todo \/ \E s : todo' = [todo EXCEPT ![t] = s],
           cont' = cont \/ \E c : cont' = [cont EXCEPT ![t] = c]
    PROVE  /\ pc'[t] = l
           /\ \A u \in Threads : u # t => /\ pc'[u] = pc[u] /\ ev'[u] = ev[u]
                                          /\ todo'[u] = todo[u] /\ cont'[u] = cont[u]
  BY ThreadTypes DEF Inv

\* A thread other than the main one has one event to trigger: afterwards it goes
\* back to what it was doing.
LEMMA AdvanceEnds ==
    ASSUME Inv, PlaceInv, NEW t \in Threads \ {Main}, pc[t] \in Pushing, Advance(t)
    PROVE  pc' = [pc EXCEPT ![t] = cont[t]] /\ cont[t] \in {"accept", "check"}
<1>1. todo[t] # <<>> /\ todo[t] \in Seq(Entries) /\ Len(todo[t]) \in Nat
  BY ThreadTypes DEF Inv, Control
<1>2. ~(Len(todo[t]) > 1)
  <2>1. SUFFICES ASSUME Len(todo[t]) > 1 PROVE FALSE
    OBVIOUS
  <2>2. 2 \in 1 .. Len(todo[t])
    BY <2>1, <1>1
  <2>3. Proper(t, 2, todo[t][2])
    BY <2>2 DEF PlaceInv
  <2> QED BY <2>3 DEF Proper
<1>3. cont[t] \in {"accept", "check"}
  BY Kinds DEF Inv, Control
<1> QED BY <1>2, <1>3 DEF Advance, Goto

\* trigger() by another thread: when the dispatcher is not being stopped the event
\* that the handler waits for reaches the queue, behind what is there.
LEMMA KeptTrigger ==
    ASSUME Inv, PlaceInv, NEW g, Globals = {g}, Handling(g),
           NEW t \in Threads \ {Main}, TriggerStep(t)
    PROVE  Kept(g)
<1>1. Control /\ pc[t] \in Pushing /\ UNCHANGED <<ev, shut, qshut, registered>>
  BY DEF Inv, TriggerStep, TriggerDropped, TriggerAccepted, Push, At, Pushing, dispVars
<1>2. /\ todo[t] \in Seq(Entries) /\ todo[t] # <<>> /\ g \in Globals /\ g \in Consumers
      /\ g \in Threads /\ Main \in Threads /\ Listener \in Threads
  BY <1>1, ThreadTypes, Kinds DEF Inv, Control
<1>3. /\ Head(todo[t]) = todo[t][1] /\ 1 \in 1 .. Len(todo[t]) /\ Head(todo[t]) \in Entries
      /\ Proper(t, 1, todo[t][1])
  BY <1>2, TailFacts DEF PlaceInv
<1>4. t = g => ev[g] = "none"
  BY <1>1, <1>2 DEF PlaceInv, Pushing
<1>5. CASE TriggerAccepted(t)
  <2>1. /\ pc[t] = "trigger" /\ pc' = [pc EXCEPT ![t] = "push"]
        /\ UNCHANGED <<todo, cont, queue>>
    BY <1>5 DEF TriggerAccepted, At, Goto, dispVars
  <2>2. /\ pc'[t] = "push" /\ \A u \in Threads : u # t => pc'[u] = pc[u]
    BY <2>1, <1>1, Elsewhere
  <2>3. t = g => (Passing(g)' <=> Passing(g))
    BY <2>1, <2>2 DEF Passing, Pushing
  <2>4. Booted' => Booted
    BY <2>1, <2>2, <1>2 DEF Booted
  <2>5. \/ pc'[g] = pc[g] /\ ev'[g] = ev[g] /\ todo'[g] = todo[g]
        \/ /\ pc[g] \notin {"exited", "stop", "stop_queue"} /\ ev[g] # "stop_threads"
           /\ ev[g] = "SHUTTING_DOWN" \/ Passing(g) <=>
                 ev'[g] = "SHUTTING_DOWN" \/ Passing(g)'
    BY <2>1, <2>2, <2>3, <1>1, <1>2, <1>4
  <2> QED BY <2>1, <2>2, <2>4, <2>5, <1>1, <1>2, KeptQuiet
<1>6. ASSUME Advance(t)
      PROVE  /\ pc'[t] \in {"accept", "check"} /\ todo'[Main] = todo[Main]
             /\ \A u \in Threads : u # t => pc'[u] = pc[u] /\ todo'[u] = todo[u]
             /\ cont'[Main] = cont[Main] /\ pc'[Main] = pc[Main] /\ (Booted' => Booted)
  <2>1. pc' = [pc EXCEPT ![t] = cont[t]] /\ cont[t] \in {"accept", "check"}
    BY <1>1, <1>6, AdvanceEnds
  <2>2. /\ todo' = [todo EXCEPT ![t] = Tail(todo[t])]
        /\ cont' = cont \/ cont' = [cont EXCEPT ![t] = "none"]
    BY <1>6 DEF Advance
  <2>3. /\ pc'[t] = cont[t]
        /\ \A u \in Threads : u # t => /\ pc'[u] = pc[u] /\ todo'[u] = todo[u]
                                       /\ cont'[u] = cont[u]
    BY <2>1, <2>2, <1>1, Elsewhere
  <2>4. Booted' => Booted
    BY <2>3, <1>1, <1>2 DEF Booted, Pushing
  <2> QED BY <2>1, <2>3, <2>4, <1>2
<1>7. ASSUME Advance(t), queue' = queue, Head(todo[t]).disp \in shut \union qshut
      PROVE  Kept(g)
  <2>1. CASE t # g
    BY <2>1, <1>1, <1>2, <1>6, <1>7, KeptQuiet
  <2>2. CASE t = g /\ ~Passing(g)
    <3>1. ~Passing(g)' /\ pc[g] \notin {"exited", "stop", "stop_queue"}
      BY <2>2, <1>1, <1>6, <1>7 DEF Passing, Pushing
    <3> QED BY <3>1, <2>2, <1>1, <1>2, <1>4, <1>6, <1>7, KeptQuiet
  <2>3. CASE t = g /\ Passing(g)
    <3>1. ~Passing(g)' /\ pc[g] \notin {"exited", "stop", "stop_queue"}
      BY <2>3, <1>1, <1>6, <1>7 DEF Passing, Pushing
    <3>2. "globald" \in shut \union qshut
      BY <2>3, <1>3, <1>7 DEF Passing
    <3>3. Acting(g) => Acting(g)'
      BY <3>1, <2>3, <1>1, <1>4 DEF Acting
    <3>4. Handling(g)'
      BY <3>1, <3>3, <1>1, <1>6, <1>7 DEF Handling
    <3>5. Ordered(g) => Ordered(g)'
      BY <3>1, <2>3, <1>1, <1>4, <1>7 DEF Ordered, Followed
    <3> QED BY <3>1, <3>2, <3>3, <3>4, <3>5, <1>1, <1>6, <1>7 DEF Kept
  <2> QED BY <2>1, <2>2, <2>3
<1>8. CASE TriggerDropped(t)
  BY <1>7, <1>8 DEF TriggerDropped, dispVars
<1>9. CASE Push(t)
  <2>0. PICK d \in Dispatchers, e \in Events : d = Head(todo[t]).disp /\ e = Head(todo[t]).event
    BY <1>3 DEF Entries
  <2>1. /\ Advance(t)
        /\ \/ queue' = queue /\ d \in qshut
           \/ queue' = [queue EXCEPT ![d] = Append(queue[d], e)]
    BY <2>0, <1>9 DEF Push
  <2>2. /\ d \in Dispatchers /\ e \in Events /\ e # "SHUTTING_DOWN"
        /\ Passing(g) /\ t = g => d = "globald" /\ e = "stop_threads"
    BY <2>0, <1>3 DEF Proper, Passing
  <2>3. CASE queue' = queue /\ d \in qshut
    BY <2>0, <2>1, <2>3, <1>7
  <2>4. CASE queue' = [queue EXCEPT ![d] = Append(queue[d], e)]
    <3>1. queue \in [Dispatchers -> Seq(Events)] /\ queue["globald"] \in Seq(Events)
      BY DEF Inv, TypeOK, Dispatchers
    <3>2. CASE d # "globald"
      <4>1. queue'["globald"] = queue["globald"]
        BY <2>4, <3>1, <3>2
      <4>2. \A f : Held(f)' <=> Held(f)
        BY <4>1 DEF Held, Occurs
      <4>3. /\ Acting(g) => Acting(g)'
            /\ Underway(g) => Underway(g)'
            /\ Ordered(g) => Ordered(g)'
            /\ pc[g] = "exited" => pc'[g] = "exited"
            /\ pc[g] = "stop_queue" => pc'[g] = "stop_queue"
        <5>1. CASE t # g
          BY <5>1, <4>1, <1>1, <1>2, <1>6, <2>1, StageFrame
        <5>2. CASE t = g
          <6>1. ~Passing(g) /\ ~Passing(g)' /\ pc[g] \notin {"exited", "stop", "stop_queue"}
            BY <5>2, <3>2, <2>1, <2>2, <1>1, <1>6 DEF Passing, Pushing
          <6>2. Acting(g) => Acting(g)'
            BY <6>1, <5>2, <1>1 DEF Acting
          <6>3. Underway(g) => Underway(g)'
            BY <6>1, <6>2, <4>2, <1>1 DEF Underway
          <6> QED BY <6>1, <6>2, <6>3, <4>1, <4>2, <1>1 DEF Ordered, Followed
        <5> QED BY <5>1, <5>2
      <4>4. Handling(g)'
        BY <4>3, <2>1, <1>1, <1>6 DEF Handling
      <4> QED BY <4>3, <4>4, <2>1, <1>1, <1>6 DEF Kept
    <3>3. CASE d = "globald"
      <4>1. queue'["globald"] = Append(queue["globald"], e)
        BY <2>2, <2>4, <3>1, <3>3
      <4>2. /\ Occurs(e, Append(queue["globald"], e))
            /\ \A f : Occurs(f, queue["globald"]) => Occurs(f, Append(queue["globald"], e))
            /\ Followed(queue["globald"]) => Followed(Append(queue["globald"], e))
        BY <2>2, <3>1, PushOrder
      <4>3. /\ Occurs(e, queue'["globald"])
            /\ \A f : Occurs(f, queue["globald"]) => Occurs(f, queue'["globald"])
            /\ Followed(queue["globald"]) => Followed(queue'["globald"])
        BY <4>1, <4>2
      <4>4. /\ Held(e)' /\ \A f : Held(f) => Held(f)'
            /\ Followed(queue["globald"]) => Followed(queue["globald"])'
        BY <4>3 DEF Held, Occurs, Followed
      <4>5. /\ Acting(g) => Acting(g)'
            /\ Passing(g) => Passing(g)' \/ e = "stop_threads"
            /\ Passing(g)' => Passing(g)
            /\ pc[g] = "exited" => pc'[g] = "exited"
            /\ pc[g] = "stop_queue" => pc'[g] = "stop_queue"
        <5>1. CASE t # g
          BY <5>1, <1>1, <1>2, <1>6, <2>1 DEF Acting, Passing
        <5>2. CASE t = g
          BY <5>2, <1>1, <1>6, <2>1, <2>2 DEF Acting, Passing, Pushing
        <5> QED BY <5>1, <5>2
      <4>6. Underway(g) => Underway(g)'
        BY <4>4, <4>5, <1>1 DEF Underway
      <4>7. Ordered(g) => Ordered(g)'
        BY <4>4, <4>5, <1>1 DEF Ordered
      <4>8. Handling(g)'
        BY <4>5, <2>1, <1>1, <1>6 DEF Handling
      <4> QED BY <4>5, <4>6, <4>7, <4>8, <2>1, <1>1, <1>6 DEF Kept
    <3> QED BY <3>2, <3>3
  <2> QED BY <2>1, <2>3, <2>4
<1> QED BY <1>5, <1>8, <1>9 DEF TriggerStep

\* The handler stops the transport engine: its queue is shut down, by the handler
\* or by an earlier run of it.
LEMMA KeptStop ==
    ASSUME Inv, PlaceInv, NEW g, Globals = {g}, Handling(g),
           NEW t \in Threads \ {Main}, StopStep(t)
    PROVE  Kept(g)
<1>1. /\ pc[t] \in Stopping /\ Control
      /\ UNCHANGED <<queue, registered, ev, todo, cont>>
  BY DEF Inv, StopStep, StopBegin, StopQueue, StopEnd, At, Stopping
<1>2. t = g /\ g \in Consumers /\ g \in Threads /\ g # Main /\ g # Listener
  <2>1. t \notin Workers
    BY PlaceStop
  <2>2. t # Listener
    BY <1>1 DEF Control, Stopping, ListenerLabels, Pushing
  <2> QED BY <2>1, <2>2, Kinds
<1>3. Target(t) = "transport" /\ AfterStop(t) = "check"
  BY <1>2 DEF Target, AfterStop
<1>4. ev[g] = "none"
  BY <1>1, <1>2 DEF PlaceInv, Stopping
<1>5. PICK l \in {"stop_queue", "stop_wait", "check"} :
         /\ pc' = [pc EXCEPT ![t] = l]
         /\ pc[t] = "stop" => l = IF "transport" \in shut THEN "check" ELSE "stop_queue"
  BY <1>3 DEF StopStep, StopBegin, StopQueue, StopEnd, Goto, At
<1>6. pc'[g] = l /\ \A u \in Threads : u # g => pc'[u] = pc[u]
  BY <1>1, <1>2, <1>5, Elsewhere
<1>7. /\ "globald" \in shut' <=> "globald" \in shut
      /\ "globald" \in qshut' <=> "globald" \in qshut
      /\ "transport" \in qshut => "transport" \in qshut'
      /\ pc[t] = "stop_queue" => "transport" \in qshut'
  BY <1>3 DEF StopStep, StopBegin, StopQueue, StopEnd, At
<1>8. pc[t] = "stop_wait" => "transport" \in qshut
  BY <1>3 DEF Inv, StopInv
<1>9. Acting(g)'
  <2>1. CASE pc[t] = "stop"
    <3>1. "transport" \in shut => "transport" \in qshut
      BY <2>1, <1>2 DEF Handling
    <3> QED BY <3>1, <2>1, <1>5, <1>6, <1>7 DEF Acting
  <2>2. CASE pc[t] # "stop"
    BY <2>2, <1>1, <1>7, <1>8 DEF Acting, Stopping
  <2> QED BY <2>1, <2>2
<1>10. Handling(g)'
  <2>1. ASSUME "transport" \in shut' PROVE "transport" \in qshut' \/ pc'[g] = "stop_queue"
    <3>1. CASE pc[t] = "stop"
      <4>1. "transport" \in shut => "transport" \in qshut
        BY <3>1, <1>2 DEF Handling
      <4> QED BY <4>1, <3>1, <1>5, <1>6, <1>7
    <3>2. CASE pc[t] # "stop"
      BY <3>2, <1>1, <1>7, <1>8 DEF Stopping
    <3> QED BY <3>1, <3>2
  <2> QED BY <2>1, <1>9 DEF Handling
<1>11. ~Passing(g)'
  BY <1>5, <1>6 DEF Passing, Pushing
<1>12. Ordered(g) => Ordered(g)'
  BY <1>1, <1>4, <1>11 DEF Ordered, Followed
<1>13. pc[g] # "exited" /\ pc'[Main] = pc[Main]
  BY <1>1, <1>2, <1>6, Kinds DEF Stopping
<1> QED BY <1>1, <1>7, <1>9, <1>10, <1>12, <1>13 DEF Kept, Underway

\* The consumer pops the event it waits for, or another one: what was behind it is
\* still in the queue.
LEMMA KeptPop ==
    ASSUME Inv, PlaceInv, NEW g, Globals = {g}, Handling(g), NEW t \in Consumers, Pop(t)
    PROVE  Kept(g)
<1>1. /\ pc[t] = "pop" /\ pc' = [pc EXCEPT ![t] = "run"] /\ queue[Of(t)] # <<>>
      /\ queue' = [queue EXCEPT ![Of(t)] = Tail(queue[Of(t)])]
      /\ ev' = [ev EXCEPT ![t] = Head(queue[Of(t)])]
      /\ UNCHANGED <<shut, qshut, registered, todo, cont>>
  BY DEF Pop, Goto, At
<1>2. /\ ev \in [Threads -> Events \union {"none"}] /\ t \in Threads
      /\ queue \in [Dispatchers -> Seq(Events)] /\ queue["globald"] \in Seq(Events)
      /\ g \in Threads /\ g \in Globals /\ g \in Consumers /\ Main \in Threads /\ Listener \in Threads
      /\ t # Main /\ t # Listener
  BY ThreadTypes, Kinds DEF Inv, TypeOK, Dispatchers
<1>3. /\ pc'[t] = "run"
      /\ \A u \in Threads : u # t => /\ pc'[u] = pc[u] /\ ev'[u] = ev[u]
                                     /\ todo'[u] = todo[u] /\ cont'[u] = cont[u]
  BY <1>1, <1>2, Elsewhere
<1>4. Booted' <=> Booted
  BY <1>2, <1>3 DEF Booted
<1>5. CASE t # g
  <2>1. Of(t) = "transport"
    BY <1>5, Kinds
  <2>2. queue'["globald"] = queue["globald"]
    BY <2>1, <1>1, <1>2
  <2>3. /\ Acting(g)' <=> Acting(g)
        /\ Underway(g)' <=> Underway(g)
        /\ Ordered(g)' <=> Ordered(g)
    BY <2>2, <1>1, <1>2, <1>3, <1>5, StageFrame
  <2>4. Handling(g)'
    BY <2>3, <1>1, <1>2, <1>3, <1>4, <1>5 DEF Handling
  <2> QED BY <2>3, <2>4, <1>1, <1>2, <1>3, <1>5 DEF Kept
<1>6. CASE t = g
  <2>1. Of(t) = "globald"
    BY <1>6, <1>2, Kinds
  <2>2. /\ queue["globald"] # <<>> /\ queue'["globald"] = Tail(queue["globald"])
        /\ ev'[g] = Head(queue["globald"])
    BY <2>1, <1>1, <1>2, <1>6 DEF Dispatchers
  <2>3. ev[g] = "none" /\ ~Passing(g) /\ ~Passing(g)'
    BY <1>1, <1>2, <1>3, <1>6 DEF PlaceInv, Passing, Pushing
  <2>4. /\ \A e : Occurs(e, queue["globald"]) =>
                     ev'[g] = e \/ Occurs(e, Tail(queue["globald"]))
        /\ Followed(queue["globald"]) =>
              /\ Followed(Tail(queue["globald"]))
              /\ ev'[g] = "SHUTTING_DOWN" => Occurs("EXITING", Tail(queue["globald"]))
    <3>1. /\ \A e : Occurs(e, queue["globald"]) =>
                       Head(queue["globald"]) = e \/ Occurs(e, Tail(queue["globald"]))
          /\ Followed(queue["globald"]) =>
                /\ Followed(Tail(queue["globald"]))
                /\ Head(queue["globald"]) = "SHUTTING_DOWN" =>
                      Occurs("EXITING", Tail(queue["globald"]))
      BY <2>2, <1>2, PopOrder
    <3> QED BY <3>1, <2>2
  <2>5. /\ \A e : Held(e) => ev'[g] = e \/ Held(e)'
        /\ Followed(queue["globald"]) =>
              /\ Followed(queue["globald"])'
              /\ ev'[g] = "SHUTTING_DOWN" => Held("EXITING")'
    <3>1. /\ \A e : Occurs(e, queue["globald"])' <=> Occurs(e, Tail(queue["globald"]))
          /\ Followed(queue["globald"])' <=> Followed(Tail(queue["globald"]))
      BY <2>2 DEF Occurs, Followed
    <3> QED BY <3>1, <2>4 DEF Held
  <2>6. Acting(g) => Acting(g)'
    BY <2>3, <1>1, <1>6 DEF Acting
  <2>7. Underway(g) => Underway(g)'
    BY <2>3, <2>5, <2>6 DEF Underway, Acting
  <2>8. Ordered(g) => Ordered(g)'
    BY <2>3, <2>5 DEF Ordered
  <2>9. Handling(g)'
    BY <2>6, <1>1, <1>4, <1>6 DEF Handling
  <2> QED BY <2>6, <2>7, <2>8, <2>9, <1>1, <1>2, <1>3, <1>6 DEF Kept
<1> QED BY <1>5, <1>6

\* A worker's loop does not touch the stages of the handler.
LEMMA KeptWorker ==
    ASSUME Inv, PlaceInv, NEW g, Globals = {g}, Handling(g),
           NEW t \in Workers, ConsumerStep(t), ~Pop(t)
    PROVE  Kept(g)
<1>1. t \in Threads /\ t # g /\ g \in Threads /\ g \in Globals /\ Main \in Threads /\ t # Main
      /\ Listener \in Threads /\ t # Listener
  BY Kinds
<1>2. UNCHANGED <<queue, shut, qshut>>
  BY DEF ConsumerStep, PopNothing, LoopAgain, LoopEnd, RunSystemEvent, RunStopThreads,
         RunMinionShutdown, RunOnce, RunAgain, dispVars
<1>3. ~RunStopThreads(t)
  BY DEF RunStopThreads, Executes, PlaceInv
<1>4. "stop_threads" \in registered => "stop_threads" \in registered'
  BY <1>3 DEF ConsumerStep, PopNothing, LoopAgain, LoopEnd, RunSystemEvent,
         RunMinionShutdown, RunOnce, RunAgain, dispVars
<1>5. \E l : pc' = [pc EXCEPT ![t] = l]
  BY DEF ConsumerStep, PopNothing, LoopAgain, LoopEnd, RunSystemEvent, RunStopThreads,
         RunMinionShutdown, RunOnce, RunAgain, Goto, TriggerAll
<1>6. /\ ev' = ev \/ \E e : ev' = [ev EXCEPT ![t] = e]
      /\ todo' = todo \/ \E s : todo' = [todo EXCEPT ![t] = s]
      /\ cont' = cont \/ \E c : cont' = [cont EXCEPT ![t] = c]
  BY DEF ConsumerStep, PopNothing, LoopAgain, LoopEnd, RunSystemEvent, RunStopThreads,
         RunMinionShutdown, RunOnce, RunAgain, Executes, TriggerAll
<1>7. \A u \in Threads : u # t => /\ pc'[u] = pc[u] /\ ev'[u] = ev[u]
                                  /\ todo'[u] = todo[u] /\ cont'[u] = cont[u]
  BY <1>1, <1>5, <1>6, Elsewhere
<1>8. Booted' => Booted
  BY <1>1, <1>7 DEF Booted
<1> QED BY <1>1, <1>2, <1>4, <1>7, <1>8, KeptQuiet

\* The consumer of the global dispatcher executes: SHUTTING_DOWN becomes an event of
\* the handler, or the handler has been executed; the handler unregisters itself
\* when it begins to stop the transport engine.
LEMMA KeptGlobal ==
    ASSUME Inv, PlaceInv, NEW g, Globals = {g}, Handling(g), ConsumerStep(g), ~Pop(g)
    PROVE  Kept(g)
<1>1. /\ g \in Globals /\ g \in Threads /\ g \in Consumers /\ g # Main /\ g # Listener
      /\ Main \in Threads /\ Listener \in Threads
  BY Kinds
<1>2. UNCHANGED <<queue, shut, qshut>>
  BY DEF ConsumerStep, PopNothing, LoopAgain, LoopEnd, RunSystemEvent, RunStopThreads,
         RunMinionShutdown, RunOnce, RunAgain, dispVars
<1>3. ASSUME NEW l, pc' = [pc EXCEPT ![g] = l],
             ev' = ev \/ \E e : ev' = [ev EXCEPT ![g] = e],
             todo' = todo \/ \E s : todo' = [todo EXCEPT ![g] = s],
             cont' = cont \/ \E c : cont' = [cont EXCEPT ![g] = c]
      PROVE  /\ pc'[g] = l /\ pc'[Main] = pc[Main] /\ todo'[Main] = todo[Main]
             /\ cont'[Main] = cont[Main] /\ (Booted' <=> Booted)
  <2>1. /\ pc'[g] = l
        /\ \A u \in Threads : u # g => /\ pc'[u] = pc[u] /\ ev'[u] = ev[u]
                                       /\ todo'[u] = todo[u] /\ cont'[u] = cont[u]
    BY <1>1, <1>3, Elsewhere
  <2> QED BY <2>1, <1>1 DEF Booted
<1>4. /\ ev \in [Threads -> Events \union {"none"}] /\ todo \in [Threads -> Seq(Entries)]
  BY ThreadTypes DEF Inv
<1>5. CASE PopNothing(g) \/ LoopAgain(g) \/ LoopEnd(g)
  <2>1. /\ pc[g] \in {"pop", "check"} /\ UNCHANGED <<ev, todo, cont, registered>>
        /\ \E l \in {"check", "pop", "exited"} : pc' = [pc EXCEPT ![g] = l]
    BY <1>5 DEF PopNothing, LoopAgain, LoopEnd, Goto, At, dispVars
  <2>2. pc'[g] \in {"check", "pop", "exited"} /\ pc'[Main] = pc[Main] /\ (Booted' <=> Booted)
    BY <2>1, <1>3
  <2>3. ev[g] = "none" /\ ~Passing(g) /\ ~Passing(g)'
    BY <2>1, <2>2, <1>1 DEF PlaceInv, Passing, Pushing
  <2> QED BY <2>1, <2>2, <2>3, <1>1, <1>2, KeptQuiet
<1>6. ASSUME NEW e, Executes(g, e), NEW l, pc' = [pc EXCEPT ![g] = l],
             \/ l = "check" /\ UNCHANGED <<todo, cont>>
             \/ \E x \in Entries : /\ x.event # "stop_threads"
                                   /\ todo' = [todo EXCEPT ![g] = <<x>>]
                                   /\ cont' = [cont EXCEPT ![g] = "check"],
             e \notin {"SHUTTING_DOWN", "stop_threads"},
             "stop_threads" \in registered => "stop_threads" \in registered'
      PROVE  Kept(g)
  <2>1. pc[g] = "run" /\ ev[g] = e /\ ev' = [ev EXCEPT ![g] = "none"]
    BY <1>6 DEF Executes, At
  <2>2. /\ pc'[g] = l /\ pc'[Main] = pc[Main] /\ todo'[Main] = todo[Main]
        /\ cont'[Main] = cont[Main] /\ (Booted' <=> Booted) /\ ev'[g] = "none"
    BY <2>1, <1>1, <1>3, <1>4, <1>6
  <2>3. ~Passing(g)
    BY <2>1 DEF Passing, Pushing
  <2>4. ~Passing(g)'
    <3>1. CASE l = "check"
      BY <3>1, <2>2 DEF Passing, Pushing
    <3>2. ASSUME NEW x \in Entries, x.event # "stop_threads", todo' = [todo EXCEPT ![g] = <<x>>]
          PROVE  ~Passing(g)'
      <4>1. todo'[g][1] = x
        BY <3>2, <1>1, <1>4
      <4> QED BY <4>1, <3>2 DEF Passing
    <3> QED BY <3>1, <3>2, <1>6
  <2> QED BY <2>1, <2>2, <2>3, <2>4, <1>1, <1>2, <1>6, KeptQuiet
<1>7. CASE RunMinionShutdown(g)
  <2>1. /\ Executes(g, "minion_shutdown") /\ registered' = registered \ {"minion_shutdown"}
        /\ pc' = [pc EXCEPT ![g] = "check"] /\ UNCHANGED <<todo, cont>>
    BY <1>7 DEF RunMinionShutdown, Goto
  <2>2. "stop_threads" \in registered => "stop_threads" \in registered'
    BY <2>1
  <2>3. "minion_shutdown" \notin {"SHUTTING_DOWN", "stop_threads"}
    OBVIOUS
  <2>4. /\ Executes(g, "minion_shutdown") /\ pc' = [pc EXCEPT ![g] = "check"]
        /\ UNCHANGED <<todo, cont>>
    BY <2>1
  <2> QED BY <2>2, <2>3, <2>4, <1>6
<1>8. CASE RunOnce(g)
  <2>1. /\ Executes(g, "once") /\ registered' = registered
        /\ \/ Goto(g, "check") /\ UNCHANGED <<todo, cont>>
           \/ TriggerAll(g, <<On("globald", "stream")>>, "check")
    BY <1>8 DEF RunOnce, dispVars
  <2>2. On("globald", "stream") \in Entries /\ On("globald", "stream").event # "stop_threads"
    BY Entrants DEF On
  <2> QED BY <2>1, <2>2, <1>6 DEF Goto, TriggerAll
<1>9. CASE RunAgain(g)
  BY <1>1, <1>9 DEF RunAgain, Executes, Inv, RouteInv
<1>10. CASE RunStopThreads(g)
  <2>1. /\ pc[g] = "run" /\ pc' = [pc EXCEPT ![g] = "stop"] /\ UNCHANGED <<todo, cont>>
        /\ ev' = [ev EXCEPT ![g] = "none"]
    BY <1>10 DEF RunStopThreads, Executes, Goto, At
  <2>2. /\ pc'[g] = "stop" /\ pc'[Main] = pc[Main] /\ ev'[g] = "none"
    BY <2>1, <1>1, <1>3, <1>4
  <2>3. Acting(g)' /\ ~Passing(g)'
    BY <2>2 DEF Acting, Passing, Pushing
  <2>4. Handling(g)'
    BY <2>1, <2>3, <1>2 DEF Handling
  <2>5. Ordered(g) => Ordered(g)'
    BY <2>2, <2>3, <1>2 DEF Ordered, Followed
  <2> QED BY <2>1, <2>2, <2>3, <2>4, <2>5, <1>2 DEF Kept, Underway
<1>11. CASE RunSystemEvent(g)
  <2>1. PICK e \in SystemEvents :
           /\ Executes(g, e)
           /\ IF e \in DOMAIN HandlerOf /\ HandlerOf[e] \in registered
              THEN TriggerAll(g, <<On("globald", HandlerOf[e])>>, "check")
              ELSE Goto(g, "check") /\ UNCHANGED <<todo, cont>>
    BY <1>11 DEF RunSystemEvent
  <2>2. registered' = registered
    BY <1>11 DEF RunSystemEvent, dispVars
  <2>3. CASE e # "SHUTTING_DOWN"
    <3>1. e # "stop_threads"
      BY DEF SystemEvents
    <3>2. CASE e \in DOMAIN HandlerOf /\ HandlerOf[e] \in registered
      <4>1. HandlerOf[e] = "minion_shutdown"
        BY <2>3, <3>2 DEF HandlerOf
      <4>2. /\ On("globald", "minion_shutdown") \in Entries
            /\ On("globald", "minion_shutdown").event # "stop_threads"
        BY Entrants DEF On
      <4> QED BY <4>1, <4>2, <3>1, <3>2, <2>1, <2>2, <2>3, <1>6 DEF TriggerAll, Goto
    <3>3. CASE ~(e \in DOMAIN HandlerOf /\ HandlerOf[e] \in registered)
      BY <3>1, <3>3, <2>1, <2>2, <2>3, <1>6 DEF Goto
    <3> QED BY <3>2, <3>3
  <2>4. CASE e = "SHUTTING_DOWN"
    <3>1. pc[g] = "run" /\ ev[g] = "SHUTTING_DOWN" /\ ev' = [ev EXCEPT ![g] = "none"]
      BY <2>1, <2>4 DEF Executes, At
    <3>2. e \in DOMAIN HandlerOf /\ HandlerOf[e] = "stop_threads"
      BY <2>4 DEF HandlerOf
    <3>3. PICK l \in {"trigger", "check"} :
             /\ pc' = [pc EXCEPT ![g] = l]
             /\ \/ l = "check" /\ "stop_threads" \notin registered /\ UNCHANGED <<todo, cont>>
                \/ /\ l = "trigger"
                   /\ todo' = [todo EXCEPT ![g] = <<On("globald", "stop_threads")>>]
                   /\ cont' = [cont EXCEPT ![g] = "check"]
      BY <2>1, <3>2 DEF TriggerAll, Goto
    <3>4. /\ pc'[g] = l /\ pc'[Main] = pc[Main] /\ todo'[Main] = todo[Main]
          /\ cont'[Main] = cont[Main] /\ (Booted' <=> Booted) /\ ev'[g] = "none"
      BY <3>1, <3>3, <1>1, <1>3, <1>4
    <3>5. Acting(g) => Acting(g)'
      BY <3>1, <3>4, <1>2 DEF Acting
    <3>6. Booted => Underway(g)'
      <4>1. CASE l = "trigger"
        <5>1. todo'[g] = <<On("globald", "stop_threads")>>
          BY <4>1, <3>3, <1>1, <1>4
        <5>2. Passing(g)'
          BY <5>1, <4>1, <3>4 DEF Passing, Pushing, On
        <5> QED BY <5>2 DEF Underway
      <4>2. CASE l = "check"
        <5>1. Booted => Acting(g)
          BY <4>2, <3>3 DEF Handling
        <5> QED BY <5>1, <3>5 DEF Underway
      <4> QED BY <4>1, <4>2
    <3>7. Ordered(g) => Ordered(g)'
      BY <3>1, <1>2 DEF Ordered, Followed, Held, Occurs
    <3>8. Handling(g)'
      BY <3>1, <3>4, <3>5, <2>2, <1>2 DEF Handling
    <3> QED BY <3>1, <3>4, <3>5, <3>6, <3>7, <3>8, <1>2 DEF Kept
  <2> QED BY <2>3, <2>4
<1> QED BY <1>5, <1>7, <1>8, <1>9, <1>10, <1>11 DEF ConsumerStep

\* The listener accepts, shutdown is asked for, or nothing happens.
LEMMA KeptOthers ==
    ASSUME Inv, NEW g, Globals = {g}, Handling(g), Accept \/ AskShutdown \/ UNCHANGED vars
    PROVE  Kept(g)
<1>1. /\ g \in Globals /\ g \in Threads /\ g # Listener
      /\ Main \in Threads /\ Main # Listener /\ Listener \in Threads
  BY Kinds
<1>2. CASE Accept
  <2>1. /\ UNCHANGED <<queue, shut, qshut, registered, ev>> /\ pc[Listener] = "accept"
        /\ pc' = [pc EXCEPT ![Listener] = "trigger"]
        /\ \E s : todo' = [todo EXCEPT ![Listener] = s]
        /\ \E c : cont' = [cont EXCEPT ![Listener] = c]
    BY <1>2 DEF Accept, TriggerAll, Goto, At, dispVars
  <2>2. /\ \A u \in Threads : u # Listener => /\ pc'[u] = pc[u] /\ ev'[u] = ev[u]
                                              /\ todo'[u] = todo[u] /\ cont'[u] = cont[u]
    BY <2>1, <1>1, Elsewhere
  <2>3. Booted
    BY <2>1 DEF Booted
  <2> QED BY <2>1, <2>2, <2>3, <1>1, KeptQuiet
<1>3. CASE AskShutdown \/ UNCHANGED vars
  <2>1. UNCHANGED <<queue, shut, qshut, registered, ev, pc, todo, cont>>
    BY <1>3 DEF AskShutdown, vars, dispVars, threadVars
  <2>2. Booted' <=> Booted
    BY <2>1 DEF Booted
  <2> QED BY <2>1, <2>2, <1>1, KeptQuiet
<1> QED BY <1>2, <1>3

\* What a step of another thread keeps is all the main thread relies on.
LEMMA OthersStep ==
    ASSUME Inv, NEW g, Globals = {g}, StopFlags(g), Handling(g), Journey(g), Kept(g)
    PROVE  StopFlags(g)' /\ Handling(g)' /\ Journey(g)'
<1>1. StopFlags(g)'
  BY DEF StopFlags, Kept
<1>2. Ending' <=> Ending
  BY DEF Ending, Kept
<1>3. Ending \/ pc[Main] = "drain" => "globald" \notin shut \union qshut /\ Booted
  BY DEF Inv, BootInv, Booting, Ending, StopFlags, Pushing
<1>4. Journey(g)'
  BY <1>2, <1>3 DEF Journey, Kept, Last, LastTwo, On
<1> QED BY <1>1, <1>4 DEF Kept

-----------------------------------------------------------------------------
(* The way of SHUTTING_DOWN to its handler: the steps of the main thread.  *)

\* A step of the main thread leaves the consumer g of the global dispatcher alone.
LEMMA MainElsewhere ==
    ASSUME Inv, NEW g \in Globals, TriggerStep(Main) \/ StopStep(Main) \/ MainStep
    PROVE  pc'[g] = pc[g] /\ ev'[g] = ev[g] /\ todo'[g] = todo[g]
<1>1. g \in Threads /\ g # Main /\ g # Listener
  BY Kinds
<1>2. /\ pc \in [Threads -> Labels] /\ todo \in [Threads -> Seq(Entries)]
  BY ThreadTypes DEF Inv
<1>3. ev' = ev /\ (todo' = todo \/ \E s : todo' = [todo EXCEPT ![Main] = s])
  BY DEF TriggerStep, TriggerDropped, TriggerAccepted, Push, Advance, StopStep, StopBegin, StopQueue,
         StopEnd, MainStep, Start, Boot, PollReceive, PollEnd, Drained, Joined, Unload, TriggerAll
<1>4. pc'[g] = pc[g]
  <2>1. CASE Boot
    BY <2>1, <1>1, Kinds DEF Boot
  <2>2. CASE Unload
    BY <2>2, <1>1, <1>2 DEF Unload
  <2>3. CASE ~Boot /\ ~Unload
    <3>1. \E l : pc' = [pc EXCEPT ![Main] = l]
      BY <2>3 DEF TriggerStep, TriggerDropped, TriggerAccepted, Push, Advance, StopStep, StopBegin,
         StopQueue, StopEnd, MainStep, Start, PollReceive, PollEnd, Drained, Joined, TriggerAll, Goto
    <3> QED BY <3>1, <1>1, <1>2
  <2> QED BY <2>1, <2>2, <2>3
<1> QED BY <1>1, <1>2, <1>3, <1>4

\* The main thread announces SHUTTING_DOWN and EXITING, in this order: when it goes
\* on to the drain loop the former is on its way and the latter behind it.
LEMMA EndTrigger ==
    ASSUME Inv, PlaceInv, NEW g, Globals = {g}, StopFlags(g), Handling(g), Journey(g),
           TriggerStep(Main)
    PROVE  StopFlags(g)' /\ Handling(g)' /\ Journey(g)'
<1>1. /\ Control /\ pc[Main] \in Pushing /\ UNCHANGED <<ev, shut, qshut, registered>>
      /\ g \in Globals /\ Main \in Threads /\ Listener \in Threads /\ Main # Listener
  BY Kinds DEF Inv, TriggerStep, TriggerDropped, TriggerAccepted, Push, At, Pushing, dispVars
<1>2. pc'[g] = pc[g] /\ ev'[g] = ev[g] /\ todo'[g] = todo[g]
  BY <1>1, MainElsewhere
<1>3. cont[Main] \in {"load", "poll", "drain"}
  BY <1>1 DEF Control
<1>4. PICK l \in {"push", "trigger", cont[Main]} : pc' = [pc EXCEPT ![Main] = l]
  BY DEF TriggerStep, TriggerDropped, TriggerAccepted, Push, Advance, Goto
<1>5. /\ todo' = todo \/ todo' = [todo EXCEPT ![Main] = Tail(todo[Main])]
      /\ cont' = cont \/ cont' = [cont EXCEPT ![Main] = "none"]
  BY DEF TriggerStep, TriggerDropped, TriggerAccepted, Push, Advance
<1>6. /\ pc'[Main] = l /\ pc'[Listener] = pc[Listener]
  BY <1>1, <1>4, <1>5, Elsewhere
<1>7. "globald" \notin shut /\ "globald" \notin qshut
  BY <1>1 DEF StopFlags, Pushing
<1>8. StopFlags(g)'
  BY <1>1, <1>3, <1>4, <1>6, <1>7 DEF StopFlags
<1>9. Handling(g)'
  BY <1>1, <1>2, <1>6 DEF Handling, Acting, Booted
<1>10. CASE cont[Main] # "drain"
  <2>1. cont'[Main] # "drain"
    BY <1>1, <1>5, <1>10, ThreadTypes DEF Inv
  <2>2. ~Ending' /\ l \notin Stopping \union {"join", "unload", "done", "drain"}
    BY <2>1, <1>3, <1>4, <1>10 DEF Ending, Stopping
  <2> QED BY <2>2, <1>6, <1>8, <1>9 DEF Journey
<1>11. CASE cont[Main] = "drain"
  <2>1. todo[Main] = LastTwo \/ (todo[Main] = Last /\ Underway(g))
    BY <1>1, <1>11 DEF Journey, Ending
  <2>2. /\ Head(todo[Main]).disp = "globald"
        /\ todo[Main] = LastTwo => Head(todo[Main]).event = "SHUTTING_DOWN"
        /\ todo[Main] = Last => Head(todo[Main]).event = "EXITING"
    BY <2>1 DEF Last, LastTwo, On
  <2>3. ~TriggerDropped(Main)
    BY <2>2, <1>7 DEF TriggerDropped
  <2>4. CASE TriggerAccepted(Main)
    <3>1. /\ UNCHANGED <<queue, todo, cont>> /\ pc' = [pc EXCEPT ![Main] = "push"]
      BY <2>4 DEF TriggerAccepted, Goto, dispVars
    <3>2. pc'[Main] = "push"
      BY <3>1, <1>1, ThreadTypes DEF Inv
    <3>3. Underway(g) => Underway(g)'
      BY <3>1, <1>1, <1>2, StageFrame
    <3> QED BY <3>1, <3>2, <3>3, <2>1, <1>8, <1>9 DEF Journey, Stopping, Last, LastTwo, On
  <2>5. CASE Push(Main)
    <3>1. queue \in [Dispatchers -> Seq(Events)] /\ queue["globald"] \in Seq(Events)
          /\ todo \in [Threads -> Seq(Entries)] /\ cont \in [Threads -> Labels \union {"none"}]
      BY ThreadTypes DEF Inv, TypeOK, Dispatchers
    <3>2. Advance(Main) /\ queue'["globald"] = Append(queue["globald"], Head(todo[Main]).event)
      BY <2>2, <2>5, <3>1, <1>7 DEF Push, Dispatchers
    <3>3. todo'[Main] = Tail(todo[Main])
      BY <3>1, <3>2, <1>1 DEF Advance
    <3>4. Acting(g)' <=> Acting(g)
      BY <1>1, <1>2 DEF Acting
    <3>5. Passing(g)' <=> Passing(g)
      BY <1>2 DEF Passing
    <3>6. CASE todo[Main] = LastTwo
      <4>1. queue'["globald"] = Append(queue["globald"], "SHUTTING_DOWN")
        BY <3>2, <3>6, <2>2
      <4>2. Occurs("SHUTTING_DOWN", Append(queue["globald"], "SHUTTING_DOWN"))
        BY <3>1, PushOrder DEF Events, SystemEvents
      <4>3. Underway(g)'
        BY <4>1, <4>2 DEF Underway, Held, Occurs
      <4>4. Tail(LastTwo) = Last /\ Len(LastTwo) > 1
        BY DEF Last, LastTwo
      <4>5. todo'[Main] = Last /\ pc' = [pc EXCEPT ![Main] = "trigger"]
        BY <4>4, <3>2, <3>3, <3>6 DEF Advance, Goto
      <4>6. pc'[Main] = "trigger"
        BY <4>5, <1>1, ThreadTypes DEF Inv
      <4> QED BY <4>3, <4>5, <4>6, <1>8, <1>9 DEF Journey, Stopping, Last, On
    <3>7. CASE todo[Main] = Last /\ Underway(g)
      <4>1. queue'["globald"] = Append(queue["globald"], "EXITING")
        BY <3>2, <3>7, <2>2
      <4>2. /\ Occurs("EXITING", Append(queue["globald"], "EXITING"))
            /\ \A f : Occurs(f, queue["globald"]) => Occurs(f, Append(queue["globald"], "EXITING"))
            /\ Followed(Append(queue["globald"], "EXITING"))
        BY <3>1, PushOrder DEF Events, SystemEvents
      <4>3. /\ Occurs("EXITING", queue'["globald"]) /\ Followed(queue'["globald"])
            /\ \A f : Occurs(f, queue["globald"]) => Occurs(f, queue'["globald"])
        BY <4>1, <4>2
      <4>4. /\ Held("EXITING")' /\ Followed(queue["globald"])' /\ \A f : Held(f) => Held(f)'
        BY <4>3 DEF Held, Occurs, Followed
      <4>5. Underway(g)' /\ Ordered(g)'
        BY <4>4, <3>4, <3>5, <3>7, <1>2 DEF Underway, Ordered
      <4>6. ~(Len(Last) > 1)
        BY DEF Last
      <4>7. pc' = [pc EXCEPT ![Main] = "drain"]
        BY <4>6, <3>2, <3>7, <1>11 DEF Advance, Goto
      <4>8. pc'[Main] = "drain"
        BY <4>7, <1>1, ThreadTypes DEF Inv
      <4>9. ~Ending'
        BY <4>8 DEF Ending, Pushing
      <4> QED BY <4>5, <4>8, <4>9, <1>8, <1>9 DEF Journey, Stopping
    <3> QED BY <3>6, <3>7, <2>1
  <2> QED BY <2>3, <2>4, <2>5 DEF TriggerStep
<1> QED BY <1>10, <1>11

\* The main thread stops the global dispatcher: it waits for the consumer to leave.
LEMMA EndStop ==
    ASSUME Inv, PlaceInv, NEW g, Globals = {g}, StopFlags(g), Handling(g), Journey(g),
           StopStep(Main)
    PROVE  StopFlags(g)' /\ Handling(g)' /\ Journey(g)'
<1>1. /\ pc[Main] \in Stopping /\ UNCHANGED <<queue, ev, registered, todo, cont>>
      /\ g \in Globals /\ Main \in Threads /\ Listener \in Threads /\ Main # Listener
      /\ Target(Main) = "globald" /\ AfterStop(Main) = "join"
  BY Kinds DEF StopStep, StopBegin, StopQueue, StopEnd, At, Stopping, Target, AfterStop
<1>2. pc'[g] = pc[g] /\ ev'[g] = ev[g] /\ todo'[g] = todo[g]
  BY <1>1, MainElsewhere
<1>3. "globald" \in shut => pc[Main] # "stop"
  BY DEF StopFlags
<1>4. PICK l \in {"stop_queue", "stop_wait", "join"} :
         /\ pc' = [pc EXCEPT ![Main] = l]
         /\ pc[Main] = "stop" => l = "stop_queue"
         /\ pc[Main] = "stop_queue" => l = "stop_wait"
         /\ pc[Main] = "stop_wait" => l = "join"
  BY <1>1, <1>3 DEF StopStep, StopBegin, StopQueue, StopEnd, Goto, At
<1>5. pc'[Main] = l /\ pc'[Listener] = pc[Listener]
  BY <1>1, <1>4, Elsewhere
<1>6. /\ "transport" \in qshut' <=> "transport" \in qshut
      /\ "transport" \in shut' <=> "transport" \in shut
      /\ "globald" \in shut' => l \in {"stop_queue", "stop_wait"}
      /\ "globald" \in qshut' => "globald" \in qshut \/ l = "stop_wait"
      /\ "globald" \in qshut => "globald" \in qshut'
  BY <1>1, <1>4 DEF StopStep, StopBegin, StopQueue, StopEnd, At
<1>7. ASSUME l = "join" PROVE "globald" \in qshut' /\ pc[g] = "exited"
  <2>1. pc[Main] = "stop_wait"
    BY <1>1, <1>4, <1>7 DEF Stopping
  <2>2. "globald" \in qshut
    BY <2>1, <1>1 DEF Inv, StopInv
  <2>3. running["globald"] = 0
    BY <2>1, <1>1 DEF StopStep, StopBegin, StopQueue, StopEnd, At
  <2>4. Live(Globals) = {}
    BY <2>3, LiveFinite, FS_EmptySet DEF Inv, CountInv
  <2>5. pc[g] = "exited"
    BY <2>4, <1>1 DEF Live, Inv, BootInv
  <2> QED BY <2>2, <2>5, <1>6
<1>8. StopFlags(g)'
  <2>1. "globald" \in qshut => pc[Main] = "stop_wait"
    BY <1>1 DEF StopFlags, Stopping
  <2> QED BY <2>1, <1>2, <1>4, <1>5, <1>6, <1>7 DEF StopFlags
<1>9. Acting(g)' <=> Acting(g)
  BY <1>2, <1>6 DEF Acting
<1>10. Handling(g)'
  BY <1>1, <1>2, <1>5, <1>6, <1>9 DEF Handling, Booted
<1>11. Journey(g)'
  <2>1. Acting(g)
    BY <1>1 DEF Journey
  <2>2. ~Ending' /\ pc'[Main] # "drain"
    BY <1>4, <1>5 DEF Ending, Pushing
  <2> QED BY <2>1, <2>2, <1>9 DEF Journey
<1> QED BY <1>8, <1>10, <1>11

\* The other steps of run(): the drain loop ends on an empty queue, so the handler
\* of SHUTTING_DOWN is executing or has been.
LEMMA EndMain ==
    ASSUME Inv, PlaceInv, NEW g, Globals = {g}, StopFlags(g), Handling(g), Journey(g), MainStep
    PROVE  StopFlags(g)' /\ Handling(g)' /\ Journey(g)'
<1>1. /\ UNCHANGED <<queue, shut, qshut>>
      /\ g \in Globals /\ Main \in Threads /\ Listener \in Threads /\ Main # Listener
  BY Kinds DEF MainStep, Start, Boot, PollReceive, PollEnd, Drained, Joined, Unload, dispVars
<1>2. pc'[g] = pc[g] /\ ev'[g] = ev[g] /\ todo'[g] = todo[g]
  BY <1>1, MainElsewhere
<1>3. /\ Acting(g)' <=> Acting(g)
      /\ Underway(g)' <=> Underway(g)
      /\ Ordered(g)' <=> Ordered(g)
  BY <1>1, <1>2, StageFrame
<1>4. /\ pc \in [Threads -> Labels] /\ todo \in [Threads -> Seq(Entries)]
      /\ cont \in [Threads -> Labels \union {"none"}]
  BY ThreadTypes DEF Inv
<1>5. ASSUME registered' = registered, Booted' => Booted PROVE Handling(g)'
  BY <1>1, <1>2, <1>3, <1>5 DEF Handling
<1>6. CASE Start \/ PollReceive
  <2>1. /\ pc[Main] \in {"boot", "poll"} /\ registered' = registered
        /\ pc' = [pc EXCEPT ![Main] = "trigger"]
        /\ \E c \in {"load", "poll"} : cont' = [cont EXCEPT ![Main] = c]
    BY <1>6 DEF Start, PollReceive, At, TriggerAll, Goto, dispVars
  <2>2. /\ pc'[Main] = "trigger" /\ pc'[Listener] = pc[Listener] /\ cont'[Main] \in {"load", "poll"}
    BY <2>1, <1>1, <1>4
  <2>3. StopFlags(g)'
    BY <2>1, <2>2, <1>1 DEF StopFlags
  <2>4. Journey(g)'
    BY <2>2 DEF Journey, Ending, Stopping
  <2>5. Handling(g)'
    BY <2>1, <2>2, <1>5 DEF Booted
  <2> QED BY <2>3, <2>4, <2>5
<1>7. CASE Boot
  <2>0. pc'[Main] = "trigger"
    BY <1>7, Kinds DEF Boot
  <2>1. /\ pc[Main] = "load" /\ registered' = Handlers /\ pc'[Main] = "trigger"
        /\ cont'[Main] = "poll"
    BY <2>0, <1>1, <1>4, <1>7 DEF Boot, At
  <2>2. StopFlags(g)'
    BY <2>1, <1>1 DEF StopFlags
  <2>3. Journey(g)'
    BY <2>1 DEF Journey, Ending, Stopping
  <2>4. "stop_threads" \in Handlers
    BY DEF Handlers, HandlerOf
  <2>5. Handling(g)'
    BY <2>1, <2>4, <1>1, <1>2 DEF Handling
  <2> QED BY <2>2, <2>3, <2>5
<1>8. CASE PollEnd
  <2>1. /\ pc[Main] = "poll" /\ registered' = registered
        /\ pc' = [pc EXCEPT ![Main] = "trigger"] /\ todo' = [todo EXCEPT ![Main] = LastTwo]
    BY <1>8 DEF PollEnd, At, TriggerAll, Goto, LastTwo, dispVars
  <2>2. pc'[Main] = "trigger" /\ pc'[Listener] = pc[Listener] /\ todo'[Main] = LastTwo
    BY <2>1, <1>1, <1>4
  <2>3. StopFlags(g)'
    BY <2>1, <2>2, <1>1 DEF StopFlags
  <2>4. Journey(g)'
    BY <2>2 DEF Journey, Stopping, LastTwo, On
  <2>5. Handling(g)'
    BY <2>1, <2>2, <1>5 DEF Booted
  <2> QED BY <2>3, <2>4, <2>5
<1>9. CASE Drained
  <2>1. /\ pc[Main] = "drain" /\ queue["globald"] = <<>> /\ registered' = registered
        /\ pc' = [pc EXCEPT ![Main] = "stop"]
    BY <1>9 DEF Drained, At, Goto, dispVars
  <2>2. pc'[Main] = "stop" /\ pc'[Listener] = pc[Listener]
    BY <2>1, <1>1, <1>4
  <2>3. \A e : ~Held(e)
    BY <2>1 DEF Held, Occurs
  <2>4. Acting(g)
    BY <2>1, <2>3 DEF Journey, Underway, Ordered
  <2>5. StopFlags(g)'
    BY <2>1, <2>2, <1>1 DEF StopFlags
  <2>6. Journey(g)'
    BY <2>2, <2>4, <1>3 DEF Journey, Ending, Pushing
  <2>7. Handling(g)'
    BY <2>1, <2>2, <1>5 DEF Booted
  <2> QED BY <2>5, <2>6, <2>7
<1>10. CASE Joined \/ Unload
  <2>1. /\ pc[Main] \in {"join", "unload"} /\ registered' = registered
        /\ pc'[Main] \in {"unload", "done"}
    BY <1>1, <1>4, <1>10 DEF Joined, Unload, At, Goto, dispVars
  <2>2. Booted
    BY <2>1 DEF Inv, BootInv, Booting, Pushing
  <2>3. StopFlags(g)'
    BY <2>1, <1>1, <1>2 DEF StopFlags
  <2>4. Journey(g)'
    BY <2>1, <1>3 DEF Journey, Ending, Pushing
  <2> QED BY <2>1, <2>2, <2>3, <2>4, <1>5
<1> QED BY <1>6, <1>7, <1>8, <1>9, <1>10 DEF MainStep

\* The process begins with nothing announced and nothing stopped.
LEMMA EndInit == ASSUME NEW g, Globals = {g} PROVE Init => EndInv(g)
<1> SUFFICES ASSUME Init PROVE EndInv(g)
  OBVIOUS
<1>1. /\ \A t \in Threads : /\ ev[t] = "none" /\ todo[t] = <<>>
                            /\ pc[t] = IF t = Main THEN "boot"
                                       ELSE IF t \in Globals THEN "pop" ELSE "unborn"
      /\ queue["transport"] = <<>> /\ shut = {} /\ qshut = {}
  BY DEF Init, Dispatchers
<1>2. PlaceInv
  BY <1>1, Kinds DEF PlaceInv, Stopping
<1>3. pc[Main] = "boot" /\ pc[Listener] = "unborn"
  BY <1>1, Kinds
<1>4. StopFlags(g) /\ Handling(g) /\ Journey(g)
  BY <1>1, <1>3 DEF StopFlags, Handling, Journey, Ending, Booted, Pushing, Stopping
<1> QED BY <1>2, <1>4 DEF EndInv

\* Every step keeps what the main thread relies on.
LEMMA EndNext == ASSUME NEW g, Globals = {g} PROVE Inv /\ EndInv(g) /\ [Next]_vars => EndInv(g)'
<1> SUFFICES ASSUME Inv, EndInv(g), [Next]_vars PROVE EndInv(g)'
  OBVIOUS
<1>1. PlaceInv /\ StopFlags(g) /\ Handling(g) /\ Journey(g) /\ g \in Globals
  BY DEF EndInv
<1>2. PlaceInv'
  BY <1>1, PlaceStep
<1>3. CASE TriggerStep(Main) \/ StopStep(Main) \/ MainStep
  BY <1>1, <1>2, <1>3, EndTrigger, EndStop, EndMain DEF EndInv
<1>4. ASSUME Kept(g) PROVE EndInv(g)'
  BY <1>1, <1>2, <1>4, OthersStep DEF EndInv
<1>5. ASSUME NEW t \in Threads \ {Main}, TriggerStep(t) \/ StopStep(t) PROVE EndInv(g)'
  BY <1>1, <1>4, <1>5, KeptTrigger, KeptStop
<1>6. ASSUME NEW t \in Consumers, ConsumerStep(t) PROVE EndInv(g)'
  <2>1. CASE Pop(t)
    BY <2>1, <1>1, <1>4, <1>6, KeptPop
  <2>2. CASE ~Pop(t) /\ t = g
    BY <2>2, <1>1, <1>4, <1>6, KeptGlobal
  <2>3. CASE ~Pop(t) /\ t # g
    <3>1. t \in Workers
      BY <2>3, <1>6, Kinds
    <3> QED BY <3>1, <2>3, <1>1, <1>4, <1>6, KeptWorker
  <2> QED BY <2>1, <2>2, <2>3
<1>7. CASE Accept \/ AskShutdown \/ UNCHANGED vars
  BY <1>1, <1>4, <1>7, KeptOthers
<1> QED BY <1>3, <1>5, <1>6, <1>7 DEF Next

\* What the end of run() may rely on when the global dispatcher has any number of
\* consumers: its queue is shut down before the threads are waited for.
DownFirst ==
    /\ "globald" \in shut => pc[Main] \in {"stop_queue", "stop_wait"}
    /\ pc[Main] \in {"join", "unload", "done"} => "globald" \in qshut

\* Only the main thread stops the global dispatcher, and it shuts the queue down
\* before it goes on.
LEMMA DownNext == Inv /\ DownFirst /\ [Next]_vars => DownFirst'
<1> SUFFICES ASSUME Inv, DownFirst, [Next]_vars PROVE DownFirst'
  OBVIOUS
<1>1. /\ pc \in [Threads -> Labels] /\ Main \in Threads /\ Listener \in Threads /\ Main # Listener
      /\ Main \notin Consumers
  BY ThreadTypes, Kinds DEF Inv
<1>2. ASSUME NEW t \in Threads, t # Main, NEW l, pc' = [pc EXCEPT ![t] = l],
             "globald" \in shut' <=> "globald" \in shut,
             "globald" \in qshut' <=> "globald" \in qshut
      PROVE  DownFirst'
  <2>1. pc'[Main] = pc[Main]
    BY <1>1, <1>2
  <2> QED BY <2>1, <1>2 DEF DownFirst
<1>3. ASSUME NEW l, pc'[Main] = l, UNCHANGED <<shut, qshut>>,
             pc[Main] \notin {"stop_queue", "stop_wait"},
             l \in {"unload", "done"} => pc[Main] \in {"join", "unload"}, l # "join"
      PROVE  DownFirst'
  BY <1>3 DEF DownFirst
<1>4. ASSUME NEW t \in Threads, TriggerStep(t) PROVE DownFirst'
  <2>1. UNCHANGED <<shut, qshut>> /\ pc[t] \in Pushing
    BY <1>4 DEF TriggerStep, TriggerDropped, TriggerAccepted, Push, dispVars, At, Pushing
  <2>2. PICK l \in {"push", "trigger", cont[t]} : pc' = [pc EXCEPT ![t] = l]
    BY <1>4 DEF TriggerStep, TriggerDropped, TriggerAccepted, Push, Advance, Goto
  <2>3. CASE t # Main
    BY <2>1, <2>2, <2>3, <1>2
  <2>4. CASE t = Main
    <3>1. cont[Main] \in {"load", "poll", "drain"}
      BY <2>1, <2>4 DEF Inv, Control
    <3>2. pc'[Main] = l
      BY <2>2, <2>4, <1>1
    <3> QED BY <3>1, <3>2, <2>1, <2>2, <2>4, <1>3 DEF Pushing
  <2> QED BY <2>3, <2>4
<1>5. ASSUME NEW t \in Threads, StopStep(t) PROVE DownFirst'
  <2>1. CASE t # Main
    <3>1. Target(t) = "transport"
      BY <2>1 DEF Target
    <3>2. /\ "globald" \in shut' <=> "globald" \in shut
          /\ "globald" \in qshut' <=> "globald" \in qshut
          /\ \E l : pc' = [pc EXCEPT ![t] = l]
      BY <3>1, <1>5 DEF StopStep, StopBegin, StopQueue, StopEnd, Goto
    <3> QED BY <3>2, <2>1, <1>2
  <2>2. CASE t = Main
    <3>1. Target(Main) = "globald" /\ AfterStop(Main) = "join"
      BY DEF Target, AfterStop
    <3>2. pc[Main] = "stop" => "globald" \notin shut
      BY DEF DownFirst
    <3>3. pc[Main] = "stop_wait" => "globald" \in qshut
      BY <3>1, <1>1 DEF Inv, StopInv
    <3>4. \/ pc[Main] = "stop" /\ pc' = [pc EXCEPT ![Main] = "stop_queue"]
          \/ pc[Main] = "stop_queue" /\ pc' = [pc EXCEPT ![Main] = "stop_wait"]
          \/ /\ pc[Main] = "stop_wait" /\ pc' = [pc EXCEPT ![Main] = "join"]
             /\ shut' = shut \ {"globald"} /\ qshut' = qshut
      BY <3>1, <3>2, <2>2, <1>5 DEF StopStep, StopBegin, StopQueue, StopEnd, Goto, At
    <3>5. \/ pc'[Main] \in {"stop_queue", "stop_wait"}
          \/ pc[Main] = "stop_wait" /\ pc'[Main] = "join" /\ "globald" \notin shut' /\ qshut' = qshut
      BY <3>4, <1>1
    <3> QED BY <3>3, <3>5 DEF DownFirst
  <2> QED BY <2>1, <2>2
<1>6. ASSUME NEW t \in Consumers, ConsumerStep(t) PROVE DownFirst'
  <2>1. UNCHANGED <<shut, qshut>> /\ t \in Threads /\ t # Main
    BY <1>1, <1>6, Kinds DEF ConsumerStep, Pop, PopNothing, LoopAgain, LoopEnd, RunSystemEvent,
           RunStopThreads, RunMinionShutdown, RunOnce, RunAgain, dispVars
  <2>2. \E l : pc' = [pc EXCEPT ![t] = l]
    BY <1>6 DEF ConsumerStep, Pop, PopNothing, LoopAgain, LoopEnd, RunSystemEvent,
           RunStopThreads, RunMinionShutdown, RunOnce, RunAgain, Goto, TriggerAll
  <2> QED BY <2>1, <2>2, <1>2
<1>7. CASE MainStep
  <2>1. UNCHANGED <<shut, qshut>>
    BY <1>7 DEF MainStep, Start, Boot, PollReceive, PollEnd, Drained, Joined, Unload, dispVars
  <2>2. CASE Boot
    <3>1. pc'[Main] = "trigger"
      BY <2>2, Kinds DEF Boot
    <3>2. pc[Main] = "load"
      BY <2>2 DEF Boot, At
    <3> QED BY <3>1, <3>2, <2>1, <1>3
  <2>3. CASE ~Boot
    <3>1. /\ pc[Main] \in {"boot", "poll", "drain", "join", "unload"}
          /\ pc'[Main] \in {"trigger", "stop", "unload", "done"}
          /\ pc'[Main] \in {"unload", "done"} => pc[Main] \in {"join", "unload"}
      BY <2>3, <1>1, <1>7 DEF MainStep, Start, PollReceive, PollEnd, Drained, Joined, Unload,
             TriggerAll, Goto, At
    <3> QED BY <3>1, <2>1, <1>3
  <2> QED BY <2>2, <2>3
<1>8. CASE Accept
  BY <1>1, <1>2, <1>8 DEF Accept, TriggerAll, Goto, dispVars
<1>9. CASE AskShutdown \/ UNCHANGED vars
  BY <1>9 DEF AskShutdown, vars, dispVars, threadVars, DownFirst
<1> QED BY <1>4, <1>5, <1>6, <1>7, <1>8, <1>9 DEF Next

\* The process ends in order: the global dispatcher's queue is shut down before its
\* threads are waited for, and when that dispatcher has one consumer the handler of
\* SHUTTING_DOWN has shut the transport engine's queue down before, although the
\* drain loop does not see an event that is being executed: EXITING stays behind
\* SHUTTING_DOWN in the queue until the handler's own event is there.
THEOREM ProcessEndsInOrder == Spec => []OrderlyEnd
<1>1. Spec => []DownFirst
  <2>1. Init => DownFirst
    <3>1. Init => shut = {} /\ pc[Main] = "boot"
      BY Kinds DEF Init
    <3> QED BY <3>1 DEF DownFirst
  <2> QED BY <2>1, DownNext, RuntimeInvariant, PTL DEF Spec
<1>2. ASSUME Cardinality(Globals) # 1 PROVE Spec => []OrderlyEnd
  <2>1. Inv /\ DownFirst => OrderlyEnd
    BY <1>2 DEF Inv, DownFirst, OrderlyEnd
  <2> QED BY <2>1, <1>1, RuntimeInvariant, PTL
<1>3. ASSUME NEW g, Globals = {g} PROVE Spec => []OrderlyEnd
  <2>1. Init => EndInv(g)
    BY <1>3, EndInit
  <2>2. Inv /\ EndInv(g) /\ [Next]_vars => EndInv(g)'
    BY <1>3, EndNext
  <2>3. Inv /\ DownFirst /\ EndInv(g) => OrderlyEnd
    <3>1. SUFFICES ASSUME Inv, DownFirst, EndInv(g), pc[Main] \in {"join", "unload", "done"}
                   PROVE  "transport" \in qshut
      BY DEF Inv, DownFirst, OrderlyEnd
    <3>2. pc[g] = "exited" /\ Acting(g)
      BY <3>1 DEF EndInv, StopFlags, Journey
    <3>3. ev[g] = "none"
      BY <3>1, <3>2, <1>3, Kinds DEF EndInv, PlaceInv
    <3> QED BY <3>2, <3>3 DEF Acting
  <2> QED BY <2>1, <2>2, <2>3, <1>1, RuntimeInvariant, PTL DEF Spec
<1>4. Cardinality(Globals) = 1 => \E g : Globals = {g}
  BY FiniteAssumption, FS_CardinalityType, FS_Singleton
<1> QED BY <1>2, <1>3, <1>4
=============================================================================
