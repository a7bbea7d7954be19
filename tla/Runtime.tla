------------------------------- MODULE Runtime -------------------------------
(***************************************************************************)
(* The life of a zapata process: zpt::runtime::run, the two event          *)
(* dispatchers with their consumer threads (common/events), the system     *)
(* events that end the process, and the handlers of the transport and REST *)
(* plugins for them.                                                       *)
(*                                                                         *)
(* The dispatchers' queues are bounded FIFO queues: module LockFreeQueue   *)
(* shows that zpt::lf::queue implements one.  Every action is one step of  *)
(* one thread: a queue operation, an access to a flag or a counter, or an  *)
(* event's code between two of these.                                      *)
(***************************************************************************)
EXTENDS Integers, Sequences, FiniteSets

CONSTANTS
    Main,       \* the thread that runs zpt::runtime::run, also the poller
    Globals,    \* consumers of the global dispatcher
    Workers,    \* consumers of the transport engine's dispatcher
    Listener,   \* the accept loop of a transport plugin
    Capacity,   \* dispatcher -> capacity of its queue
    MaxReceive, \* bound: transport events the poller triggers
    MaxStream   \* bound: stream events triggered on the global dispatcher

Dispatchers == {"globald", "transport"}
Consumers   == Globals \union Workers
Threads     == Consumers \union {Main, Listener}

ASSUME ThreadAssumption   == /\ Globals \intersect Workers = {} /\ Main # Listener
                             /\ Main \notin Consumers /\ Listener \notin Consumers
ASSUME FiniteAssumption   == IsFiniteSet(Globals) /\ IsFiniteSet(Workers)
ASSUME CapacityAssumption == Capacity \in [Dispatchers -> Nat \ {0}]
ASSUME BoundAssumption    == MaxReceive \in Nat /\ MaxStream \in Nat

Of(t) == IF t \in Globals THEN "globald" ELSE "transport"

\* "SHUTTING_DOWN" and "EXITING" are the system events with handlers, and
\* "stop_threads" and "minion_shutdown" the events of these handlers; "stream"
\* is STREAM_OPENED or STREAM_CLOSED.  On the transport dispatcher, "once" stands
\* for an event that runs to its end and "again" for one that may be blocked or
\* ask to be retriggered.
SystemEvents == {"BOOTING", "FINISHED_BOOT", "SHUTTING_DOWN", "EXITING", "stream"}
HandlerOf    == [e \in {"SHUTTING_DOWN", "EXITING"} |->
                    IF e = "EXITING" THEN "minion_shutdown" ELSE "stop_threads"]
Handlers     == {HandlerOf[e] : e \in DOMAIN HandlerOf}
Events       == SystemEvents \union Handlers \union {"once", "again"}

VARIABLES
    queue,      \* dispatcher -> __queue
    shut,       \* dispatchers whose __shutdown is set
    qshut,      \* dispatchers whose queue has been shut down
    running,    \* dispatcher -> __running_consumers
    nThreads,   \* __n_threads
    registered, \* handlers in SYSTEM_EVENTS_RESOLVER
    pc,         \* thread -> what it does next
    ev,         \* thread -> the event it has popped, or "none"
    todo,       \* thread -> events it has still to trigger, with dispatcher
    cont,       \* thread -> what it does when todo is empty
    asked,      \* polling::__shutdown
    received,   \* number of transport events triggered by the poller
    streams     \* number of stream events triggered

dispVars   == <<queue, shut, qshut, running, nThreads, registered>>
threadVars == <<pc, ev, todo, cont>>
countVars  == <<asked, received, streams>>
vars == <<dispVars, threadVars, countVars>>

On(d, e) == [disp |-> d, event |-> e]

At(t, label)   == pc[t] = label
Goto(t, label) == pc' = [pc EXCEPT ![t] = label]

\* Thread t triggers the events of es one after the other, then goes on at label.
TriggerAll(t, es, label) ==
    /\ Goto(t, "trigger")
    /\ todo' = [todo EXCEPT ![t] = es]
    /\ cont' = [cont EXCEPT ![t] = label]

Init ==
    /\ queue = [d \in Dispatchers |-> <<>>]
    /\ shut = {} /\ qshut = {}
    /\ running = [d \in Dispatchers |-> IF d = "globald" THEN Cardinality(Globals) ELSE 0]
    /\ nThreads = Cardinality(Globals)
    /\ registered = {}
    /\ pc = [t \in Threads |-> IF t = Main THEN "boot"
                               ELSE IF t \in Globals THEN "pop" ELSE "unborn"]
    /\ ev = [t \in Threads |-> "none"]
    /\ todo = [t \in Threads |-> <<>>]
    /\ cont = [t \in Threads |-> "none"]
    /\ asked = FALSE
    /\ received = 0 /\ streams = 0

-----------------------------------------------------------------------------
(* dispatcher::trigger, by any thread.                                     *)

\* On to the next event, or back to where thread t was.
Advance(t) ==
    /\ todo' = [todo EXCEPT ![t] = Tail(@)]
    /\ IF Len(todo[t]) > 1
       THEN Goto(t, "trigger") /\ UNCHANGED cont
       ELSE Goto(t, cont[t]) /\ cont' = [cont EXCEPT ![t] = "none"]

\* The dispatcher is being stopped: the event is dropped.
TriggerDropped(t) ==
    /\ At(t, "trigger")
    /\ Head(todo[t]).disp \in shut
    /\ Advance(t)
    /\ UNCHANGED <<dispVars, ev, countVars>>

TriggerAccepted(t) ==
    /\ At(t, "trigger")
    /\ Head(todo[t]).disp \notin shut
    /\ Goto(t, "push")
    /\ UNCHANGED <<dispVars, ev, todo, cont, countVars>>

\* Faulty variant: a full queue is taken for one with room.
PushOverfull(t) ==
    /\ At(t, "push")
    /\ LET d == Head(todo[t]).disp
       IN queue' = IF d \in qshut \/ Len(queue[d]) > Capacity[d] THEN queue
                   ELSE [queue EXCEPT ![d] = Append(@, Head(todo[t]).event)]
    /\ Advance(t)
    /\ UNCHANGED <<shut, qshut, running, nThreads, registered, ev, countVars>>

\* queue::push waits for room; a queue that has been shut down takes nothing
\* and lets everyone go.
Push(t) ==
    /\ At(t, "push")
    /\ LET d == Head(todo[t]).disp
       IN \/ /\ d \in qshut
             /\ UNCHANGED queue
          \/ /\ d \notin qshut /\ Len(queue[d]) < Capacity[d]
             /\ queue' = [queue EXCEPT ![d] = Append(@, Head(todo[t]).event)]
    /\ Advance(t)
    /\ UNCHANGED <<shut, qshut, running, nThreads, registered, ev, countVars>>

-----------------------------------------------------------------------------
(* dispatcher::loop and trap, by a consumer.                               *)

\* An event is popped.
Pop(t) ==
    /\ At(t, "pop")
    /\ Of(t) \notin qshut /\ queue[Of(t)] # <<>>
    /\ ev' = [ev EXCEPT ![t] = Head(queue[Of(t)])]
    /\ queue' = [queue EXCEPT ![Of(t)] = Tail(@)]
    /\ Goto(t, "run")
    /\ UNCHANGED <<shut, qshut, running, nThreads, registered, todo, cont, countVars>>

\* pop returns nullptr.
PopNothing(t) ==
    /\ At(t, "pop")
    /\ Of(t) \in qshut \/ queue[Of(t)] = <<>>
    /\ Goto(t, "check")
    /\ UNCHANGED <<dispVars, ev, todo, cont, countVars>>

\* The loop's condition.
LoopAgain(t) ==
    /\ At(t, "check") /\ Of(t) \notin shut
    /\ Goto(t, "pop")
    /\ UNCHANGED <<dispVars, ev, todo, cont, countVars>>

LoopEnd(t) ==
    /\ At(t, "check") /\ Of(t) \in shut
    /\ running' = [running EXCEPT ![Of(t)] = @ - 1]
    /\ nThreads' = nThreads - 1
    /\ Goto(t, "exited")
    /\ UNCHANGED <<queue, shut, qshut, registered, ev, todo, cont, countVars>>

\* The consumer executes the event e it has popped.
Executes(t, e) ==
    /\ At(t, "run") /\ ev[t] = e
    /\ ev' = [ev EXCEPT ![t] = "none"]

\* A system event becomes one event per handler registered for it.
RunSystemEvent(t) ==
    \E e \in SystemEvents :
        /\ Executes(t, e)
        /\ IF e \in DOMAIN HandlerOf /\ HandlerOf[e] \in registered
           THEN TriggerAll(t, <<On("globald", HandlerOf[e])>>, "check")
           ELSE Goto(t, "check") /\ UNCHANGED <<todo, cont>>
        /\ UNCHANGED <<dispVars, countVars>>

\* transport_engine_stop_threads unregisters itself and stops the consumers of
\* the transport engine's dispatcher.
RunStopThreads(t) ==
    /\ Executes(t, "stop_threads")
    /\ registered' = registered \ {"stop_threads"}
    /\ Goto(t, "stop")
    /\ UNCHANGED <<queue, shut, qshut, running, nThreads, todo, cont, countVars>>

\* rest_resolver_minion_shutdown unregisters itself, tells the other nodes and
\* forgets the pending requests.
RunMinionShutdown(t) ==
    /\ Executes(t, "minion_shutdown")
    /\ registered' = registered \ {"minion_shutdown"}
    /\ Goto(t, "check")
    /\ UNCHANGED <<queue, shut, qshut, running, nThreads, todo, cont, countVars>>

\* A transport event runs; it may drop a stream, whose listener then triggers a
\* system event.
RunOnce(t) ==
    /\ Executes(t, "once")
    /\ \/ /\ Goto(t, "check")
          /\ UNCHANGED <<todo, cont, streams>>
       \/ /\ streams < MaxStream
          /\ streams' = streams + 1
          /\ TriggerAll(t, <<On("globald", "stream")>>, "check")
    /\ UNCHANGED <<dispVars, asked, received>>

\* A blocked event, or one whose stream is busy, is triggered again.
RunAgain(t) ==
    /\ Executes(t, "again")
    /\ \/ /\ Goto(t, "check")
          /\ UNCHANGED <<todo, cont>>
       \/ TriggerAll(t, <<On("transport", "again")>>, "check")
    /\ UNCHANGED <<dispVars, countVars>>

-----------------------------------------------------------------------------
(* dispatcher::stop_consumers: of the transport dispatcher by the handler  *)
(* above, of the global one by the main thread.                            *)

Target(t)    == IF t = Main THEN "globald" ELSE "transport"
AfterStop(t) == IF t = Main THEN "join" ELSE "check"

\* The exchange of __shutdown; whoever finds it set leaves the rest to the
\* thread that set it.
StopBegin(t) ==
    /\ At(t, "stop")
    /\ shut' = shut \union {Target(t)}
    /\ Goto(t, IF Target(t) \in shut THEN AfterStop(t) ELSE "stop_queue")
    /\ UNCHANGED <<queue, qshut, running, nThreads, registered, ev, todo, cont, countVars>>

\* Faulty variant: the queue is not shut down.
StopQueueForgotten(t) ==
    /\ At(t, "stop_queue")
    /\ Goto(t, "stop_wait")
    /\ UNCHANGED <<dispVars, ev, todo, cont, countVars>>

StopQueue(t) ==
    /\ At(t, "stop_queue")
    /\ qshut' = qshut \union {Target(t)}
    /\ Goto(t, "stop_wait")
    /\ UNCHANGED <<queue, shut, running, nThreads, registered, ev, todo, cont, countVars>>

\* Faulty variant: consumers are not waited for.
StopEndAtOnce(t) ==
    /\ At(t, "stop_wait")
    /\ shut' = shut \ {Target(t)}
    /\ Goto(t, AfterStop(t))
    /\ UNCHANGED <<queue, qshut, running, nThreads, registered, ev, todo, cont, countVars>>

\* Once no consumer is left, clear() finds the queue shut down and pops
\* nothing, and __shutdown is reset; the queue stays shut down.
StopEnd(t) ==
    /\ At(t, "stop_wait") /\ running[Target(t)] = 0
    /\ shut' = shut \ {Target(t)}
    /\ Goto(t, AfterStop(t))
    /\ UNCHANGED <<queue, qshut, running, nThreads, registered, ev, todo, cont, countVars>>

-----------------------------------------------------------------------------
(* zpt::runtime::run, by the main thread.                                  *)

\* run() begins: BOOTING is triggered before anything is loaded.
Start ==
    /\ At(Main, "boot")
    /\ TriggerAll(Main, <<On("globald", "BOOTING")>>, "load")
    /\ UNCHANGED <<dispVars, ev, countVars>>

\* The plugins are loaded: the transport engine starts its consumers, and it
\* and the REST plugin register their handlers.  FINISHED_BOOT follows.
Boot ==
    /\ At(Main, "load")
    /\ running' = [running EXCEPT !["transport"] = Cardinality(Workers)]
    /\ nThreads' = nThreads + Cardinality(Workers)
    /\ registered' = Handlers
    /\ pc' = [t \in Threads |-> CASE t = Main     -> "trigger"
                                  [] t = Listener -> "accept"
                                  [] t \in Workers -> "pop"
                                  [] t \in Globals -> pc[t]]
    /\ todo' = [todo EXCEPT ![Main] = <<On("globald", "FINISHED_BOOT")>>]
    /\ cont' = [cont EXCEPT ![Main] = "poll"]
    /\ UNCHANGED <<queue, shut, qshut, ev, countVars>>

\* poll(): an epoll event is delegated to the transport dispatcher.
PollReceive ==
    /\ At(Main, "poll") /\ received < MaxReceive
    /\ received' = received + 1
    /\ \E e \in {"once", "again"} : TriggerAll(Main, <<On("transport", e)>>, "poll")
    /\ UNCHANGED <<dispVars, ev, asked, streams>>

\* Faulty variant: the last event is announced first.
PollEndSwapped ==
    /\ At(Main, "poll") /\ asked
    /\ TriggerAll(Main, <<On("globald", "EXITING"), On("globald", "SHUTTING_DOWN")>>, "drain")
    /\ UNCHANGED <<dispVars, ev, countVars>>

\* poll() returns after polling::shutdown; SHUTTING_DOWN and EXITING follow.
PollEnd ==
    /\ At(Main, "poll") /\ asked
    /\ TriggerAll(Main, <<On("globald", "SHUTTING_DOWN"), On("globald", "EXITING")>>, "drain")
    /\ UNCHANGED <<dispVars, ev, countVars>>

\* while (!DISPATCHER()->empty()) sleep: an event that a consumer has popped and
\* is executing does not count.
Drained ==
    /\ At(Main, "drain") /\ queue["globald"] = <<>>
    /\ Goto(Main, "stop")
    /\ UNCHANGED <<dispVars, ev, todo, cont, countVars>>

\* join_threads, after which the stream listeners are unregistered.
Joined ==
    /\ At(Main, "join") /\ nThreads = 0
    /\ Goto(Main, "unload")
    /\ UNCHANGED <<dispVars, ev, todo, cont, countVars>>

\* A plugin's listener accepts a connection; that it is polled from now on is a
\* system event, triggered by the callback run() has registered.
Accept ==
    /\ At(Listener, "accept") /\ pc[Main] \notin {"unload", "done"}
    /\ streams < MaxStream
    /\ streams' = streams + 1
    /\ TriggerAll(Listener, <<On("globald", "stream")>>, "accept")
    /\ UNCHANGED <<dispVars, ev, asked, received>>

\* Faulty variant: a plugin is unmapped without waiting for its thread.
UnloadAtOnce ==
    /\ At(Main, "unload")
    /\ pc' = [pc EXCEPT ![Main] = "done",
                        ![Listener] = IF @ = "accept" THEN "exited" ELSE @]
    /\ UNCHANGED <<dispVars, ev, todo, cont, countVars>>

\* The streams are closed and the plugins unloaded: each one closes its server
\* socket, which ends the listener, waits for it, and is unmapped.
Unload ==
    /\ At(Main, "unload") /\ At(Listener, "accept")
    /\ pc' = [pc EXCEPT ![Main] = "done", ![Listener] = "exited"]
    /\ UNCHANGED <<dispVars, ev, todo, cont, countVars>>

\* runtime::shutdown, or a signal.
AskShutdown ==
    /\ ~asked
    /\ asked' = TRUE
    /\ UNCHANGED <<dispVars, threadVars, received, streams>>

-----------------------------------------------------------------------------

TriggerStep(t) == TriggerDropped(t) \/ TriggerAccepted(t) \/ Push(t)
StopStep(t)    == StopBegin(t) \/ StopQueue(t) \/ StopEnd(t)
ConsumerStep(t) ==
    \/ Pop(t) \/ PopNothing(t) \/ LoopAgain(t) \/ LoopEnd(t)
    \/ RunSystemEvent(t) \/ RunStopThreads(t) \/ RunMinionShutdown(t)
    \/ RunOnce(t) \/ RunAgain(t)
MainStep == Start \/ Boot \/ PollReceive \/ PollEnd \/ Drained \/ Joined \/ Unload

Next ==
    \/ \E t \in Threads : TriggerStep(t) \/ StopStep(t)
    \/ \E t \in Consumers : ConsumerStep(t)
    \/ MainStep
    \/ Accept
    \/ AskShutdown

Spec == Init /\ [][Next]_vars

\* Every thread that can go on does, and the poller, when it waits for room in a
\* queue that keeps being drained, gets its turn (it does not lose the
\* compare-and-swap race in queue::push for ever); nobody is obliged to ask for shutdown, to
\* send anything or to let a retriggered event finish.
FairSpec ==
    /\ Spec
    /\ SF_vars(Push(Main))
    /\ \A t \in Consumers : WF_vars(TriggerStep(t) \/ StopStep(t) \/ ConsumerStep(t))
    /\ WF_vars(TriggerStep(Main) \/ StopStep(Main) \/ MainStep)
    /\ WF_vars(TriggerStep(Listener))

-----------------------------------------------------------------------------
(* Properties.                                                             *)

Labels == {"boot", "load", "poll", "drain", "join", "unload", "done", "unborn", "accept", "pop",
           "run", "check", "exited", "trigger", "push", "stop", "stop_queue", "stop_wait"}
QueueBound(d) == Len(queue[d]) <= Capacity[d]

\* Every variable has its type; queues respect their capacity and the counters
\* of threads never go below zero.
TypeOK ==
    /\ queue \in [Dispatchers -> Seq(Events)] /\ \A d \in Dispatchers : QueueBound(d)
    /\ shut \subseteq Dispatchers /\ qshut \subseteq Dispatchers
    /\ running \in [Dispatchers -> Nat] /\ nThreads \in Nat
    /\ registered \subseteq Handlers
    /\ pc \in [Threads -> Labels]
    /\ ev \in [Threads -> Events \union {"none"}]
    /\ todo \in [Threads -> Seq([disp : Dispatchers, event : Events])]
    /\ cont \in [Threads -> Labels \union {"none"}]
    /\ asked \in BOOLEAN
    /\ received \in 0 .. MaxReceive /\ streams \in 0 .. MaxStream

\* When plugins are being unloaded no consumer of any dispatcher is left, and
\* when their code is unmapped no thread but the main one: nobody executes code
\* that is gone.
NoCodeInUse ==
    /\ pc[Main] \in {"unload", "done"} => \A t \in Consumers : pc[t] = "exited"
    /\ pc[Main] = "done" => pc[Listener] = "exited"

\* The process ends in order.  When run() waits for the threads, the queue of the
\* global dispatcher has been shut down, and the transport engine's has been too
\* when the global dispatcher has one consumer: its handler of SHUTTING_DOWN was
\* not overtaken by the end of the drain loop, which looks at the queue only.  With
\* more consumers one of them may hold that event while another empties the queue.
OrderlyEnd ==
    /\ NoCodeInUse
    /\ pc[Main] \in {"join", "unload", "done"} =>
          /\ "globald" \in qshut
          /\ Cardinality(Globals) = 1 => "transport" \in qshut

\* A dispatcher that has been stopped takes no event any more, although its
\* __shutdown is reset and trigger() accepts events again: an event kept in a
\* queue without consumers would be destroyed after its code is unmapped.
StoppedForGood ==
    [][\A d \in Dispatchers :
        (d \notin shut /\ running[d] = 0)
            => Len(queue'[d]) <= Len(queue[d])]_vars

\* The process ends when it is asked to: no thread is left waiting for an
\* event, a counter or a full queue that nobody attends to any more.
Terminates == asked ~> pc[Main] = "done"
=============================================================================
