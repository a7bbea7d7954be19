----------------------------- MODULE MqttProofs -----------------------------
(***************************************************************************)
(* The MQTT stream: type correctness, that no thread is inside the library *)
(* without the mutex or with a handle that was destroyed, and that the     *)
(* mutex and the polled socket go with a call and with a connection.       *)
(***************************************************************************)
EXTENDS Mqtt, TLAPS

Inv == TypeOK /\ HandleInUse

\* The initial state has the invariant: no thread has called the library.
LEMMA InitInv == Init => Inv
<1> SUFFICES ASSUME Init PROVE Inv
  OBVIOUS
<1>1. slots \in 0..Slots BY MqttAssumption DEF Init
<1>2. pc \in [Thread -> {"start", "idle"}] BY DEF Init
<1>3. TypeOK BY <1>1, <1>2 DEF Init, TypeOK, Label
<1>4. HandleInUse BY <1>2 DEF HandleInUse
<1> QED BY <1>3, <1>4 DEF Inv

\* A step by a thread u that has the mutex, or finds it free, and leaves it free or its own:
\* the others are outside the library before and after.
LEMMA OneInside ==
  ASSUME TypeOK, HandleInUse, NEW u \in Thread, NEW label \in Label,
         pc' = [pc EXCEPT ![u] = label],
         \/ lock = Nobody
         \/ lock = u
         \/ lock' = lock /\ handle' = handle,
         label \in {"call", "opening"} => lock' = u /\ handle'
  PROVE  HandleInUse'
<1> SUFFICES ASSUME NEW t \in Thread, pc'[t] \in {"call", "opening"}
             PROVE  lock' = t /\ handle'
  BY DEF HandleInUse
<1>1. CASE t = u
  BY <1>1 DEF TypeOK
<1>2. CASE t # u
  <2>1. pc[t] \in {"call", "opening"}
    BY <1>2 DEF TypeOK
  <2>2. lock = t /\ handle
    BY <2>1 DEF HandleInUse
  <2>3. lock' = lock /\ handle' = handle
    BY <2>2, <1>2, MqttAssumption
  <2> QED BY <2>2, <2>3
<1> QED BY <1>1, <1>2

\* A step of the listener keeps the invariant.
LEMMA ListenerInv ==
  ASSUME Inv, ListenerRuns \/ ConnectOpens \/ LoopMiscLocks \/ BrokerAnswers
  PROVE  Inv'
<1> USE DEF Inv, At, Goto, Label, stream, polled
<1>t. Listener \in Thread BY DEF Thread
<1>1. CASE ListenerStarts
  <2>1. TypeOK' BY <1>1, <1>t DEF TypeOK, ListenerStarts, MqttStream
  <2>2. HandleInUse' BY <1>1, <1>t, OneInside DEF ListenerStarts
  <2> QED BY <2>1, <2>2
<1>2. CASE ListenerChecks
  <2>1. TypeOK' BY <1>2, <1>t DEF TypeOK, ListenerChecks
  <2> DEFINE next == IF asked THEN "done" ELSE IF connected THEN "misc" ELSE "connect"
  <2>2. next \in Label /\ next \notin {"call", "opening"} /\ pc' = [pc EXCEPT ![Listener] = next]
    BY <1>2 DEF ListenerChecks
  <2>3. HandleInUse' BY <1>2, <2>2, <1>t, OneInside DEF ListenerChecks
  <2> QED BY <2>1, <2>3
<1>3. CASE ConnectUnconfigured
  <2>1. TypeOK' BY <1>3, <1>t DEF TypeOK, ConnectUnconfigured
  <2>2. HandleInUse' BY <1>3, <1>t, OneInside DEF ConnectUnconfigured
  <2> QED BY <2>1, <2>2
<1>4. CASE ConnectOpens
  <2>1. TypeOK' BY <1>4, <1>t DEF TypeOK, ConnectOpens
  <2>2. HandleInUse' BY <1>4, <1>t, OneInside DEF ConnectOpens
  <2> QED BY <2>1, <2>2
<1>5. CASE ConnectFails
  <2>1. TypeOK' BY <1>5, <1>t DEF TypeOK, ConnectFails
  <2>2. lock = Listener BY <1>5, <1>t DEF ConnectFails, HandleInUse
  <2>3. HandleInUse' BY <1>5, <2>2, <1>t, OneInside DEF ConnectFails
  <2> QED BY <2>1, <2>3
<1>6. CASE OnConnect
  <2>1. lock = Listener /\ handle BY <1>6, <1>t DEF OnConnect, HandleInUse
  <2>2. PICK label \in {"misc", "sleep", "hung"} : pc' = [pc EXCEPT ![Listener] = label]
    BY <1>6 DEF OnConnect, SendSubscribe
  <2>3. lock' \in {Nobody, Listener}
    BY <1>6 DEF OnConnect, SendSubscribe
  <2>4. slots' \in 0..Slots
    BY <1>6, MqttAssumption DEF OnConnect, TypeOK, SlotsAfterListenOn
  <2>5. TypeOK'
    BY <1>6, <2>2, <2>3, <2>4, <1>t DEF TypeOK, OnConnect
  <2>6. HandleInUse'
    BY <2>1, <2>2, <1>t, OneInside
  <2> QED BY <2>5, <2>6
<1>7. CASE OnConnectRefused
  <2>1. slots' \in 0..Slots
    BY <1>7, MqttAssumption DEF OnConnectRefused, TypeOK, SlotsAfterListenOn
  <2>2. TypeOK' BY <1>7, <2>1, <1>t DEF TypeOK, OnConnectRefused
  <2>3. lock = Listener BY <1>7, <1>t DEF OnConnectRefused, HandleInUse
  <2>4. HandleInUse' BY <1>7, <2>3, <1>t, OneInside DEF OnConnectRefused
  <2> QED BY <2>2, <2>4
<1>8. CASE LoopMiscLocks
  <2>1. PICK label \in {"call", "sleep"} :
            pc' = [pc EXCEPT ![Listener] = label] /\ (label = "call" => lock' = Listener /\ handle)
    BY <1>8 DEF LoopMiscLocks, Acquire
  <2>2. TypeOK' BY <1>8, <2>1, <1>t DEF TypeOK, LoopMiscLocks, Acquire
  <2>3. HandleInUse' BY <1>8, <2>1, <1>t, OneInside DEF LoopMiscLocks, Acquire
  <2> QED BY <2>2, <2>3
<1>9. CASE LoopMisc
  <2>1. PICK label \in {"lock", "sleep"} : pc' = [pc EXCEPT ![Listener] = label]
    BY <1>9 DEF LoopMisc
  <2>2. TypeOK' BY <1>9, <2>1, <1>t DEF TypeOK, LoopMisc
  <2>3. HandleInUse' BY <1>9, <2>1, <1>t, OneInside DEF LoopMisc
  <2> QED BY <2>2, <2>3
<1>10. CASE LoopMiscCalls
  <2>1. TypeOK' BY <1>10, <1>t DEF TypeOK, LoopMiscCalls
  <2>2. lock = Listener BY <1>10, <1>t DEF LoopMiscCalls, HandleInUse
  <2>3. HandleInUse' BY <1>10, <2>2, <1>t, OneInside DEF LoopMiscCalls
  <2> QED BY <2>1, <2>3
<1>11. CASE ListenerSleeps
  <2>1. TypeOK' BY <1>11, <1>t DEF TypeOK, ListenerSleeps
  <2>2. HandleInUse' BY <1>11, <1>t, OneInside DEF ListenerSleeps
  <2> QED BY <2>1, <2>2
<1> QED
  BY <1>1, <1>2, <1>3, <1>4, <1>5, <1>6, <1>7, <1>8, <1>9, <1>10, <1>11
  DEF ListenerRuns, BrokerAnswers

\* A step of a worker keeps the invariant.
LEMMA WorkerInv ==
  ASSUME Inv, Boots \/ Publish \/ Publishes \/ Claim \/ Reads
  PROVE  Inv'
<1> USE DEF Inv, At, Goto, Label, stream, polled
<1>t. Booter \in Thread /\ Publisher \in Thread /\ Reader \in Thread BY DEF Thread
<1>1. CASE BootEvent
  <2>1. TypeOK' BY <1>1, <1>t DEF TypeOK, BootEvent, MqttStream
  <2>2. HandleInUse' BY <1>1, <1>t, OneInside DEF BootEvent
  <2> QED BY <2>1, <2>2
<1>2. CASE BootEventEnds
  <2>1. TypeOK' BY <1>2, <1>t DEF TypeOK, BootEventEnds
  <2>2. HandleInUse' BY <1>2, <1>t, OneInside DEF BootEventEnds
  <2> QED BY <2>1, <2>2
<1>3. ASSUME NEW topic \in Topics, Subscribe(topic)
      PROVE  Inv'
  <2>1. CASE connected
    <3>1. PICK label \in {"done", "hung"} : pc' = [pc EXCEPT ![Booter] = label]
      BY <1>3, <2>1 DEF Subscribe, SendSubscribe
    <3>2. lock' \in {Nobody, Booter}
      BY <1>3, <2>1 DEF Subscribe, SendSubscribe
    <3>3. TypeOK' BY <1>3, <2>1, <3>1, <3>2, <1>t DEF TypeOK, Subscribe
    <3>4. HandleInUse' BY <1>3, <3>1, <1>t, OneInside DEF Subscribe
    <3> QED BY <3>3, <3>4
  <2>2. CASE ~ connected
    <3>1. TypeOK' BY <1>3, <2>2 DEF TypeOK, Subscribe
    <3>2. HandleInUse' BY <1>3, <2>2 DEF HandleInUse, Subscribe
    <3> QED BY <3>1, <3>2
  <2> QED BY <2>1, <2>2
<1>4. CASE Publish
  <2>1. TypeOK' BY <1>4, <1>t DEF TypeOK, Publish, MqttStream
  <2>2. HandleInUse' BY <1>4, <1>t, OneInside DEF Publish
  <2> QED BY <2>1, <2>2
<1>5. CASE PublishLocks
  <2>1. PICK label \in {"call", "sleep", "idle"} :
            pc' = [pc EXCEPT ![Publisher] = label] /\ (label = "call" => lock' = Publisher /\ handle)
    BY <1>5 DEF PublishLocks, Acquire
  <2>2. TypeOK' BY <1>5, <2>1, <1>t DEF TypeOK, PublishLocks, Acquire
  <2>3. HandleInUse' BY <1>5, <2>1, <1>t, OneInside DEF PublishLocks, Acquire
  <2> QED BY <2>2, <2>3
<1>6. CASE PublishThrows
  <2>1. TypeOK' BY <1>6, <1>t DEF TypeOK, PublishThrows
  <2>2. HandleInUse' BY <1>6, <1>t, OneInside DEF PublishThrows
  <2> QED BY <2>1, <2>2
<1>7. CASE PublishCalls
  <2>1. TypeOK' BY <1>7, <1>t DEF TypeOK, PublishCalls
  <2>2. lock = Publisher BY <1>7, <1>t DEF PublishCalls, HandleInUse
  <2>3. HandleInUse' BY <1>7, <2>2, <1>t, OneInside DEF PublishCalls
  <2> QED BY <2>1, <2>3
<1>8. CASE Claim
  <2>1. TypeOK' BY <1>8, <1>t DEF TypeOK, Claim
  <2>2. HandleInUse' BY <1>8, <1>t, OneInside DEF Claim
  <2> QED BY <2>1, <2>2
<1>9. CASE ReadLocks
  <2>1. PICK label \in {"call", "sleep", "idle"} :
            pc' = [pc EXCEPT ![Reader] = label] /\ (label = "call" => lock' = Reader /\ handle)
    BY <1>9 DEF ReadLocks, Acquire
  <2>2. TypeOK' BY <1>9, <2>1, <1>t DEF TypeOK, ReadLocks, Acquire
  <2>3. HandleInUse' BY <1>9, <2>1, <1>t, OneInside DEF ReadLocks, Acquire
  <2> QED BY <2>2, <2>3
<1>10. CASE ReadCalls
  <2>1. TypeOK' BY <1>10, <1>t DEF TypeOK, ReadCalls
  <2>2. lock = Reader BY <1>10, <1>t DEF ReadCalls, HandleInUse
  <2>3. HandleInUse' BY <1>10, <2>2, <1>t, OneInside DEF ReadCalls
  <2> QED BY <2>1, <2>3
<1> QED
  BY <1>1, <1>2, <1>3, <1>4, <1>5, <1>6, <1>7, <1>8, <1>9, <1>10
  DEF Boots, Publishes, Reads

\* Every step keeps the invariant.
LEMMA NextInv == Inv /\ [Next]_vars => Inv'
<1> SUFFICES ASSUME Inv, [Next]_vars PROVE Inv'
  OBVIOUS
<1> USE DEF stream, polled
<1>1. CASE ListenerRuns \/ ConnectOpens \/ LoopMiscLocks \/ BrokerAnswers
  BY <1>1, ListenerInv
<1>2. CASE Boots \/ Publish \/ Publishes \/ Claim \/ Reads
  BY <1>2, WorkerInv
<1>3. CASE LoseLink
  BY <1>3 DEF LoseLink, Inv, TypeOK, HandleInUse
<1>4. CASE Hangup
  <2>s. slots' \in 0..Slots BY <1>4, MqttAssumption DEF Hangup, Inv, TypeOK
  <2>1. TypeOK' BY <1>4, <2>s DEF Hangup, Inv, TypeOK
  <2>2. HandleInUse' BY <1>4 DEF Hangup, Inv, HandleInUse
  <2> QED BY <2>1, <2>2 DEF Inv
<1>5. CASE AskShutdown
  BY <1>5 DEF AskShutdown, Inv, TypeOK, HandleInUse
<1>6. CASE Close
  <2>1. Main \in Thread BY DEF Thread
  <2>s. slots' \in 0..Slots BY <1>6, MqttAssumption DEF Close
  <2>h. handle' \in BOOLEAN /\ connected' \in BOOLEAN /\ link' \in {"none", "opening", "up", "lost"}
    BY <1>6 DEF Close, Inv, TypeOK
  <2>2. TypeOK' BY <1>6, <2>1, <2>s, <2>h DEF Close, Inv, TypeOK, Goto, Label
  <2>3. slots = 0 \/ lock = Nobody
    BY <1>6 DEF Close, Inv, TypeOK
  <2>4. lock = Nobody \/ (lock' = lock /\ handle' = handle)
    BY <1>6, <2>3 DEF Close
  <2>5. HandleInUse' BY <1>6, <2>1, <2>4, OneInside DEF Close, Inv, Goto, Label
  <2> QED BY <2>2, <2>5 DEF Inv
<1>7. CASE UNCHANGED vars
  BY <1>7 DEF vars, Inv, TypeOK, HandleInUse
<1> QED BY <1>1, <1>2, <1>3, <1>4, <1>5, <1>6, <1>7 DEF Next

\* The variables of the MQTT stream have their types in every behaviour, for any number of
\* topics and slots.
THEOREM TypeCorrect == Spec => []TypeOK
<1>1. Inv => TypeOK BY DEF Inv
<1> QED BY <1>1, InitInv, NextInv, PTL DEF Spec

\* No thread ever calls the mosquitto library without __mosq_mutex or with a handle that
\* close() destroyed, whatever it had checked before it got the mutex.
THEOREM LibraryGuarded == Spec => []HandleInUse
<1>1. Inv => HandleInUse BY DEF Inv
<1> QED BY <1>1, InitInv, NextInv, PTL DEF Spec

-----------------------------------------------------------------------------
(* Nobody goes on with the mutex, and epoll has the socket of a connection *)
(* that is there.                                                          *)

MutexInv == lock # Nobody => pc[lock] \in {"call", "opening", "hung"}

\* The library's socket as the listener sees it: only the listener connects, and only
\* while __connected is not set; __connected is set as long as there is a connection.
LinkInv ==
    /\ link = "opening" <=> pc[Listener] = "opening"
    /\ link \in {"up", "lost"} => connected
    /\ connected => handle
    /\ pc[Listener] \in {"connect", "opening"} => ~ connected
    /\ armed => link \in {"up", "lost"} /\ slots > 0

\* A step of thread u that takes it to label: u has the mutex afterwards only if it is inside
\* the library or hung.
LEMMA MutexStep ==
  ASSUME TypeOK, MutexInv, NEW u \in Thread, NEW label,
         pc' = [pc EXCEPT ![u] = label],
         \/ lock' = Nobody
         \/ lock' = u /\ label \in {"call", "opening", "hung"}
         \/ lock' = lock /\ pc[u] \notin {"call", "opening", "hung"}
  PROVE  MutexInv'
<1>1. pc \in [Thread -> Label] /\ lock \in Thread \cup {Nobody} /\ Nobody \notin Thread
  BY MqttAssumption DEF TypeOK
<1>2. pc'[u] = label /\ \A t \in Thread : t # u => pc'[t] = pc[t]
  BY <1>1
<1>3. CASE lock' = Nobody
  BY <1>3 DEF MutexInv
<1>4. CASE lock' = u /\ label \in {"call", "opening", "hung"}
  BY <1>2, <1>4 DEF MutexInv
<1>5. CASE lock' = lock /\ lock # Nobody /\ pc[u] \notin {"call", "opening", "hung"}
  <2>1. pc[lock] \in {"call", "opening", "hung"} /\ lock \in Thread
    BY <1>1, <1>5 DEF MutexInv
  <2> QED BY <2>1, <1>2, <1>5 DEF MutexInv
<1> QED BY <1>3, <1>4, <1>5

\* A step that leaves the connection and the listener's part in it alone.
LEMMA LinkFrame ==
  ASSUME TypeOK, LinkInv, NEW u \in Thread, NEW label, pc' = [pc EXCEPT ![u] = label],
         UNCHANGED <<handle, connected, link, slots>>, armed' => armed,
         u = Listener => /\ label # "opening" /\ pc[u] # "opening"
                         /\ label = "connect" => ~ connected
  PROVE  LinkInv'
<1>1. pc \in [Thread -> Label] /\ Listener \in Thread
  BY DEF TypeOK, Thread
<1>2. pc'[Listener] = IF u = Listener THEN label ELSE pc[Listener]
  BY <1>1
<1> QED BY <1>2 DEF LinkInv

\* The listener keeps both.
LEMMA ListenerGuard ==
  ASSUME Inv, MutexInv, LinkInv, ListenerRuns \/ ConnectOpens \/ LoopMiscLocks \/ BrokerAnswers
  PROVE  MutexInv' /\ LinkInv'
<1> USE DEF At, Goto, stream, polled
<1>t. Listener \in Thread /\ TypeOK /\ pc \in [Thread -> Label] /\ slots \in 0..Slots /\ Slots \in Nat
  BY MqttAssumption DEF Thread, Inv, TypeOK
<1>1. CASE ListenerStarts \/ ConnectUnconfigured \/ ListenerSleeps
  <2>1. /\ \E label \in {"check", "sleep"} : pc' = [pc EXCEPT ![Listener] = label]
        /\ UNCHANGED <<handle, connected, link, slots>> /\ armed' = armed /\ lock' = lock
        /\ pc[Listener] \in {"start", "connect", "sleep"}
    BY <1>1 DEF ListenerStarts, ConnectUnconfigured, ListenerSleeps
  <2> QED BY <2>1, <1>t, MutexStep, LinkFrame
<1>2. CASE ListenerChecks \/ LoopMisc
  <2>1. /\ \E label \in {"done", "misc", "connect", "lock", "sleep"} :
              /\ pc' = [pc EXCEPT ![Listener] = label]
              /\ label = "connect" => ~ connected
        /\ UNCHANGED <<handle, connected, link, slots>> /\ armed' = armed /\ lock' = lock
        /\ pc[Listener] \in {"check", "misc"}
    BY <1>2 DEF ListenerChecks, LoopMisc
  <2> QED BY <2>1, <1>t, MutexStep, LinkFrame
<1>3. CASE LoopMiscLocks \/ LoopMiscCalls
  <2>1. /\ \E label \in {"call", "sleep"} :
              /\ pc' = [pc EXCEPT ![Listener] = label]
              /\ lock' = Nobody \/ (lock' = Listener /\ label = "call")
        /\ UNCHANGED <<handle, connected, link, slots>> /\ armed' = armed
        /\ pc[Listener] # "opening"
    BY <1>3 DEF LoopMiscLocks, LoopMiscCalls, Acquire
  <2> QED BY <2>1, <1>t, MutexStep, LinkFrame
<1>4. CASE ConnectOpens
  <2>1. /\ pc' = [pc EXCEPT ![Listener] = "opening"] /\ lock' = Listener /\ pc[Listener] = "connect"
        /\ handle' /\ link' = "opening" /\ UNCHANGED <<connected, armed>>
    BY <1>4 DEF ConnectOpens
  <2>2. MutexInv'
    BY <2>1, <1>t, MutexStep
  <2>3. pc'[Listener] = "opening"
    BY <2>1, <1>t
  <2>4. ~ connected /\ ~ armed
    BY <2>1 DEF LinkInv
  <2> QED BY <2>1, <2>2, <2>3, <2>4 DEF LinkInv
<1>5. CASE ConnectFails \/ OnConnectRefused
  <2>1. /\ pc' = [pc EXCEPT ![Listener] = "sleep"] /\ lock' = Nobody /\ pc[Listener] = "opening"
        /\ link' = "none" /\ handle' = handle /\ (connected' => connected) /\ (armed' => armed)
    BY <1>5 DEF ConnectFails, OnConnectRefused
  <2>2. MutexInv'
    BY <2>1, <1>t, MutexStep
  <2>3. pc'[Listener] = "sleep"
    BY <2>1, <1>t
  <2>4. ~ armed
    BY <2>1 DEF LinkInv
  <2> QED BY <2>1, <2>2, <2>3, <2>4 DEF LinkInv
<1>6. CASE OnConnect
  <2>1. PICK label \in {"misc", "sleep", "hung"} :
            /\ pc' = [pc EXCEPT ![Listener] = label]
            /\ lock' = Nobody \/ (lock' = Listener /\ label = "hung")
    BY <1>6 DEF OnConnect, SendSubscribe
  <2>2. MutexInv'
    BY <2>1, <1>t, MutexStep
  <2>3. handle' /\ connected' /\ link' = "up"
    BY <1>6, <1>t DEF OnConnect, Inv, HandleInUse
  <2>4. armed' => slots' > 0
    <3>1. slots' = slots \/ slots' = slots + 1
      BY <1>6 DEF OnConnect, SlotsAfterListenOn
    <3>2. armed' = (slots' > slots)
      BY <1>6 DEF OnConnect
    <3>3. slots \in Nat
      BY <1>t, MqttAssumption DEF TypeOK
    <3>4. CASE slots' = slots
      <4>1. ~ (slots > slots)
        BY <3>3
      <4> QED BY <3>2, <3>4, <4>1
    <3>5. CASE slots' = slots + 1
      <4>1. slots + 1 > 0
        BY <3>3
      <4> QED BY <3>5, <4>1
    <3> QED BY <3>1, <3>4, <3>5
  <2>5. pc'[Listener] = label
    BY <2>1, <1>t
  <2> QED BY <2>1, <2>2, <2>3, <2>4, <2>5 DEF LinkInv
<1> QED BY <1>1, <1>2, <1>3, <1>4, <1>5, <1>6 DEF ListenerRuns, BrokerAnswers

\* The workers keep both.
LEMMA WorkerGuard ==
  ASSUME Inv, MutexInv, LinkInv, Boots \/ Publish \/ Publishes \/ Claim \/ Reads
  PROVE  MutexInv' /\ LinkInv'
<1> USE DEF At, Goto, stream, polled
<1>t. /\ Booter \in Thread /\ Publisher \in Thread /\ Reader \in Thread /\ TypeOK
      /\ Listener # Booter /\ Listener # Publisher /\ Listener # Reader
      /\ pc \in [Thread -> Label] /\ Listener \in Thread
  BY MqttAssumption DEF Thread, Inv, TypeOK
<1>1. CASE BootEvent \/ BootEventEnds
  <2>1. /\ \E label : pc' = [pc EXCEPT ![Booter] = label]
        /\ UNCHANGED <<handle, connected, link, slots>> /\ armed' = armed /\ lock' = lock
        /\ pc[Booter] \in {"start", "lock"}
    BY <1>1 DEF BootEvent, BootEventEnds
  <2> QED BY <2>1, <1>t, MutexStep, LinkFrame
<1>2. ASSUME NEW topic \in Topics, Subscribe(topic)
      PROVE  MutexInv' /\ LinkInv'
  <2>1. UNCHANGED <<handle, connected, link, slots, armed>> /\ pc[Booter] = "lock"
    BY <1>2 DEF Subscribe
  <2>2. CASE connected
    <3>1. \E label \in {"done", "hung"} :
              /\ pc' = [pc EXCEPT ![Booter] = label]
              /\ lock' = Nobody \/ (lock' = Booter /\ label = "hung")
      BY <1>2, <2>2 DEF Subscribe, SendSubscribe
    <3> QED BY <3>1, <2>1, <1>t, MutexStep, LinkFrame
  <2>3. CASE ~ connected
    <3>1. pc' = pc /\ lock' = lock
      BY <1>2, <2>3 DEF Subscribe
    <3> QED BY <3>1, <2>1 DEF MutexInv, LinkInv
  <2> QED BY <2>2, <2>3
<1>3. CASE Publish \/ PublishThrows
  <2>1. /\ \E label : pc' = [pc EXCEPT ![Publisher] = label]
        /\ UNCHANGED <<handle, connected, link, slots>> /\ armed' = armed /\ lock' = lock
        /\ pc[Publisher] \in {"idle", "lock"}
    BY <1>3 DEF Publish, PublishThrows
  <2> QED BY <2>1, <1>t, MutexStep, LinkFrame
<1>4. CASE PublishLocks \/ PublishCalls
  <2>1. /\ \E label \in {"call", "sleep", "idle"} :
              /\ pc' = [pc EXCEPT ![Publisher] = label]
              /\ lock' = Nobody \/ (lock' = Publisher /\ label = "call")
        /\ UNCHANGED <<handle, connected, link, slots>> /\ armed' = armed
    BY <1>4 DEF PublishLocks, PublishCalls, Acquire
  <2> QED BY <2>1, <1>t, MutexStep, LinkFrame
<1>5. CASE Claim
  <2>1. /\ pc' = [pc EXCEPT ![Reader] = "lock"] /\ pc[Reader] = "idle" /\ lock' = lock
        /\ UNCHANGED <<handle, connected, link, slots>> /\ ~ armed'
    BY <1>5 DEF Claim
  <2> QED BY <2>1, <1>t, MutexStep, LinkFrame
<1>6. CASE ReadLocks
  <2>1. /\ \E label \in {"call", "sleep", "idle"} :
              /\ pc' = [pc EXCEPT ![Reader] = label]
              /\ lock' = Nobody \/ (lock' = Reader /\ label = "call")
        /\ UNCHANGED <<handle, connected, link, slots>> /\ armed' = armed
    BY <1>6 DEF ReadLocks, Acquire
  <2> QED BY <2>1, <1>t, MutexStep, LinkFrame
<1>7. CASE ReadCalls
  <2>1. /\ pc' = [pc EXCEPT ![Reader] = "idle"] /\ lock' = Nobody
        /\ UNCHANGED <<handle, connected, slots>>
        /\ link' = IF link = "lost" THEN "none" ELSE link
        /\ armed' = (link = "up" /\ slots = 1)
    BY <1>7 DEF ReadCalls
  <2>2. MutexInv'
    BY <2>1, <1>t, MutexStep
  <2>3. pc'[Listener] = pc[Listener]
    BY <2>1, <1>t
  <2>4. armed' => link' = "up" /\ slots' > 0
    <3>1. armed' => link = "up" /\ slots' = 1
      BY <2>1, Zenon
    <3>2. link = "up" => link' = "up"
      BY <2>1
    <3>3. slots' = 1 => slots' > 0
      OBVIOUS
    <3> QED BY <3>1, <3>2, <3>3
  <2>5. /\ link' = "opening" <=> link = "opening"
        /\ link' \in {"up", "lost"} => link \in {"up", "lost"}
    BY <2>1
  <2>6. connected' = connected /\ handle' = handle
    BY <2>1
  <2> QED BY <2>2, <2>3, <2>4, <2>5, <2>6 DEF LinkInv
<1> QED BY <1>1, <1>2, <1>3, <1>4, <1>5, <1>6, <1>7 DEF Boots, Publishes, Reads

\* So does every step.
LEMMA NextGuard == Inv /\ MutexInv /\ LinkInv /\ [Next]_vars => MutexInv' /\ LinkInv'
<1> SUFFICES ASSUME Inv, MutexInv, LinkInv, [Next]_vars PROVE MutexInv' /\ LinkInv'
  OBVIOUS
<1> USE DEF stream, polled
<1>t. /\ Main \in Thread /\ Main # Listener /\ TypeOK /\ pc \in [Thread -> Label]
      /\ Listener \in Thread
  BY MqttAssumption DEF Thread, Inv, TypeOK
<1>1. CASE ListenerRuns \/ ConnectOpens \/ LoopMiscLocks \/ BrokerAnswers
  BY <1>1, ListenerGuard
<1>2. CASE Boots \/ Publish \/ Publishes \/ Claim \/ Reads
  BY <1>2, WorkerGuard
<1>3. CASE LoseLink \/ Hangup \/ AskShutdown \/ UNCHANGED vars
  <2>1. /\ UNCHANGED <<lock, pc, handle, connected>>
        /\ link' = link \/ (link = "up" /\ link' = "lost")
        /\ ~ armed' \/ (armed' = armed /\ slots' = slots)
    BY <1>3 DEF LoseLink, Hangup, AskShutdown, vars
  <2> QED BY <2>1 DEF MutexInv, LinkInv
<1>4. CASE Close
  <2>1. /\ pc' = [pc EXCEPT ![Main] = "done"] /\ pc[Main] = "idle" /\ lock' = lock /\ ~ armed'
        /\ slots > 0 => lock = Nobody
        /\ slots = 0 \/ slots > 0
        /\ \/ slots = 0 /\ UNCHANGED <<handle, connected, link>>
           \/ slots > 0 /\ ~ connected' /\ link' = "none"
    BY <1>4, MqttAssumption DEF Close, At, Goto, Inv, TypeOK
  <2>2. MutexInv'
    BY <2>1, <1>t, MutexStep
  <2>3. pc'[Listener] = pc[Listener]
    BY <2>1, <1>t
  <2>4. slots > 0 => pc[Listener] # "opening"
    BY <2>1, <1>t, MqttAssumption DEF Inv, HandleInUse
  <2> QED BY <2>1, <2>2, <2>3, <2>4 DEF LinkInv
<1> QED BY <1>1, <1>2, <1>3, <1>4 DEF Next

\* Threads keep to the mutex and polling to the connection: no thread goes on with
\* __mosq_mutex, whatever threw, and epoll has the stream's socket only while the library has
\* a connection, the stream its handle and the set a slot for it.
THEOREM StreamAlwaysGuarded == Spec => []StreamGuarded
<1>1. Init => MutexInv /\ LinkInv
  <2>1. Init => lock = Nobody /\ link = "none" /\ ~ connected /\ ~ armed /\ pc[Listener] = "start"
    BY DEF Init, Thread
  <2> QED BY <2>1 DEF MutexInv, LinkInv
<1>2. Inv /\ MutexInv /\ LinkInv => StreamGuarded
  BY DEF Inv, MutexInv, LinkInv, StreamGuarded
<1> QED BY <1>1, <1>2, InitInv, NextInv, NextGuard, PTL DEF Spec
=============================================================================
