-------------------------------- MODULE Mqtt --------------------------------
(***************************************************************************)
(* The stream to an MQTT broker, zpt::mqtt_stream, and who uses it: the    *)
(* plugin's listener thread, which connects; the event that subscribes to  *)
(* topics once the process has booted; workers that publish, or that read  *)
(* what polling found; polling itself; and the main thread, which closes   *)
(* the stream when the process stops.                                      *)
(*                                                                         *)
(* __mosq_mutex is held over every call of the mosquitto library, and over *)
(* the callbacks that the library makes.  It is not recursive: what comes  *)
(* of a thread that locks it twice is undefined, and an implementation     *)
(* throws or lets it wait for ever.  Only control packets arrive here: a   *)
(* message needs a subscription, and none reaches the broker.              *)
(***************************************************************************)
EXTENDS Naturals

CONSTANTS
    Listener, Booter, Publisher, Reader, Main,   \* the threads
    Nobody,       \* the owner of a mutex that is free
    Topics,       \* what the process subscribes to, if it is configured to
    Relock,       \* what may come of a thread that locks the mutex twice
    Slots         \* slots that are free in the set of polled streams

Thread == {Listener, Booter, Publisher, Reader, Main}

ASSUME MqttAssumption ==
    /\ Nobody \notin Thread
    /\ Listener \notin {Booter, Publisher, Reader, Main}
    /\ Relock \subseteq {"throws", "hangs"} /\ Relock # {}
    /\ Slots \in Nat \ {0}

VARIABLES
    config,     \* what the global stream was made with: "none" before it is made
    handle,     \* __mosq # nullptr
    connected,  \* __connected
    link,       \* the library's socket: "none", "opening", "up", or "lost" to the broker
    topics,     \* __subscriptions
    served,     \* the topics that the broker has been asked for on this connection
    slots,      \* how many slots of the set hold the stream
    armed,      \* its socket is registered with epoll
    lock,       \* who holds __mosq_mutex
    pc,         \* thread -> what it does next
    todo,       \* topics that the boot event has still to subscribe to
    asked       \* runtime::is_in_shutdown

vars == <<config, handle, connected, link, topics, served, slots, armed, lock, pc, todo, asked>>

\* What belongs to the connection, and what belongs to polling.
stream == <<config, handle, connected, link, topics, served>>
polled == <<slots, armed>>

At(t, label) == pc[t] = label
Goto(t, label) == pc' = [pc EXCEPT ![t] = label]

Label == {"start", "check", "connect", "opening", "misc", "lock", "call", "sleep", "idle",
          "done", "hung"}

Init ==
    /\ config = "none"
    /\ handle = FALSE
    /\ connected = FALSE
    /\ link = "none"
    /\ topics = {} /\ served = {}
    /\ slots = 0 /\ armed = FALSE
    /\ lock = Nobody
    /\ pc = [t \in Thread |-> IF t \in {Listener, Booter} THEN "start" ELSE "idle"]
    /\ todo = Topics
    /\ asked = FALSE

\* MQTT_STREAM(_config): the first call makes the stream, with the configuration it passes.
MqttStream(c) == config' = IF config = "none" THEN c ELSE config

\* A thread locks the mutex and has to see that the stream was not closed while it waited.
Acquire(t) ==
    /\ At(t, "lock") /\ lock = Nobody
    /\ IF handle THEN Goto(t, "call") /\ lock' = t
                 ELSE Goto(t, IF t = Listener THEN "sleep" ELSE "idle") /\ UNCHANGED lock

(***************************************************************************)
(* The listener thread                                                     *)
(***************************************************************************)
ListenerStarts ==
    /\ At(Listener, "start")
    /\ MqttStream("given")
    /\ Goto(Listener, "check")
    /\ UNCHANGED <<handle, connected, link, topics, served, polled, lock, todo, asked>>

\* is_in_shutdown, then is_connected.
ListenerChecks ==
    /\ At(Listener, "check")
    /\ Goto(Listener, IF asked THEN "done" ELSE IF connected THEN "misc" ELSE "connect")
    /\ UNCHANGED <<stream, polled, lock, todo, asked>>

\* connect throws before it has locked: the stream was made without a configuration.
ConnectUnconfigured ==
    /\ At(Listener, "connect") /\ config = "null"
    /\ Goto(Listener, "sleep")
    /\ UNCHANGED <<stream, polled, lock, todo, asked>>

\* mosquitto_new, mosquitto_connect; the mutex stays locked.
ConnectOpens ==
    /\ At(Listener, "connect") /\ config = "given" /\ lock = Nobody
    /\ lock' = Listener
    /\ handle' = TRUE
    /\ link' = "opening"
    /\ Goto(Listener, "opening")
    /\ UNCHANGED <<config, connected, topics, served, polled, todo, asked>>

\* Faulty variant: the exception leaves the mutex locked.
ConnectFails_locked ==
    /\ At(Listener, "opening")
    /\ link' = "none"
    /\ Goto(Listener, "sleep")
    /\ UNCHANGED <<config, handle, connected, topics, served, polled, lock, todo, asked>>

\* Faulty variant: connect tries again.
ConnectFails_retried ==
    /\ At(Listener, "opening")
    /\ link' = "none"
    /\ lock' = Nobody
    /\ Goto(Listener, "connect")
    /\ UNCHANGED <<config, handle, connected, topics, served, polled, todo, asked>>

\* check_error throws: the broker is not there, or goes away before it has answered.
ConnectFails ==
    /\ At(Listener, "opening")
    /\ link' = "none"
    /\ lock' = Nobody
    /\ Goto(Listener, "sleep")
    /\ UNCHANGED <<config, handle, connected, topics, served, polled, todo, asked>>

\* Faulty variant: an index is taken that is not there.
SlotsAfterListenOn_full == IF asked THEN slots ELSE slots + 1

\* listen_on: the stream takes another slot, if there is one.
SlotsAfterListenOn == IF asked \/ slots = Slots THEN slots ELSE slots + 1

\* send_subscribe by a thread that has the mutex: locking it again throws, and the mutex is
\* released on the way out to where the exception is caught, or hangs.
SendSubscribe(t, caught) ==
    \E outcome \in Relock :
        /\ lock' = IF outcome = "throws" THEN Nobody ELSE t
        /\ Goto(t, IF outcome = "throws" THEN caught ELSE "hung")

\* on_connect without an error; pending subscriptions are sent while connect has the mutex.
OnConnect ==
    /\ At(Listener, "opening")
    /\ connected' = TRUE
    /\ link' = "up"
    /\ served' = {}
    /\ slots' = SlotsAfterListenOn
    /\ armed' = (slots' > slots)
    /\ IF topics = {} THEN lock' = Nobody /\ Goto(Listener, "misc")
                      ELSE SendSubscribe(Listener, "sleep")
    /\ UNCHANGED <<config, handle, topics, todo, asked>>

\* on_connect with an error: the stream is registered with polling all the same.  The library
\* closes the socket, which takes it out of epoll, and connect throws.
OnConnectRefused ==
    /\ At(Listener, "opening")
    /\ connected' = FALSE
    /\ link' = "none"
    /\ slots' = SlotsAfterListenOn
    /\ armed' = FALSE
    /\ lock' = Nobody
    /\ Goto(Listener, "sleep")
    /\ UNCHANGED <<config, handle, topics, served, todo, asked>>

\* Faulty variant: does not look at __mosq again once it has the mutex.
LoopMiscLocks_unchecked ==
    /\ At(Listener, "lock") /\ lock = Nobody
    /\ Goto(Listener, "call") /\ lock' = Listener
    /\ UNCHANGED <<stream, polled, todo, asked>>

LoopMiscLocks ==
    /\ Acquire(Listener)
    /\ UNCHANGED <<stream, polled, todo, asked>>

\* loop_misc: not connected, or on to the mutex.
LoopMisc ==
    /\ At(Listener, "misc")
    /\ Goto(Listener, IF connected THEN "lock" ELSE "sleep")
    /\ UNCHANGED <<stream, polled, lock, todo, asked>>

\* mosquitto_loop_misc; what it returns is ignored.
LoopMiscCalls ==
    /\ At(Listener, "call")
    /\ lock' = Nobody
    /\ Goto(Listener, "sleep")
    /\ UNCHANGED <<stream, polled, todo, asked>>

ListenerSleeps ==
    /\ At(Listener, "sleep")
    /\ Goto(Listener, "check")
    /\ UNCHANGED <<stream, polled, lock, todo, asked>>

(***************************************************************************)
(* The workers                                                             *)
(***************************************************************************)

\* plugin_mqtt_execute_after_boot
BootEvent ==
    /\ At(Booter, "start")
    /\ MqttStream("null")
    /\ Goto(Booter, "lock")
    /\ UNCHANGED <<handle, connected, link, topics, served, polled, lock, todo, asked>>

\* subscribe and, if the stream is connected, send_subscribe, which locks again.  An exception
\* ends the event: this topic and those after it are not even recorded.
Subscribe(topic) ==
    /\ At(Booter, "lock") /\ lock = Nobody
    /\ topic \in todo
    /\ IF connected
       THEN SendSubscribe(Booter, "done") /\ UNCHANGED <<topics, todo>>
       ELSE /\ topics' = topics \cup {topic}
            /\ todo' = todo \ {topic}
            /\ UNCHANGED <<pc, lock>>
    /\ UNCHANGED <<config, handle, connected, link, served, polled, asked>>

BootEventEnds ==
    /\ At(Booter, "lock") /\ todo = {}
    /\ Goto(Booter, "done")
    /\ UNCHANGED <<stream, polled, lock, todo, asked>>

\* Somebody publishes; workers are stopped before the stream is closed.
Publish ==
    /\ At(Publisher, "idle") /\ ~ asked
    /\ MqttStream("null")
    /\ Goto(Publisher, "lock")
    /\ UNCHANGED <<handle, connected, link, topics, served, polled, lock, todo, asked>>

PublishLocks ==
    /\ At(Publisher, "lock") /\ connected
    /\ Acquire(Publisher)
    /\ UNCHANGED <<stream, polled, todo, asked>>

\* "Socket is disconnected"
PublishThrows ==
    /\ At(Publisher, "lock") /\ lock = Nobody /\ ~ connected
    /\ Goto(Publisher, "idle")
    /\ UNCHANGED <<stream, polled, lock, todo, asked>>

\* mosquitto_publish, which succeeds or throws.
PublishCalls ==
    /\ At(Publisher, "call")
    /\ lock' = Nobody
    /\ Goto(Publisher, "idle")
    /\ UNCHANGED <<stream, polled, todo, asked>>

\* Polling has found something to read and claimed the stream.
Claim ==
    /\ At(Reader, "idle") /\ armed /\ ~ asked
    /\ armed' = FALSE
    /\ Goto(Reader, "lock")
    /\ UNCHANGED <<stream, slots, lock, todo, asked>>

ReadLocks ==
    /\ Acquire(Reader)
    /\ UNCHANGED <<stream, polled, todo, asked>>

\* read_without_io: a control packet, or the library notices that the connection is lost and
\* closes its socket.  Then unmute: a stream in more than one slot was claimed by its first
\* and is released in its last, which fails.
ReadCalls ==
    /\ At(Reader, "call")
    /\ link' = IF link = "lost" THEN "none" ELSE link
    /\ armed' = (link = "up" /\ slots = 1)
    /\ lock' = Nobody
    /\ Goto(Reader, "idle")
    /\ UNCHANGED <<config, handle, connected, topics, served, slots, todo, asked>>

(***************************************************************************)
(* The broker, polling and the main thread                                 *)
(***************************************************************************)
LoseLink ==
    /\ link = "up"
    /\ link' = "lost"
    /\ UNCHANGED <<config, handle, connected, topics, served, polled, lock, pc, todo, asked>>

\* EPOLLHUP: polling claims the stream and erases it.  Nobody closes it: it is a global.
Hangup ==
    /\ link = "lost" /\ armed
    /\ armed' = FALSE
    /\ slots' = IF slots = 1 THEN 0 ELSE slots
    /\ UNCHANGED <<stream, lock, pc, todo, asked>>

AskShutdown ==
    /\ ~ asked
    /\ asked' = TRUE
    /\ UNCHANGED <<stream, polled, lock, pc, todo>>

WorkersStopped == pc[Booter] = "done" /\ pc[Publisher] = "idle" /\ pc[Reader] = "idle"

\* stream_set::close, which closes every stream that has a slot.
Close ==
    /\ At(Main, "idle") /\ asked /\ WorkersStopped
    /\ slots > 0 => lock = Nobody
    /\ IF slots = 0 THEN UNCHANGED <<handle, connected, link>>
       ELSE handle' = FALSE /\ connected' = FALSE /\ link' = "none"
    /\ slots' = 0 /\ armed' = FALSE
    /\ Goto(Main, "done")
    /\ UNCHANGED <<config, topics, served, lock, todo, asked>>

\* The listener between two times that it waits for the mutex or the broker.
ListenerRuns ==
    \/ ListenerStarts \/ ListenerChecks \/ ConnectUnconfigured \/ LoopMisc \/ LoopMiscCalls
    \/ ListenerSleeps
BrokerAnswers == ConnectFails \/ OnConnect \/ OnConnectRefused
Boots == BootEvent \/ BootEventEnds \/ \E topic \in Topics : Subscribe(topic)
Publishes == PublishLocks \/ PublishThrows \/ PublishCalls
Reads == ReadLocks \/ ReadCalls

Next ==
    \/ ListenerRuns \/ ConnectOpens \/ LoopMiscLocks \/ BrokerAnswers
    \/ Boots \/ Publish \/ Publishes \/ Claim \/ Reads
    \/ LoseLink \/ Hangup \/ AskShutdown \/ Close

Spec == Init /\ [][Next]_vars

\* Every thread runs, and gets the mutex if it is free again and again; connecting comes to
\* an end, if only by the library's timeout; polling goes on.
FairSpec ==
    /\ Spec
    /\ WF_vars(ListenerRuns) /\ SF_vars(ConnectOpens) /\ SF_vars(LoopMiscLocks)
    /\ WF_vars(BrokerAnswers)
    /\ SF_vars(Boots) /\ SF_vars(Publishes) /\ SF_vars(Reads)
    /\ WF_vars(Hangup) /\ SF_vars(Close)

(***************************************************************************)
(* Properties                                                              *)
(***************************************************************************)
TypeOK ==
    /\ config \in {"none", "given", "null"}
    /\ handle \in BOOLEAN /\ connected \in BOOLEAN /\ armed \in BOOLEAN /\ asked \in BOOLEAN
    /\ link \in {"none", "opening", "up", "lost"}
    /\ topics \subseteq Topics /\ served \subseteq Topics /\ todo \subseteq Topics
    /\ slots \in 0..Slots
    /\ lock \in Thread \cup {Nobody}
    /\ pc \in [Thread -> Label]

\* A thread inside the library has the mutex, and a handle that was not destroyed: all checks
\* that came before the mutex may be stale, as the main thread may have closed the stream.
HandleInUse ==
    \A t \in Thread : pc[t] \in {"call", "opening"} => lock = t /\ handle

\* Threads keep to the mutex and polling to the connection.  No thread goes on with the
\* mutex: whoever has it is inside the library, or hung by locking twice.  And epoll has the
\* stream's socket only while there is a connection, a handle and a slot of the set for it:
\* what polling finds to read is never of a stream that was closed, or that is connecting.
StreamGuarded ==
    /\ HandleInUse
    /\ lock # Nobody => pc[lock] \in {"call", "opening", "hung"}
    /\ armed => link \in {"up", "lost"} /\ handle /\ slots > 0

\* Publishing comes to an end, though the listener holds the mutex until the broker answers.
PublishReturns == At(Publisher, "lock") ~> At(Publisher, "idle")

\* The listener ends once the process is asked to stop, so that the plugin can be unloaded:
\* it joins the thread.
ListenerStops == asked ~> At(Listener, "done")

\* "Records the connection state, socket FD, and resends pending subscriptions": while the
\* stream is connected, the broker is asked for whatever topic is recorded.
Subscribed ==
    \A topic \in Topics :
        connected /\ topic \in topics ~> topic \in served \/ ~ connected
=============================================================================
