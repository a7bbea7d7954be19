------------------------------- MODULE Polling -------------------------------
(***************************************************************************)
(* zpt::polling and zpt::stream_set (io/stream): the epoll loop, the set   *)
(* of polled streams with its lock-free claim tokens, and the events that  *)
(* claim streams (engines/transport: receive, send, call).                 *)
(*                                                                         *)
(* A stream is used by whoever has claimed it, that is, has swapped the    *)
(* token of its slot from the stream's uuid to zero.  Claimants are the    *)
(* poller (on an epoll event) and the workers of the transport dispatcher. *)
(* Every action is one atomic access to shared state; the accesses whose   *)
(* order matters (token before epoll_ctl, slot before maps) are separate   *)
(* actions.  Messages are counted, not represented.                        *)
(***************************************************************************)
EXTENDS Integers, Sequences, FiniteSets

CONSTANTS
    Streams,     \* streams ever created; a stream is inserted at most once
    Kind,        \* stream -> "http", "tcp", "broker" or "event"
    Capacity,    \* slots of the stream set
    Workers,     \* consumers of the transport dispatcher
    Poller,      \* the thread in polling::poll
    Acceptor,    \* a listener thread of a transport plugin
    None,        \* the null stream, also uuid zero
    JobKinds,    \* which events exist besides receive: "call", "dial", "send"
    MayShutdown, \* whether polling::shutdown may be called
    MaxSent,     \* bound: messages each peer sends
    MaxCalls,    \* bound: calls made by the application
    MaxPending   \* bound: entries of __pending_events

ASSUME CapacityAssumption == Capacity \in Nat \ {0}
ASSUME KindAssumption     == Kind \in [Streams -> {"http", "tcp", "broker", "event"}]
ASSUME NoneAssumption     == None \notin Streams
ASSUME ThreadAssumption   == /\ Poller # Acceptor
                             /\ Poller \notin Workers /\ Acceptor \notin Workers
ASSUME JobAssumption      == JobKinds \subseteq {"call", "dial", "send"}
ASSUME BoundAssumption    == /\ MaxSent \in Nat /\ MaxCalls \in Nat
                             /\ MaxPending \in Nat /\ MayShutdown \in BOOLEAN

VARIABLES
    token,    \* __by_fd_id: slot -> uuid of its released stream, or None
    byFd,     \* __by_fd: slot -> stream, or None
    known,    \* the streams in __by_uuid and __by_uri
    free,     \* __available_indexes
    index,    \* stream -> __index
    edata,    \* stream -> the index kept in its epoll_event_data_t, or Unset
    armed,    \* streams registered with epoll
    status,   \* stream -> "new", "open", "ERRORING_OUT" or "gone"
    inbox,    \* stream -> messages waiting in the kernel
    buffered, \* stream -> messages read from the kernel and not yet delivered
    sent,     \* stream -> messages its peer has sent so far
    hup,      \* streams whose peer has hung up
    jobs,     \* the transport dispatcher's queue of events
    calls,    \* number of calls made so far
    pending,  \* __pending_events
    work,     \* events the poller still has to process in this pass
    pass,     \* which events these are: "batch" from epoll_wait, or "retry"
    pc,       \* thread -> the access it is about to make
    cur,      \* thread -> the stream it is dealing with
    kind,     \* thread -> the event it executes (the poller: what follows)
    after,    \* thread -> jobs it triggers when it has let go of the stream
    closed,   \* stream -> number of DISCONNECTED callbacks
    shutdown  \* __shutdown

setVars    == <<token, byFd, known, free, index>>
streamVars == <<status, inbox, buffered, sent, hup>>
pollVars   == <<pending, work, pass>>
threadVars == <<pc, cur, kind, after>>
vars == <<setVars, edata, armed, streamVars, jobs, calls, pollVars, threadVars,
          closed, shutdown>>

Indexes == 1 .. Capacity
NoIndex == 0          \* stream_index_null
Unset   == -1         \* event_data() has not been called yet
Threads == Workers \union {Poller, Acceptor}

Job(k, s)   == [kind |-> k, stream |-> s]
JobSet      == {Job(k, s) : k \in JobKinds \union {"receive"}, s \in Streams}
Event(s, h) == [stream |-> s, hup |-> h]

Labels == {"idle", "wait", "loop", "stopped",
           "ins_index", "ins_fd", "ins_maps", "ins_arm",
           "lookup", "claim", "del", "dispatch", "read", "write", "unmute", "arm",
           "erase", "erase_maps", "erase_index", "erase_null", "erase_del", "finish"}

-----------------------------------------------------------------------------

Init ==
    /\ token = [i \in Indexes |-> None]
    /\ byFd = [i \in Indexes |-> None]
    /\ known = {}
    /\ free = [i \in Indexes |-> i]
    /\ index = [s \in Streams |-> NoIndex]
    /\ edata = [s \in Streams |-> Unset]
    /\ armed = {}
    /\ status = [s \in Streams |-> "new"]
    /\ inbox = [s \in Streams |-> 0]
    /\ buffered = [s \in Streams |-> 0]
    /\ sent = [s \in Streams |-> 0]
    /\ hup = {}
    /\ jobs = <<>>
    /\ calls = 0
    /\ pending = <<>>
    /\ work = <<>>
    /\ pass = "batch"
    /\ pc = [t \in Threads |-> IF t = Poller THEN "wait" ELSE "idle"]
    /\ cur = [t \in Threads |-> None]
    /\ kind = [t \in Threads |-> "none"]
    /\ after = [t \in Threads |-> <<>>]
    /\ closed = [s \in Streams |-> 0]
    /\ shutdown = FALSE

At(t, label)   == pc[t] = label
Goto(t, label) == pc' = [pc EXCEPT ![t] = label]

\* A thread drops its reference to the stream and starts over.
Leave(t, label) ==
    /\ Goto(t, label)
    /\ cur' = [cur EXCEPT ![t] = None]
    /\ kind' = [kind EXCEPT ![t] = "none"]
    /\ after' = [after EXCEPT ![t] = <<>>]

\* A shared_ptr to the stream exists.  When the last one goes, ~basic_stream
\* closes the descriptor, which also removes it from epoll, and the event data
\* block is freed.
Alive(s) ==
    \/ s \in known
    \/ \E i \in Indexes : byFd[i] = s
    \/ \E t \in Threads : cur[t] = s
    \/ \E k \in 1 .. Len(jobs) : jobs[k].stream = s

Socket(s)  == Kind[s] \in {"http", "tcp"}
\* has_next(): the broker streams answer from their buffer, all others FALSE.
HasNext(s) == Kind[s] = "broker" /\ buffered[s] > 0

\* stream_set::acquire(index, uuid): the swap, and whether a stream came of it.
Hit(i, s)     == i \in Indexes /\ token[i] = s
Swap(i, s)    == token' = IF Hit(i, s) THEN [token EXCEPT ![i] = None] ELSE token
Claimed(i, s) == Hit(i, s) /\ byFd[i] = s

-----------------------------------------------------------------------------
(* Faulty variants of some steps.  They are not part of the specification:   *)
(* each is a slip the code could have contained, and each is caught by one   *)
(* of the properties below.                                                  *)

\* A call that does not look at the result of mute.
ClaimUnchecked(w) ==
    /\ At(w, "claim")
    /\ Swap(index[cur[w]], cur[w])
    /\ Goto(w, "del")
    /\ UNCHANGED <<byFd, known, free, index, edata, armed, streamVars, jobs, calls,
                   pollVars, cur, kind, after, closed, shutdown>>

\* unmute that re-arms the stream whether or not messages are left in its buffer.
UnmuteIgnoresBacklog(t) ==
    /\ At(t, "unmute")
    /\ LET s == cur[t]
           i == index[s]
       IN  IF status[s] = "ERRORING_OUT"
           THEN Goto(t, "erase") /\ UNCHANGED token
           ELSE IF i \in Indexes /\ token[i] = None
           THEN token' = [token EXCEPT ![i] = s] /\ Goto(t, "arm")
           ELSE Goto(t, "finish") /\ UNCHANGED token
    /\ UNCHANGED <<byFd, known, free, index, edata, armed, streamVars, jobs, calls, pollVars,
                   cur, kind, after, closed, shutdown>>

\* unmute that takes the registration made by insert to be still there.
ArmOnlyOnce(t) ==
    /\ At(t, "arm")
    /\ edata' = [edata EXCEPT ![cur[t]] = IF @ = Unset THEN index[cur[t]] ELSE @]
    /\ armed' = IF edata[cur[t]] = Unset THEN armed \union {cur[t]} ELSE armed
    /\ Goto(t, "finish")
    /\ UNCHANGED <<setVars, streamVars, jobs, calls, pollVars, cur, kind, after,
                   closed, shutdown>>

\* erase that resets __index before it gives the index back.
EraseIndexAfterReset(t) ==
    /\ At(t, "erase_index")
    /\ index' = [index EXCEPT ![cur[t]] = NoIndex]
    /\ free' = Append(free, NoIndex)
    /\ Goto(t, "erase_null")
    /\ UNCHANGED <<token, byFd, known, edata, armed, streamVars, jobs, calls,
                   pollVars, cur, kind, after, closed, shutdown>>

\* erase that leaves __index as it is.
EraseNullForgotten(t) ==
    /\ At(t, "erase_null")
    /\ Goto(t, "erase_del")
    /\ UNCHANGED <<setVars, edata, armed, streamVars, jobs, calls,
                   pollVars, cur, kind, after, closed, shutdown>>

-----------------------------------------------------------------------------
(* The environment: peers, and calls made by the application. *)

PeerSend(s) ==
    /\ status[s] # "new"
    /\ Kind[s] # "event"
    /\ s \notin hup
    /\ sent[s] < MaxSent
    /\ sent' = [sent EXCEPT ![s] = @ + 1]
    /\ inbox' = [inbox EXCEPT ![s] = @ + 1]
    /\ UNCHANGED <<setVars, edata, armed, status, buffered, hup, jobs, calls,
                   pollVars, threadVars, closed, shutdown>>

PeerHangup(s) ==
    /\ status[s] # "new"
    /\ Kind[s] # "event"
    /\ s \notin hup
    /\ hup' = hup \union {s}
    /\ UNCHANGED <<setVars, edata, armed, status, inbox, buffered, sent, jobs, calls,
                   pollVars, threadVars, closed, shutdown>>

\* make_call: the call event is triggered on the transport dispatcher.
MakeCall(k, s) ==
    /\ k \in JobKinds \ {"send"}
    /\ k = "call" => status[s] # "new"
    /\ calls < MaxCalls
    /\ calls' = calls + 1
    /\ jobs' = Append(jobs, Job(k, s))
    /\ UNCHANGED <<setVars, edata, armed, streamVars, pollVars, threadVars,
                   closed, shutdown>>

Shutdown ==
    /\ MayShutdown
    /\ ~shutdown
    /\ shutdown' = TRUE
    /\ UNCHANGED <<setVars, edata, armed, streamVars, jobs, calls, pollVars,
                   threadVars, closed>>

-----------------------------------------------------------------------------
(* polling::listen_on and insert, by the acceptor or by a dialling worker. *)

\* accept() has returned a connection; listen_on drops it after shutdown.
Accept(s) ==
    /\ At(Acceptor, "idle")
    /\ status[s] = "new"
    /\ IF shutdown
       THEN status' = [status EXCEPT ![s] = "gone"] /\ UNCHANGED <<pc, cur>>
       ELSE /\ status' = [status EXCEPT ![s] = "open"]
            /\ Goto(Acceptor, "ins_index")
            /\ cur' = [cur EXCEPT ![Acceptor] = s]
    /\ UNCHANGED <<setVars, edata, armed, inbox, buffered, sent, hup, jobs, calls,
                   pollVars, kind, after, closed, shutdown>>

\* What follows listen_on: the acceptor forgets the stream; a dialling worker
\* goes on to mute it.
AfterInsert(t) ==
    IF t = Acceptor THEN Leave(t, "idle") ELSE Goto(t, "claim") /\ UNCHANGED <<cur, kind, after>>

InsertIndex(t) ==
    /\ At(t, "ins_index")
    /\ LET s == cur[t]
           i == Head(free)
       IN  IF free # <<>> /\ token[i] = None
           THEN /\ free' = Tail(free)
                /\ index' = [index EXCEPT ![s] = i]
                /\ token' = [token EXCEPT ![i] = s]
                /\ Goto(t, "ins_fd")
                /\ UNCHANGED <<cur, kind, after>>
           ELSE /\ free' = IF free = <<>> THEN free ELSE Append(Tail(free), i)
                /\ AfterInsert(t)
                /\ UNCHANGED <<index, token>>
    /\ UNCHANGED <<byFd, known, edata, armed, streamVars, jobs, calls, pollVars,
                   closed, shutdown>>

InsertFd(t) ==
    /\ At(t, "ins_fd")
    /\ byFd' = [byFd EXCEPT ![index[cur[t]]] = cur[t]]
    /\ Goto(t, "ins_maps")
    /\ UNCHANGED <<token, known, free, index, edata, armed, streamVars, jobs, calls,
                   pollVars, cur, kind, after, closed, shutdown>>

InsertMaps(t) ==
    /\ At(t, "ins_maps")
    /\ known' = known \union {cur[t]}
    /\ Goto(t, "ins_arm")
    /\ UNCHANGED <<token, byFd, free, index, edata, armed, streamVars, jobs, calls,
                   pollVars, cur, kind, after, closed, shutdown>>

\* event_data() is created on first use and keeps the index of that moment.
Register(s) ==
    /\ edata' = [edata EXCEPT ![s] = IF @ = Unset THEN index[s] ELSE @]
    /\ armed' = armed \union {s}

\* EPOLL_CTL_ADD, then the CONNECTED callback.
InsertArm(t) ==
    /\ At(t, "ins_arm")
    /\ Register(cur[t])
    /\ AfterInsert(t)
    /\ UNCHANGED <<setVars, streamVars, jobs, calls, pollVars, closed, shutdown>>

-----------------------------------------------------------------------------
(* polling::poll.  A pass over the events epoll_wait returned is followed by *)
(* a pass over the pending ones; in both, an event whose stream cannot be    *)
(* claimed is kept for the next pass.  Every event has EPOLLIN set (a hangup *)
(* sets it too), so the tests of EPOLLIN that drop an event never apply.     *)

ReadySet  == {s \in armed : Alive(s) /\ (inbox[s] > 0 \/ s \in hup)}
Orders(S) == {f \in [1 .. Cardinality(S) -> S] :
                 \A j, k \in DOMAIN f : f[j] = f[k] => j = k}

\* At the bound the wait returns nothing: epoll is level-triggered and reports
\* the same streams again.
EpollWait ==
    /\ At(Poller, "wait")
    /\ \E order \in Orders(IF Cardinality(ReadySet) + Len(pending) <= MaxPending
                            THEN ReadySet ELSE {}) :
          work' = [k \in DOMAIN order |-> Event(order[k], order[k] \in hup)]
    /\ pass' = "batch"
    /\ Goto(Poller, "loop")
    /\ UNCHANGED <<setVars, edata, armed, streamVars, jobs, calls, pending,
                   cur, kind, after, closed, shutdown>>

NextPass ==
    /\ At(Poller, "loop")
    /\ work = <<>>
    /\ \/ /\ pass = "batch"
          /\ pass' = "retry"
          /\ work' = pending
          /\ pending' = <<>>
          /\ UNCHANGED pc
       \/ /\ pass = "retry"
          /\ Goto(Poller, IF shutdown THEN "stopped" ELSE "wait")
          /\ UNCHANGED pollVars
    /\ UNCHANGED <<setVars, edata, armed, streamVars, jobs, calls,
                   cur, kind, after, closed, shutdown>>

\* What the event's data pointer yields.  Once the stream is destroyed the block
\* is freed memory: it may still hold the old contents or be another stream's.
Payload(s) ==
    IF Alive(s) THEN {s}
    ELSE {s} \union {r \in Streams : Alive(r) /\ edata[r] # Unset}

\* process_event up to the claim.
ProcessEvent ==
    /\ At(Poller, "loop")
    /\ work # <<>>
    /\ work' = Tail(work)
    /\ \E s \in Payload(Head(work).stream) :
          /\ Swap(edata[s], s)
          /\ IF Claimed(edata[s], s)
             THEN /\ cur' = [cur EXCEPT ![Poller] = s]
                  /\ kind' = [kind EXCEPT ![Poller] =
                                 IF Head(work).hup THEN "hup" ELSE "in"]
                  /\ Goto(Poller, "del")
                  /\ UNCHANGED <<pending, after>>
             ELSE /\ pending' = Append(pending, Head(work))
                  /\ UNCHANGED <<pc, cur, kind, after>>
    /\ UNCHANGED <<byFd, known, free, index, edata, armed, streamVars, jobs, calls,
                   pass, closed, shutdown>>

\* process_event after the claim: erase the stream, or delegate it, which
\* triggers a receive event that inherits the claim.
Dispatch ==
    /\ At(Poller, "dispatch")
    /\ IF kind[Poller] = "hup"
       THEN Goto(Poller, "erase") /\ UNCHANGED <<jobs, cur, kind, after>>
       ELSE /\ jobs' = Append(jobs, Job("receive", cur[Poller]))
            /\ Leave(Poller, "loop")
    /\ UNCHANGED <<setVars, edata, armed, streamVars, calls, pollVars, closed, shutdown>>

-----------------------------------------------------------------------------
(* Workers: one event at a time off the dispatcher's queue. *)

Take(w) ==
    /\ At(w, "idle")
    /\ jobs # <<>>
    /\ jobs' = Tail(jobs)
    /\ cur' = [cur EXCEPT ![w] = Head(jobs).stream]
    /\ kind' = [kind EXCEPT ![w] = Head(jobs).kind]
    /\ Goto(w, CASE Head(jobs).kind = "receive" -> "read"
                 [] Head(jobs).kind = "send"    -> "claim"
                 [] OTHER                       -> "lookup")
    /\ UNCHANGED <<setVars, edata, armed, streamVars, calls, pollVars, after,
                   closed, shutdown>>

\* receive: blocks in recv on a socket with nothing to read; the other streams
\* give up.  A socket read takes all there is into the stream buffer.  A read
\* may fail once the peer has gone.  A message may call for a reply.
Readable(s) == buffered[s] > 0 \/ inbox[s] > 0 \/ s \in hup \/ ~Socket(s)

Read(w) ==
    /\ At(w, "read")
    /\ Readable(cur[w])
    /\ LET s == cur[w]
       IN  \/ /\ buffered[s] + inbox[s] > 0
              /\ IF Kind[s] = "event"
                 THEN inbox' = [inbox EXCEPT ![s] = @ - 1] /\ UNCHANGED buffered
                 ELSE IF buffered[s] > 0
                 THEN buffered' = [buffered EXCEPT ![s] = @ - 1] /\ UNCHANGED inbox
                 ELSE /\ buffered' = [buffered EXCEPT ![s] = inbox[s] - 1]
                      /\ inbox' = [inbox EXCEPT ![s] = 0]
              /\ \E reply \in {<<>>} \union
                      {<<Job("send", s)>> : x \in JobKinds \intersect {"send"}} :
                    after' = [after EXCEPT ![w] = IF shutdown THEN <<>> ELSE reply]
              /\ UNCHANGED status
           \/ /\ buffered[s] + inbox[s] = 0
              /\ UNCHANGED <<inbox, buffered, after, status>>
           \/ /\ s \in hup
              /\ status' = [status EXCEPT ![s] = "ERRORING_OUT"]
              /\ UNCHANGED <<inbox, buffered, after>>
    /\ Goto(w, "unmute")
    /\ UNCHANGED <<setVars, edata, armed, sent, hup, jobs, calls, pollVars,
                   cur, kind, closed, shutdown>>

\* polling::mute(uuid) and mute(uri): the lookup.  A call to a stream that is not
\* there is answered with 503; a dial opens the connection.
Lookup(w) ==
    /\ At(w, "lookup")
    /\ LET s == cur[w]
       IN  IF s \in known
           THEN Goto(w, "claim") /\ UNCHANGED <<cur, kind, after, status>>
           ELSE IF kind[w] = "dial" /\ status[s] = "new"
           THEN /\ status' = [status EXCEPT ![s] = "open"]
                /\ Goto(w, IF shutdown THEN "claim" ELSE "ins_index")
                /\ kind' = [kind EXCEPT ![w] = "dialled"]
                /\ UNCHANGED <<cur, after>>
           ELSE Leave(w, "idle") /\ UNCHANGED status
    /\ UNCHANGED <<setVars, edata, armed, inbox, buffered, sent, hup, jobs, calls,
                   pollVars, closed, shutdown>>

\* polling::mute(stream).  call looks at the result and is retriggered; send,
\* and a call that has just opened the connection, go on regardless.
Claim(w) ==
    /\ At(w, "claim")
    /\ LET s == cur[w]
       IN  /\ Swap(index[s], s)
           /\ IF Claimed(index[s], s)
              THEN Goto(w, "del") /\ UNCHANGED <<jobs, cur, kind, after>>
              ELSE IF kind[w] \in {"call", "dial"}
              THEN jobs' = Append(jobs, Job(kind[w], s)) /\ Leave(w, "idle")
              ELSE Goto(w, "write") /\ UNCHANGED <<jobs, cur, kind, after>>
    /\ UNCHANGED <<byFd, known, free, index, edata, armed, streamVars, calls,
                   pollVars, closed, shutdown>>

\* EPOLL_CTL_DEL, which follows every successful claim.
Del(t) ==
    /\ At(t, "del")
    /\ armed' = armed \ {cur[t]}
    /\ Goto(t, IF t = Poller THEN "dispatch" ELSE "write")
    /\ UNCHANGED <<setVars, edata, streamVars, jobs, calls, pollVars,
                   cur, kind, after, closed, shutdown>>

\* basic_transport::send: written; failed, which is swallowed and leaves the
\* stream ERRORING_OUT; or refused in the stream's request/reply state.  A refused
\* call unmutes and is retriggered, a refused send is abandoned as it stands.
Write(w) ==
    /\ At(w, "write")
    /\ LET s == cur[w]
       IN  \/ /\ inbox' = [inbox EXCEPT ![s] = IF Kind[s] = "event" THEN @ + 1 ELSE @]
              /\ Goto(w, "unmute")
              /\ UNCHANGED <<status, cur, kind, after>>
           \/ /\ s \in hup
              /\ status' = [status EXCEPT ![s] = "ERRORING_OUT"]
              /\ Goto(w, "unmute")
              /\ UNCHANGED <<inbox, cur, kind, after>>
           \/ /\ Kind[s] = "http"
              /\ IF kind[w] = "send"
                 THEN Leave(w, "idle")
                 ELSE /\ after' = [after EXCEPT ![w] =
                                      <<Job(IF kind[w] = "call" THEN "call" ELSE "dial", s)>>]
                      /\ Goto(w, "unmute")
                      /\ UNCHANGED <<cur, kind>>
              /\ UNCHANGED <<status, inbox>>
    /\ UNCHANGED <<setVars, edata, armed, buffered, sent, hup, jobs, calls, pollVars,
                   closed, shutdown>>

-----------------------------------------------------------------------------
(* polling::unmute and erase. *)

Unmute(t) ==
    /\ At(t, "unmute")
    /\ LET s == cur[t]
           i == index[s]
       IN  \/ /\ status[s] = "ERRORING_OUT"
              /\ Goto(t, "erase")
              /\ UNCHANGED <<token, jobs>>
           \/ /\ status[s] # "ERRORING_OUT" /\ HasNext(s)
              /\ jobs' = Append(jobs, Job("receive", s))
              /\ Goto(t, "finish")
              /\ UNCHANGED token
           \/ /\ status[s] # "ERRORING_OUT" /\ ~HasNext(s)
              /\ IF i \in Indexes /\ token[i] = None
                 THEN token' = [token EXCEPT ![i] = s] /\ Goto(t, "arm")
                 ELSE Goto(t, "finish") /\ UNCHANGED token
              /\ UNCHANGED jobs
    /\ UNCHANGED <<byFd, known, free, index, edata, armed, streamVars, calls, pollVars,
                   cur, kind, after, closed, shutdown>>

\* EPOLL_CTL_ADD, after the stream has been released.
Arm(t) ==
    /\ At(t, "arm")
    /\ Register(cur[t])
    /\ Goto(t, "finish")
    /\ UNCHANGED <<setVars, streamVars, jobs, calls, pollVars, cur, kind, after,
                   closed, shutdown>>

\* erase of a stream that reads as claimed.  (For a stream that has left the set
\* the code reads outside of the array; that read is taken to be not zero.)
Erase(t) ==
    /\ At(t, "erase")
    /\ LET i == index[cur[t]]
       IN  IF i \in Indexes /\ token[i] = None
           THEN byFd' = [byFd EXCEPT ![i] = None] /\ Goto(t, "erase_maps")
           ELSE Goto(t, "finish") /\ UNCHANGED byFd
    /\ UNCHANGED <<token, known, free, index, edata, armed, streamVars, jobs, calls,
                   pollVars, cur, kind, after, closed, shutdown>>

EraseMaps(t) ==
    /\ At(t, "erase_maps")
    /\ known' = known \ {cur[t]}
    /\ Goto(t, "erase_index")
    /\ UNCHANGED <<token, byFd, free, index, edata, armed, streamVars, jobs, calls,
                   pollVars, cur, kind, after, closed, shutdown>>

EraseIndex(t) ==
    /\ At(t, "erase_index")
    /\ free' = Append(free, index[cur[t]])
    /\ Goto(t, "erase_null")
    /\ UNCHANGED <<token, byFd, known, index, edata, armed, streamVars, jobs, calls,
                   pollVars, cur, kind, after, closed, shutdown>>

EraseNull(t) ==
    /\ At(t, "erase_null")
    /\ index' = [index EXCEPT ![cur[t]] = NoIndex]
    /\ Goto(t, "erase_del")
    /\ UNCHANGED <<token, byFd, known, free, edata, armed, streamVars, jobs, calls,
                   pollVars, cur, kind, after, closed, shutdown>>

\* EPOLL_CTL_DEL, then the DISCONNECTED callback.
EraseDel(t) ==
    /\ At(t, "erase_del")
    /\ armed' = armed \ {cur[t]}
    /\ closed' = [closed EXCEPT ![cur[t]] = @ + 1]
    /\ Goto(t, "finish")
    /\ UNCHANGED <<setVars, edata, streamVars, jobs, calls, pollVars, cur, kind, after,
                   shutdown>>

\* The event is destroyed (the receive event triggers its replies now), or the
\* poller goes on with its pass.
Finish(t) ==
    /\ At(t, "finish")
    /\ jobs' = jobs \o after[t]
    /\ Leave(t, IF t = Poller THEN "loop" ELSE "idle")
    /\ UNCHANGED <<setVars, edata, armed, streamVars, calls, pollVars, closed, shutdown>>

-----------------------------------------------------------------------------

Insert(t) == InsertIndex(t) \/ InsertFd(t) \/ InsertMaps(t) \/ InsertArm(t)

EraseSteps(t) ==
    Erase(t) \/ EraseMaps(t) \/ EraseIndex(t) \/ EraseNull(t) \/ EraseDel(t)

PollerStep ==
    \/ EpollWait \/ NextPass \/ ProcessEvent \/ Del(Poller) \/ Dispatch
    \/ EraseSteps(Poller) \/ Finish(Poller)

WorkerStep(w) ==
    \/ Take(w) \/ Read(w) \/ Lookup(w) \/ Claim(w) \/ Del(w) \/ Write(w)
    \/ Unmute(w) \/ Arm(w) \/ EraseSteps(w) \/ Insert(w) \/ Finish(w)

Next ==
    \/ \E s \in Streams : PeerSend(s) \/ PeerHangup(s) \/ Accept(s)
    \/ \E s \in Streams, k \in JobKinds : MakeCall(k, s)
    \/ Shutdown
    \/ Insert(Acceptor)
    \/ PollerStep
    \/ \E w \in Workers : WorkerStep(w)

Spec == Init /\ [][Next]_vars

\* Every thread keeps running; the environment owes nothing.
FairSpec ==
    /\ Spec
    /\ WF_vars(Insert(Acceptor))
    /\ WF_vars(PollerStep)
    /\ \A w \in Workers : WF_vars(WorkerStep(w))

-----------------------------------------------------------------------------
(* Properties *)

TypeOK ==
    /\ token \in [Indexes -> Streams \union {None}]
    /\ byFd \in [Indexes -> Streams \union {None}]
    /\ known \subseteq Streams
    /\ free \in Seq(Indexes)
    /\ index \in [Streams -> Indexes \union {NoIndex}]
    /\ edata \in [Streams -> Indexes \union {NoIndex, Unset}]
    /\ armed \subseteq Streams
    /\ status \in [Streams -> {"new", "open", "ERRORING_OUT", "gone"}]
    /\ inbox \in [Streams -> Nat] /\ buffered \in [Streams -> Nat]
    /\ sent \in [Streams -> 0 .. MaxSent]
    /\ hup \subseteq Streams
    /\ jobs \in Seq(JobSet)
    /\ calls \in 0 .. MaxCalls
    /\ \A q \in {pending, work} : q \in Seq({Event(s, h) : s \in Streams, h \in BOOLEAN})
    /\ pass \in {"batch", "retry"}
    /\ pc \in [Threads -> Labels]
    /\ cur \in [Threads -> Streams \union {None}]
    /\ kind \in [Threads -> JobKinds \union {"none", "receive", "dialled", "hup", "in"}]
    /\ after \in [Threads -> Seq(JobSet)]
    /\ closed \in [Streams -> Nat]
    /\ shutdown \in BOOLEAN

UsingLabels == {"del", "dispatch", "read", "write", "unmute",
                "erase", "erase_maps", "erase_index", "erase_null"}

Users(s)  == {t \in Threads : cur[t] = s /\ pc[t] \in UsingLabels}
Queued(s) == {k \in 1 .. Len(jobs) : jobs[k] = Job("receive", s)}

\* The claim token works as a lock: a stream is read, written, released or erased
\* by one thread at a time, a queued receive event counts as a user because it
\* inherits the poller's claim, and the token is zero as long as there is a user.
ClaimExclusive ==
    \A s \in Streams :
        /\ Cardinality(Users(s)) + Cardinality(Queued(s)) <= 1
        /\ (Users(s) # {} \/ Queued(s) # {}) => \A i \in Indexes : token[i] # s

\* A stream holds the slot named by its __index until erase gives it back.
Holds(s, i) ==
    /\ index[s] = i
    /\ \A t \in Threads : ~(cur[t] = s /\ pc[t] = "erase_null")

\* A token in the set leads to its stream: whoever wins the swap finds the stream
\* in the slot (acquire dereferences it unchecked) and the slot is the stream's own.
TokenLeadsToStream ==
    \A i \in Indexes : \A s \in Streams :
        token[i] = s =>
            /\ Holds(s, i)
            /\ \/ byFd[i] = s
               \/ \E t \in Threads : cur[t] = s /\ pc[t] = "ins_fd"

\* No slot index is ever lost or handed out twice: it is in the free pool once, or
\* it belongs to exactly one stream. A stream is erased and its DISCONNECTED callback
\* made once, and by then it can no longer be found or claimed. Tokens lead to streams.
SlotAccounting ==
    /\ TokenLeadsToStream
    /\ \A j, k \in 1 .. Len(free) : free[j] = free[k] => j = k
    /\ \A i \in Indexes :
          LET owners == {s \in Streams : Holds(s, i)}
          IN  IF \E k \in 1 .. Len(free) : free[k] = i
              THEN owners = {} /\ token[i] = None /\ byFd[i] = None
              ELSE Cardinality(owners) = 1
    /\ \A s \in Streams :
          /\ closed[s] <= 1
          /\ closed[s] = 1 => s \notin known /\ \A i \in Indexes : token[i] # s /\ byFd[i] # s

\* No wakeup is lost: a stream in the set either is released, and then it is registered
\* with epoll or the thread that inserted or released it is about to register it, or
\* it is in the hands of one that will release it: a thread that uses it or a receive
\* event that inherits the claim. No interleaving of claims with the two steps of
\* unmute leaves a stream that nobody serves and nobody wakes up for.
NoLostWakeup ==
    \A s \in known :
        \/ /\ Hit(index[s], s)
           /\ \/ s \in armed
              \/ \E t \in Threads : cur[t] = s /\ pc[t] \in {"ins_arm", "arm"}
        \/ Users(s) # {}
        \/ Queued(s) # {}

\* Every message that reaches a polled stream is delivered to a receive event,
\* unless the stream is erased first.
Delivered ==
    \A s \in Streams :
        (s \in known /\ inbox[s] + buffered[s] > 0)
            ~> (s \notin known \/ inbox[s] + buffered[s] = 0)

(* A statement of the documentation that the code does not keep. *)

\* An event is resolved without touching a pointer that may no longer be alive
\* (comment of epoll_event_data_t).
EventDataAlive ==
    \A k \in 1 .. Len(pending) : Alive(pending[k].stream)

=============================================================================
