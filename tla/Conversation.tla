---------------------------- MODULE Conversation ----------------------------
(***************************************************************************)
(* Request and reply over a synchronous transport (http): the state every  *)
(* stream keeps (network/transport), the events that receive, process and  *)
(* send messages (engines/transport), and the table that takes a reply     *)
(* back to the call it answers (engines/rest, pending_messages).           *)
(*                                                                         *)
(* A client process makes calls to a server process.  Its calls share one  *)
(* connection; when that one is lost, the next call opens another.  The    *)
(* server also has connections from other programs (Foreign), which send   *)
(* what and when they like.                                                *)
(*                                                                         *)
(* A receive, send or call event uses its stream between mute and unmute   *)
(* and is one action here; what may go wrong around mute and unmute is the *)
(* subject of module Polling.  Events of a dispatcher with several workers *)
(* run in any order, so the queues are sets.  A message is its             *)
(* conversation id and, for a reply, its outcome.                          *)
(***************************************************************************)
EXTENDS Integers, Sequences, FiniteSets

CONSTANTS
    Calls,       \* calls of the client process, also their X-Conversation-ID
    Discards,    \* those made with call<discard>, which ask for no reply
    Requests,    \* requests other programs send
    Bad,         \* those the server cannot parse
    Leftover,    \* the unread end of a message that could not be parsed
    Conns,       \* connections ever opened
    Foreign,     \* those opened by other programs
    Window,      \* bound: requests a foreign program sends ahead of replies
    MaxHandlers, \* bound: handlers registered for one resource
    MaxErrors,   \* bound: error replies without a conversation id
    NoId,        \* the id of such a reply
    NoConn

Ids == Calls \union Requests
Own == Conns \ Foreign

ASSUME IdAssumption   == /\ Discards \subseteq Calls /\ Bad \subseteq Requests
                         /\ Calls \intersect Requests = {}
                         /\ NoId \notin Ids /\ Leftover \notin Ids
ASSUME ConnAssumption == Foreign \subseteq Conns /\ NoConn \notin Conns
ASSUME BoundAssumption ==
    Window \in Nat /\ MaxHandlers \in Nat /\ MaxErrors \in Nat

VARIABLES
    phase,     \* call -> "new", "queued", "tried" (registered) or "sent"
    on,        \* id -> the connection its request was written to
    told,      \* id -> the outcome in its call_context
    pending,   \* pending_messages: calls whose reply is awaited
    replies,   \* process_call_reply events of the client
    cur,       \* the connection the client finds by its URI, or NoConn
    opened,    \* connections opened so far
    open,      \* connections that are up
    reg,       \* connections in the server's stream set
    leaked,    \* connections whose claim the server never gives back
    cst,       \* connection -> stream state at the client
    sst,       \* connection -> stream state at the server
    c2s,       \* connection -> requests on their way
    s2c,       \* connection -> replies on their way
    handlers,  \* process events of the server
    sends,     \* send events of the server
    decided,   \* id -> outcome of the reply acquired, the reply's owner settled
    errors     \* number of error replies without an id so far

netVars    == <<cur, opened, open, reg>>
clientVars == <<phase, on, told, pending, replies, cst>>
serverVars == <<leaked, sst, handlers, sends, decided, errors>>
vars == <<netVars, clientVars, serverVars, c2s, s2c>>

NoAnswer == "none"
Answers  == {"ok", "fail"}

Reply(r, a)        == [id |-> r, outcome |-> a]
ReplySet           == [id : Ids \union {NoId}, outcome : Answers]
Handler(k, r, h)   == [conn |-> k, id |-> r, nr |-> h]
Sending(k, m, n)   == [conn |-> k, reply |-> m, nr |-> n]
Push(q, k, m)      == [q EXCEPT ![k] = Append(@, m)]
Pop(q, k)          == [q EXCEPT ![k] = Tail(@)]

Init ==
    /\ phase = [c \in Calls |-> "new"]
    /\ on = [r \in Ids |-> NoConn]
    /\ told = [r \in Ids |-> NoAnswer]
    /\ pending = {} /\ replies = {}
    /\ cur = NoConn
    /\ opened = Foreign /\ open = Foreign /\ reg = Foreign
    /\ leaked = {}
    /\ cst = [k \in Conns |-> "IDLE"] /\ sst = [k \in Conns |-> "IDLE"]
    /\ c2s = [k \in Conns |-> <<>>] /\ s2c = [k \in Conns |-> <<>>]
    /\ handlers = {} /\ sends = {}
    /\ decided = [r \in Ids |-> NoAnswer]
    /\ errors = 0

-----------------------------------------------------------------------------
(* basic_transport: the states of a synchronous stream.                    *)

\* Faulty variant: the expectation on the state is missing.
MaySendAlways(st) == st \in {"IDLE", "WAITING", "PROCESSING", "ERRORING_OUT"}

\* send() refuses a stream that is waiting for a reply.
MaySend(st) == st \in {"IDLE", "PROCESSING", "ERRORING_OUT"}

\* Faulty variant: whatever was sent, an answer is expected.
AfterSendAsRequest(st) == IF MaySend(st) THEN "WAITING" ELSE st

\* The state send() leaves behind: a message sent on an idle stream counts as
\* a request, any other as the reply to the request in hand.
AfterSend(st) == IF st = "IDLE" THEN "WAITING" ELSE "IDLE"

\* receive() refuses a stream that is neither idle nor waiting.
MayReceive(st) == st \in {"IDLE", "WAITING"}

\* Faulty variant: receiving a request does not mark the stream.
AfterReceiveUnmarked(st) == IF MayReceive(st) THEN "IDLE" ELSE st

\* The state receive() leaves behind.
AfterReceive(st) == IF st = "IDLE" THEN "PROCESSING" ELSE "IDLE"

-----------------------------------------------------------------------------
(* Replies: who may send one, and whom it reaches.                         *)

\* basic_message::acquire_reply succeeds for one caller.
AcquireReply(r) == decided[r] = NoAnswer

\* pending_messages: push when a call is first tried, pop when a reply with
\* its conversation id comes.
PushPending(c) == pending' = pending \union {c}
PopPending(r)  == pending' = pending \ {r}

\* call_context::reply
ContextReply(c, a) == told' = [told EXCEPT ![c] = a]

-----------------------------------------------------------------------------
(* The client: call events, receive events, process_call_reply events.     *)

MakeCall(c) ==
    /\ phase[c] = "new"
    /\ phase' = [phase EXCEPT ![c] = "queued"]
    /\ UNCHANGED <<netVars, on, told, pending, replies, cst, serverVars, c2s, s2c>>

\* resolve_uri finds no provider: the context is given a 404.
Unresolved(c) ==
    /\ phase[c] = "queued"
    /\ phase' = [phase EXCEPT ![c] = "sent"]
    /\ ContextReply(c, "unavailable")
    /\ UNCHANGED <<netVars, on, pending, replies, cst, serverVars, c2s, s2c>>

\* Faulty variant: the reply's resolver is not registered.
RegisterForgotten(c) ==
    /\ phase[c] = "queued"
    /\ phase' = [phase EXCEPT ![c] = "tried"]
    /\ UNCHANGED <<netVars, on, told, pending, replies, cst, serverVars, c2s, s2c>>

\* First try: the reply's resolver is registered before anything is sent.
Register(c) ==
    /\ phase[c] = "queued"
    /\ phase' = [phase EXCEPT ![c] = "tried"]
    /\ PushPending(c)
    /\ UNCHANGED <<netVars, on, told, replies, cst, serverVars, c2s, s2c>>

\* There is no stream for the URI: a connection is opened and polled, and the
\* server accepts it.
Dial(c) ==
    /\ phase[c] = "tried" /\ cur = NoConn
    /\ \E k \in Own \ opened :
        /\ cur' = k
        /\ opened' = opened \union {k}
        /\ open' = open \union {k}
        /\ reg' = reg \union {k}
    /\ UNCHANGED <<clientVars, serverVars, c2s, s2c>>

\* The connection cannot be opened: 503.  The entry in pending stays.
DialFails(c) ==
    /\ phase[c] = "tried" /\ cur = NoConn
    /\ phase' = [phase EXCEPT ![c] = "sent"]
    /\ ContextReply(c, "unavailable")
    /\ UNCHANGED <<netVars, on, pending, replies, cst, serverVars, c2s, s2c>>

\* Faulty variant: a refused call finishes instead of being retriggered.
TransmitOnce(c) ==
    /\ phase[c] = "tried" /\ cur # NoConn
    /\ phase' = [phase EXCEPT ![c] = "sent"]
    /\ on' = [on EXCEPT ![c] = cur]
    /\ IF MaySend(cst[cur])
       THEN /\ cst' = [cst EXCEPT ![cur] = AfterSend(@)]
            /\ c2s' = IF cur \in open THEN Push(c2s, cur, c) ELSE c2s
       ELSE UNCHANGED <<cst, c2s>>
    /\ UNCHANGED <<netVars, told, pending, replies, serverVars, s2c>>

\* The request is written.  A stream that is waiting for a reply refuses it
\* and the call is retriggered, which leaves everything as it is.
Transmit(c) ==
    /\ phase[c] = "tried" /\ cur # NoConn
    /\ MaySend(cst[cur])
    /\ cst' = [cst EXCEPT ![cur] = AfterSend(@)]
    /\ c2s' = IF cur \in open THEN Push(c2s, cur, c) ELSE c2s
    /\ phase' = [phase EXCEPT ![c] = "sent"]
    /\ on' = [on EXCEPT ![c] = cur]
    /\ UNCHANGED <<netVars, told, pending, replies, serverVars, s2c>>

\* Writing to a lost connection fails: the state becomes ERRORING_OUT, send()
\* returns as if it had succeeded, and unmute drops the stream.
TransmitFails(c) ==
    /\ phase[c] = "tried" /\ cur # NoConn
    /\ MaySend(cst[cur])
    /\ cur \notin open
    /\ cst' = [cst EXCEPT ![cur] = "ERRORING_OUT"]
    /\ cur' = NoConn
    /\ phase' = [phase EXCEPT ![c] = "sent"]
    /\ on' = [on EXCEPT ![c] = cur]
    /\ UNCHANGED <<opened, open, reg, told, pending, replies, serverVars, c2s, s2c>>

\* A receive event.  A waiting stream parses a reply and resolve() takes it to
\* the pending call, a reply nobody waits for is logged.  On an idle stream a
\* request is expected, so the reply is a syntax error.
ClientReceive(k) ==
    /\ k = cur /\ s2c[k] # <<>>
    /\ MayReceive(cst[k])
    /\ cst' = [cst EXCEPT ![k] = AfterReceive(@)]
    /\ s2c' = Pop(s2c, k)
    /\ LET m     == Head(s2c[k])
           found == cst[k] = "WAITING" /\ m.id \in pending
       IN IF found THEN PopPending(m.id) /\ replies' = replies \union {m}
                   ELSE UNCHANGED <<pending, replies>>
    /\ UNCHANGED <<netVars, phase, on, told, serverVars, c2s>>

\* process_call_reply gives the reply to the context; discard does nothing.
Deliver(m) ==
    /\ m \in replies
    /\ replies' = replies \ {m}
    /\ IF m.id \in Discards THEN UNCHANGED told ELSE ContextReply(m.id, m.outcome)
    /\ UNCHANGED <<netVars, phase, on, pending, cst, serverVars, c2s, s2c>>

\* The poller sees the hangup and erases the stream, unread replies and all.
ClientHangup ==
    /\ cur # NoConn /\ cur \notin open
    /\ cur' = NoConn
    /\ UNCHANGED <<opened, open, reg, clientVars, serverVars, c2s, s2c>>

-----------------------------------------------------------------------------
(* The server: receive, process and send events.                           *)

Readable(k) == k \in reg /\ k \notin leaked /\ c2s[k] # <<>>

\* Faulty variant: nothing is sent when no handler is found.
ResolveSilently(k, r, n) ==
    /\ handlers' = handlers \union {Handler(k, r, h) : h \in 1 .. n}
    /\ UNCHANGED <<sends, decided>>

\* The process events of a request, one per handler that resolve() found; the
\* 404 reply when there is none.
Resolve(k, r, n) ==
    /\ handlers' = handlers \union {Handler(k, r, h) : h \in 1 .. n}
    /\ sends' = IF n = 0 THEN sends \union {Sending(k, Reply(r, "fail"), 0)} ELSE sends
    /\ decided' = IF n = 0 THEN [decided EXCEPT ![r] = "fail"] ELSE decided

\* A request is read from an idle stream.
Accept(k) ==
    /\ Readable(k) /\ sst[k] = "IDLE"
    /\ Head(c2s[k]) \in Ids \ Bad
    /\ sst' = [sst EXCEPT ![k] = AfterReceive(@)]
    /\ c2s' = Pop(c2s, k)
    /\ \E n \in 0 .. MaxHandlers : Resolve(k, Head(c2s[k]), n)
    /\ UNCHANGED <<netVars, clientVars, s2c, leaked, errors>>

\* What the stream holds when parsing has failed somewhere in a message.
Unparsed(k) ==
    \/ c2s' = Pop(c2s, k)
    \/ c2s' = [c2s EXCEPT ![k] = <<Leftover>> \o Tail(@)]

\* What was read does not parse: it is logged, and the state stays as
\* receive() had set it.
SyntaxError(k) ==
    /\ Readable(k)
    /\ \/ sst[k] = "IDLE" /\ Head(c2s[k]) \in Bad \union {Leftover}
       \/ sst[k] = "WAITING"     \* a request where a reply is expected
    /\ sst' = [sst EXCEPT ![k] = AfterReceive(@)]
    /\ Unparsed(k)
    /\ UNCHANGED <<netVars, clientVars, s2c, leaked, handlers, sends, decided, errors>>

\* A request arrives while another one is in hand: receive() refuses to read
\* it and an error reply, which belongs to no request, is sent.
Refuse(k) ==
    /\ Readable(k) /\ ~MayReceive(sst[k])
    /\ errors < MaxErrors
    /\ errors' = errors + 1
    /\ sends' = sends \union {Sending(k, Reply(NoId, "fail"), errors')}
    /\ UNCHANGED <<netVars, clientVars, c2s, s2c, leaked, sst, handlers, decided>>

\* Faulty variant: every handler sends its reply, acquired or not.
HandleUnacquired(j) ==
    /\ j \in handlers
    /\ handlers' = handlers \ {j}
    /\ \E a \in Answers :
        /\ sends' = IF j.id \in Discards THEN sends
                    ELSE sends \union {Sending(j.conn, Reply(j.id, a), j.nr)}
        /\ decided' = [decided EXCEPT ![j.id] = a]
    /\ UNCHANGED <<netVars, clientVars, c2s, s2c, leaked, sst, errors>>

\* Faulty variant: the reply is sent although no status was set.
HandleAnyStatus(j) ==
    /\ j \in handlers
    /\ handlers' = handlers \ {j}
    /\ \E a \in Answers \union {NoAnswer} :
        /\ sends' = IF decided[j.id] # NoAnswer THEN sends
                    ELSE sends \union {Sending(j.conn, Reply(j.id, a), j.nr)}
        /\ decided' = [decided EXCEPT ![j.id] = a]
    /\ UNCHANGED <<netVars, clientVars, c2s, s2c, leaked, sst, errors>>

\* A handler runs and its process event is destroyed.  If it has set a status,
\* by itself or because it threw, and is the first one to acquire the reply,
\* the reply is sent.  Of the handlers of a request the last one to run sets a
\* status if no other did.
Handle(j) ==
    /\ j \in handlers
    /\ handlers' = handlers \ {j}
    /\ \E a \in Answers \union {NoAnswer} :
        LET mine == a # NoAnswer /\ j.id \notin Discards /\ AcquireReply(j.id)
        IN /\ a = NoAnswer => \/ decided[j.id] # NoAnswer
                              \/ \E i \in handlers' : i.id = j.id
           /\ sends' = IF mine THEN sends \union {Sending(j.conn, Reply(j.id, a), j.nr)}
                               ELSE sends
           /\ decided' = IF mine THEN [decided EXCEPT ![j.id] = a] ELSE decided
    /\ UNCHANGED <<netVars, clientVars, c2s, s2c, leaked, sst, errors>>

\* A send event for a stream that has been erased is aborted.
SendGone(j) ==
    /\ j \in sends
    /\ j.conn \notin reg
    /\ sends' = sends \ {j}
    /\ UNCHANGED <<netVars, clientVars, c2s, s2c, leaked, sst, handlers, decided, errors>>

\* The reply is written.  A connection that has just been lost may still take
\* it, or fail: then the stream is dropped by unmute.
SendReply(j) ==
    /\ j \in sends
    /\ j.conn \in reg /\ MaySend(sst[j.conn])
    /\ sends' = sends \ {j}
    /\ sst' = [sst EXCEPT ![j.conn] = AfterSend(@)]
    /\ s2c' = IF j.conn \in open THEN Push(s2c, j.conn, j.reply) ELSE s2c
    /\ UNCHANGED <<netVars, clientVars, c2s, leaked, handlers, decided, errors>>

SendFails(j) ==
    /\ j \in sends
    /\ j.conn \in reg /\ MaySend(sst[j.conn]) /\ j.conn \notin open
    /\ sends' = sends \ {j}
    /\ sst' = [sst EXCEPT ![j.conn] = "ERRORING_OUT"]
    /\ reg' = reg \ {j.conn}
    /\ UNCHANGED <<cur, opened, open, clientVars, c2s, s2c, leaked, handlers, decided, errors>>

\* send() refuses a waiting stream; the exception leaves the event before
\* unmute, so the claim stays taken.
SendRefused(j) ==
    /\ j \in sends
    /\ j.conn \in reg /\ ~MaySend(sst[j.conn])
    /\ sends' = sends \ {j}
    /\ leaked' = leaked \union {j.conn}
    /\ UNCHANGED <<netVars, clientVars, c2s, s2c, sst, handlers, decided, errors>>

ServerHangup(k) ==
    /\ k \in reg \ open
    /\ k \notin leaked
    /\ reg' = reg \ {k}
    /\ UNCHANGED <<cur, opened, open, clientVars, serverVars, c2s, s2c>>

-----------------------------------------------------------------------------
(* The network and the programs at the other end of foreign connections.   *)

\* A connection breaks; what was on its way arrives or not.
Break(k) ==
    /\ k \in open
    /\ open' = open \ {k}
    /\ c2s' \in {c2s, [c2s EXCEPT ![k] = <<>>]}
    /\ s2c' \in {s2c, [s2c EXCEPT ![k] = <<>>]}
    /\ UNCHANGED <<cur, opened, reg, clientVars, serverVars>>

Outstanding(k) == {r \in Requests : on[r] = k /\ told[r] = NoAnswer}

ForeignSend(k, r) ==
    /\ k \in Foreign \intersect open
    /\ on[r] = NoConn
    /\ Cardinality(Outstanding(k)) < Window
    /\ on' = [on EXCEPT ![r] = k]
    /\ c2s' = Push(c2s, k, r)
    /\ UNCHANGED <<netVars, phase, told, pending, replies, cst, serverVars, s2c>>

ForeignReceive(k) ==
    /\ k \in Foreign /\ s2c[k] # <<>>
    /\ s2c' = Pop(s2c, k)
    /\ LET m == Head(s2c[k])
       IN told' = IF m.id = NoId THEN told ELSE [told EXCEPT ![m.id] = m.outcome]
    /\ UNCHANGED <<netVars, phase, on, pending, replies, cst, serverVars, c2s>>

-----------------------------------------------------------------------------

ClientStep(c) == \/ MakeCall(c) \/ Unresolved(c) \/ Register(c)
                 \/ Dial(c) \/ DialFails(c) \/ Transmit(c) \/ TransmitFails(c)
SendStep(j)   == SendGone(j) \/ SendReply(j) \/ SendFails(j) \/ SendRefused(j)
ReceiveStep(k) == Accept(k) \/ SyntaxError(k) \/ Refuse(k)

Next ==
    \/ \E c \in Calls : ClientStep(c)
    \/ \E m \in replies : Deliver(m)
    \/ \E j \in handlers : Handle(j)
    \/ \E j \in sends : SendStep(j)
    \/ ClientHangup
    \/ \E k \in Conns : \/ ClientReceive(k) \/ ReceiveStep(k) \/ ServerHangup(k)
                        \/ Break(k) \/ ForeignReceive(k)
                        \/ \E r \in Requests : ForeignSend(k, r)

Spec == Init /\ [][Next]_vars

\* Every dispatcher keeps running its events and every poller keeps reporting
\* what epoll has; nothing is asked of the network, of other programs or of
\* the application that makes the calls.
FairSpec ==
    /\ Spec
    /\ \A c \in Calls :
        WF_vars(\/ Unresolved(c) \/ Register(c) \/ Dial(c) \/ DialFails(c)
                \/ Transmit(c) \/ TransmitFails(c))
    /\ WF_vars(\E m \in replies : Deliver(m))
    /\ WF_vars(\E j \in handlers : Handle(j))
    /\ WF_vars(\E j \in sends : SendStep(j))
    /\ WF_vars(ClientHangup)
    /\ \A k \in Conns :
        WF_vars(ClientReceive(k)) /\ WF_vars(ReceiveStep(k)) /\ WF_vars(ServerHangup(k))

-----------------------------------------------------------------------------
(* Properties.                                                             *)

States == {"IDLE", "WAITING", "PROCESSING", "ERRORING_OUT"}

\* Every variable has its type; in particular a reply carries an outcome some
\* handler gave and an id of this system.
TypeOK ==
    /\ phase \in [Calls -> {"new", "queued", "tried", "sent"}]
    /\ on \in [Ids -> Conns \union {NoConn}]
    /\ told \in [Ids -> Answers \union {NoAnswer, "unavailable"}]
    /\ pending \subseteq Calls
    /\ replies \subseteq ReplySet
    /\ cur \in Own \union {NoConn}
    /\ opened \subseteq Conns /\ open \subseteq opened /\ reg \subseteq opened
    /\ leaked \subseteq Conns
    /\ cst \in [Conns -> States] /\ sst \in [Conns -> States]
    /\ c2s \in [Conns -> Seq(Ids \union {Leftover})]
    /\ s2c \in [Conns -> Seq(ReplySet)]
    /\ handlers \subseteq [conn : Conns, id : Ids, nr : 1 .. MaxHandlers]
    /\ sends \subseteq [conn : Conns, reply : ReplySet, nr : Nat]
    /\ decided \in [Ids -> Answers \union {NoAnswer}]
    /\ errors \in 0 .. MaxErrors

\* The two ends of a connection between zapata processes keep their roles: the
\* server's stream never waits for a reply and the client's never takes a
\* message for a request, however calls, handlers and losses interleave; and
\* no send leaves the server's claim behind.
RolesKept ==
    /\ \A k \in Own : sst[k] # "WAITING" /\ cst[k] # "PROCESSING"
    /\ leaked \subseteq Foreign

\* The request or the reply that is under way on connection k, wherever it is:
\* on the wire, queued, or in the hands of handlers that have not answered.
SendsOn(k) == {j \in sends : j.conn = k}
OpenOn(k)  == {j \in handlers : j.conn = k /\ decided[j.id] = NoAnswer}
Busy(k)    == c2s[k] # <<>> \/ s2c[k] # <<>> \/ SendsOn(k) # {} \/ OpenOn(k) # {}

\* Half duplex: between zapata processes a connection carries one request or
\* one reply at a time, and only while the client's stream is waiting; this is
\* what lets basic_transport tell requests and replies apart by state alone.
HalfDuplex ==
    \A k \in Own :
        /\ Busy(k) => cst[k] = "WAITING"
        /\ Len(c2s[k]) <= 1 /\ Len(s2c[k]) <= 1
        /\ \A i, j \in SendsOn(k) : i = j
        /\ \A i, j \in OpenOn(k) : i.id = j.id
        /\ c2s[k] # <<>> => s2c[k] = <<>> /\ SendsOn(k) = {} /\ OpenOn(k) = {}
        /\ s2c[k] # <<>> => SendsOn(k) = {} /\ OpenOn(k) = {}
        /\ SendsOn(k) # {} => OpenOn(k) = {}

\* How the states of the two ends of a connection go together: the server is
\* idle while a request or a reply is on the wire, and processing, with the
\* client waiting, from reading the request until the reply is written.
EndsAgree ==
    \A k \in Own :
        /\ c2s[k] # <<>> => sst[k] = "IDLE" /\ Head(c2s[k]) \in Calls
        /\ s2c[k] # <<>> => sst[k] = "IDLE"
        /\ SendsOn(k) # {} \/ OpenOn(k) # {} => sst[k] = "PROCESSING"
        /\ sst[k] = "PROCESSING" => cst[k] = "WAITING"
        /\ sst[k] = "ERRORING_OUT" => k \in opened \ open
        /\ cst[k] = "ERRORING_OUT" => k \in opened /\ cur # k
        /\ cur = k => k \in opened

\* Every reply on its way to the client finds its call in pending_messages.
ReplyExpected ==
    \A k \in Own : \A i \in 1 .. Len(s2c[k]) : s2c[k][i].id \in pending

\* A call that was written is where the next event takes it on: on the wire with
\* the server ready to read it, with a handler that may still answer, in a send
\* event the stream will take, on the wire back to a client that expects it, or
\* with the event that tells its context.
TakenOn(c) ==
    LET k == on[c] IN
    \/ Readable(k) /\ sst[k] = "IDLE" /\ Head(c2s[k]) = c
    \/ \E j \in OpenOn(k) : j.id = c
    \/ \E j \in SendsOn(k) : j.reply.id = c /\ k \in reg /\ MaySend(sst[k])
    \/ k = cur /\ cst[k] = "WAITING" /\ s2c[k] # <<>> /\ Head(s2c[k]).id = c /\ c \in pending
    \/ \E m \in replies : m.id = c

\* Nothing is forgotten: every reply finds its call; a call that was written to a
\* connection that is up and has no answer yet is always taken on; and a client
\* stream that waits has something to wait for, unless it carried a discarded call.
NothingForgotten ==
    /\ ReplyExpected
    /\ \A c \in Calls \ Discards : on[c] \in open /\ told[c] = NoAnswer => TakenOn(c)
    /\ \A k \in Own \intersect open :
          cst[k] = "WAITING" => Busy(k) \/ \E c \in Discards : on[c] = k

RR == INSTANCE RequestReply

\* The events implement the abstract conversation: of all handlers of a request
\* one answers, and a context is given that answer, or unavailable, once.
Promised == RR!Spec

\* A call that was made is answered, or told that its peer is unavailable,
\* unless the connection it was sent on breaks: busy streams, retriggered
\* calls and racing handlers do not lose it.
Answered ==
    \A c \in Calls \ Discards :
        phase[c] \in {"queued", "tried"} ~>
            (told[c] # NoAnswer \/ (on[c] # NoConn /\ on[c] \notin open))

\* A stream returns to IDLE after each request: the server's stream does not
\* stay in PROCESSING for ever, unless the connection breaks.
ReturnsToIdle ==
    \A k \in Own : sst[k] = "PROCESSING" ~> (sst[k] = "IDLE" \/ k \notin open)
=============================================================================
