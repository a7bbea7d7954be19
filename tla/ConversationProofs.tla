------------------------- MODULE ConversationProofs -------------------------
(***************************************************************************)
(* Proofs for Conversation: for any sets of calls, foreign requests and    *)
(* connections, the state is well typed, a connection between two zapata   *)
(* processes is half duplex, its two ends keep their roles, every reply    *)
(* finds its call, and the whole implements RequestReply.                  *)
(***************************************************************************)
EXTENDS Conversation, TLAPS

\* Type correctness is inductive by itself: every action of clients, servers,
\* network and foreign programs keeps every variable in its type.
LEMMA TypeInit == Init => TypeOK
  BY ConnAssumption, BoundAssumption
  DEF Init, TypeOK, Own, States, Answers, NoAnswer, Ids

\* No action takes a variable out of its type.
LEMMA TypeStep == TypeOK /\ [Next]_vars => TypeOK'
<1> SUFFICES ASSUME TypeOK, [Next]_vars PROVE TypeOK'
  OBVIOUS
<1>1. ASSUME NEW c \in Calls, MakeCall(c) PROVE TypeOK'
  BY <1>1 DEF TypeOK, MakeCall, netVars, serverVars
<1>2. ASSUME NEW c \in Calls, Unresolved(c) PROVE TypeOK'
  BY <1>2 DEF TypeOK, Unresolved, ContextReply, netVars, serverVars, Ids
<1>3. ASSUME NEW c \in Calls, Register(c) PROVE TypeOK'
  BY <1>3 DEF TypeOK, Register, PushPending, netVars, serverVars
<1>4. ASSUME NEW c \in Calls, Dial(c) PROVE TypeOK'
  BY <1>4 DEF TypeOK, Dial, clientVars, serverVars, Own
<1>5. ASSUME NEW c \in Calls, DialFails(c) PROVE TypeOK'
  BY <1>5 DEF TypeOK, DialFails, ContextReply, netVars, serverVars, Ids
<1>6. ASSUME NEW c \in Calls, Transmit(c) PROVE TypeOK'
  BY <1>6, ConnAssumption DEF TypeOK, Transmit, AfterSend, States, Push, netVars, serverVars, Ids, Own
<1>7. ASSUME NEW c \in Calls, TransmitFails(c) PROVE TypeOK'
  BY <1>7, ConnAssumption DEF TypeOK, TransmitFails, States, serverVars, Ids, Own
<1>8. ASSUME NEW k \in Conns, ClientReceive(k) PROVE TypeOK'
  BY <1>8 DEF TypeOK, ClientReceive, MayReceive, AfterReceive, States, Pop, PopPending, netVars, serverVars
<1>9. ASSUME NEW m \in replies, Deliver(m) PROVE TypeOK'
  BY <1>9 DEF TypeOK, Deliver, ContextReply, ReplySet, netVars, serverVars
<1>10. CASE ClientHangup
  BY <1>10 DEF TypeOK, ClientHangup, clientVars, serverVars
<1>11. ASSUME NEW k \in Conns, Accept(k) PROVE TypeOK'
  <2>1. PICK n \in 0 .. MaxHandlers : Resolve(k, Head(c2s[k]), n)
    BY <1>11 DEF Accept
  <2> DEFINE r == Head(c2s[k])
  <2>2. r \in Ids
    BY <1>11 DEF Accept
  <2>3. handlers' \subseteq [conn : Conns, id : Ids, nr : 1 .. MaxHandlers]
    BY <2>1, <2>2, BoundAssumption DEF Resolve, Handler, TypeOK
  <2>4. sends' \subseteq [conn : Conns, reply : ReplySet, nr : Nat]
    BY <2>1, <2>2 DEF Resolve, Sending, Reply, ReplySet, Answers, TypeOK
  <2>5. decided' \in [Ids -> Answers \union {NoAnswer}]
    BY <2>1, <2>2 DEF Resolve, Answers, TypeOK
  <2>6. sst' \in [Conns -> States] /\ c2s' \in [Conns -> Seq(Ids \union {Leftover})]
    BY <1>11 DEF Accept, Readable, AfterReceive, States, Pop, TypeOK
  <2> QED
    BY <1>11, <2>3, <2>4, <2>5, <2>6 DEF Accept, TypeOK, netVars, clientVars
<1>12. ASSUME NEW k \in Conns, SyntaxError(k) PROVE TypeOK'
  <2> DEFINE Wire == Ids \union {Leftover}
  <2>0. c2s[k] \in Seq(Wire) /\ c2s[k] # <<>> /\ c2s \in [Conns -> Seq(Wire)]
    BY <1>12 DEF SyntaxError, Readable, TypeOK
  <2>a. Tail(c2s[k]) \in Seq(Wire) /\ <<Leftover>> \in Seq(Wire)
    BY <2>0
  <2>b. <<Leftover>> \o Tail(c2s[k]) \in Seq(Wire)
    BY <2>a
  <2>c. \/ c2s' = [c2s EXCEPT ![k] = Tail(c2s[k])]
        \/ c2s' = [c2s EXCEPT ![k] = <<Leftover>> \o Tail(c2s[k])]
    BY <1>12 DEF SyntaxError, Unparsed, Pop
  <2>1. c2s' \in [Conns -> Seq(Wire)]
    <3> HIDE DEF Wire
    <3> QED BY <2>0, <2>a, <2>b, <2>c
  <2>2. sst' \in [Conns -> States]
    BY <1>12 DEF SyntaxError, AfterReceive, States, TypeOK
  <2> QED
    BY <1>12, <2>1, <2>2 DEF SyntaxError, TypeOK, netVars, clientVars
<1>13. ASSUME NEW k \in Conns, Refuse(k) PROVE TypeOK'
  <2>1. errors' \in 0 .. MaxErrors /\ errors' \in Nat
    BY <1>13, BoundAssumption DEF Refuse, TypeOK
  <2>2. Sending(k, Reply(NoId, "fail"), errors') \in [conn : Conns, reply : ReplySet, nr : Nat]
    BY <2>1 DEF Sending, Reply, ReplySet, Answers
  <2>3. sends' \subseteq [conn : Conns, reply : ReplySet, nr : Nat]
    BY <1>13, <2>2 DEF Refuse, TypeOK
  <2> QED
    BY <1>13, <2>1, <2>3 DEF TypeOK, Refuse, netVars, clientVars
<1>14. ASSUME NEW j \in handlers, Handle(j) PROVE TypeOK'
  <2>1. j.conn \in Conns /\ j.id \in Ids /\ j.nr \in Nat
    BY BoundAssumption DEF TypeOK
  <2>2. sends' \subseteq [conn : Conns, reply : ReplySet, nr : Nat]
    BY <1>14, <2>1 DEF Handle, Sending, Reply, ReplySet, TypeOK
  <2>3. decided' \in [Ids -> Answers \union {NoAnswer}]
    BY <1>14, <2>1 DEF Handle, TypeOK
  <2> QED
    BY <1>14, <2>2, <2>3 DEF Handle, TypeOK, netVars, clientVars
<1>15. ASSUME NEW j \in sends, SendGone(j) PROVE TypeOK'
  BY <1>15 DEF TypeOK, SendGone, netVars, clientVars
<1>16. ASSUME NEW j \in sends, SendReply(j) PROVE TypeOK'
  <2>1. j.conn \in Conns /\ j.reply \in ReplySet
    BY DEF TypeOK
  <2>2. s2c' \in [Conns -> Seq(ReplySet)]
    BY <1>16, <2>1 DEF SendReply, Push, TypeOK
  <2>3. sst' \in [Conns -> States]
    BY <1>16, <2>1 DEF SendReply, AfterSend, States, TypeOK
  <2> QED
    BY <1>16, <2>2, <2>3 DEF SendReply, TypeOK, netVars, clientVars
<1>17. ASSUME NEW j \in sends, SendFails(j) PROVE TypeOK'
  BY <1>17 DEF TypeOK, SendFails, States, clientVars
<1>18. ASSUME NEW j \in sends, SendRefused(j) PROVE TypeOK'
  BY <1>18 DEF TypeOK, SendRefused, netVars, clientVars
<1>19. ASSUME NEW k \in Conns, ServerHangup(k) PROVE TypeOK'
  BY <1>19 DEF TypeOK, ServerHangup, clientVars, serverVars
<1>20. ASSUME NEW k \in Conns, Break(k) PROVE TypeOK'
  <2>a. c2s' = c2s \/ c2s' = [c2s EXCEPT ![k] = <<>>]
    BY <1>20 DEF Break
  <2>b. s2c' = s2c \/ s2c' = [s2c EXCEPT ![k] = <<>>]
    BY <1>20 DEF Break
  <2>c. <<>> \in Seq(Ids \union {Leftover}) /\ <<>> \in Seq(ReplySet)
    OBVIOUS
  <2>1. c2s' \in [Conns -> Seq(Ids \union {Leftover})]
    <3>1. c2s \in [Conns -> Seq(Ids \union {Leftover})]
      BY DEF TypeOK
    <3> QED
      BY <2>a, <2>c, <3>1, Zenon
  <2>2. s2c' \in [Conns -> Seq(ReplySet)]
    <3>1. s2c \in [Conns -> Seq(ReplySet)]
      BY DEF TypeOK
    <3> QED
      BY <2>b, <2>c, <3>1, Zenon
  <2> QED
    BY <1>20, <2>1, <2>2 DEF TypeOK, Break, clientVars, serverVars
<1>21. ASSUME NEW k \in Conns, NEW r \in Requests, ForeignSend(k, r) PROVE TypeOK'
  BY <1>21 DEF TypeOK, ForeignSend, Push, netVars, serverVars, Ids
<1>22. ASSUME NEW k \in Conns, ForeignReceive(k) PROVE TypeOK'
  <2>b. s2c[k] \in Seq(ReplySet) /\ s2c[k] # <<>> /\ s2c \in [Conns -> Seq(ReplySet)]
    BY <1>22 DEF ForeignReceive, TypeOK
  <2>c. Tail(s2c[k]) \in Seq(ReplySet) /\ Head(s2c[k]) \in ReplySet
    BY <2>b
  <2>1. s2c' \in [Conns -> Seq(ReplySet)] /\ Head(s2c[k]).outcome \in Answers
    <3>1. s2c' = [s2c EXCEPT ![k] = Tail(s2c[k])]
      BY <1>22 DEF ForeignReceive, Pop
    <3>2. Head(s2c[k]).outcome \in Answers
      BY <2>c DEF ReplySet
    <3> QED
      BY <3>1, <3>2, <2>b, <2>c
  <2> DEFINE m == Head(s2c[k])
  <2>a. told' = told \/ told' = [told EXCEPT ![m.id] = m.outcome]
    BY <1>22 DEF ForeignReceive
  <2>2. told' \in [Ids -> Answers \union {NoAnswer, "unavailable"}]
    BY <2>1, <2>a DEF TypeOK
  <2> QED
    BY <1>22, <2>1, <2>2 DEF ForeignReceive, TypeOK, netVars, serverVars
<1>23. CASE UNCHANGED vars
  BY <1>23 DEF TypeOK, vars, netVars, clientVars, serverVars
<1> QED
  BY <1>1, <1>2, <1>3, <1>4, <1>5, <1>6, <1>7, <1>8, <1>9, <1>10, <1>11, <1>12, <1>13,
     <1>14, <1>15, <1>16, <1>17, <1>18, <1>19, <1>20, <1>21, <1>22, <1>23
  DEF Next, ClientStep, SendStep, ReceiveStep

\* Every reachable state of a conversation is well typed.
THEOREM ConversationTyped == Spec => []TypeOK
  BY TypeInit, TypeStep, PTL DEF Spec
-----------------------------------------------------------------------------
(* Half duplex.  RolesKept and HalfDuplex are not inductive by themselves:  *)
(* that a reply leaves the server's stream idle, and not waiting, rests on *)
(* the stream being in state PROCESSING when it is sent, and that a        *)
(* request finds it idle rests on the client having seen the last reply,   *)
(* which is what EndsAgree says.                                           *)

Role(k) == sst[k] # "WAITING" /\ cst[k] # "PROCESSING"

OneWay(k) ==
    /\ Busy(k) => cst[k] = "WAITING"
    /\ Len(c2s[k]) <= 1 /\ Len(s2c[k]) <= 1
    /\ \A i, j \in SendsOn(k) : i = j
    /\ \A i, j \in OpenOn(k) : i.id = j.id
    /\ c2s[k] # <<>> => s2c[k] = <<>> /\ SendsOn(k) = {} /\ OpenOn(k) = {}
    /\ s2c[k] # <<>> => SendsOn(k) = {} /\ OpenOn(k) = {}
    /\ SendsOn(k) # {} => OpenOn(k) = {}

Agree(k) ==
    /\ c2s[k] # <<>> => sst[k] = "IDLE" /\ Head(c2s[k]) \in Calls
    /\ s2c[k] # <<>> => sst[k] = "IDLE"
    /\ SendsOn(k) # {} \/ OpenOn(k) # {} => sst[k] = "PROCESSING"
    /\ sst[k] = "PROCESSING" => cst[k] = "WAITING"
    /\ sst[k] = "ERRORING_OUT" => k \in opened \ open
    /\ cst[k] = "ERRORING_OUT" => k \in opened /\ cur # k
    /\ cur = k => k \in opened

\* The invariant of one connection between zapata processes.
ConnInv(k) == Role(k) /\ OneWay(k) /\ Agree(k)

\* The inductive invariant.
Inv == TypeOK /\ leaked \subseteq Foreign /\ \A k \in Own : ConnInv(k)

\* The inductive invariant is the conjunction of the invariants TLC checks.
LEMMA InvParts == Inv <=> TypeOK /\ RolesKept /\ HalfDuplex /\ EndsAgree
  BY DEF Inv, ConnInv, Role, OneWay, Agree, RolesKept, HalfDuplex, EndsAgree

\* Every connection starts quiet, with both ends idle.
LEMMA InvInit == Init => Inv
<1> SUFFICES ASSUME Init, NEW k \in Own PROVE ConnInv(k)
  BY TypeInit DEF Inv, Init
<1>1. k \in Conns /\ k # NoConn
  BY ConnAssumption DEF Own
<1>2. c2s[k] = <<>> /\ s2c[k] = <<>> /\ SendsOn(k) = {} /\ OpenOn(k) = {}
  BY <1>1 DEF Init, SendsOn, OpenOn
<1>3. cst[k] = "IDLE" /\ sst[k] = "IDLE" /\ cur # k
  BY <1>1 DEF Init
<1> QED
  BY <1>2, <1>3 DEF ConnInv, Role, OneWay, Agree, Busy

\* A step that leaves the states of both ends alone, and that only takes away
\* from what is under way on the connection, keeps its invariant.
LEMMA Frame ==
  ASSUME NEW k \in Own, ConnInv(k),
         c2s'[k] = c2s[k] \/ c2s'[k] = <<>>,
         s2c'[k] = s2c[k] \/ s2c'[k] = <<>>,
         SendsOn(k)' \subseteq SendsOn(k),
         OpenOn(k)' \subseteq OpenOn(k),
         cst'[k] = cst[k], sst'[k] = sst[k],
         opened \subseteq opened',
         k \in open' => k \in open \/ k \notin opened,
         cur' = k => cur = k \/ (k \in opened' /\ k \notin opened)
  PROVE  ConnInv(k)'
<1>1. Role(k)'
  BY DEF ConnInv, Role
<1>2. OneWay(k)'
  <2>1. Busy(k)' => Busy(k)
    BY DEF Busy
  <2>2. Len(<<>>) = 0
    OBVIOUS
  <2> QED
    BY <2>1, <2>2 DEF ConnInv, OneWay
<1>3. Agree(k)'
  BY DEF ConnInv, Agree
<1> QED
  BY <1>1, <1>2, <1>3 DEF ConnInv

\* What is under way on a connection when the client may write to it: nothing.
LEMMA IdleMeansQuiet ==
  ASSUME NEW k \in Own, ConnInv(k), cst[k] # "WAITING"
  PROVE  /\ c2s[k] = <<>> /\ s2c[k] = <<>> /\ SendsOn(k) = {} /\ OpenOn(k) = {}
         /\ sst[k] # "PROCESSING"
  BY DEF ConnInv, OneWay, Agree, Busy

\* A step of the client that writes nothing and reads nothing.
LEMMA ClientQuiet ==
  ASSUME NEW k \in Own, ConnInv(k),
         UNCHANGED <<c2s, s2c, cst, sst, sends, handlers, decided>>,
         opened \subseteq opened',
         k \in open' => k \in open \/ k \notin opened,
         cur' = k => cur = k \/ (k \in opened' /\ k \notin opened)
  PROVE  ConnInv(k)'
  BY Frame DEF SendsOn, OpenOn

\* The client writes a request on the connection: it was quiet, so the request
\* is the only thing under way on it.
LEMMA TransmitStep ==
  ASSUME TypeOK, NEW k \in Own, ConnInv(k), NEW c \in Calls, Transmit(c)
  PROVE  ConnInv(k)'
<1>1. k \in Conns /\ k # NoConn /\ cur \in Conns
  BY ConnAssumption DEF Transmit, TypeOK, Own
<1>2. SendsOn(k)' = SendsOn(k) /\ OpenOn(k)' = OpenOn(k)
  BY DEF Transmit, serverVars, SendsOn, OpenOn
<1>3. UNCHANGED <<s2c, sst, cur, opened, open>>
  BY DEF Transmit, serverVars, netVars
<1>4. cst' = [cst EXCEPT ![cur] = AfterSend(cst[cur])]
      /\ c2s' = IF cur \in open THEN [c2s EXCEPT ![cur] = Append(c2s[cur], c)] ELSE c2s
  BY DEF Transmit, Push
<1>5. cst \in [Conns -> States] /\ c2s \in [Conns -> Seq(Ids \union {Leftover})]
      /\ sst \in [Conns -> States]
  BY DEF TypeOK
<1>6. CASE cur # k
  <2>1. c2s'[k] = c2s[k] /\ cst'[k] = cst[k]
    BY <1>1, <1>4, <1>5, <1>6
  <2> QED
    BY <2>1, <1>2, <1>3, Frame
<1>7. CASE cur = k
  <2>1. cst[k] = "IDLE"
    BY <1>7 DEF Transmit, MaySend, ConnInv, Role, Agree
  <2>2. c2s[k] = <<>> /\ s2c[k] = <<>> /\ SendsOn(k) = {} /\ OpenOn(k) = {}
        /\ sst[k] # "PROCESSING"
    BY <2>1, IdleMeansQuiet
  <2>3. cst'[k] = "WAITING"
    BY <1>1, <1>4, <1>5, <1>7, <2>1 DEF AfterSend
  <2>4. c2s'[k] = <<>> \/ (c2s'[k] = <<c>> /\ k \in open)
    BY <1>1, <1>4, <1>5, <1>7, <2>2
  <2>5. k \in open => sst[k] = "IDLE"
    BY <1>1, <1>5, <2>2 DEF ConnInv, Role, Agree, States
  <2>6. Len(<<>>) = 0 /\ Len(<<c>>) = 1 /\ Head(<<c>>) = c /\ <<c>> # <<>>
    OBVIOUS
  <2>7. Role(k)'
    BY <1>3, <2>3 DEF ConnInv, Role
  <2>8. OneWay(k)'
    <3>1. Len(c2s'[k]) <= 1 /\ Len(s2c'[k]) <= 1
      <4>1. Len(c2s'[k]) = 0 \/ Len(c2s'[k]) = 1
        BY <2>4, <2>6, Zenon
      <4>2. Len(s2c'[k]) = 0
        BY <1>3, <2>2, <2>6
      <4>3. 0 <= 1 /\ 1 <= 1
        OBVIOUS
      <4> QED
        BY <4>1, <4>2, <4>3, Zenon
    <3>2. s2c'[k] = <<>> /\ SendsOn(k)' = {} /\ OpenOn(k)' = {}
      BY <1>2, <1>3, <2>2
    <3> QED
      BY <3>1, <3>2, <2>3 DEF OneWay, Busy
  <2>9. Agree(k)'
    BY <1>2, <1>3, <2>2, <2>3, <2>4, <2>5, <2>6 DEF Agree, ConnInv
  <2> QED
    BY <2>7, <2>8, <2>9 DEF ConnInv
<1> QED
  BY <1>6, <1>7

\* A write that fails leaves a quiet connection behind, which the client forgets.
LEMMA TransmitFailsStep ==
  ASSUME TypeOK, NEW k \in Own, ConnInv(k), NEW c \in Calls, TransmitFails(c)
  PROVE  ConnInv(k)'
<1>1. k \in Conns /\ k # NoConn /\ cur \in Conns
  BY ConnAssumption DEF TransmitFails, TypeOK, Own
<1>2. SendsOn(k)' = SendsOn(k) /\ OpenOn(k)' = OpenOn(k)
  BY DEF TransmitFails, serverVars, SendsOn, OpenOn
<1>3. UNCHANGED <<c2s, s2c, sst, opened, open>> /\ cur' # k
  BY <1>1 DEF TransmitFails, serverVars
<1>4. cst' = [cst EXCEPT ![cur] = "ERRORING_OUT"] /\ cst \in [Conns -> States]
  BY DEF TransmitFails, TypeOK
<1>5. CASE cur # k
  <2>1. cst'[k] = cst[k]
    BY <1>1, <1>4, <1>5
  <2> QED
    BY <2>1, <1>2, <1>3, Frame
<1>6. CASE cur = k
  <2>1. cst[k] # "WAITING" /\ k \in opened
    BY <1>6 DEF TransmitFails, MaySend, ConnInv, Agree
  <2>2. c2s[k] = <<>> /\ s2c[k] = <<>> /\ SendsOn(k) = {} /\ OpenOn(k) = {}
        /\ sst[k] # "PROCESSING"
    BY <2>1, IdleMeansQuiet
  <2>3. cst'[k] = "ERRORING_OUT"
    BY <1>1, <1>4, <1>6
  <2>4. Role(k)'
    BY <1>3, <2>3 DEF ConnInv, Role
  <2>5. OneWay(k)'
    BY <1>2, <1>3, <2>2 DEF OneWay, Busy, ConnInv
  <2>6. Agree(k)'
    BY <1>2, <1>3, <2>1, <2>2, <2>3 DEF Agree, ConnInv
  <2> QED
    BY <2>4, <2>5, <2>6 DEF ConnInv
<1> QED
  BY <1>5, <1>6

\* The client reads the only thing under way, the reply, and is idle again.
LEMMA ClientReceiveStep ==
  ASSUME TypeOK, NEW k \in Own, ConnInv(k), NEW h \in Conns, ClientReceive(h)
  PROVE  ConnInv(k)'
<1>1. k \in Conns
  BY DEF Own
<1>2. SendsOn(k)' = SendsOn(k) /\ OpenOn(k)' = OpenOn(k)
  BY DEF ClientReceive, serverVars, SendsOn, OpenOn
<1>3. UNCHANGED <<c2s, sst, cur, opened, open>>
  BY DEF ClientReceive, serverVars, netVars
<1>4. cst' = [cst EXCEPT ![h] = AfterReceive(cst[h])] /\ cst \in [Conns -> States]
      /\ s2c' = [s2c EXCEPT ![h] = Tail(s2c[h])] /\ s2c \in [Conns -> Seq(ReplySet)]
  BY DEF ClientReceive, Pop, TypeOK
<1>5. CASE h # k
  <2>1. cst'[k] = cst[k] /\ s2c'[k] = s2c[k]
    BY <1>1, <1>4, <1>5
  <2> QED
    BY <2>1, <1>2, <1>3, Frame
<1>6. CASE h = k
  <2>1. s2c[k] # <<>> /\ s2c[k] \in Seq(ReplySet) /\ Len(s2c[k]) <= 1
    BY <1>1, <1>4, <1>6 DEF ClientReceive, ConnInv, OneWay
  <2>2. c2s[k] = <<>> /\ SendsOn(k) = {} /\ OpenOn(k) = {} /\ sst[k] = "IDLE"
    BY <2>1 DEF ConnInv, OneWay, Agree
  <2>3. cst[k] = "WAITING"
    BY <2>1 DEF ConnInv, OneWay, Busy
  <2>4. cst'[k] = "IDLE"
    BY <1>1, <1>4, <1>6, <2>3 DEF AfterReceive
  <2>5. Tail(s2c[k]) = <<>>
    BY <2>1
  <2>6. s2c'[k] = <<>> /\ Len(<<>>) = 0
    BY <1>1, <1>4, <1>6, <2>5
  <2>7. Role(k)'
    BY <1>3, <2>4 DEF ConnInv, Role
  <2>8. OneWay(k)'
    BY <1>2, <1>3, <2>2, <2>6 DEF OneWay, Busy
  <2>9. Agree(k)'
    BY <1>2, <1>3, <2>2, <2>4, <2>6 DEF Agree, ConnInv
  <2> QED
    BY <2>7, <2>8, <2>9 DEF ConnInv
<1> QED
  BY <1>5, <1>6

\* The server reads the only thing under way, the request; its handlers, or the
\* 404, are then all there is.
LEMMA AcceptStep ==
  ASSUME TypeOK, NEW k \in Own, ConnInv(k), NEW h \in Conns, Accept(h)
  PROVE  ConnInv(k)'
<1> DEFINE r == Head(c2s[h])
<1>1. k \in Conns /\ r \in Ids
  BY DEF Own, Accept
<1>2. PICK n \in 0 .. MaxHandlers : Resolve(h, r, n)
  BY DEF Accept
<1>3. UNCHANGED <<s2c, cst, cur, opened, open>>
  BY DEF Accept, clientVars, netVars
<1>4. sst' = [sst EXCEPT ![h] = AfterReceive(sst[h])] /\ sst \in [Conns -> States]
      /\ c2s' = [c2s EXCEPT ![h] = Tail(c2s[h])]
      /\ c2s \in [Conns -> Seq(Ids \union {Leftover})]
  BY DEF Accept, Pop, TypeOK
<1>5. \A x \in Ids : decided'[x] = NoAnswer => decided[x] = NoAnswer
  BY <1>1, <1>2 DEF Resolve, TypeOK, NoAnswer
<1>6. \A j \in handlers' : j \in handlers \/ (j.conn = h /\ j.id = r)
  BY <1>2 DEF Resolve, Handler
<1>7. \A j \in sends' : j \in sends \/ (n = 0 /\ j = Sending(h, Reply(r, "fail"), 0))
  BY <1>2 DEF Resolve
<1>8. \A j \in handlers : j.id \in Ids
  BY DEF TypeOK
<1>9. CASE h # k
  <2>1. sst'[k] = sst[k] /\ c2s'[k] = c2s[k]
    BY <1>1, <1>4, <1>9
  <2>2. SendsOn(k)' \subseteq SendsOn(k)
    BY <1>7, <1>9 DEF SendsOn, Sending
  <2>3. OpenOn(k)' \subseteq OpenOn(k)
    BY <1>5, <1>6, <1>8, <1>9 DEF OpenOn
  <2> QED
    BY <2>1, <2>2, <2>3, <1>3, Frame
<1>10. CASE h = k
  <2>1. c2s[k] # <<>> /\ c2s[k] \in Seq(Ids \union {Leftover}) /\ Len(c2s[k]) <= 1
    BY <1>1, <1>4, <1>10 DEF Accept, Readable, ConnInv, OneWay
  <2>2. s2c[k] = <<>> /\ SendsOn(k) = {} /\ OpenOn(k) = {} /\ sst[k] = "IDLE"
    BY <2>1 DEF ConnInv, OneWay, Agree
  <2>3. cst[k] = "WAITING"
    BY <2>1 DEF ConnInv, OneWay, Busy
  <2>4. sst'[k] = "PROCESSING"
    BY <1>1, <1>4, <1>10, <2>2 DEF AfterReceive
  <2>5. Tail(c2s[k]) = <<>>
    BY <2>1
  <2>6. c2s'[k] = <<>> /\ Len(<<>>) = 0
    BY <1>1, <1>4, <1>10, <2>5
  <2>7. \A j \in SendsOn(k)' : n = 0 /\ j = Sending(h, Reply(r, "fail"), 0)
    BY <1>7, <2>2 DEF SendsOn
  <2>8. \A j \in OpenOn(k)' : j.id = r
    BY <1>5, <1>6, <1>8, <2>2 DEF OpenOn
  <2>9. SendsOn(k)' # {} => OpenOn(k)' = {}
    <3>1. n = 0 => decided'[r] # NoAnswer
      BY <1>1, <1>2 DEF Resolve, TypeOK, NoAnswer
    <3> QED
      BY <3>1, <2>7, <2>8 DEF OpenOn
  <2>10. Role(k)'
    BY <1>3, <2>3, <2>4 DEF Role
  <2>11. OneWay(k)'
    <3>1. \A i, j \in SendsOn(k)' : i = j
      BY <2>7
    <3>2. \A i, j \in OpenOn(k)' : i.id = j.id
      BY <2>8
    <3>3. s2c'[k] = <<>> /\ cst'[k] = "WAITING"
      BY <1>3, <2>2, <2>3
    <3> QED
      BY <2>6, <2>9, <3>1, <3>2, <3>3 DEF OneWay
  <2>12. Agree(k)'
    BY <1>3, <2>2, <2>3, <2>4, <2>6 DEF Agree, ConnInv
  <2> QED
    BY <2>10, <2>11, <2>12 DEF ConnInv
<1> QED
  BY <1>9, <1>10

\* Requests of zapata clients parse and find the server's stream idle, so only
\* foreign connections see syntax errors and refusals.
LEMMA SyntaxErrorStep ==
  ASSUME TypeOK, NEW k \in Own, ConnInv(k), NEW h \in Conns, SyntaxError(h)
  PROVE  ConnInv(k)'
<1>1. k \in Conns
  BY DEF Own
<1>2. UNCHANGED <<s2c, cst, cur, opened, open>>
      /\ SendsOn(k)' = SendsOn(k) /\ OpenOn(k)' = OpenOn(k)
  BY DEF SyntaxError, clientVars, netVars, SendsOn, OpenOn
<1>3. h # k
  <2> SUFFICES ASSUME h = k PROVE FALSE
    OBVIOUS
  <2>1. c2s[k] # <<>>
    BY DEF SyntaxError, Readable
  <2>2. sst[k] = "IDLE" /\ Head(c2s[k]) \in Calls
    BY <2>1 DEF ConnInv, Agree
  <2>3. Head(c2s[k]) \in Bad \union {Leftover}
    BY <2>2 DEF SyntaxError
  <2> QED
    BY <2>2, <2>3, IdAssumption DEF Ids
<1>4. sst'[k] = sst[k] /\ c2s'[k] = c2s[k]
  BY <1>1, <1>3 DEF SyntaxError, Unparsed, Pop, TypeOK
<1> QED
  BY <1>2, <1>4, Frame

\* Nor does a request of a zapata client find another one in hand.
LEMMA RefuseStep ==
  ASSUME TypeOK, NEW k \in Own, ConnInv(k), NEW h \in Conns, Refuse(h)
  PROVE  ConnInv(k)'
<1>1. UNCHANGED <<c2s, s2c, cst, sst, cur, opened, open>> /\ OpenOn(k)' = OpenOn(k)
  BY DEF Refuse, clientVars, netVars, OpenOn
<1>2. h # k
  BY DEF Refuse, Readable, MayReceive, ConnInv, Agree
<1>3. SendsOn(k)' \subseteq SendsOn(k)
  BY <1>2 DEF Refuse, SendsOn, Sending
<1> QED
  BY <1>1, <1>3, Frame

\* A handler runs: it takes itself away, or the reply it is the first to acquire
\* replaces it and every other handler of the request.
LEMMA HandleStep ==
  ASSUME TypeOK, NEW k \in Own, ConnInv(k), NEW j \in handlers, Handle(j)
  PROVE  ConnInv(k)'
<1>1. UNCHANGED <<c2s, s2c, cst, sst, cur, opened, open>>
  BY DEF Handle, clientVars, netVars
<1>2. PICK a \in Answers \union {NoAnswer} :
        LET mine == a # NoAnswer /\ j.id \notin Discards /\ AcquireReply(j.id)
        IN /\ sends' = IF mine THEN sends \union {Sending(j.conn, Reply(j.id, a), j.nr)}
                               ELSE sends
           /\ decided' = IF mine THEN [decided EXCEPT ![j.id] = a] ELSE decided
  BY DEF Handle
<1> DEFINE mine == a # NoAnswer /\ j.id \notin Discards /\ AcquireReply(j.id)
<1>3. j.id \in Ids /\ decided \in [Ids -> Answers \union {NoAnswer}]
      /\ handlers' \subseteq handlers /\ \A i \in handlers : i.id \in Ids
  BY DEF Handle, TypeOK
<1>4. OpenOn(k)' \subseteq OpenOn(k)
  <2>1. \A x \in Ids : decided'[x] = NoAnswer => decided[x] = NoAnswer
    BY <1>2, <1>3
  <2> QED
    BY <1>3, <2>1 DEF OpenOn
<1>5. CASE ~mine \/ j.conn # k
  <2>1. SendsOn(k)' \subseteq SendsOn(k)
    BY <1>2, <1>5 DEF SendsOn, Sending
  <2> QED
    BY <1>1, <1>4, <2>1, Frame
<1>6. CASE mine /\ j.conn = k
  <2>1. j \in OpenOn(k)
    BY <1>6 DEF OpenOn, AcquireReply
  <2>2. c2s[k] = <<>> /\ s2c[k] = <<>> /\ SendsOn(k) = {} /\ sst[k] = "PROCESSING"
        /\ cst[k] = "WAITING" /\ \A i \in OpenOn(k) : i.id = j.id
    BY <2>1 DEF ConnInv, OneWay, Agree
  <2>3. \A i \in SendsOn(k)' : i = Sending(j.conn, Reply(j.id, a), j.nr)
    BY <1>2, <1>6, <2>2 DEF SendsOn
  <2>4. OpenOn(k)' = {}
    <3>1. decided'[j.id] # NoAnswer
      BY <1>2, <1>3, <1>6
    <3> QED
      BY <3>1, <1>4, <2>2 DEF OpenOn
  <2>5. Role(k)'
    BY <1>1, <2>2 DEF Role
  <2>6. OneWay(k)'
    <3>1. \A i, x \in SendsOn(k)' : i = x
      BY <2>3
    <3>2. Len(<<>>) = 0
      OBVIOUS
    <3> QED
      BY <1>1, <2>2, <2>4, <3>1, <3>2 DEF OneWay
  <2>7. Agree(k)'
    BY <1>1, <2>2, <2>4 DEF Agree, ConnInv
  <2> QED
    BY <2>5, <2>6, <2>7 DEF ConnInv
<1> QED
  BY <1>5, <1>6

\* Writing the reply takes the server's stream back to IDLE.
LEMMA SendReplyStep ==
  ASSUME TypeOK, NEW k \in Own, ConnInv(k), NEW j \in sends, SendReply(j)
  PROVE  ConnInv(k)'
<1> DEFINE h == j.conn
<1>1. k \in Conns /\ h \in Conns /\ j.reply \in ReplySet
  BY DEF Own, TypeOK
<1>2. UNCHANGED <<c2s, cst, cur, opened, open>> /\ OpenOn(k)' = OpenOn(k)
      /\ sends' = sends \ {j}
  BY DEF SendReply, clientVars, netVars, OpenOn
<1>3. /\ sst' = [sst EXCEPT ![h] = AfterSend(sst[h])] /\ sst \in [Conns -> States]
      /\ s2c \in [Conns -> Seq(ReplySet)]
      /\ s2c' = IF h \in open THEN [s2c EXCEPT ![h] = Append(s2c[h], j.reply)] ELSE s2c
  BY DEF SendReply, Push, TypeOK
<1>4. SendsOn(k)' \subseteq SendsOn(k)
  BY <1>2 DEF SendsOn
<1>5. CASE h # k
  <2>1. sst'[k] = sst[k] /\ s2c'[k] = s2c[k]
    BY <1>1, <1>3, <1>5
  <2> QED
    BY <2>1, <1>2, <1>4, Frame
<1>6. CASE h = k
  <2>1. j \in SendsOn(k)
    BY <1>6 DEF SendsOn
  <2>2. c2s[k] = <<>> /\ s2c[k] = <<>> /\ OpenOn(k) = {} /\ sst[k] = "PROCESSING"
        /\ cst[k] = "WAITING" /\ \A i \in SendsOn(k) : i = j
    BY <2>1 DEF ConnInv, OneWay, Agree
  <2>3. SendsOn(k)' = {}
    BY <1>2, <1>4, <2>2 DEF SendsOn
  <2>4. sst'[k] = "IDLE"
    BY <1>1, <1>3, <1>6, <2>2 DEF AfterSend
  <2>5. s2c'[k] = <<>> \/ s2c'[k] = <<j.reply>>
    BY <1>1, <1>3, <1>6, <2>2
  <2>6. Len(s2c'[k]) <= 1 /\ Len(c2s'[k]) <= 1
    <3>1. Len(<<>>) = 0 /\ Len(<<j.reply>>) = 1
      OBVIOUS
    <3>2. Len(s2c'[k]) = 0 \/ Len(s2c'[k]) = 1
      BY <2>5, <3>1, Zenon
    <3>3. Len(c2s'[k]) = 0
      BY <1>2, <2>2, <3>1
    <3>4. 0 <= 1 /\ 1 <= 1
      OBVIOUS
    <3> QED
      BY <3>2, <3>3, <3>4, Zenon
  <2>7. Role(k)'
    BY <1>2, <2>2, <2>4 DEF Role
  <2>8. OneWay(k)'
    BY <1>2, <2>2, <2>3, <2>6 DEF OneWay
  <2>9. Agree(k)'
    BY <1>2, <2>2, <2>3, <2>4 DEF Agree, ConnInv
  <2> QED
    BY <2>7, <2>8, <2>9 DEF ConnInv
<1> QED
  BY <1>5, <1>6

\* A reply that cannot be written was the only thing under way.
LEMMA SendFailsStep ==
  ASSUME TypeOK, NEW k \in Own, ConnInv(k), NEW j \in sends, SendFails(j)
  PROVE  ConnInv(k)'
<1> DEFINE h == j.conn
<1>1. k \in Conns /\ h \in Conns /\ h \in opened \ open
  BY DEF Own, TypeOK, SendFails
<1>2. UNCHANGED <<c2s, s2c, cst, cur, opened, open>> /\ OpenOn(k)' = OpenOn(k)
      /\ sends' = sends \ {j}
  BY DEF SendFails, clientVars, OpenOn
<1>3. sst' = [sst EXCEPT ![h] = "ERRORING_OUT"] /\ sst \in [Conns -> States]
  BY DEF SendFails, TypeOK
<1>4. SendsOn(k)' \subseteq SendsOn(k)
  BY <1>2 DEF SendsOn
<1>5. CASE h # k
  <2>1. sst'[k] = sst[k]
    BY <1>1, <1>3, <1>5
  <2> QED
    BY <2>1, <1>2, <1>4, Frame
<1>6. CASE h = k
  <2>1. j \in SendsOn(k)
    BY <1>6 DEF SendsOn
  <2>2. c2s[k] = <<>> /\ s2c[k] = <<>> /\ OpenOn(k) = {} /\ sst[k] = "PROCESSING"
        /\ cst[k] = "WAITING" /\ \A i \in SendsOn(k) : i = j
    BY <2>1 DEF ConnInv, OneWay, Agree
  <2>3. SendsOn(k)' = {}
    BY <1>2, <1>4, <2>2 DEF SendsOn
  <2>4. sst'[k] = "ERRORING_OUT"
    BY <1>1, <1>3, <1>6
  <2>5. Role(k)'
    BY <1>2, <2>2, <2>4 DEF Role
  <2>6. OneWay(k)'
    BY <1>2, <2>2, <2>3 DEF OneWay, Busy, ConnInv
  <2>7. Agree(k)'
    BY <1>1, <1>2, <1>6, <2>2, <2>3, <2>4 DEF Agree, ConnInv
  <2> QED
    BY <2>5, <2>6, <2>7 DEF ConnInv
<1> QED
  BY <1>5, <1>6

\* A send is refused on foreign connections only.
LEMMA SendRefusedStep ==
  ASSUME TypeOK, \A k \in Own : ConnInv(k), NEW j \in sends, SendRefused(j)
  PROVE  j.conn \in Foreign
<1>1. j.conn \in Conns
  BY DEF TypeOK
<1>2. j.conn \in Own => j \in SendsOn(j.conn)
  BY DEF SendsOn
<1>3. j.conn \in Own => sst[j.conn] = "PROCESSING"
  BY <1>2 DEF ConnInv, Agree
<1> QED
  BY <1>1, <1>3 DEF SendRefused, MaySend, Own

\* Every action of clients, servers, network and foreign programs keeps the
\* invariant of every connection between zapata processes.
LEMMA ConnStep ==
  ASSUME Inv, Next, NEW k \in Own
  PROVE  ConnInv(k)'
<1>1. TypeOK /\ ConnInv(k) /\ k \in Conns /\ k \notin Foreign
  BY DEF Inv, Own
<1>2. ASSUME NEW c \in Calls, ClientStep(c) PROVE ConnInv(k)'
  <2>1. CASE MakeCall(c) \/ Unresolved(c) \/ Register(c) \/ DialFails(c)
    BY <1>1, <2>1, ClientQuiet
    DEF MakeCall, Unresolved, Register, DialFails, netVars, serverVars
  <2>2. CASE Dial(c)
    BY <1>1, <2>2, ClientQuiet DEF Dial, clientVars, serverVars
  <2> QED
    BY <1>1, <1>2, <2>1, <2>2, TransmitStep, TransmitFailsStep DEF ClientStep
<1>3. ASSUME NEW m \in replies, Deliver(m) PROVE ConnInv(k)'
  BY <1>1, <1>3, ClientQuiet DEF Deliver, netVars, serverVars
<1>4. ASSUME ClientHangup PROVE ConnInv(k)'
  BY <1>1, <1>4, ClientQuiet, ConnAssumption DEF ClientHangup, clientVars, serverVars
<1>5. ASSUME NEW j \in sends, SendStep(j) PROVE ConnInv(k)'
  <2>1. ASSUME SendGone(j) \/ SendRefused(j) PROVE ConnInv(k)'
    BY <1>1, <2>1, Frame
    DEF SendGone, SendRefused, netVars, clientVars, SendsOn, OpenOn
  <2> QED
    BY <1>1, <1>5, <2>1, SendReplyStep, SendFailsStep DEF SendStep
<1>6. ASSUME NEW h \in Conns, ServerHangup(h) PROVE ConnInv(k)'
  BY <1>1, <1>6, ClientQuiet DEF ServerHangup, clientVars, serverVars
<1>7. ASSUME NEW h \in Conns, Break(h) PROVE ConnInv(k)'
  <2>1. c2s'[k] = c2s[k] \/ c2s'[k] = <<>>
    <3>1. c2s' = c2s \/ c2s' = [c2s EXCEPT ![h] = <<>>]
      BY <1>7 DEF Break
    <3>2. c2s \in [Conns -> Seq(Ids \union {Leftover})]
      BY <1>1 DEF TypeOK
    <3> QED
      BY <1>1, <3>1, <3>2
  <2>2. s2c'[k] = s2c[k] \/ s2c'[k] = <<>>
    <3>1. s2c' = s2c \/ s2c' = [s2c EXCEPT ![h] = <<>>]
      BY <1>7 DEF Break
    <3>2. s2c \in [Conns -> Seq(ReplySet)]
      BY <1>1 DEF TypeOK
    <3> QED
      BY <1>1, <3>1, <3>2
  <2>3. SendsOn(k)' = SendsOn(k) /\ OpenOn(k)' = OpenOn(k)
        /\ UNCHANGED <<cst, sst, opened, cur>> /\ open' \subseteq open
    BY <1>7 DEF Break, clientVars, serverVars, SendsOn, OpenOn
  <2> QED
    BY <1>1, <2>1, <2>2, <2>3, Frame
<1>8. ASSUME NEW h \in Conns, NEW r \in Requests, ForeignSend(h, r) PROVE ConnInv(k)'
  <2>1. c2s'[k] = c2s[k]
    BY <1>1, <1>8 DEF ForeignSend, Push, TypeOK
  <2> QED
    BY <1>1, <1>8, <2>1, Frame DEF ForeignSend, netVars, serverVars, SendsOn, OpenOn
<1>9. ASSUME NEW h \in Conns, ForeignReceive(h) PROVE ConnInv(k)'
  <2>1. s2c'[k] = s2c[k]
    BY <1>1, <1>9 DEF ForeignReceive, Pop, TypeOK
  <2> QED
    BY <1>1, <1>9, <2>1, Frame DEF ForeignReceive, netVars, serverVars, SendsOn, OpenOn
<1> QED
  BY <1>1, <1>2, <1>3, <1>4, <1>5, <1>6, <1>7, <1>8, <1>9,
     HandleStep, ClientReceiveStep, AcceptStep, SyntaxErrorStep, RefuseStep
  DEF Next, ReceiveStep

\* The invariant is inductive.
LEMMA InvStep == Inv /\ [Next]_vars => Inv'
<1> SUFFICES ASSUME Inv, [Next]_vars PROVE Inv'
  OBVIOUS
<1>1. TypeOK'
  BY TypeStep DEF Inv
<1>2. CASE UNCHANGED vars
  <2>1. \A k \in Own : ConnInv(k)'
    BY <1>2 DEF Inv, vars, netVars, clientVars, serverVars, ConnInv, Role, OneWay, Agree,
             Busy, SendsOn, OpenOn
  <2> QED
    BY <1>1, <1>2, <2>1 DEF Inv, vars, serverVars
<1>3. CASE Next
  <2>1. \A k \in Own : ConnInv(k)'
    BY <1>3, ConnStep
  <2>2. leaked' \subseteq Foreign
    <3>1. ASSUME NEW j \in sends, SendRefused(j) PROVE leaked' \subseteq Foreign
      BY <3>1, SendRefusedStep DEF SendRefused, Inv
    <3>2. leaked' = leaked \/ \E j \in sends : SendRefused(j)
      BY <1>3
      DEF Next, ClientStep, SendStep, ReceiveStep, MakeCall, Unresolved, Register, Dial,
          DialFails, Transmit, TransmitFails, Deliver, Handle, SendGone, SendReply,
          SendFails, ClientHangup, ClientReceive, Accept, SyntaxError, Refuse,
          ServerHangup, Break, ForeignReceive, ForeignSend, serverVars
    <3> QED
      BY <3>1, <3>2 DEF Inv
  <2> QED
    BY <1>1, <2>1, <2>2 DEF Inv
<1> QED
  BY <1>2, <1>3

\* The invariant holds in every reachable state.
LEMMA InvAlways == Spec => []Inv
  BY InvInit, InvStep, PTL DEF Spec

\* Whatever calls, handlers, losses and foreign programs do, the two ends of a
\* connection between zapata processes keep their roles: basic_transport never
\* takes a reply for a request, and no send event of the server loses a claim.
THEOREM RolesAlwaysKept == Spec => []RolesKept
  BY InvAlways, InvParts, PTL

\* Every connection between zapata processes is half duplex, for any number of
\* calls, connections and handlers.
THEOREM AlwaysHalfDuplex == Spec => []HalfDuplex
  BY InvAlways, InvParts, PTL

\* The states of the two ends of a connection always go together.
THEOREM EndsAlwaysAgree == Spec => []EndsAgree
  BY InvAlways, InvParts, PTL
-----------------------------------------------------------------------------
(* The journey of a request.  That every reply finds its call waiting, and *)
(* that a context is told once, are facts about one conversation id: where *)
(* its request, its handlers and its reply are, and that there is one of   *)
(* each.                                                                   *)

\* How far each call has come: nothing is written before the resolver of its
\* reply is registered, and it stays registered until the reply is read.
CallInv ==
    \A c \in Calls :
        /\ phase[c] # "sent" => on[c] = NoConn /\ told[c] = NoAnswer
        /\ phase[c] = "tried" => c \in pending
        /\ on[c] # NoConn /\ decided[c] = NoAnswer => c \in pending

\* Calls travel on connections between zapata processes, other requests on
\* foreign ones; only what was written is answered, and only what was answered,
\* or never written, is told.
IdInv ==
    /\ \A c \in Calls : on[c] \in Own \union {NoConn}
    /\ \A r \in Requests : on[r] \in Foreign \union {NoConn}
    /\ \A r \in Ids :
        /\ decided[r] # NoAnswer => on[r] # NoConn
        /\ told[r] # NoAnswer /\ decided[r] = NoAnswer =>
               r \in Calls /\ on[r] = NoConn /\ phase[r] = "sent"

\* A request on the wire is there once, and nobody works on it yet.
WireInv ==
    \A k \in Conns : \A i \in 1 .. Len(c2s[k]) : c2s[k][i] \in Ids =>
        /\ on[c2s[k][i]] = k /\ decided[c2s[k][i]] = NoAnswer
        /\ \A j \in handlers : j.id # c2s[k][i]
        /\ \A n \in 1 .. Len(c2s[k]) : c2s[k][n] = c2s[k][i] => n = i

\* A handler works for the connection its request came from.
HandlerInv == \A j \in handlers : on[j.id] = j.conn

\* The reply m may be on its way on connection k: it is an error reply of a
\* foreign connection, or the answer to a request of k, which has not been told
\* and whose resolver is registered.
Underway(m, k) ==
    \/ m.id = NoId /\ k \in Foreign
    \/ /\ m.id \in Ids /\ on[m.id] = k
       /\ decided[m.id] = m.outcome /\ told[m.id] = NoAnswer
       /\ m.id \in Calls => m.id \in pending

\* The reply to a request exists once: queued, on the wire, or with the client.
SendInv ==
    /\ \A j \in sends : Underway(j.reply, j.conn)
    /\ \A i, j \in sends : i.reply.id = j.reply.id /\ i.reply.id # NoId => i = j

BackInv ==
    \A k \in Conns : \A i \in 1 .. Len(s2c[k]) :
        /\ Underway(s2c[k][i], k)
        /\ s2c[k][i].id # NoId =>
            /\ \A n \in 1 .. Len(s2c[k]) : s2c[k][n].id = s2c[k][i].id => n = i
            /\ \A j \in sends : j.reply.id # s2c[k][i].id

ReadInv ==
    \A m \in replies :
        /\ m.id \in Calls \ pending
        /\ decided[m.id] = m.outcome /\ told[m.id] = NoAnswer

\* The inductive invariant of the journeys.
Journeys == CallInv /\ IdInv /\ WireInv /\ HandlerInv /\ SendInv /\ BackInv /\ ReadInv

\* A step leaves alone what is known of id x.
Same(x) ==
    /\ on'[x] = on[x] /\ decided'[x] = decided[x] /\ told'[x] = told[x]
    /\ x \in pending' <=> x \in pending

\* Of the messages of t, those in S are messages of s, in their places or one
\* place further on: t is what is left of s after a read, a loss or a parse.
Kept(s, t, S) ==
    \E d \in {0, 1} : \A i \in 1 .. Len(t) :
        t[i] \in S => i + d \in 1 .. Len(s) /\ s[i + d] = t[i]

\* A queue that is left alone keeps what it holds.
LEMMA KeptSame == ASSUME NEW T, NEW s \in Seq(T), NEW S PROVE Kept(s, s, S)
<1>1. \A i \in 1 .. Len(s) : s[i] \in S => i + 0 \in 1 .. Len(s) /\ s[i + 0] = s[i]
  OBVIOUS
<1> QED
  BY <1>1 DEF Kept

\* A queue that is emptied has nothing it did not hold.
LEMMA KeptEmpty == ASSUME NEW s, NEW S PROVE Kept(s, <<>>, S)
<1>1. \A i \in 1 .. Len(<<>>) : FALSE
  OBVIOUS
<1> QED
  BY <1>1 DEF Kept

\* A queue that is read keeps the rest, one place nearer.
LEMMA KeptTail == ASSUME NEW T, NEW s \in Seq(T), s # <<>>, NEW S PROVE Kept(s, Tail(s), S)
<1>1. Len(Tail(s)) = Len(s) - 1 /\ Len(s) \in Nat /\ Len(s) >= 1
  OBVIOUS
<1>2. \A i \in 1 .. Len(Tail(s)) : i + 1 \in 1 .. Len(s) /\ s[i + 1] = Tail(s)[i]
  BY <1>1
<1> QED
  BY <1>2 DEF Kept

\* One whose first message is cut short keeps the messages that are whole.
LEMMA KeptCut ==
  ASSUME NEW T, NEW s \in Seq(T), s # <<>>, NEW S, NEW e, e \notin S
  PROVE  Kept(s, <<e>> \o Tail(s), S)
<1> DEFINE t == <<e>> \o Tail(s)
<1>0. Tail(s) \in Seq(T) /\ Tail(s) \in Seq(T \union {e}) /\ <<e>> \in Seq(T \union {e})
  OBVIOUS
<1>1. Len(Tail(s)) = Len(s) - 1 /\ Len(s) \in Nat /\ Len(s) >= 1 /\ Len(<<e>>) = 1
  OBVIOUS
<1>2. Len(t) = Len(s) /\ t[1] = e
  BY <1>0, <1>1
<1>3. \A i \in 2 .. Len(s) : t[i] = Tail(s)[i - 1] /\ Tail(s)[i - 1] = s[i]
  BY <1>0, <1>1
<1>4. \A i \in 1 .. Len(t) : t[i] \in S => i + 0 \in 1 .. Len(s) /\ s[i + 0] = t[i]
  BY <1>1, <1>2, <1>3
<1> QED
  BY <1>4 DEF Kept

\* The state before anything has been asked.
LEMMA JourneysInit == Init => Journeys
<1> SUFFICES ASSUME Init PROVE Journeys
  OBVIOUS
<1>1. \A k \in Conns : Len(c2s[k]) = 0 /\ Len(s2c[k]) = 0
  BY DEF Init
<1>2. CallInv /\ IdInv
  BY IdAssumption DEF Init, CallInv, IdInv, Ids
<1>3. WireInv /\ BackInv
  BY <1>1 DEF WireInv, BackInv
<1>4. HandlerInv /\ SendInv /\ ReadInv
  BY DEF Init, HandlerInv, SendInv, ReadInv
<1> QED
  BY <1>2, <1>3, <1>4 DEF Journeys

-----------------------------------------------------------------------------
(* What keeps each part of the invariant.                                  *)

\* CallInv and IdInv speak of one id at a time.
LEMMA CallFrame ==
  ASSUME CallInv, IdInv, \A x \in Ids : Same(x), \A c \in Calls : phase'[c] = phase[c]
  PROVE  CallInv' /\ IdInv'
<1>1. CallInv'
  BY DEF CallInv, Same, Ids
<1>2. IdInv'
  BY DEF IdInv, Same, Ids
<1> QED
  BY <1>1, <1>2

\* Requests that are taken off the wire leave the others where they are.
LEMMA WireFrame ==
  ASSUME WireInv,
         \A k \in Conns : Kept(c2s[k], c2s'[k], Ids),
         \A k \in Conns : \A i \in 1 .. Len(c2s'[k]) : c2s'[k][i] \in Ids =>
             /\ on'[c2s'[k][i]] = on[c2s'[k][i]]
             /\ decided'[c2s'[k][i]] = decided[c2s'[k][i]]
             /\ \A j \in handlers' : j \in handlers \/ j.id # c2s'[k][i]
  PROVE  WireInv'
<1> SUFFICES ASSUME NEW k \in Conns, NEW i \in 1 .. Len(c2s'[k]), c2s'[k][i] \in Ids
             PROVE  /\ on'[c2s'[k][i]] = k /\ decided'[c2s'[k][i]] = NoAnswer
                    /\ \A j \in handlers' : j.id # c2s'[k][i]
                    /\ \A n \in 1 .. Len(c2s'[k]) : c2s'[k][n] = c2s'[k][i] => n = i
  BY DEF WireInv
<1>1. PICK d \in {0, 1} : \A n \in 1 .. Len(c2s'[k]) : c2s'[k][n] \in Ids =>
          n + d \in 1 .. Len(c2s[k]) /\ c2s[k][n + d] = c2s'[k][n]
  BY DEF Kept
<1>2. i + d \in 1 .. Len(c2s[k]) /\ c2s[k][i + d] = c2s'[k][i]
  BY <1>1
<1>3. /\ on[c2s[k][i + d]] = k /\ decided[c2s[k][i + d]] = NoAnswer
      /\ \A j \in handlers : j.id # c2s[k][i + d]
      /\ \A n \in 1 .. Len(c2s[k]) : c2s[k][n] = c2s[k][i + d] => n = i + d
  BY <1>2 DEF WireInv
<1>4. ASSUME NEW n \in 1 .. Len(c2s'[k]), c2s'[k][n] = c2s'[k][i] PROVE n = i
  <2>1. n + d \in 1 .. Len(c2s[k]) /\ c2s[k][n + d] = c2s[k][i + d]
    BY <1>1, <1>2, <1>4
  <2>2. n + d = i + d
    BY <1>3, <2>1
  <2> QED
    BY <2>2
<1> QED
  BY <1>2, <1>3, <1>4

\* Handlers keep to the connection of their request.
LEMMA HandlerFrame ==
  ASSUME HandlerInv, handlers' \subseteq handlers, \A j \in handlers' : on'[j.id] = on[j.id]
  PROVE  HandlerInv'
  BY DEF HandlerInv

\* A reply under way stays so while nothing changes about its id.
LEMMA UnderwayFrame ==
  ASSUME NEW m, NEW k, Underway(m, k), m.id \in Ids => Same(m.id)
  PROVE  Underway(m, k)'
  BY DEF Underway, Same

\* Send events that are taken away leave the others as they are.
LEMMA SendFrame ==
  ASSUME SendInv, sends' \subseteq sends,
         \A j \in sends' : j.reply.id \in Ids => Same(j.reply.id)
  PROVE  SendInv'
<1>1. \A j \in sends' : Underway(j.reply, j.conn)'
  BY UnderwayFrame DEF SendInv
<1> QED
  BY <1>1 DEF SendInv

\* So do replies that are taken off the wire.
LEMMA BackFrame ==
  ASSUME BackInv, s2c' \in [Conns -> Seq(ReplySet)],
         \A k \in Conns : Kept(s2c[k], s2c'[k], ReplySet),
         \A j \in sends' : j \in sends \/ j.reply.id = NoId
                \/ \A k \in Conns : \A i \in 1 .. Len(s2c'[k]) : s2c'[k][i].id # j.reply.id,
         \A k \in Conns : \A i \in 1 .. Len(s2c'[k]) :
             s2c'[k][i].id \in Ids => Same(s2c'[k][i].id)
  PROVE  BackInv'
<1> SUFFICES ASSUME NEW k \in Conns, NEW i \in 1 .. Len(s2c'[k]),
                    NEW m \in ReplySet, m = s2c'[k][i]
             PROVE  /\ Underway(m, k)'
                    /\ m.id # NoId =>
                        /\ \A n \in 1 .. Len(s2c'[k]) : s2c'[k][n].id = m.id => n = i
                        /\ \A j \in sends' : j.reply.id # m.id
  <2>1. ASSUME NEW k \in Conns, NEW i \in 1 .. Len(s2c'[k]) PROVE s2c'[k][i] \in ReplySet
    BY <2>1
  <2> QED
    BY <2>1 DEF BackInv, Underway
<1>0. \A n \in 1 .. Len(s2c'[k]) : s2c'[k][n] \in ReplySet
  OBVIOUS
<1>1. PICK d \in {0, 1} : \A n \in 1 .. Len(s2c'[k]) :
          n + d \in 1 .. Len(s2c[k]) /\ s2c[k][n + d] = s2c'[k][n]
  BY <1>0 DEF Kept
<1>2. i + d \in 1 .. Len(s2c[k]) /\ s2c[k][i + d] = m
  BY <1>1
<1>3. /\ Underway(m, k)
      /\ m.id # NoId =>
          /\ \A n \in 1 .. Len(s2c[k]) : s2c[k][n].id = m.id => n = i + d
          /\ \A j \in sends : j.reply.id # m.id
  BY <1>2 DEF BackInv, Underway
<1>4. Underway(m, k)'
  BY <1>3, UnderwayFrame
<1>5. ASSUME m.id # NoId, NEW n \in 1 .. Len(s2c'[k]), s2c'[k][n].id = m.id PROVE n = i
  <2>1. n + d \in 1 .. Len(s2c[k]) /\ s2c[k][n + d].id = m.id
    BY <1>1, <1>5
  <2>2. n + d = i + d
    BY <1>3, <1>5, <2>1
  <2> QED
    BY <2>2
<1> QED
  BY <1>3, <1>4, <1>5

\* And replies the client has read.
LEMMA ReadFrame ==
  ASSUME ReadInv, replies' \subseteq replies,
         \A m \in replies' : m.id \in Ids => Same(m.id)
  PROVE  ReadInv'
  BY DEF ReadInv, Same, Ids

\* A step that changes nothing about any id, and that adds nothing to queues
\* and events, keeps all of it.
LEMMA QuietStep ==
  ASSUME Journeys, s2c' \in [Conns -> Seq(ReplySet)],
         \A x \in Ids : Same(x), phase' = phase,
         \A k \in Conns : Kept(c2s[k], c2s'[k], Ids),
         \A k \in Conns : Kept(s2c[k], s2c'[k], ReplySet),
         handlers' \subseteq handlers, sends' \subseteq sends, replies' \subseteq replies,
         \A j \in handlers : j.id \in Ids
  PROVE  Journeys'
<1>1. CallInv' /\ IdInv'
  BY CallFrame DEF Journeys
<1>2. WireInv'
  BY WireFrame DEF Journeys, Same
<1>3. HandlerInv'
  BY HandlerFrame DEF Journeys, Same
<1>4. SendInv'
  BY SendFrame DEF Journeys
<1>5. BackInv'
  BY BackFrame DEF Journeys
<1>6. ReadInv'
  BY ReadFrame DEF Journeys
<1> QED
  BY <1>1, <1>2, <1>3, <1>4, <1>5, <1>6 DEF Journeys

\* Queues of requests that are left alone are kept.
LEMMA WireAlone ==
  ASSUME TypeOK, UNCHANGED c2s
  PROVE  \A k \in Conns : Kept(c2s[k], c2s'[k], Ids)
  BY KeptSame DEF TypeOK

\* So are queues of replies.
LEMMA BackAlone ==
  ASSUME TypeOK, UNCHANGED s2c
  PROVE  /\ \A k \in Conns : Kept(s2c[k], s2c'[k], ReplySet)
         /\ s2c' \in [Conns -> Seq(ReplySet)]
  BY KeptSame DEF TypeOK

\* A reply that is read leaves the others on the wire.
LEMMA BackRead ==
  ASSUME TypeOK, NEW k \in Conns, s2c[k] # <<>>, s2c' = Pop(s2c, k)
  PROVE  /\ \A h \in Conns : Kept(s2c[h], s2c'[h], ReplySet)
         /\ s2c' \in [Conns -> Seq(ReplySet)]
<1>1. s2c \in [Conns -> Seq(ReplySet)]
  BY DEF TypeOK
<1>2. Tail(s2c[k]) \in Seq(ReplySet)
  BY <1>1
<1>3. s2c' = [s2c EXCEPT ![k] = Tail(s2c[k])]
  BY DEF Pop
<1>4. \A h \in Conns : s2c'[h] = IF h = k THEN Tail(s2c[k]) ELSE s2c[h]
  BY <1>1, <1>3
<1>5. \A h \in Conns : Kept(s2c[h], s2c'[h], ReplySet)
  BY <1>1, <1>4, KeptSame, KeptTail
<1> QED
  BY <1>1, <1>2, <1>3, <1>5

\* What is known of the ids depends on four variables.
LEMMA SameAll ==
  ASSUME UNCHANGED <<on, decided, told, pending>>
  PROVE  \A x \in Ids : Same(x)
  BY DEF Same

\* The steps that change nothing about any id: connections are opened, break or
\* are given up, events of lost connections end, requests do not parse.
LEMMA NetStep ==
  ASSUME TypeOK, Journeys,
         \/ \E c \in Calls : Dial(c)
         \/ ClientHangup
         \/ \E j \in sends : SendGone(j) \/ SendFails(j) \/ SendRefused(j)
         \/ \E k \in Conns : ServerHangup(k)
  PROVE  Journeys'
<1>1. /\ UNCHANGED <<on, decided, told, pending>> /\ UNCHANGED c2s /\ UNCHANGED s2c
      /\ phase' = phase /\ handlers' = handlers /\ sends' \subseteq sends
      /\ replies' = replies
  BY DEF Dial, ClientHangup, SendGone, SendFails, SendRefused, ServerHangup,
         netVars, clientVars, serverVars
<1>2. \A j \in handlers : j.id \in Ids
  BY DEF TypeOK
<1> QED
  BY <1>1, <1>2, SameAll, WireAlone, BackAlone, QuietStep

\* A connection that breaks keeps or loses what is on its way.
LEMMA BreakStep ==
  ASSUME TypeOK, Journeys, NEW k \in Conns, Break(k)
  PROVE  Journeys'
<1>1. /\ UNCHANGED <<on, decided, told, pending>>
      /\ phase' = phase /\ handlers' = handlers /\ sends' = sends /\ replies' = replies
  BY DEF Break, clientVars, serverVars
<1>2. \A h \in Conns : Kept(c2s[h], c2s'[h], Ids)
  <2>1. c2s' = c2s \/ c2s' = [c2s EXCEPT ![k] = <<>>]
    BY DEF Break
  <2>2. c2s \in [Conns -> Seq(Ids \union {Leftover})]
    BY DEF TypeOK
  <2>3. \A h \in Conns : c2s'[h] = c2s[h] \/ c2s'[h] = <<>>
    BY <2>1, <2>2
  <2> QED
    BY <2>2, <2>3, KeptSame, KeptEmpty
<1>3. /\ \A h \in Conns : Kept(s2c[h], s2c'[h], ReplySet)
      /\ s2c' \in [Conns -> Seq(ReplySet)]
  <2>1. s2c' = s2c \/ s2c' = [s2c EXCEPT ![k] = <<>>]
    BY DEF Break
  <2>2. s2c \in [Conns -> Seq(ReplySet)] /\ <<>> \in Seq(ReplySet)
    BY DEF TypeOK
  <2>3. \A h \in Conns : s2c'[h] = s2c[h] \/ s2c'[h] = <<>>
    BY <2>1, <2>2
  <2>4. s2c' \in [Conns -> Seq(ReplySet)]
    BY <2>1, <2>2, Zenon
  <2> QED
    BY <2>2, <2>3, <2>4, KeptSame, KeptEmpty
<1>4. \A j \in handlers : j.id \in Ids
  BY DEF TypeOK
<1> QED
  BY <1>1, <1>2, <1>3, <1>4, SameAll, QuietStep

\* A message that does not parse is dropped, or its unread end stays.
LEMMA UnparsedStep ==
  ASSUME TypeOK, Journeys, NEW k \in Conns, SyntaxError(k)
  PROVE  Journeys'
<1>1. /\ UNCHANGED <<on, decided, told, pending>> /\ UNCHANGED s2c
      /\ phase' = phase /\ handlers' = handlers /\ sends' = sends /\ replies' = replies
  BY DEF SyntaxError, clientVars
<1>2. \A h \in Conns : Kept(c2s[h], c2s'[h], Ids)
  <2>1. c2s \in [Conns -> Seq(Ids \union {Leftover})] /\ c2s[k] # <<>>
    BY DEF TypeOK, SyntaxError, Readable
  <2>2. \/ c2s' = [c2s EXCEPT ![k] = Tail(c2s[k])]
        \/ c2s' = [c2s EXCEPT ![k] = <<Leftover>> \o Tail(c2s[k])]
    BY DEF SyntaxError, Unparsed, Pop
  <2>3. \A h \in Conns : h # k => c2s'[h] = c2s[h]
    BY <2>1, <2>2
  <2>4. c2s'[k] = Tail(c2s[k]) \/ c2s'[k] = <<Leftover>> \o Tail(c2s[k])
    BY <2>1, <2>2
  <2>5. Kept(c2s[k], c2s'[k], Ids)
    <3>1. Kept(c2s[k], Tail(c2s[k]), Ids)
      BY <2>1, KeptTail
    <3>2. Kept(c2s[k], <<Leftover>> \o Tail(c2s[k]), Ids)
      BY <2>1, IdAssumption, KeptCut
    <3> QED
      BY <2>4, <3>1, <3>2, Zenon
  <2> QED
    BY <2>1, <2>3, <2>5, KeptSame
<1>3. \A j \in handlers : j.id \in Ids
  BY DEF TypeOK
<1> QED
  BY <1>1, <1>2, <1>3, SameAll, BackAlone, QuietStep

-----------------------------------------------------------------------------
(* Steps that change what is known of one id.                              *)

\* A request nobody has answered has no reply anywhere.
LEMMA NoReplyYet ==
  ASSUME TypeOK, Journeys, NEW x \in Ids, decided[x] = NoAnswer
  PROVE  /\ \A j \in sends : j.reply.id # x
         /\ \A k \in Conns : \A i \in 1 .. Len(s2c[k]) : s2c[k][i].id # x
         /\ \A m \in replies : m.id # x
<1>0. NoAnswer \notin Answers /\ x # NoId
  BY IdAssumption DEF NoAnswer, Answers
<1>1. \A m \in ReplySet : \A k \in Conns : Underway(m, k) => m.id # x
  BY <1>0 DEF Underway, ReplySet
<1>2. \A j \in sends : j.reply \in ReplySet /\ j.conn \in Conns
  BY DEF TypeOK
<1>3. \A k \in Conns : \A i \in 1 .. Len(s2c[k]) : s2c[k][i] \in ReplySet
  BY DEF TypeOK
<1>4. \A j \in sends : j.reply.id # x
  BY <1>1, <1>2 DEF Journeys, SendInv
<1>5. ASSUME NEW k \in Conns, NEW i \in 1 .. Len(s2c[k]) PROVE s2c[k][i].id # x
  <2>1. Underway(s2c[k][i], k) /\ s2c[k][i] \in ReplySet
    BY <1>3, <1>5 DEF Journeys, BackInv
  <2> QED
    BY <2>1, <1>0 DEF Underway, ReplySet
<1>6. \A m \in replies : m.id # x
  <2>1. \A m \in replies : m.outcome \in Answers
    BY DEF TypeOK, ReplySet
  <2> QED
    BY <2>1, <1>0 DEF Journeys, ReadInv
<1> QED
  BY <1>4, <1>5, <1>6

\* One that has not been written is nowhere.
LEMMA NotWritten ==
  ASSUME TypeOK, Journeys, NEW x \in Ids, on[x] = NoConn
  PROVE  /\ decided[x] = NoAnswer
         /\ \A k \in Conns : \A i \in 1 .. Len(c2s[k]) : c2s[k][i] # x
         /\ \A j \in handlers : j.id # x
<1>1. decided[x] = NoAnswer
  BY DEF Journeys, IdInv
<1>2. \A k \in Conns : \A i \in 1 .. Len(c2s[k]) : c2s[k][i] # x
  BY ConnAssumption DEF Journeys, WireInv
<1>3. \A j \in handlers : j.id # x
  <2>1. \A j \in handlers : j.conn \in Conns
    BY DEF TypeOK
  <2> QED
    BY <2>1, ConnAssumption DEF Journeys, HandlerInv
<1> QED
  BY <1>1, <1>2, <1>3

\* What the other ids need when the queues and the events are left alone and
\* something changes about x, which has not been written.
LEMMA NotWrittenStep ==
  ASSUME TypeOK, Journeys, NEW x \in Ids, on[x] = NoConn,
         \A y \in Ids \ {x} : Same(y),
         UNCHANGED <<s2c, handlers, sends, replies>>
  PROVE  /\ UNCHANGED c2s => WireInv'
         /\ HandlerInv' /\ SendInv' /\ BackInv' /\ ReadInv'
<1>1. /\ decided[x] = NoAnswer
      /\ \A k \in Conns : \A i \in 1 .. Len(c2s[k]) : c2s[k][i] # x
      /\ \A j \in handlers : j.id # x
  BY NotWritten
<1>2. /\ \A j \in sends : j.reply.id # x
      /\ \A k \in Conns : \A i \in 1 .. Len(s2c[k]) : s2c[k][i].id # x
      /\ \A m \in replies : m.id # x
  BY <1>1, NoReplyYet
<1>3. ASSUME UNCHANGED c2s PROVE WireInv'
  <2>1. \A k \in Conns : Kept(c2s[k], c2s'[k], Ids)
    BY <1>3, WireAlone
  <2>2. \A k \in Conns : \A i \in 1 .. Len(c2s'[k]) : c2s'[k][i] \in Ids =>
             /\ on'[c2s'[k][i]] = on[c2s'[k][i]]
             /\ decided'[c2s'[k][i]] = decided[c2s'[k][i]]
             /\ \A j \in handlers' : j \in handlers \/ j.id # c2s'[k][i]
    BY <1>1, <1>3 DEF Same
  <2> QED
    BY <2>1, <2>2, WireFrame DEF Journeys
<1>4. HandlerInv'
  <2>1. \A j \in handlers : j.id \in Ids
    BY DEF TypeOK
  <2> QED
    BY <1>1, <2>1, HandlerFrame DEF Journeys, Same
<1>5. SendInv'
  BY <1>2, SendFrame DEF Journeys
<1>6. BackInv'
  BY <1>2, BackAlone, BackFrame DEF Journeys
<1>7. ReadInv'
  BY <1>2, ReadFrame DEF Journeys
<1> QED
  BY <1>3, <1>4, <1>5, <1>6, <1>7

\* A call is made, fails to resolve, is registered, or cannot be connected.
LEMMA EarlyCallStep ==
  ASSUME TypeOK, Journeys, NEW c \in Calls,
         MakeCall(c) \/ Unresolved(c) \/ Register(c) \/ DialFails(c)
  PROVE  Journeys'
<1>1. c \in Ids /\ c \notin Requests /\ phase[c] # "sent"
  BY IdAssumption DEF Ids, MakeCall, Unresolved, Register, DialFails
<1>2. on[c] = NoConn /\ told[c] = NoAnswer /\ decided[c] = NoAnswer
  BY <1>1 DEF Journeys, CallInv, IdInv
<1>3. UNCHANGED <<s2c, handlers, sends, replies>> /\ UNCHANGED c2s /\ UNCHANGED <<on, decided>>
  BY DEF MakeCall, Unresolved, Register, DialFails, netVars, serverVars
<1>4. /\ phase \in [Calls -> {"new", "queued", "tried", "sent"}]
      /\ told \in [Ids -> Answers \union {NoAnswer, "unavailable"}]
  BY DEF TypeOK
<1>5. \A y \in Calls \ {c} : phase'[y] = phase[y]
  BY <1>4 DEF MakeCall, Unresolved, Register, DialFails
<1>6. \A y \in Ids \ {c} : told'[y] = told[y]
  BY <1>4 DEF MakeCall, Unresolved, Register, DialFails, ContextReply
<1>7. \A y \in Ids \ {c} : y \in pending' <=> y \in pending
  BY DEF MakeCall, Unresolved, Register, DialFails, PushPending
<1>8. \A y \in Ids \ {c} : Same(y)
  BY <1>3, <1>6, <1>7 DEF Same
<1>9. \/ phase'[c] = "queued" /\ told'[c] = NoAnswer
      \/ phase'[c] = "tried" /\ told'[c] = NoAnswer /\ c \in pending'
      \/ phase'[c] = "sent"
  BY <1>1, <1>2, <1>4
  DEF MakeCall, Unresolved, Register, DialFails, PushPending, ContextReply
<1>10. CallInv'
  <2>1. ASSUME NEW y \in Calls, y # c
        PROVE  /\ phase'[y] # "sent" => on'[y] = NoConn /\ told'[y] = NoAnswer
               /\ phase'[y] = "tried" => y \in pending'
               /\ on'[y] # NoConn /\ decided'[y] = NoAnswer => y \in pending'
    BY <1>3, <1>5, <1>6, <1>7, <2>1 DEF Journeys, CallInv, Ids
  <2> QED
    BY <1>2, <1>3, <1>9, <2>1 DEF CallInv
<1>11. IdInv'
  <2>1. told'[c] # NoAnswer => phase'[c] = "sent"
    BY <1>9
  <2>2. \A y \in Ids \ {c} : told'[y] # NoAnswer /\ decided[y] = NoAnswer =>
            y \in Calls /\ on[y] = NoConn /\ phase'[y] = "sent"
    BY <1>5, <1>6 DEF Journeys, IdInv
  <2> QED
    BY <1>2, <1>3, <2>1, <2>2 DEF Journeys, IdInv
<1> QED
  BY <1>1, <1>2, <1>3, <1>8, <1>10, <1>11, NotWrittenStep DEF Journeys

\* A request that is written is the only one of its id on the wire.
LEMMA WrittenOnce ==
  ASSUME TypeOK, Journeys, NEW x \in Ids, on[x] = NoConn, NEW k \in Conns,
         on' = [on EXCEPT ![x] = k], UNCHANGED <<decided, handlers>>,
         c2s' = c2s \/ c2s' = Push(c2s, k, x)
  PROVE  WireInv'
<1>1. /\ decided[x] = NoAnswer
      /\ \A h \in Conns : \A i \in 1 .. Len(c2s[h]) : c2s[h][i] # x
      /\ \A j \in handlers : j.id # x
  BY NotWritten
<1>2. /\ on \in [Ids -> Conns \union {NoConn}]
      /\ c2s \in [Conns -> Seq(Ids \union {Leftover})]
  BY DEF TypeOK
<1>3. on'[x] = k /\ \A y \in Ids \ {x} : on'[y] = on[y]
  BY <1>2
<1> SUFFICES ASSUME NEW h \in Conns, NEW i \in 1 .. Len(c2s'[h]), c2s'[h][i] \in Ids
             PROVE  /\ on'[c2s'[h][i]] = h /\ decided[c2s'[h][i]] = NoAnswer
                    /\ \A j \in handlers : j.id # c2s'[h][i]
                    /\ \A n \in 1 .. Len(c2s'[h]) : c2s'[h][n] = c2s'[h][i] => n = i
  BY DEF WireInv
<1>4. CASE c2s'[h] = c2s[h]
  <2>1. i \in 1 .. Len(c2s[h]) /\ c2s[h][i] \in Ids \ {x} /\ c2s'[h][i] = c2s[h][i]
    BY <1>1, <1>4
  <2>2. /\ on[c2s[h][i]] = h /\ decided[c2s[h][i]] = NoAnswer
        /\ \A j \in handlers : j.id # c2s[h][i]
        /\ \A n \in 1 .. Len(c2s[h]) : c2s[h][n] = c2s[h][i] => n = i
    BY <2>1 DEF Journeys, WireInv
  <2> QED
    BY <1>3, <1>4, <2>1, <2>2
<1>5. CASE c2s'[h] # c2s[h]
  <2>1. h = k /\ c2s'[h] = Append(c2s[h], x)
    BY <1>2, <1>5 DEF Push
  <2>2. Len(c2s[h]) \in Nat /\ Len(c2s'[h]) = Len(c2s[h]) + 1
        /\ c2s'[h][Len(c2s[h]) + 1] = x
        /\ \A n \in 1 .. Len(c2s[h]) : c2s'[h][n] = c2s[h][n]
    BY <1>2, <2>1
  <2>3. CASE i = Len(c2s[h]) + 1
    BY <1>1, <1>3, <2>1, <2>2, <2>3
  <2>4. CASE i # Len(c2s[h]) + 1
    <3>1. i \in 1 .. Len(c2s[h]) /\ c2s[h][i] \in Ids \ {x} /\ c2s'[h][i] = c2s[h][i]
      BY <1>1, <2>2, <2>4
    <3>2. /\ on[c2s[h][i]] = h /\ decided[c2s[h][i]] = NoAnswer
          /\ \A j \in handlers : j.id # c2s[h][i]
          /\ \A n \in 1 .. Len(c2s[h]) : c2s[h][n] = c2s[h][i] => n = i
      BY <3>1 DEF Journeys, WireInv
    <3>3. ASSUME NEW n \in 1 .. Len(c2s'[h]), c2s'[h][n] = c2s'[h][i] PROVE n = i
      <4>1. n # Len(c2s[h]) + 1
        BY <2>2, <3>1, <3>3
      <4>2. n \in 1 .. Len(c2s[h]) /\ c2s[h][n] = c2s[h][i]
        BY <2>2, <3>1, <3>3, <4>1
      <4> QED
        BY <3>2, <4>2
    <3> QED
      BY <1>3, <3>1, <3>2, <3>3
  <2> QED
    BY <2>3, <2>4
<1> QED
  BY <1>4, <1>5

\* A call is written, or lost in writing: its resolver is registered.
LEMMA WriteCallStep ==
  ASSUME TypeOK, Journeys, NEW c \in Calls, Transmit(c) \/ TransmitFails(c)
  PROVE  Journeys'
<1>1. c \in Ids /\ c \notin Requests /\ phase[c] = "tried"
  BY IdAssumption DEF Ids, Transmit, TransmitFails
<1>2. on[c] = NoConn /\ told[c] = NoAnswer /\ decided[c] = NoAnswer /\ c \in pending
  BY <1>1 DEF Journeys, CallInv, IdInv
<1>3. /\ UNCHANGED <<s2c, handlers, sends, replies>>
      /\ UNCHANGED <<decided, told, pending>>
  BY DEF Transmit, TransmitFails, netVars, serverVars
<1>4. cur \in Own /\ cur \in Conns
  BY DEF TypeOK, Transmit, TransmitFails, Own
<1>5. /\ on' = [on EXCEPT ![c] = cur]
      /\ c2s' = c2s \/ c2s' = Push(c2s, cur, c)
      /\ phase' = [phase EXCEPT ![c] = "sent"]
  BY DEF Transmit, TransmitFails
<1>6. /\ on \in [Ids -> Conns \union {NoConn}]
      /\ phase \in [Calls -> {"new", "queued", "tried", "sent"}]
  BY DEF TypeOK
<1>7. /\ on'[c] = cur /\ \A y \in Ids \ {c} : on'[y] = on[y]
      /\ phase'[c] = "sent" /\ \A y \in Calls \ {c} : phase'[y] = phase[y]
  BY <1>1, <1>5, <1>6
<1>8. \A y \in Ids \ {c} : Same(y)
  BY <1>3, <1>7 DEF Same
<1>9. WireInv'
  <2>1. UNCHANGED <<decided, handlers>>
    BY <1>3
  <2> DEFINE k == cur
  <2>2. k \in Conns /\ on' = [on EXCEPT ![c] = k] /\ (c2s' = c2s \/ c2s' = Push(c2s, k, c))
    BY <1>4, <1>5
  <2> QED
    BY <1>1, <1>2, <2>1, <2>2, WrittenOnce
<1>10. CallInv'
  BY <1>2, <1>3, <1>7 DEF Journeys, CallInv, Ids
<1>11. IdInv'
  <2>1. \A y \in Calls : on'[y] \in Own \union {NoConn}
    BY <1>4, <1>7 DEF Journeys, IdInv, Ids
  <2>2. \A y \in Requests : on'[y] = on[y]
    BY <1>1, <1>7 DEF Ids
  <2>3. \A y \in Ids \ {c} : told[y] # NoAnswer /\ decided[y] = NoAnswer =>
            y \in Calls /\ on'[y] = NoConn /\ phase'[y] = "sent"
    BY <1>7 DEF Journeys, IdInv
  <2>4. \A y \in Ids : decided[y] # NoAnswer => on'[y] # NoConn
    BY <1>2, <1>7 DEF Journeys, IdInv
  <2> QED
    BY <1>2, <1>3, <2>1, <2>2, <2>3, <2>4 DEF Journeys, IdInv
<1> QED
  BY <1>1, <1>2, <1>3, <1>8, <1>9, <1>10, <1>11, NotWrittenStep DEF Journeys

\* Another program writes a request.
LEMMA ForeignSendStep ==
  ASSUME TypeOK, Journeys, NEW k \in Conns, NEW r \in Requests, ForeignSend(k, r)
  PROVE  Journeys'
<1>1. r \in Ids /\ r \notin Calls /\ on[r] = NoConn /\ k \in Foreign /\ k # NoConn
  BY IdAssumption, ConnAssumption DEF Ids, ForeignSend
<1>2. decided[r] = NoAnswer /\ told[r] = NoAnswer
  BY <1>1 DEF Journeys, IdInv
<1>3. /\ UNCHANGED <<s2c, handlers, sends, replies>>
      /\ UNCHANGED <<decided, told, pending>> /\ UNCHANGED phase
  BY DEF ForeignSend, netVars, serverVars
<1>4. /\ on' = [on EXCEPT ![r] = k]
      /\ c2s' = c2s \/ c2s' = Push(c2s, k, r)
  BY DEF ForeignSend
<1>5. on \in [Ids -> Conns \union {NoConn}]
  BY DEF TypeOK
<1>6. on'[r] = k /\ \A y \in Ids \ {r} : on'[y] = on[y]
  BY <1>1, <1>4, <1>5
<1>7. \A y \in Ids \ {r} : Same(y)
  BY <1>3, <1>6 DEF Same
<1>8. WireInv'
  <2>1. UNCHANGED <<decided, handlers>>
    BY <1>3
  <2> QED
    BY <1>1, <1>4, <2>1, WrittenOnce
<1>9. CallInv'
  BY <1>1, <1>3, <1>6 DEF Journeys, CallInv, Ids
<1>10. IdInv'
  <2>1. \A y \in Requests : on'[y] \in Foreign \union {NoConn}
    BY <1>1, <1>6 DEF Journeys, IdInv, Ids
  <2>2. \A y \in Calls : on'[y] = on[y]
    BY <1>1, <1>6 DEF Ids
  <2> QED
    BY <1>1, <1>2, <1>3, <1>6, <2>1, <2>2 DEF Journeys, IdInv
<1> QED
  BY <1>1, <1>3, <1>7, <1>8, <1>9, <1>10, NotWrittenStep DEF Journeys

\* The reply at the head of a queue is the only one of its id.
LEMMA HeadOnce ==
  ASSUME TypeOK, Journeys, NEW k \in Conns, s2c[k] # <<>>, s2c' = Pop(s2c, k),
         NEW m, m = Head(s2c[k]), m.id # NoId
  PROVE  /\ m \in ReplySet /\ m.id \in Ids /\ Underway(m, k)
         /\ \A j \in sends : j.reply.id # m.id
         /\ \A h \in Conns : \A i \in 1 .. Len(s2c'[h]) : s2c'[h][i].id # m.id
<1>1. s2c \in [Conns -> Seq(ReplySet)]
  BY DEF TypeOK
<1>2. 1 \in 1 .. Len(s2c[k]) /\ s2c[k][1] = m /\ m \in ReplySet
  BY <1>1
<1>3. m.id \in Ids
  BY <1>2 DEF ReplySet
<1>4. /\ Underway(m, k)
      /\ \A n \in 1 .. Len(s2c[k]) : s2c[k][n].id = m.id => n = 1
      /\ \A j \in sends : j.reply.id # m.id
  BY <1>2 DEF Journeys, BackInv, Underway
<1>5. ASSUME NEW h \in Conns, NEW i \in 1 .. Len(s2c'[h]) PROVE s2c'[h][i].id # m.id
  <2>1. CASE h = k
    <3>1. s2c'[k] = Tail(s2c[k])
      BY <1>1 DEF Pop
    <3>2. i + 1 \in 1 .. Len(s2c[k]) /\ s2c'[k][i] = s2c[k][i + 1] /\ i + 1 # 1
      BY <1>1, <1>5, <2>1, <3>1
    <3> QED
      BY <1>4, <2>1, <3>2
  <2>2. CASE h # k
    <3>1. s2c'[h] = s2c[h]
      BY <1>1, <2>2 DEF Pop
    <3>2. Underway(s2c[h][i], h)
      BY <1>5, <3>1 DEF Journeys, BackInv
    <3> QED
      BY <1>3, <1>4, <2>2, <3>1, <3>2, IdAssumption DEF Underway
  <2> QED
    BY <2>1, <2>2
<1> QED
  BY <1>2, <1>3, <1>4, <1>5

\* An answer is not the absence of one.
LEMMA ReplyAnswers == ASSUME NEW m \in ReplySet PROVE m.outcome # NoAnswer
  BY DEF ReplySet, Answers, NoAnswer

\* A call that was answered was written, and its event has ended.
LEMMA AnsweredWasSent ==
  ASSUME Journeys, NEW c \in Calls, decided[c] # NoAnswer
  PROVE  on[c] # NoConn /\ phase[c] = "sent"
  BY DEF Journeys, CallInv, IdInv, Ids

\* What becomes of an answered request, when its reply is taken off the wire or
\* given to its context, concerns no other.
LEMMA SettledStep ==
  ASSUME TypeOK, Journeys, NEW x \in Ids, decided[x] # NoAnswer,
         \A y \in Ids \ {x} : Same(y),
         UNCHANGED <<on, decided>>, UNCHANGED <<phase, handlers, sends>>, UNCHANGED c2s,
         s2c' \in [Conns -> Seq(ReplySet)],
         \A k \in Conns : Kept(s2c[k], s2c'[k], ReplySet),
         \A j \in sends : j.reply.id # x,
         \A k \in Conns : \A i \in 1 .. Len(s2c'[k]) : s2c'[k][i].id # x
  PROVE  CallInv' /\ IdInv' /\ WireInv' /\ HandlerInv' /\ SendInv' /\ BackInv'
<1>1. CallInv'
  <2>1. \A c \in Calls : c # x => Same(c)
    BY DEF Ids
  <2>2. x \in Calls => on[x] # NoConn /\ phase[x] = "sent"
    BY AnsweredWasSent
  <2> QED
    BY <2>1, <2>2 DEF Journeys, CallInv, Same
<1>2. IdInv'
  BY DEF Journeys, IdInv, Same
<1>3. WireInv'
  BY WireAlone, WireFrame DEF Journeys
<1>4. HandlerInv'
  BY HandlerFrame DEF Journeys
<1>5. SendInv'
  BY SendFrame DEF Journeys
<1>6. BackInv'
  BY BackFrame DEF Journeys
<1> QED
  BY <1>1, <1>2, <1>3, <1>4, <1>5, <1>6

\* The client reads: the reply goes to its event and its resolver away, or it is
\* dropped.
LEMMA ClientReadStep ==
  ASSUME TypeOK, Journeys, NEW k \in Conns, ClientReceive(k)
  PROVE  Journeys'
<1> DEFINE m == Head(s2c[k])
<1>1. s2c[k] # <<>> /\ s2c' = Pop(s2c, k)
  BY DEF ClientReceive
<1>2. /\ \A h \in Conns : Kept(s2c[h], s2c'[h], ReplySet)
      /\ s2c' \in [Conns -> Seq(ReplySet)]
  BY <1>1, BackRead
<1>3. /\ UNCHANGED <<on, decided>> /\ UNCHANGED told /\ UNCHANGED <<phase, handlers, sends>>
      /\ UNCHANGED c2s
  BY DEF ClientReceive, netVars, serverVars
<1>4. \A j \in handlers : j.id \in Ids
  BY DEF TypeOK
<1>5. CASE UNCHANGED <<pending, replies>>
  <2>1. \A x \in Ids : Same(x)
    BY <1>3, <1>5 DEF Same
  <2> QED
    BY <1>2, <1>3, <1>4, <1>5, <2>1, WireAlone, QuietStep
<1>6. CASE m.id \in pending /\ pending' = pending \ {m.id} /\ replies' = replies \union {m}
  <2>1. m.id \in Calls /\ m.id \in Ids /\ m.id # NoId
    BY <1>6, IdAssumption DEF TypeOK, Ids
  <2>2. /\ m \in ReplySet /\ Underway(m, k)
        /\ \A j \in sends : j.reply.id # m.id
        /\ \A h \in Conns : \A i \in 1 .. Len(s2c'[h]) : s2c'[h][i].id # m.id
    BY <1>1, <2>1, HeadOnce
  <2>3. decided[m.id] = m.outcome /\ told[m.id] = NoAnswer /\ decided[m.id] # NoAnswer
    BY <2>1, <2>2, ReplyAnswers DEF Underway
  <2>4. \A y \in Ids \ {m.id} : Same(y)
    BY <1>3, <1>6 DEF Same
  <2>5. CallInv' /\ IdInv' /\ WireInv' /\ HandlerInv' /\ SendInv' /\ BackInv'
    BY <1>2, <1>3, <2>1, <2>2, <2>3, <2>4, SettledStep
  <2>6. ReadInv'
    BY <1>3, <1>6, <2>1, <2>3 DEF Journeys, ReadInv
  <2> QED
    BY <2>5, <2>6 DEF Journeys
<1> QED
  BY <1>5, <1>6 DEF ClientReceive, PopPending

\* A reply is given to its context: there is no other one, and none comes.
LEMMA DeliverStep ==
  ASSUME TypeOK, Journeys, NEW m \in replies, Deliver(m)
  PROVE  Journeys'
<1>1. m \in ReplySet /\ \A n \in replies : n \in ReplySet
  BY DEF TypeOK
<1>2. m.id \in Calls /\ m.id \notin pending /\ decided[m.id] = m.outcome
  BY DEF Journeys, ReadInv
<1>3. decided[m.id] # NoAnswer /\ m.id \in Ids /\ m.id # NoId
  BY <1>1, <1>2, ReplyAnswers, IdAssumption DEF Ids
<1>4. /\ UNCHANGED <<on, decided>> /\ UNCHANGED pending /\ UNCHANGED <<phase, handlers, sends>>
      /\ UNCHANGED c2s /\ UNCHANGED s2c /\ replies' = replies \ {m}
  BY DEF Deliver, netVars, serverVars
<1>5. \A y \in Ids \ {m.id} : told'[y] = told[y]
  BY DEF Deliver, ContextReply, TypeOK
<1>6. \A y \in Ids \ {m.id} : Same(y)
  BY <1>4, <1>5 DEF Same
<1>7. \A j \in sends : j.reply.id # m.id
  BY <1>2, <1>3 DEF Journeys, SendInv, Underway
<1>8. \A k \in Conns : \A i \in 1 .. Len(s2c'[k]) : s2c'[k][i].id # m.id
  BY <1>2, <1>3, <1>4 DEF Journeys, BackInv, Underway
<1>9. CallInv' /\ IdInv' /\ WireInv' /\ HandlerInv' /\ SendInv' /\ BackInv'
  BY <1>3, <1>4, <1>6, <1>7, <1>8, BackAlone, SettledStep
<1>10. \A n \in replies' : n.id # m.id
  <2> SUFFICES ASSUME NEW n \in replies, n.id = m.id PROVE n = m
    BY <1>4
  <2>1. n.outcome = m.outcome
    BY <1>2 DEF Journeys, ReadInv
  <2> QED
    BY <1>1, <2>1 DEF ReplySet
<1>11. ReadInv'
  BY <1>4, <1>6, <1>10, ReadFrame DEF Journeys
<1> QED
  BY <1>9, <1>11 DEF Journeys

\* Another program reads a reply.
LEMMA ForeignReadStep ==
  ASSUME TypeOK, Journeys, NEW k \in Conns, ForeignReceive(k)
  PROVE  Journeys'
<1> DEFINE m == Head(s2c[k])
<1>1. s2c[k] # <<>> /\ s2c' = Pop(s2c, k) /\ k \in Foreign
  BY DEF ForeignReceive
<1>2. /\ \A h \in Conns : Kept(s2c[h], s2c'[h], ReplySet)
      /\ s2c' \in [Conns -> Seq(ReplySet)]
  BY <1>1, BackRead
<1>3. /\ UNCHANGED <<on, decided>> /\ UNCHANGED <<phase, handlers, sends>>
      /\ UNCHANGED c2s /\ UNCHANGED pending /\ UNCHANGED replies
  BY DEF ForeignReceive, netVars, serverVars
<1>4. \A j \in handlers : j.id \in Ids
  BY DEF TypeOK
<1>5. CASE m.id = NoId
  <2>1. told' = told
    BY <1>5 DEF ForeignReceive
  <2>2. \A x \in Ids : Same(x)
    BY <1>3, <2>1 DEF Same
  <2> QED
    BY <1>2, <1>3, <1>4, <2>2, WireAlone, QuietStep
<1>6. CASE m.id # NoId
  <2>1. /\ m \in ReplySet /\ m.id \in Ids /\ Underway(m, k)
        /\ \A j \in sends : j.reply.id # m.id
        /\ \A h \in Conns : \A i \in 1 .. Len(s2c'[h]) : s2c'[h][i].id # m.id
    BY <1>1, <1>6, HeadOnce
  <2>2. on[m.id] = k /\ decided[m.id] # NoAnswer
    BY <1>6, <2>1, ReplyAnswers DEF Underway
  <2>3. m.id \notin Calls
    BY <1>1, <2>2, ConnAssumption DEF Journeys, IdInv, Own
  <2>4. told' = [told EXCEPT ![m.id] = m.outcome]
    BY <1>6 DEF ForeignReceive
  <2>5. \A y \in Ids \ {m.id} : told'[y] = told[y]
    BY <2>4 DEF TypeOK
  <2>6. \A y \in Ids \ {m.id} : Same(y)
    BY <1>3, <2>5 DEF Same
  <2>7. CallInv' /\ IdInv' /\ WireInv' /\ HandlerInv' /\ SendInv' /\ BackInv'
    BY <1>2, <1>3, <2>1, <2>2, <2>6, SettledStep
  <2>8. ReadInv'
    <3>1. \A n \in replies : n.id \in Calls
      BY DEF Journeys, ReadInv
    <3> QED
      BY <1>3, <2>3, <2>6, <3>1, ReadFrame DEF Journeys
  <2> QED
    BY <2>7, <2>8 DEF Journeys
<1> QED
  BY <1>5, <1>6

\* A reply on the wire is under way and the only one of its id.
LEMMA ReplyOnce ==
  ASSUME Journeys, NEW h \in Conns, NEW i \in 1 .. Len(s2c[h]), NEW m, m = s2c[h][i]
  PROVE  /\ Underway(m, h)
         /\ m.id # NoId =>
             /\ \A n \in 1 .. Len(s2c[h]) : s2c[h][n].id = m.id => n = i
             /\ \A s \in sends : s.reply.id # m.id
  BY DEF Journeys, BackInv, Underway

\* A reply that is written is the only one of its id on the wire.
LEMMA ReplyWrittenOnce ==
  ASSUME TypeOK, Journeys, NEW j \in sends, NEW k \in Conns, j.conn = k,
         j.reply \in ReplySet, \A x \in Ids : Same(x), sends' = sends \ {j},
         s2c' = [s2c EXCEPT ![k] = Append(s2c[k], j.reply)]
  PROVE  BackInv'
<1>1. s2c \in [Conns -> Seq(ReplySet)]
  BY DEF TypeOK
<1>2. s2c'[k] = Append(s2c[k], j.reply) /\ \A h \in Conns \ {k} : s2c'[h] = s2c[h]
  BY <1>1
<1>3. /\ Len(s2c[k]) \in Nat /\ Len(s2c'[k]) = Len(s2c[k]) + 1
      /\ s2c'[k][Len(s2c[k]) + 1] = j.reply
      /\ \A n \in 1 .. Len(s2c[k]) : s2c'[k][n] = s2c[k][n]
  BY <1>1, <1>2
<1>4. Underway(j.reply, k) /\ Underway(j.reply, k)'
  <2>1. Underway(j.reply, k)
    BY DEF Journeys, SendInv
  <2> QED
    BY <2>1, UnderwayFrame
<1>5. \A s \in sends' : j.reply.id # NoId => s.reply.id # j.reply.id
  BY DEF Journeys, SendInv
<1> SUFFICES ASSUME NEW h \in Conns, NEW i \in 1 .. Len(s2c'[h]),
                    NEW m, m = s2c'[h][i]
             PROVE  /\ Underway(m, h)'
                    /\ m.id # NoId =>
                        /\ \A n \in 1 .. Len(s2c'[h]) : s2c'[h][n].id = m.id => n = i
                        /\ \A s \in sends' : s.reply.id # m.id
  BY DEF BackInv, Underway
<1>6. CASE h # k
  <2>1. s2c'[h] = s2c[h]
    BY <1>2, <1>6
  <2>2. i \in 1 .. Len(s2c[h]) /\ m = s2c[h][i]
    BY <2>1
  <2>3. /\ Underway(m, h)
        /\ m.id # NoId =>
            /\ \A n \in 1 .. Len(s2c[h]) : s2c[h][n].id = m.id => n = i
            /\ \A s \in sends : s.reply.id # m.id
    BY <2>2, ReplyOnce
  <2>4. Underway(m, h)'
    BY <2>3, UnderwayFrame
  <2> QED
    BY <2>1, <2>3, <2>4
<1>7. CASE h = k /\ i = Len(s2c[k]) + 1
  <2>1. m = j.reply
    BY <1>3, <1>7
  <2>2. ASSUME m.id # NoId, NEW n \in 1 .. Len(s2c'[h]), s2c'[h][n].id = m.id PROVE n = i
    <3>1. n \in 1 .. Len(s2c[k]) => s2c[k][n].id # j.reply.id
      <4> SUFFICES ASSUME n \in 1 .. Len(s2c[k]), s2c[k][n].id = j.reply.id PROVE FALSE
        OBVIOUS
      <4> QED
        BY <2>1, <2>2 DEF Journeys, BackInv
    <3> QED
      BY <1>3, <1>7, <2>1, <2>2, <3>1
  <2> QED
    BY <1>4, <1>5, <1>7, <2>1, <2>2
<1>8. CASE h = k /\ i # Len(s2c[k]) + 1
  <2>1. i \in 1 .. Len(s2c[h]) /\ m = s2c[h][i]
    BY <1>3, <1>8
  <2>2. /\ Underway(m, h)
        /\ m.id # NoId =>
            /\ \A n \in 1 .. Len(s2c[h]) : s2c[h][n].id = m.id => n = i
            /\ \A s \in sends : s.reply.id # m.id
    BY <2>1, ReplyOnce
  <2>3. Underway(m, h)'
    BY <2>2, UnderwayFrame
  <2>4. ASSUME m.id # NoId, NEW n \in 1 .. Len(s2c'[h]), s2c'[h][n].id = m.id PROVE n = i
    <3>1. n # Len(s2c[k]) + 1
      BY <1>3, <1>8, <2>2, <2>4
    <3>2. n \in 1 .. Len(s2c[k]) /\ s2c[k][n].id = m.id
      BY <1>3, <1>8, <2>4, <3>1
    <3> QED
      BY <1>8, <2>2, <2>4, <3>2
  <2> QED
    BY <2>3, <2>2, <2>4
<1> QED
  BY <1>6, <1>7, <1>8

\* A reply moves from its send event to the wire, or is lost with the connection.
LEMMA WriteReplyStep ==
  ASSUME TypeOK, Journeys, NEW j \in sends, SendReply(j)
  PROVE  Journeys'
<1> DEFINE k == j.conn
<1>1. k \in Conns /\ j.reply \in ReplySet /\ \A i \in handlers : i.id \in Ids
  BY DEF TypeOK
<1>2. /\ UNCHANGED <<on, decided, told, pending>> /\ UNCHANGED c2s
      /\ phase' = phase /\ handlers' = handlers /\ sends' = sends \ {j}
      /\ replies' = replies
  BY DEF SendReply, netVars, clientVars
<1>3. \A x \in Ids : Same(x)
  BY <1>2, SameAll
<1>4. CASE s2c' = s2c
  BY <1>1, <1>2, <1>3, <1>4, WireAlone, BackAlone, QuietStep
<1>5. CASE s2c' = [s2c EXCEPT ![k] = Append(s2c[k], j.reply)]
  <2>1. CallInv' /\ IdInv'
    BY <1>2, <1>3, CallFrame DEF Journeys
  <2>2. WireInv'
    BY <1>2, WireAlone, WireFrame DEF Journeys
  <2>3. HandlerInv'
    BY <1>2, HandlerFrame DEF Journeys
  <2>4. SendInv'
    BY <1>2, <1>3, SendFrame DEF Journeys
  <2>5. ReadInv'
    BY <1>2, <1>3, ReadFrame DEF Journeys
  <2>6. BackInv'
    BY <1>1, <1>2, <1>3, <1>5, ReplyWrittenOnce
  <2> QED
    BY <2>1, <2>2, <2>3, <2>4, <2>5, <2>6 DEF Journeys
<1> QED
  BY <1>4, <1>5 DEF SendReply, Push

\* A refusal sends an error reply, which has no id and goes to another program.
LEMMA RefusalStep ==
  ASSUME Inv, Journeys, NEW k \in Conns, Refuse(k)
  PROVE  Journeys'
<1>0. TypeOK
  BY DEF Inv
<1>1. k \in Foreign
  <2>1. k \in Own => ConnInv(k)
    BY DEF Inv
  <2> QED
    BY <2>1 DEF Refuse, Readable, MayReceive, ConnInv, Agree, Own
<1>2. /\ UNCHANGED <<on, decided, told, pending>> /\ UNCHANGED c2s /\ UNCHANGED s2c
      /\ phase' = phase /\ handlers' = handlers /\ replies' = replies
  BY DEF Refuse, netVars, clientVars
<1>3. \A j \in sends' : j \in sends \/ (j.reply.id = NoId /\ j.conn = k)
  BY DEF Refuse, Sending, Reply
<1>4. sends \subseteq sends'
  BY DEF Refuse
<1>5. \A x \in Ids : Same(x)
  BY <1>2, SameAll
<1>6. CallInv' /\ IdInv'
  BY <1>2, <1>5, CallFrame DEF Journeys
<1>7. WireInv'
  BY <1>0, <1>2, WireAlone, WireFrame DEF Journeys
<1>8. HandlerInv'
  BY <1>2, HandlerFrame DEF Journeys
<1>9. SendInv'
  <2>1. \A j \in sends : Underway(j.reply, j.conn)'
    BY <1>5, UnderwayFrame DEF Journeys, SendInv
  <2>2. \A j \in sends' : Underway(j.reply, j.conn)'
    BY <1>1, <1>3, <2>1 DEF Underway
  <2>3. \A i, j \in sends' : i.reply.id = j.reply.id /\ i.reply.id # NoId => i = j
    BY <1>3 DEF Journeys, SendInv
  <2> QED
    BY <2>2, <2>3 DEF SendInv
<1>10. BackInv'
  BY <1>0, <1>2, <1>3, <1>5, BackAlone, BackFrame DEF Journeys
<1>11. ReadInv'
  BY <1>2, <1>5, ReadFrame DEF Journeys
<1> QED
  BY <1>6, <1>7, <1>8, <1>9, <1>10, <1>11 DEF Journeys

\* A request is answered: the reply is queued, and there was none before.
LEMMA AnswerStep ==
  ASSUME TypeOK, Journeys, NEW x \in Ids, NEW k \in Conns, on[x] = k,
         decided[x] = NoAnswer, NEW a \in Answers, NEW nr,
         sends' = sends \union {Sending(k, Reply(x, a), nr)},
         decided' = [decided EXCEPT ![x] = a],
         UNCHANGED <<on, told, pending>>, UNCHANGED <<phase, replies>>, UNCHANGED s2c
  PROVE  CallInv' /\ IdInv' /\ SendInv' /\ BackInv' /\ ReadInv'
<1> DEFINE new == Sending(k, Reply(x, a), nr)
<1>1. k # NoConn /\ x # NoId /\ a # NoAnswer
  BY ConnAssumption, IdAssumption DEF Answers, NoAnswer
<1>2. told[x] = NoAnswer /\ (x \in Calls => x \in pending /\ phase[x] = "sent")
  BY <1>1 DEF Journeys, CallInv, IdInv
<1>3. decided'[x] = a /\ \A y \in Ids \ {x} : decided'[y] = decided[y]
  BY DEF TypeOK
<1>4. \A y \in Ids \ {x} : Same(y)
  BY <1>3 DEF Same
<1>5. /\ \A j \in sends : j.reply.id # x
      /\ \A h \in Conns : \A i \in 1 .. Len(s2c[h]) : s2c[h][i].id # x
      /\ \A m \in replies : m.id # x
  BY NoReplyYet
<1>6. new.reply = Reply(x, a) /\ new.conn = k /\ new.reply.id = x /\ new.reply.outcome = a
  BY DEF Sending, Reply
<1>7. \A j \in sends' : j \in sends \/ j = new
  OBVIOUS
<1> HIDE DEF new
<1>8. CallInv'
  BY <1>2, <1>3 DEF Journeys, CallInv, Ids
<1>9. IdInv'
  BY <1>1, <1>3 DEF Journeys, IdInv
<1>10. SendInv'
  <2>1. \A j \in sends : Underway(j.reply, j.conn)'
    BY <1>4, <1>5, UnderwayFrame DEF Journeys, SendInv
  <2>2. \A j \in sends' : Underway(j.reply, j.conn)'
    <3> SUFFICES ASSUME NEW j \in sends' PROVE Underway(j.reply, j.conn)'
      OBVIOUS
    <3>1. CASE j \in sends
      BY <2>1, <3>1
    <3>2. CASE j = new
      BY <1>2, <1>3, <1>6, <3>2 DEF Underway
    <3> QED
      BY <1>7, <3>1, <3>2
  <2>3. \A i, j \in sends' : i.reply.id = j.reply.id /\ i.reply.id # NoId => i = j
    BY <1>5, <1>6, <1>7 DEF Journeys, SendInv
  <2> QED
    BY <2>2, <2>3 DEF SendInv
<1>11. BackInv'
  <2>1. \A j \in sends' : j \in sends \/ j.reply.id = x
    BY <1>6, <1>7
  <2>2. \A h \in Conns : \A i \in 1 .. Len(s2c'[h]) :
            s2c'[h][i].id # x /\ (s2c'[h][i].id \in Ids => Same(s2c'[h][i].id))
    BY <1>4, <1>5
  <2> QED
    BY <2>1, <2>2, BackAlone, BackFrame DEF Journeys
<1>12. ReadInv'
  BY <1>4, <1>5, ReadFrame DEF Journeys
<1> QED
  BY <1>8, <1>9, <1>10, <1>11, <1>12

\* The request at the head of a queue is the only one of its id.
LEMMA WireHeadOnce ==
  ASSUME TypeOK, Journeys, NEW k \in Conns, c2s[k] # <<>>, c2s' = Pop(c2s, k),
         NEW x \in Ids, x = Head(c2s[k])
  PROVE  /\ on[x] = k /\ decided[x] = NoAnswer
         /\ \A h \in Conns : Kept(c2s[h], c2s'[h], Ids)
         /\ \A h \in Conns : \A i \in 1 .. Len(c2s'[h]) : c2s'[h][i] # x
<1>1. c2s \in [Conns -> Seq(Ids \union {Leftover})]
  BY DEF TypeOK
<1>2. 1 \in 1 .. Len(c2s[k]) /\ c2s[k][1] = x
  BY <1>1
<1>3. /\ on[x] = k /\ decided[x] = NoAnswer
      /\ \A n \in 1 .. Len(c2s[k]) : c2s[k][n] = x => n = 1
  BY <1>2 DEF Journeys, WireInv
<1>4. c2s'[k] = Tail(c2s[k]) /\ \A h \in Conns \ {k} : c2s'[h] = c2s[h]
  BY <1>1 DEF Pop
<1>5. \A h \in Conns : Kept(c2s[h], c2s'[h], Ids)
  BY <1>1, <1>4, KeptSame, KeptTail
<1>6. ASSUME NEW h \in Conns, NEW i \in 1 .. Len(c2s'[h]) PROVE c2s'[h][i] # x
  <2>1. CASE h = k
    <3>1. i + 1 \in 1 .. Len(c2s[k]) /\ c2s'[k][i] = c2s[k][i + 1] /\ i + 1 # 1
      BY <1>1, <1>4, <1>6, <2>1
    <3> QED
      BY <1>3, <2>1, <3>1
  <2>2. CASE h # k
    BY <1>3, <1>4, <1>6, <2>2 DEF Journeys, WireInv
  <2> QED
    BY <2>1, <2>2
<1> QED
  BY <1>3, <1>5, <1>6

\* The server reads a request: it goes to its handlers, or is answered at once.
LEMMA AcceptedStep ==
  ASSUME TypeOK, Journeys, NEW k \in Conns, Accept(k)
  PROVE  Journeys'
<1> DEFINE r == Head(c2s[k])
<1>1. r \in Ids /\ c2s[k] # <<>> /\ c2s' = Pop(c2s, k)
  BY DEF Accept, Readable
<1>2. PICK n \in 0 .. MaxHandlers : Resolve(k, r, n)
  BY DEF Accept
<1>3. /\ UNCHANGED <<on, told, pending>> /\ UNCHANGED <<phase, replies>> /\ UNCHANGED s2c
  BY DEF Accept, clientVars
<1>4. /\ on[r] = k /\ decided[r] = NoAnswer
      /\ \A h \in Conns : Kept(c2s[h], c2s'[h], Ids)
      /\ \A h \in Conns : \A i \in 1 .. Len(c2s'[h]) : c2s'[h][i] # r
  BY <1>1, WireHeadOnce
<1>5. \A j \in handlers' : j \in handlers \/ (j.conn = k /\ j.id = r)
  BY <1>2 DEF Resolve, Handler
<1>6. \A y \in Ids \ {r} : decided'[y] = decided[y]
  BY <1>2 DEF Resolve, TypeOK
<1>7. HandlerInv'
  BY <1>3, <1>4, <1>5 DEF Journeys, HandlerInv
<1>8. WireInv'
  <2>1. \A h \in Conns : \A i \in 1 .. Len(c2s'[h]) : c2s'[h][i] \in Ids =>
             /\ on'[c2s'[h][i]] = on[c2s'[h][i]]
             /\ decided'[c2s'[h][i]] = decided[c2s'[h][i]]
             /\ \A j \in handlers' : j \in handlers \/ j.id # c2s'[h][i]
    BY <1>3, <1>4, <1>5, <1>6
  <2> QED
    BY <1>4, <2>1, WireFrame DEF Journeys
<1>9. CASE n = 0
  <2>1. /\ sends' = sends \union {Sending(k, Reply(r, "fail"), 0)}
        /\ decided' = [decided EXCEPT ![r] = "fail"] /\ "fail" \in Answers
    BY <1>2, <1>9 DEF Resolve, Answers
  <2>2. CallInv' /\ IdInv' /\ SendInv' /\ BackInv' /\ ReadInv'
    BY <1>1, <1>3, <1>4, <2>1, AnswerStep
  <2> QED
    BY <1>7, <1>8, <2>2 DEF Journeys
<1>10. CASE n # 0
  <2>1. sends' = sends /\ decided' = decided
    BY <1>2, <1>10 DEF Resolve
  <2>2. \A x \in Ids : Same(x)
    BY <1>3, <2>1, SameAll
  <2>3. CallInv' /\ IdInv'
    BY <1>3, <2>2, CallFrame DEF Journeys
  <2>4. SendInv'
    BY <2>1, <2>2, SendFrame DEF Journeys
  <2>5. BackInv'
    BY <1>3, <2>1, <2>2, BackAlone, BackFrame DEF Journeys
  <2>6. ReadInv'
    BY <1>3, <2>2, ReadFrame DEF Journeys
  <2> QED
    BY <1>7, <1>8, <2>3, <2>4, <2>5, <2>6 DEF Journeys
<1> QED
  BY <1>9, <1>10

\* A handler ends; the first that sets a status answers.
LEMMA HandledStep ==
  ASSUME TypeOK, Journeys, NEW j \in handlers, Handle(j)
  PROVE  Journeys'
<1>1. j.id \in Ids /\ j.conn \in Conns /\ on[j.id] = j.conn /\ \A i \in handlers : i.id \in Ids
  BY DEF TypeOK, Journeys, HandlerInv
<1>2. /\ UNCHANGED <<on, told, pending>> /\ UNCHANGED <<phase, replies>> /\ UNCHANGED s2c
      /\ UNCHANGED c2s /\ handlers' \subseteq handlers
  BY DEF Handle, clientVars
<1>3. CASE sends' = sends /\ decided' = decided
  <2>1. \A x \in Ids : Same(x)
    BY <1>2, <1>3, SameAll
  <2> QED
    BY <1>1, <1>2, <1>3, <2>1, WireAlone, BackAlone, QuietStep
<1>4. ASSUME NEW a \in Answers, decided[j.id] = NoAnswer,
             sends' = sends \union {Sending(j.conn, Reply(j.id, a), j.nr)},
             decided' = [decided EXCEPT ![j.id] = a]
      PROVE  Journeys'
  <2>1. CallInv' /\ IdInv' /\ SendInv' /\ BackInv' /\ ReadInv'
    BY <1>1, <1>2, <1>4, AnswerStep
  <2>2. \A y \in Ids \ {j.id} : decided'[y] = decided[y]
    BY <1>4 DEF TypeOK
  <2>3. \A h \in Conns : \A i \in 1 .. Len(c2s[h]) : c2s[h][i] # j.id
    BY <1>1 DEF Journeys, WireInv
  <2>4. \A h \in Conns : \A i \in 1 .. Len(c2s'[h]) : c2s'[h][i] \in Ids =>
             /\ on'[c2s'[h][i]] = on[c2s'[h][i]]
             /\ decided'[c2s'[h][i]] = decided[c2s'[h][i]]
             /\ \A i1 \in handlers' : i1 \in handlers \/ i1.id # c2s'[h][i]
    BY <1>2, <2>2, <2>3
  <2>5. WireInv'
    BY <1>2, <2>4, WireAlone, WireFrame DEF Journeys
  <2>6. HandlerInv'
    BY <1>2, HandlerFrame DEF Journeys
  <2> QED
    BY <2>1, <2>5, <2>6 DEF Journeys
<1> QED
  BY <1>3, <1>4 DEF Handle, AcquireReply

-----------------------------------------------------------------------------
(* The theorems about journeys.                                            *)

\* Every action keeps the journeys of all ids in order.
LEMMA JourneysStep == Inv /\ Journeys /\ [Next]_vars => Journeys'
<1> SUFFICES ASSUME Inv, Journeys, [Next]_vars PROVE Journeys'
  OBVIOUS
<1>0. TypeOK
  BY DEF Inv
<1>1. CASE UNCHANGED vars
  <2>1. /\ UNCHANGED <<on, decided, told, pending>> /\ UNCHANGED c2s /\ UNCHANGED s2c
        /\ phase' = phase /\ handlers' = handlers /\ sends' = sends /\ replies' = replies
    BY <1>1 DEF vars, netVars, clientVars, serverVars
  <2>2. \A j \in handlers : j.id \in Ids
    BY <1>0 DEF TypeOK
  <2> QED
    BY <1>0, <2>1, <2>2, SameAll, WireAlone, BackAlone, QuietStep
<1>2. ASSUME NEW c \in Calls, ClientStep(c) PROVE Journeys'
  <2>1. CASE Dial(c)
    BY <1>0, <2>1, NetStep
  <2> QED
    BY <1>0, <1>2, <2>1, EarlyCallStep, WriteCallStep DEF ClientStep
<1>3. ASSUME NEW j \in sends, SendStep(j) PROVE Journeys'
  <2>1. CASE SendGone(j) \/ SendFails(j) \/ SendRefused(j)
    BY <1>0, <2>1, NetStep
  <2> QED
    BY <1>0, <1>3, <2>1, WriteReplyStep DEF SendStep
<1>4. CASE ClientHangup
  BY <1>0, <1>4, NetStep
<1>5. ASSUME NEW k \in Conns, ReceiveStep(k) PROVE Journeys'
  BY <1>0, <1>5, AcceptedStep, UnparsedStep, RefusalStep DEF ReceiveStep
<1>6. ASSUME NEW k \in Conns, ServerHangup(k) PROVE Journeys'
  BY <1>0, <1>6, NetStep
<1> QED
  BY <1>0, <1>1, <1>2, <1>3, <1>4, <1>5, <1>6, DeliverStep, HandledStep, ClientReadStep,
     BreakStep, ForeignReadStep, ForeignSendStep
  DEF Next

\* In every reachable state each request and each reply is in one place, known
\* to those who must know of it.
THEOREM JourneysInOrder == Spec => [](Inv /\ Journeys)
<1>1. Init => Inv /\ Journeys
  BY InvInit, JourneysInit
<1>2. (Inv /\ Journeys) /\ [Next]_vars => (Inv /\ Journeys)'
  BY InvStep, JourneysStep
<1> QED
  BY <1>1, <1>2, PTL DEF Spec

\* Every reply on its way to a zapata client finds its call in pending_messages,
\* for any number of calls, handlers, connections and losses.
THEOREM RepliesFindTheirCalls == Spec => []ReplyExpected
<1>1. Inv /\ Journeys => ReplyExpected
  <2> SUFFICES ASSUME Inv, Journeys, NEW k \in Own, NEW i \in 1 .. Len(s2c[k])
               PROVE  s2c[k][i].id \in pending
    BY DEF ReplyExpected
  <2>1. k \in Conns /\ k \notin Foreign /\ k # NoConn
    BY ConnAssumption DEF Own
  <2>2. Underway(s2c[k][i], k)
    BY <2>1 DEF Journeys, BackInv
  <2>3. s2c[k][i].id \in Ids /\ on[s2c[k][i].id] = k
    BY <2>1, <2>2 DEF Underway
  <2>4. s2c[k][i].id \in Calls
    BY <2>1, <2>3 DEF Journeys, IdInv, Ids
  <2> QED
    BY <2>1, <2>2, <2>4 DEF Underway
<1> QED
  BY <1>1, JourneysInOrder, PTL

\* A reply that is delivered tells the answer that was settled on, once.
LEMMA DeliverTells ==
  ASSUME TypeOK, Journeys, NEW m \in replies, Deliver(m)
  PROVE  (\E r \in Ids : RR!Tell(r)) \/ UNCHANGED <<decided, told>>
<1>1. m \in ReplySet /\ decided' = decided
  BY DEF TypeOK, Deliver, serverVars
<1>2. m.id \in Ids /\ decided[m.id] = m.outcome /\ told[m.id] = NoAnswer
  BY DEF Journeys, ReadInv, Ids
<1>3. told' = told \/ told' = [told EXCEPT ![m.id] = m.outcome]
  BY DEF Deliver, ContextReply
<1>4. decided[m.id] # NoAnswer
  BY <1>1, <1>2, ReplyAnswers
<1> QED
  BY <1>1, <1>2, <1>3, <1>4 DEF RR!Tell

\* So does one that another program reads.
LEMMA ForeignTold ==
  ASSUME TypeOK, Journeys, NEW k \in Conns, ForeignReceive(k)
  PROVE  (\E r \in Ids : RR!Tell(r)) \/ UNCHANGED <<decided, told>>
<1> DEFINE m == Head(s2c[k])
<1>1. s2c[k] # <<>> /\ s2c' = Pop(s2c, k) /\ decided' = decided
  BY DEF ForeignReceive, serverVars
<1>2. CASE m.id = NoId
  BY <1>1, <1>2 DEF ForeignReceive
<1>3. CASE m.id # NoId
  <2>1. m \in ReplySet /\ m.id \in Ids /\ Underway(m, k)
    BY <1>1, <1>3, HeadOnce
  <2>2. decided[m.id] = m.outcome /\ told[m.id] = NoAnswer /\ decided[m.id] # NoAnswer
    BY <1>3, <2>1, ReplyAnswers DEF Underway
  <2>3. told' = [told EXCEPT ![m.id] = m.outcome]
    BY <1>3 DEF ForeignReceive
  <2> QED
    BY <1>1, <2>1, <2>2, <2>3 DEF RR!Tell
<1> QED
  BY <1>2, <1>3

\* A call that cannot be sent is told so, once, and was not answered.
LEMMA UnsentGivesUp ==
  ASSUME Journeys, NEW c \in Calls, Unresolved(c) \/ DialFails(c)
  PROVE  \E r \in Ids : RR!GiveUp(r)
<1>1. c \in Ids /\ phase[c] # "sent"
  BY DEF Ids, Unresolved, DialFails
<1>2. on[c] = NoConn /\ told[c] = NoAnswer /\ decided[c] = NoAnswer
  BY <1>1 DEF Journeys, CallInv, IdInv
<1>3. decided' = decided /\ told' = [told EXCEPT ![c] = "unavailable"]
  BY DEF Unresolved, DialFails, ContextReply, serverVars
<1> QED
  BY <1>1, <1>2, <1>3 DEF RR!GiveUp

\* Whoever answers, a handler or resolve() for want of one, decides alone.
LEMMA AnswerDecides ==
  ASSUME TypeOK, Journeys,
         (\E k \in Conns : Accept(k)) \/ (\E j \in handlers : Handle(j))
  PROVE  (\E r \in Ids : RR!Decide(r)) \/ UNCHANGED <<decided, told>>
<1>1. ASSUME NEW k \in Conns, Accept(k)
      PROVE  (\E r \in Ids : RR!Decide(r)) \/ UNCHANGED <<decided, told>>
  <2> DEFINE r == Head(c2s[k])
  <2>1. r \in Ids /\ c2s[k] # <<>> /\ c2s' = Pop(c2s, k) /\ told' = told
    BY <1>1 DEF Accept, Readable, clientVars
  <2>2. decided[r] = NoAnswer
    BY <2>1, WireHeadOnce
  <2>3. decided' = decided \/ decided' = [decided EXCEPT ![r] = "fail"]
    BY <1>1 DEF Accept, Resolve
  <2> QED
    BY <2>1, <2>2, <2>3 DEF RR!Decide, Answers
<1>2. ASSUME NEW j \in handlers, Handle(j)
      PROVE  (\E r \in Ids : RR!Decide(r)) \/ UNCHANGED <<decided, told>>
  <2>1. j.id \in Ids /\ told' = told
    BY <1>2 DEF TypeOK, Handle, clientVars
  <2>2. \/ decided' = decided
        \/ /\ decided[j.id] = NoAnswer
           /\ \E a \in Answers : decided' = [decided EXCEPT ![j.id] = a]
    BY <1>2 DEF Handle, AcquireReply
  <2> QED
    BY <2>1, <2>2 DEF RR!Decide
<1> QED
  BY <1>1, <1>2

\* Every step of calls, events and connections is a step of the abstract
\* conversation or does not concern it.
LEMMA StepPromised == Inv /\ Journeys /\ [Next]_vars => [RR!Next]_<<decided, told>>
<1> SUFFICES ASSUME Inv, Journeys, [Next]_vars PROVE RR!Next \/ UNCHANGED <<decided, told>>
  OBVIOUS
<1>0. TypeOK
  BY DEF Inv
<1>1. ASSUME NEW m \in replies, Deliver(m) PROVE RR!Next \/ UNCHANGED <<decided, told>>
  BY <1>0, <1>1, DeliverTells DEF RR!Next
<1>2. ASSUME NEW k \in Conns, ForeignReceive(k) PROVE RR!Next \/ UNCHANGED <<decided, told>>
  BY <1>0, <1>2, ForeignTold DEF RR!Next
<1>3. ASSUME NEW c \in Calls, Unresolved(c) \/ DialFails(c) PROVE RR!Next
  BY <1>3, UnsentGivesUp DEF RR!Next
<1>4. CASE (\E k \in Conns : Accept(k)) \/ (\E j \in handlers : Handle(j))
  BY <1>0, <1>4, AnswerDecides DEF RR!Next
<1>5. ASSUME NEW c \in Calls,
             MakeCall(c) \/ Register(c) \/ Dial(c) \/ Transmit(c) \/ TransmitFails(c)
      PROVE  UNCHANGED <<decided, told>>
  BY <1>5 DEF MakeCall, Register, Dial, Transmit, TransmitFails, clientVars, serverVars
<1>6. ASSUME NEW j \in sends, SendStep(j) PROVE UNCHANGED <<decided, told>>
  BY <1>6 DEF SendStep, SendGone, SendReply, SendFails, SendRefused, clientVars
<1>7. ASSUME NEW k \in Conns,
             \/ ClientReceive(k) \/ SyntaxError(k) \/ Refuse(k) \/ ServerHangup(k) \/ Break(k)
             \/ \E r \in Requests : ForeignSend(k, r)
      PROVE  UNCHANGED <<decided, told>>
  BY <1>7 DEF ClientReceive, SyntaxError, Refuse, ServerHangup, Break, ForeignSend,
              clientVars, serverVars
<1>8. CASE ClientHangup \/ UNCHANGED vars
  BY <1>8 DEF ClientHangup, vars, clientVars, serverVars
<1> QED
  BY <1>1, <1>2, <1>3, <1>4, <1>5, <1>6, <1>7, <1>8 DEF Next, ClientStep, ReceiveStep

\* The events, the stream states and the table of pending messages implement
\* the abstract conversation: of all handlers of a request one answers, and
\* whoever asked is told that answer, or that there was nobody to ask, once.
THEOREM ConversationPromised == Spec => Promised
<1>1. Init => RR!Init
  BY DEF Init, RR!Init
<1>2. Spec => [][RR!Next]_<<decided, told>>
  BY JourneysInOrder, StepPromised, PTL DEF Spec
<1> QED
  BY <1>1, <1>2, PTL DEF Spec, Promised, RR!Spec, RR!vars
-----------------------------------------------------------------------------
(* Nothing is forgotten.  Journeys says that a request, its handlers and   *)
(* its reply are in one place each; here it is shown that as long as the   *)
(* connection is up and the caller has not been told, one of them is       *)
(* somewhere, and that whoever must take it on can.                        *)

\* Where a call that was written is.
Somewhere(c) ==
    \/ c2s[on[c]] # <<>> /\ Head(c2s[on[c]]) = c
    \/ decided[c] = NoAnswer /\ \E j \in handlers : j.id = c
    \/ \E j \in sends : j.reply.id = c
    \/ s2c[on[c]] # <<>> /\ Head(s2c[on[c]]).id = c
    \/ \E m \in replies : m.id = c

Traced(c) == on[c] \in open /\ told[c] = NoAnswer => Somewhere(c)

\* A client stream waits for something under way, or for what it will not get.
Awaited(k) == k \in open /\ cst[k] = "WAITING" => Busy(k) \/ \E c \in Discards : on[c] = k

\* A connection that is up is the client's current one, and the server polls it.
Sole(k) == k \in open => cur = k /\ k \in reg

\* Connections not opened yet have not been used.
Unused ==
    /\ \A c \in Calls : on[c] \in opened \union {NoConn}
    /\ \A k \in Own \ opened : cst[k] # "WAITING"

\* The inductive invariant, on top of Inv and Journeys.
Followed ==
    /\ Unused
    /\ \A k \in Own : Sole(k) /\ Awaited(k)
    /\ \A c \in Calls \ Discards : Traced(c)

\* Nothing has been written at first.
LEMMA FollowedInit == Init => Followed
<1> SUFFICES ASSUME Init PROVE Followed
  OBVIOUS
<1>1. Unused
  BY DEF Init, Unused, Own, Ids
<1>2. \A k \in Own : Sole(k) /\ Awaited(k)
  BY DEF Init, Own, Sole, Awaited
<1>3. \A c \in Calls \ Discards : Traced(c)
  BY ConnAssumption DEF Init, Traced, Ids
<1> QED BY <1>1, <1>2, <1>3 DEF Followed

\* A call travels on a connection between zapata processes, and its reply and its
\* handlers are where the call was written.
LEMMA CallFacts ==
  ASSUME Inv, Journeys
  PROVE  /\ \A c \in Calls : on[c] \in Own \union {NoConn}
         /\ \A j \in sends : j.reply.id \in Calls => on[j.reply.id] = j.conn
         /\ \A j \in handlers : on[j.id] = j.conn
         /\ NoConn \notin open
<1>1. \A c \in Calls : on[c] \in Own \union {NoConn} /\ c # NoId
  BY IdAssumption DEF Journeys, IdInv, Ids
<1>2. ASSUME NEW j \in sends, j.reply.id \in Calls PROVE on[j.reply.id] = j.conn
  BY <1>1, <1>2 DEF Journeys, SendInv, Underway
<1>3. \A j \in handlers : on[j.id] = j.conn
  BY DEF Journeys, HandlerInv
<1>4. NoConn \notin open
  BY ConnAssumption DEF Inv, TypeOK
<1> QED BY <1>1, <1>2, <1>3, <1>4

\* Steps that take nothing off a connection that stays up, except from the event
\* that tells the caller.
LEMMA FollowedFrame ==
  ASSUME Inv, Journeys, Followed,
         \A c \in Calls : on'[c] = on[c] \/ (on[c] = NoConn /\ on'[c] \in opened \ open'),
         \A c \in Calls : told'[c] = NoAnswer => told[c] = NoAnswer,
         \A k \in Own : k \in open' =>
             /\ cur' = cur /\ (k \in reg => k \in reg')
             /\ c2s'[k] = c2s[k] /\ s2c'[k] = s2c[k] /\ cst'[k] = cst[k],
         handlers \subseteq handlers', decided' = decided,
         \A j \in sends : j \in sends' \/ j.conn \notin Own \/ j.conn \notin open',
         \A m \in replies : m \in replies' \/ m.id \in Discards \/ told'[m.id] # NoAnswer,
         opened' = opened, open' \subseteq open, \A k \in Own \ opened : cst'[k] = cst[k]
  PROVE  Followed'
<1>0. /\ \A c \in Calls : on[c] \in Own \union {NoConn}
      /\ \A j \in sends : j.reply.id \in Calls => on[j.reply.id] = j.conn
      /\ NoConn \notin open
  BY CallFacts
<1>1. Unused'
  BY DEF Followed, Unused
<1>2. ASSUME NEW k \in Own PROVE Sole(k)' /\ Awaited(k)'
  <2>1. Sole(k)'
    BY DEF Followed, Sole
  <2>2. SUFFICES ASSUME k \in open', cst'[k] = "WAITING"
                 PROVE  Busy(k)' \/ \E c \in Discards : on'[c] = k
    BY <2>1 DEF Awaited
  <2>3. Busy(k) \/ \E c \in Discards : on[c] = k
    BY <2>2 DEF Followed, Awaited
  <2>4. ASSUME NEW c \in Discards, on[c] = k PROVE on'[c] = k
    BY <2>4, ConnAssumption, IdAssumption DEF Own
  <2>5. SendsOn(k) \subseteq SendsOn(k)' /\ OpenOn(k) \subseteq OpenOn(k)'
    BY <2>2 DEF SendsOn, OpenOn
  <2>6. c2s'[k] = c2s[k] /\ s2c'[k] = s2c[k]
    BY <2>2
  <2> QED BY <2>3, <2>4, <2>5, <2>6 DEF Busy
<1>3. ASSUME NEW c \in Calls \ Discards PROVE Traced(c)'
  <2>1. SUFFICES ASSUME on'[c] \in open', told'[c] = NoAnswer PROVE Somewhere(c)'
    BY DEF Traced
  <2>2. on'[c] = on[c] /\ told[c] = NoAnswer
    BY <2>1
  <2>3. on[c] \in Own /\ on[c] \in open
    BY <2>1, <2>2, <1>0
  <2>4. Somewhere(c)
    BY <2>2, <2>3 DEF Followed, Traced
  <2>5. c2s'[on[c]] = c2s[on[c]] /\ s2c'[on[c]] = s2c[on[c]]
    BY <2>1, <2>2, <2>3
  <2>6. \A j \in sends : j.reply.id = c => j \in sends'
    BY <1>0, <2>1, <2>2, <2>3
  <2>7. \A m \in replies : m.id = c => m \in replies'
    BY <2>1
  <2> QED BY <2>2, <2>4, <2>5, <2>6, <2>7 DEF Somewhere
<1> QED BY <1>1, <1>2, <1>3 DEF Followed

\* Steps of the client that write and read nothing, and those that fail to write.
LEMMA FollowedClient ==
  ASSUME Inv, Journeys, Followed, NEW c \in Calls,
         MakeCall(c) \/ Unresolved(c) \/ Register(c) \/ DialFails(c) \/ TransmitFails(c)
  PROVE  Followed'
<1>0. /\ told \in [Ids -> Answers \union {NoAnswer, "unavailable"}] /\ on \in [Ids -> Conns \union {NoConn}]
      /\ cst \in [Conns -> States] /\ c \in Ids /\ Calls \subseteq Ids /\ Own \subseteq Conns
      /\ \A k \in Own : cur = k => k \in opened
  BY DEF Inv, TypeOK, Ids, Own, ConnInv, Agree
<1>1. /\ handlers' = handlers /\ decided' = decided /\ sends' = sends /\ replies' = replies
      /\ opened' = opened /\ open' = open /\ reg' = reg /\ c2s' = c2s /\ s2c' = s2c
  BY DEF MakeCall, Unresolved, Register, DialFails, TransmitFails, netVars, clientVars, serverVars
<1>2. CASE TransmitFails(c)
  <2>1. cur \in Own /\ cur \notin open /\ cur \in opened
    BY <1>0, <1>2 DEF TransmitFails, Inv, TypeOK
  <2>2. on' = [on EXCEPT ![c] = cur] /\ told' = told /\ cst' = [cst EXCEPT ![cur] = "ERRORING_OUT"]
        /\ phase[c] = "tried"
    BY <1>2 DEF TransmitFails
  <2>3. on[c] = NoConn
    BY <2>2 DEF Journeys, CallInv
  <2>4. \A x \in Calls : on'[x] = on[x] \/ (on[x] = NoConn /\ on'[x] \in opened \ open')
    BY <2>1, <2>2, <2>3, <1>0, <1>1
  <2>5. \A k \in Own : k # cur => cst'[k] = cst[k]
    BY <2>2, <1>0
  <2>6. \A k \in Own : k \notin open'
    BY <2>1, <1>1 DEF Followed, Sole
  <2> QED BY <1>1, <2>1, <2>2, <2>4, <2>5, <2>6, FollowedFrame
<1>3. CASE ~TransmitFails(c)
  <2>1. on' = on /\ cst' = cst /\ cur' = cur
    BY <1>3 DEF MakeCall, Unresolved, Register, DialFails, netVars, serverVars
  <2>2. told' = told \/ told' = [told EXCEPT ![c] = "unavailable"]
    BY <1>3 DEF MakeCall, Unresolved, Register, DialFails, ContextReply
  <2>3. \A x \in Calls : told'[x] = NoAnswer => told[x] = NoAnswer
    BY <2>2, <1>0 DEF NoAnswer
  <2> QED BY <1>1, <2>1, <2>3, FollowedFrame
<1> QED BY <1>2, <1>3

\* Losses and hangups: what they take away was on a connection that is down.
LEMMA FollowedLoss ==
  ASSUME Inv, Journeys, Followed,
         ClientHangup \/ \E k \in Conns : ServerHangup(k) \/ Break(k)
  PROVE  Followed'
<1>0. Own \subseteq Conns /\ c2s \in [Conns -> Seq(Ids \union {Leftover})]
      /\ s2c \in [Conns -> Seq(ReplySet)]
  BY DEF Inv, TypeOK, Own
<1>1. /\ handlers' = handlers /\ decided' = decided /\ sends' = sends /\ replies' = replies
      /\ opened' = opened /\ on' = on /\ told' = told /\ cst' = cst
  BY DEF ClientHangup, ServerHangup, Break, clientVars, serverVars
<1>2. CASE ClientHangup
  <2>1. \A k \in Own : k \notin open'
    BY <1>2 DEF ClientHangup, Followed, Sole
  <2>2. open' = open
    BY <1>2 DEF ClientHangup
  <2> QED BY <1>1, <2>1, <2>2, FollowedFrame
<1>3. ASSUME NEW k \in Conns, ServerHangup(k) PROVE Followed'
  <2>1. open' = open /\ cur' = cur /\ k \notin open /\ reg' = reg \ {k} /\ c2s' = c2s /\ s2c' = s2c
    BY <1>3 DEF ServerHangup
  <2> QED BY <1>1, <2>1, FollowedFrame
<1>4. ASSUME NEW k \in Conns, Break(k) PROVE Followed'
  <2>1. open' = open \ {k} /\ cur' = cur /\ reg' = reg
    BY <1>4 DEF Break
  <2>2. \A h \in Own : h # k => c2s'[h] = c2s[h] /\ s2c'[h] = s2c[h]
    BY <1>4, <1>0 DEF Break
  <2> QED BY <1>1, <2>1, <2>2, FollowedFrame
<1> QED BY <1>2, <1>3, <1>4

\* What happens on foreign connections, and send events that come to nothing: on a
\* connection between zapata processes that is up there are none of these.
LEMMA FollowedForeign ==
  ASSUME Inv, Journeys, Followed,
         \/ \E k \in Conns : \/ SyntaxError(k) \/ Refuse(k) \/ ForeignReceive(k)
                             \/ \E r \in Requests : ForeignSend(k, r)
         \/ \E j \in sends : SendGone(j) \/ SendFails(j) \/ SendRefused(j)
         \/ \E m \in replies : Deliver(m)
  PROVE  Followed'
<1>0. /\ Own \subseteq Conns /\ Calls \subseteq Ids /\ Own \intersect Foreign = {}
      /\ c2s \in [Conns -> Seq(Ids \union {Leftover})]
      /\ s2c \in [Conns -> Seq(ReplySet)]
      /\ told \in [Ids -> Answers \union {NoAnswer, "unavailable"}]
      /\ on \in [Ids -> Conns \union {NoConn}]
      /\ sends \subseteq [conn : Conns, reply : ReplySet, nr : Nat]
      /\ replies \subseteq ReplySet
  BY DEF Inv, TypeOK, Own, Ids
<1>1. /\ cur' = cur /\ open' = open /\ opened' = opened /\ cst' = cst
      /\ handlers' = handlers /\ decided' = decided
  BY DEF SyntaxError, Refuse, ForeignReceive, ForeignSend, SendGone, SendFails, SendRefused, Deliver,
         netVars, clientVars, serverVars
<1>2. ASSUME NEW k \in Conns, SyntaxError(k) PROVE Followed'
  <2>1. k \notin Own
    BY <1>2, IdAssumption DEF SyntaxError, Readable, Inv, ConnInv, Role, Agree, Ids
  <2>2. \A h \in Own : c2s'[h] = c2s[h]
    BY <2>1, <1>0, <1>2 DEF SyntaxError, Unparsed, Pop
  <2>3. s2c' = s2c /\ on' = on /\ told' = told /\ replies' = replies /\ sends' = sends /\ reg' = reg
    BY <1>2 DEF SyntaxError, clientVars, netVars
  <2> QED BY <1>1, <2>2, <2>3, FollowedFrame
<1>3. ASSUME NEW k \in Conns, Refuse(k) PROVE Followed'
  <2>1. /\ c2s' = c2s /\ s2c' = s2c /\ on' = on /\ told' = told /\ replies' = replies /\ reg' = reg
        /\ sends \subseteq sends'
    BY <1>3 DEF Refuse, clientVars, netVars
  <2> QED BY <1>1, <2>1, FollowedFrame
<1>4. ASSUME NEW k \in Conns, ForeignReceive(k) PROVE Followed'
  <2>1. c2s' = c2s /\ on' = on /\ replies' = replies /\ sends' = sends /\ reg' = reg /\ k \in Foreign
    BY <1>4 DEF ForeignReceive, netVars, serverVars
  <2>2. \A h \in Own : s2c'[h] = s2c[h]
    BY <2>1, <1>0, <1>4 DEF ForeignReceive, Pop
  <2>3. s2c[k] # <<>> /\ s2c[k] \in Seq(ReplySet)
    BY <1>0, <1>4 DEF ForeignReceive
  <2>4. Head(s2c[k]) \in ReplySet
    BY <2>3
  <2>5. \A x \in Ids : told'[x] = NoAnswer => told[x] = NoAnswer
    <3>1. told' = told \/ told' = [told EXCEPT ![Head(s2c[k]).id] = Head(s2c[k]).outcome]
      BY <1>4 DEF ForeignReceive
    <3>2. Head(s2c[k]).outcome # NoAnswer
      BY <2>4, ReplyAnswers
    <3> QED BY <3>1, <3>2, <1>0
  <2> QED BY <1>0, <1>1, <2>1, <2>2, <2>5, FollowedFrame
<1>5. ASSUME NEW k \in Conns, NEW r \in Requests, ForeignSend(k, r) PROVE Followed'
  <2>1. /\ s2c' = s2c /\ told' = told /\ replies' = replies /\ sends' = sends /\ reg' = reg
        /\ k \in Foreign /\ c2s' = Push(c2s, k, r) /\ on' = [on EXCEPT ![r] = k]
    BY <1>5 DEF ForeignSend, netVars, serverVars
  <2>2. \A h \in Own : c2s'[h] = c2s[h]
    BY <2>1, <1>0 DEF Push
  <2>3. \A x \in Calls : on'[x] = on[x]
    BY <2>1, <1>0, IdAssumption
  <2> QED BY <1>1, <2>1, <2>2, <2>3, FollowedFrame
<1>6. ASSUME NEW j \in sends, SendGone(j) \/ SendFails(j) \/ SendRefused(j) PROVE Followed'
  <2>1. /\ c2s' = c2s /\ s2c' = s2c /\ on' = on /\ told' = told /\ replies' = replies
        /\ sends' = sends \ {j} /\ (reg' = reg \/ reg' = reg \ {j.conn})
    BY <1>6 DEF SendGone, SendFails, SendRefused, clientVars, netVars
  <2>2. j.conn \in Conns
    BY <1>0
  <2>3. ASSUME j.conn \in Own PROVE j.conn \notin open
    <3>1. CASE SendGone(j) \/ SendFails(j)
      BY <3>1, <2>3 DEF SendGone, SendFails, Followed, Sole
    <3>2. CASE SendRefused(j)
      <4>1. SendsOn(j.conn) # {}
        BY DEF SendsOn
      <4>2. sst[j.conn] = "PROCESSING"
        BY <4>1, <2>3 DEF Inv, ConnInv, Agree
      <4> QED BY <3>2, <4>2 DEF SendRefused, MaySend
    <3> QED BY <1>6, <3>1, <3>2
  <2>4. \A i \in sends : i \in sends' \/ i.conn \notin Own \/ i.conn \notin open'
    BY <2>1, <2>3, <1>1
  <2>5. \A k \in Own : k \in open' => (k \in reg => k \in reg')
    BY <2>1, <2>3, <1>1
  <2> QED BY <1>1, <2>1, <2>4, <2>5, FollowedFrame
<1>7. ASSUME NEW m \in replies, Deliver(m) PROVE Followed'
  <2>1. /\ c2s' = c2s /\ s2c' = s2c /\ on' = on /\ sends' = sends /\ reg' = reg
        /\ replies' = replies \ {m}
    BY <1>7 DEF Deliver, netVars, serverVars
  <2>2. m \in ReplySet /\ m.outcome # NoAnswer /\ m.id \in Ids
    BY <1>0, ReplyAnswers DEF Journeys, ReadInv
  <2>3. IF m.id \in Discards THEN told' = told ELSE told' = [told EXCEPT ![m.id] = m.outcome]
    BY <1>7 DEF Deliver, ContextReply
  <2>4. \A x \in Ids : told'[x] = NoAnswer => told[x] = NoAnswer
    BY <2>2, <2>3, <1>0
  <2>5. \A i \in replies : i \in replies' \/ i.id \in Discards \/ told'[i.id] # NoAnswer
    BY <2>1, <2>2, <2>3, <1>0
  <2> QED BY <1>0, <1>1, <2>1, <2>4, <2>5, FollowedFrame
<1> QED BY <1>2, <1>3, <1>4, <1>5, <1>6, <1>7

\* A new connection: there was none that is up, and nothing was ever written to it.
LEMMA FollowedDial ==
  ASSUME Inv, Journeys, Followed, NEW c \in Calls, Dial(c)
  PROVE  Followed'
<1>1. PICK h \in Own \ opened :
          /\ cur' = h /\ opened' = opened \union {h} /\ open' = open \union {h} /\ reg' = reg \union {h}
  BY DEF Dial
<1>2. /\ cur = NoConn /\ UNCHANGED <<on, told, cst, c2s, s2c, handlers, sends, decided, replies>>
  BY DEF Dial, clientVars, serverVars
<1>3. \A k \in Own : k # NoConn
  BY ConnAssumption DEF Own
<1>4. \A k \in Own : k \notin open
  BY <1>2, <1>3 DEF Followed, Sole
<1>5. Unused'
  BY <1>1, <1>2 DEF Followed, Unused
<1>6. ASSUME NEW k \in Own PROVE Sole(k)' /\ Awaited(k)'
  <2>1. k \in open' => k = h
    BY <1>1, <1>4
  <2>2. cst[h] # "WAITING"
    BY DEF Followed, Unused
  <2> QED BY <2>1, <2>2, <1>1, <1>2 DEF Sole, Awaited
<1>7. ASSUME NEW x \in Calls \ Discards PROVE Traced(x)'
  <2>1. on[x] # h
    BY <1>3 DEF Followed, Unused
  <2>2. on'[x] \in open' => on[x] \in open
    BY <2>1, <1>1, <1>2
  <2> QED BY <2>2, <1>2 DEF Followed, Traced, Somewhere
<1> QED BY <1>5, <1>6, <1>7 DEF Followed

\* What is written to an empty wire is read next.
LEMMA AloneOnWire == ASSUME NEW e PROVE Append(<<>>, e) # <<>> /\ Head(Append(<<>>, e)) = e
  OBVIOUS

\* The client writes a call: on a connection that is up it is the only thing there.
LEMMA FollowedTransmit ==
  ASSUME Inv, Journeys, Followed, NEW c \in Calls, Transmit(c)
  PROVE  Followed'
<1>0. /\ on \in [Ids -> Conns \union {NoConn}] /\ cst \in [Conns -> States]
      /\ c2s \in [Conns -> Seq(Ids \union {Leftover})]
      /\ c \in Ids /\ Calls \subseteq Ids /\ Own \subseteq Conns /\ NoConn \notin Own
      /\ cur \in Own
  BY ConnAssumption DEF Inv, TypeOK, Ids, Own, Transmit
<1>1. ConnInv(cur) /\ cur \in opened
  BY <1>0 DEF Inv, ConnInv, Agree
<1>2. cst[cur] = "IDLE"
  BY <1>0, <1>1 DEF Transmit, MaySend, ConnInv, Role, Agree
<1>3. c2s[cur] = <<>>
  BY <1>0, <1>1, <1>2, IdleMeansQuiet
<1>4. UNCHANGED <<cur, opened, open, reg, told, s2c, handlers, sends, decided, replies>>
  BY DEF Transmit, netVars, serverVars
<1>5. /\ on' = [on EXCEPT ![c] = cur] /\ phase[c] = "tried"
      /\ cst' = [cst EXCEPT ![cur] = AfterSend(cst[cur])]
      /\ c2s' = IF cur \in open THEN [c2s EXCEPT ![cur] = Append(c2s[cur], c)] ELSE c2s
  BY DEF Transmit, Push
<1>6. on[c] = NoConn
  BY <1>5 DEF Journeys, CallInv
<1>7. cur \in open => c2s'[cur] # <<>> /\ Head(c2s'[cur]) = c
  <2>1. Append(c2s[cur], c) # <<>> /\ Head(Append(c2s[cur], c)) = c
    BY <1>3, AloneOnWire
  <2> QED BY <2>1, <1>0, <1>5
<1>8. \A k \in Own : k # cur => c2s'[k] = c2s[k] /\ cst'[k] = cst[k]
  BY <1>0, <1>5
<1>9. on'[c] = cur /\ \A x \in Calls : x # c => on'[x] = on[x]
  BY <1>0, <1>5
<1>10. Unused'
  <2>1. \A x \in Calls : on'[x] \in opened \union {NoConn}
    BY <1>1, <1>9 DEF Followed, Unused
  <2> QED BY <2>1, <1>1, <1>4, <1>8 DEF Followed, Unused
<1>11. ASSUME NEW k \in Own PROVE Sole(k)' /\ Awaited(k)'
  <2>1. Sole(k)'
    BY <1>4 DEF Followed, Sole
  <2>2. CASE k = cur
    BY <2>1, <2>2, <1>4, <1>7 DEF Awaited, Busy
  <2>3. CASE k # cur
    <3>1. Busy(k) => Busy(k)'
      BY <2>3, <1>4, <1>8 DEF Busy, SendsOn, OpenOn
    <3>2. \A x \in Discards : on[x] = k => on'[x] = k
      BY <1>0, <1>6, <1>9, IdAssumption
    <3>3. Awaited(k)
      BY DEF Followed
    <3> QED BY <2>1, <2>3, <3>1, <3>2, <3>3, <1>4, <1>8 DEF Awaited
  <2> QED BY <2>2, <2>3
<1>12. ASSUME NEW x \in Calls \ Discards PROVE Traced(x)'
  <2>1. CASE x = c
    BY <2>1, <1>4, <1>7, <1>9 DEF Traced, Somewhere
  <2>2. CASE x # c
    <3>1. on'[x] = on[x] /\ (on[x] \in Own \/ on[x] = NoConn)
      BY <2>2, <1>9, CallFacts
    <3>2. ASSUME on[x] \in open PROVE c2s[on[x]] # <<>> => c2s'[on[x]] = c2s[on[x]]
      BY <3>1, <3>2, <1>3, <1>8, CallFacts
    <3>3. Traced(x)
      BY DEF Followed
    <3> QED BY <3>1, <3>2, <3>3, <1>4 DEF Traced, Somewhere
  <2> QED BY <2>1, <2>2
<1> QED BY <1>10, <1>11, <1>12 DEF Followed

\* The client reads a reply: its stream waits and its call is registered, so the
\* reply goes to the call.
LEMMA FollowedReceive ==
  ASSUME Inv, Journeys, Followed, NEW k \in Conns, ClientReceive(k)
  PROVE  Followed'
<1> DEFINE m == Head(s2c[k])
<1>0. /\ cst \in [Conns -> States] /\ s2c \in [Conns -> Seq(ReplySet)]
      /\ Calls \subseteq Ids /\ Own \subseteq Conns /\ k \in Own /\ k = cur /\ s2c[k] # <<>>
  BY ConnAssumption DEF Inv, TypeOK, Ids, Own, ClientReceive
<1>1. cst[k] = "WAITING" /\ k \in opened
  BY <1>0 DEF Inv, ConnInv, OneWay, Busy, Agree
<1>2. UNCHANGED <<cur, opened, open, reg, on, told, c2s, handlers, sends, decided>>
  BY DEF ClientReceive, netVars, serverVars
<1>3. /\ cst' = [cst EXCEPT ![k] = "IDLE"] /\ s2c' = [s2c EXCEPT ![k] = Tail(s2c[k])]
      /\ m.id \in pending => replies' = replies \union {m}
      /\ replies \subseteq replies'
  BY <1>1 DEF ClientReceive, AfterReceive, Pop
<1>4. cst'[k] = "IDLE" /\ \A h \in Own : h # k => cst'[h] = cst[h] /\ s2c'[h] = s2c[h]
  BY <1>0, <1>3
<1>5. Unused'
  BY <1>1, <1>2, <1>4 DEF Followed, Unused
<1>6. ASSUME NEW h \in Own PROVE Sole(h)' /\ Awaited(h)'
  <2>1. Sole(h)'
    BY <1>2 DEF Followed, Sole
  <2>2. CASE h = k
    BY <2>1, <2>2, <1>4 DEF Awaited
  <2>3. CASE h # k
    <3>1. Busy(h) => Busy(h)'
      BY <2>3, <1>2, <1>4 DEF Busy, SendsOn, OpenOn
    <3>2. Awaited(h)
      BY DEF Followed
    <3> QED BY <2>1, <2>3, <3>1, <3>2, <1>2, <1>4 DEF Awaited
  <2> QED BY <2>2, <2>3
<1>7. ASSUME NEW x \in Calls \ Discards PROVE Traced(x)'
  <2>1. SUFFICES ASSUME on[x] \in open, told[x] = NoAnswer PROVE Somewhere(x)'
    BY <1>2 DEF Traced
  <2>2. Somewhere(x) /\ on[x] \in Own
    BY <2>1, CallFacts DEF Followed, Traced
  <2>3. CASE on[x] = k /\ m.id = x
    <3>1. Len(s2c[k]) >= 1 /\ m = s2c[k][1] /\ 1 \in 1 .. Len(s2c[k])
      BY <1>0
    <3>2. Underway(m, k)
      BY <3>1 DEF Journeys, BackInv
    <3>3. x \in pending
      BY <2>3, <3>2, IdAssumption DEF Underway, Ids
    <3> QED BY <2>3, <3>3, <1>3 DEF Somewhere
  <2>4. CASE on[x] # k
    <3>1. s2c'[on[x]] = s2c[on[x]]
      BY <2>2, <2>4, <1>4
    <3> HIDE DEF m
    <3> QED BY <2>2, <3>1, <1>2, <1>3 DEF Somewhere
  <2>5. CASE on[x] = k /\ m.id # x
    <3>1. ~(s2c[on[x]] # <<>> /\ Head(s2c[on[x]]).id = x)
      BY <2>5
    <3>2. /\ c2s' = c2s /\ on'[x] = on[x] /\ decided'[x] = decided[x] /\ handlers' = handlers
          /\ sends' = sends /\ replies \subseteq replies'
      BY <1>2, <1>3
    <3> HIDE DEF m
    <3> QED BY <2>2, <3>1, <3>2 DEF Somewhere
  <2> QED BY <2>3, <2>4, <2>5
<1> QED BY <1>5, <1>6, <1>7 DEF Followed

\* The server writes a reply: from then on it is on the wire.
LEMMA FollowedReply ==
  ASSUME Inv, Journeys, Followed, NEW j \in sends, SendReply(j)
  PROVE  Followed'
<1>0. /\ s2c \in [Conns -> Seq(ReplySet)] /\ Own \subseteq Conns
      /\ j.conn \in Conns /\ j.reply \in ReplySet
  BY DEF Inv, TypeOK, Own
<1>1. UNCHANGED <<cur, opened, open, reg, on, told, c2s, handlers, decided, cst, replies>>
  BY DEF SendReply, netVars, clientVars
<1>2. /\ sends' = sends \ {j}
      /\ s2c' = IF j.conn \in open THEN [s2c EXCEPT ![j.conn] = Append(s2c[j.conn], j.reply)]
                ELSE s2c
  BY DEF SendReply, Push
<1>3. j.conn \in Own => s2c[j.conn] = <<>>
  BY DEF Inv, ConnInv, OneWay, SendsOn
<1>4. ASSUME j.conn \in Own, j.conn \in open
      PROVE  s2c'[j.conn] # <<>> /\ Head(s2c'[j.conn]) = j.reply
  <2>1. Append(s2c[j.conn], j.reply) # <<>> /\ Head(Append(s2c[j.conn], j.reply)) = j.reply
    BY <1>3, <1>4, AloneOnWire
  <2> QED BY <2>1, <1>0, <1>2, <1>4
<1>5. \A k \in Own : k # j.conn => s2c'[k] = s2c[k]
  BY <1>0, <1>2
<1>6. Unused'
  BY <1>1 DEF Followed, Unused
<1>7. ASSUME NEW k \in Own PROVE Sole(k)' /\ Awaited(k)'
  <2>1. Sole(k)'
    BY <1>1 DEF Followed, Sole
  <2>2. CASE k = j.conn
    BY <2>1, <2>2, <1>1, <1>4 DEF Awaited, Busy
  <2>3. CASE k # j.conn
    <3>1. SendsOn(k)' = SendsOn(k)
      BY <2>3, <1>2 DEF SendsOn
    <3>2. Busy(k) => Busy(k)'
      BY <3>1, <2>3, <1>1, <1>5 DEF Busy, OpenOn
    <3>3. Awaited(k)
      BY DEF Followed
    <3> QED BY <2>1, <3>2, <3>3, <1>1 DEF Awaited
  <2> QED BY <2>2, <2>3
<1>8. ASSUME NEW x \in Calls \ Discards PROVE Traced(x)'
  <2>1. SUFFICES ASSUME on[x] \in open, told[x] = NoAnswer PROVE Somewhere(x)'
    BY <1>1 DEF Traced
  <2>2. Somewhere(x) /\ on[x] \in Own
    BY <2>1, CallFacts DEF Followed, Traced
  <2>3. CASE j.reply.id = x
    <3>1. on[x] = j.conn
      BY <2>3, CallFacts
    <3> QED BY <2>1, <2>2, <2>3, <3>1, <1>1, <1>4 DEF Somewhere
  <2>4. CASE j.reply.id # x
    <3>1. s2c[on[x]] # <<>> => s2c'[on[x]] = s2c[on[x]]
      BY <2>2, <1>3, <1>5
    <3>2. \A i \in sends : i.reply.id = x => i \in sends'
      BY <2>4, <1>2
    <3> QED BY <2>2, <3>1, <3>2, <1>1 DEF Somewhere
  <2> QED BY <2>3, <2>4
<1> QED BY <1>6, <1>7, <1>8 DEF Followed

\* The server reads a request: it goes to its handlers, which have not answered, or
\* to the 404 reply.
LEMMA FollowedAccept ==
  ASSUME Inv, Journeys, Followed, NEW h \in Conns, Accept(h)
  PROVE  Followed'
<1> DEFINE r == Head(c2s[h])
<1>0. /\ c2s \in [Conns -> Seq(Ids \union {Leftover})] /\ decided \in [Ids -> Answers \union {NoAnswer}]
      /\ Own \subseteq Conns /\ r \in Ids /\ c2s[h] # <<>>
      /\ \A j \in handlers : j.id \in Ids
  BY DEF Inv, TypeOK, Own, Accept, Readable
<1>1. on[r] = h /\ decided[r] = NoAnswer
  <2>1. 1 \in 1 .. Len(c2s[h]) /\ r = c2s[h][1]
    BY <1>0
  <2> QED BY <2>1, <1>0 DEF Journeys, WireInv
<1>2. PICK n \in 0 .. MaxHandlers : Resolve(h, r, n)
  BY DEF Accept
<1>3. UNCHANGED <<cur, opened, open, reg, on, told, s2c, cst, replies>>
  BY DEF Accept, netVars, clientVars
<1>4. \A k \in Own : k # h => c2s'[k] = c2s[k]
  BY <1>0 DEF Accept, Pop
<1>5. handlers \subseteq handlers' /\ sends \subseteq sends'
  BY <1>2 DEF Resolve
<1>6. \A x \in Ids : x # r => decided'[x] = decided[x]
  BY <1>0, <1>2 DEF Resolve
<1>7. \/ \E j \in sends' : j.reply.id = r /\ j.conn = h
      \/ decided'[r] = NoAnswer /\ \E j \in handlers' : j.id = r /\ j.conn = h
  <2>1. CASE n = 0
    <3>1. Sending(h, Reply(r, "fail"), 0) \in sends'
      BY <2>1, <1>2 DEF Resolve
    <3>2. Sending(h, Reply(r, "fail"), 0).reply.id = r /\ Sending(h, Reply(r, "fail"), 0).conn = h
      BY DEF Sending, Reply
    <3> QED BY <3>1, <3>2
  <2>2. CASE n # 0
    <3>1. 1 \in 1 .. n
      BY <2>2, BoundAssumption
    <3>2. Handler(h, r, 1) \in handlers' /\ decided'[r] = NoAnswer
      BY <2>2, <3>1, <1>1, <1>2 DEF Resolve
    <3>3. Handler(h, r, 1).id = r /\ Handler(h, r, 1).conn = h
      BY DEF Handler
    <3> QED BY <3>2, <3>3
  <2> QED BY <2>1, <2>2
<1> HIDE DEF r
<1>8. Unused'
  BY <1>3 DEF Followed, Unused
<1>9. ASSUME NEW k \in Own PROVE Sole(k)' /\ Awaited(k)'
  <2>1. Sole(k)'
    BY <1>3 DEF Followed, Sole
  <2>2. CASE k = h
    <3>1. Busy(k)'
      BY <2>2, <1>7 DEF Busy, SendsOn, OpenOn
    <3> QED BY <2>1, <3>1 DEF Awaited
  <2>3. CASE k # h
    <3>1. SendsOn(k) \subseteq SendsOn(k)'
      BY <1>5 DEF SendsOn
    <3>2. OpenOn(k) \subseteq OpenOn(k)'
      <4>1. \A j \in OpenOn(k) : j.id # r
        BY <2>3, <1>1, CallFacts DEF OpenOn
      <4> QED BY <4>1, <1>0, <1>5, <1>6 DEF OpenOn
    <3>3. Busy(k) => Busy(k)'
      BY <2>3, <3>1, <3>2, <1>3, <1>4 DEF Busy
    <3>4. Awaited(k)
      BY DEF Followed
    <3> QED BY <2>1, <3>3, <3>4, <1>3 DEF Awaited
  <2> QED BY <2>2, <2>3
<1>10. ASSUME NEW x \in Calls \ Discards PROVE Traced(x)'
  <2>1. SUFFICES ASSUME on[x] \in open, told[x] = NoAnswer PROVE Somewhere(x)'
    BY <1>3 DEF Traced
  <2>2. Somewhere(x) /\ on[x] \in Own /\ x \in Ids
    BY <2>1, CallFacts DEF Followed, Traced, Ids
  <2>3. CASE x = r
    BY <2>3, <1>7 DEF Somewhere
  <2>4. CASE x # r
    <3>1. c2s[on[x]] # <<>> /\ Head(c2s[on[x]]) = x => on[x] # h
      BY <2>4 DEF r
    <3>2. c2s[on[x]] # <<>> /\ Head(c2s[on[x]]) = x => c2s'[on[x]] = c2s[on[x]]
      BY <3>1, <2>2, <1>4
    <3>3. decided'[x] = decided[x]
      BY <2>2, <2>4, <1>6
    <3> QED BY <2>2, <3>2, <3>3, <1>3, <1>5 DEF Somewhere
  <2> QED BY <2>3, <2>4
<1> QED BY <1>8, <1>9, <1>10 DEF Followed

\* A handler ends: it has answered, somebody else has, or another handler of the
\* request is left; only a discarded call ends here.
LEMMA FollowedHandle ==
  ASSUME Inv, Journeys, Followed, NEW j \in handlers, Handle(j)
  PROVE  Followed'
<1>0. decided \in [Ids -> Answers \union {NoAnswer}] /\ \A i \in handlers : i.id \in Ids
  BY DEF Inv, TypeOK
<1>1. UNCHANGED <<cur, opened, open, reg, on, told, c2s, s2c, cst, replies>>
  BY DEF Handle, netVars, clientVars
<1>2. handlers' = handlers \ {j} /\ sends \subseteq sends'
  BY DEF Handle
<1>3. \A x \in Ids : x # j.id => decided'[x] = decided[x]
  BY <1>0 DEF Handle
<1>4. ASSUME decided[j.id] = NoAnswer
      PROVE  \/ \E s \in sends' : s.reply.id = j.id /\ s.conn = j.conn
             \/ decided'[j.id] = NoAnswer /\ \E i \in handlers' : i.id = j.id
             \/ j.id \in Discards
  <2>1. PICK a \in Answers \union {NoAnswer} :
          LET mine == a # NoAnswer /\ j.id \notin Discards /\ AcquireReply(j.id)
          IN /\ a = NoAnswer => \/ decided[j.id] # NoAnswer
                                \/ \E i \in handlers' : i.id = j.id
             /\ sends' = IF mine THEN sends \union {Sending(j.conn, Reply(j.id, a), j.nr)}
                                 ELSE sends
             /\ decided' = IF mine THEN [decided EXCEPT ![j.id] = a] ELSE decided
    BY DEF Handle
  <2>2. CASE a = NoAnswer
    BY <1>4, <2>1, <2>2
  <2>3. CASE a # NoAnswer /\ j.id \notin Discards
    <3>1. Sending(j.conn, Reply(j.id, a), j.nr) \in sends'
      BY <1>4, <2>1, <2>3 DEF AcquireReply
    <3>2. /\ Sending(j.conn, Reply(j.id, a), j.nr).reply.id = j.id
          /\ Sending(j.conn, Reply(j.id, a), j.nr).conn = j.conn
      BY DEF Sending, Reply
    <3> QED BY <3>1, <3>2
  <2> QED BY <2>2, <2>3
<1>5. Unused'
  BY <1>1 DEF Followed, Unused
<1>6. ASSUME NEW k \in Own PROVE Sole(k)' /\ Awaited(k)'
  <2>1. Sole(k)'
    BY <1>1 DEF Followed, Sole
  <2>2. SUFFICES ASSUME k \in open, cst[k] = "WAITING"
                 PROVE  Busy(k)' \/ \E c \in Discards : on[c] = k
    BY <2>1, <1>1 DEF Awaited
  <2>3. Busy(k) \/ \E c \in Discards : on[c] = k
    BY <2>2 DEF Followed, Awaited
  <2>4. SendsOn(k) \subseteq SendsOn(k)'
    BY <1>2 DEF SendsOn
  <2>5. ASSUME NEW i \in OpenOn(k) PROVE Busy(k)' \/ \E c \in Discards : on[c] = k
    <3>1. i \in handlers /\ i.conn = k /\ decided[i.id] = NoAnswer /\ on[i.id] = k
          /\ on[j.id] = j.conn
      BY CallFacts DEF OpenOn
    <3>2. CASE i.id # j.id
      BY <3>1, <3>2, <1>0, <1>2, <1>3 DEF Busy, OpenOn
    <3>3. CASE i.id = j.id
      <4>1. j.conn = k
        BY <3>1, <3>3
      <4>2. ASSUME NEW s \in sends', s.conn = j.conn PROVE Busy(k)'
        BY <4>1, <4>2 DEF Busy, SendsOn
      <4>3. ASSUME NEW g \in handlers', g.id = j.id, decided'[j.id] = NoAnswer PROVE Busy(k)'
        <5>1. g.conn = k
          BY <4>1, <4>3, <3>1, <1>2, CallFacts
        <5> QED BY <4>3, <5>1 DEF Busy, OpenOn
      <4> QED BY <3>1, <3>3, <4>1, <4>2, <4>3, <1>4
    <3> QED BY <3>2, <3>3
  <2> QED BY <2>3, <2>4, <2>5, <1>1 DEF Busy
<1>7. ASSUME NEW x \in Calls \ Discards PROVE Traced(x)'
  <2>1. SUFFICES ASSUME on[x] \in open, told[x] = NoAnswer PROVE Somewhere(x)'
    BY <1>1 DEF Traced
  <2>2. Somewhere(x) /\ x \in Ids
    BY <2>1 DEF Followed, Traced, Ids
  <2>3. ASSUME decided[x] = NoAnswer, NEW i \in handlers, i.id = x PROVE Somewhere(x)'
    <3>1. CASE x # j.id
      BY <2>2, <2>3, <3>1, <1>2, <1>3 DEF Somewhere
    <3>2. CASE x = j.id
      BY <2>3, <3>2, <1>4 DEF Somewhere
    <3> QED BY <3>1, <3>2
  <2> QED BY <2>2, <2>3, <1>1, <1>2 DEF Somewhere
<1> QED BY <1>5, <1>6, <1>7 DEF Followed

\* Every step leaves what was written somewhere.
LEMMA FollowedStep == Inv /\ Journeys /\ Followed /\ [Next]_vars => Followed'
<1> SUFFICES ASSUME Inv, Journeys, Followed, [Next]_vars PROVE Followed'
  OBVIOUS
<1>1. ASSUME NEW c \in Calls, ClientStep(c) PROVE Followed'
  BY <1>1, FollowedClient, FollowedDial, FollowedTransmit DEF ClientStep
<1>2. ASSUME NEW j \in sends, SendStep(j) PROVE Followed'
  BY <1>2, FollowedForeign, FollowedReply DEF SendStep
<1>3. ASSUME NEW k \in Conns, ReceiveStep(k) PROVE Followed'
  BY <1>3, FollowedForeign, FollowedAccept DEF ReceiveStep
<1>4. CASE UNCHANGED vars
  <2>1. /\ UNCHANGED <<on, told, cur, reg, open, opened, c2s, s2c, cst>>
        /\ UNCHANGED <<handlers, decided, sends, replies>>
    BY <1>4 DEF vars, netVars, clientVars, serverVars
  <2> QED BY <2>1, FollowedFrame
<1> QED
  BY <1>1, <1>2, <1>3, <1>4, FollowedLoss, FollowedForeign, FollowedReceive, FollowedHandle DEF Next

\* What is somewhere is taken on: the ends agree about the states of the stream, and
\* the connection is the one both sides poll.
LEMMA SomewhereTakenOn ==
  ASSUME Inv, Journeys, Followed, NEW c \in Calls, on[c] \in open, Somewhere(c)
  PROVE  TakenOn(c)
<1> DEFINE k == on[c]
<1>1. k \in Own /\ k \in Conns /\ cur = k /\ k \in reg /\ k \notin leaked /\ ConnInv(k)
  BY CallFacts DEF Followed, Sole, Inv, Own
<1>2. CASE c2s[k] # <<>> /\ Head(c2s[k]) = c
  BY <1>1, <1>2 DEF TakenOn, Readable, ConnInv, Agree
<1>3. ASSUME decided[c] = NoAnswer, NEW j \in handlers, j.id = c PROVE TakenOn(c)
  <2>1. j \in OpenOn(k)
    BY <1>3, CallFacts DEF OpenOn
  <2> QED BY <1>3, <2>1 DEF TakenOn
<1>4. ASSUME NEW j \in sends, j.reply.id = c PROVE TakenOn(c)
  <2>1. j \in SendsOn(k)
    BY <1>4, CallFacts DEF SendsOn
  <2>2. sst[k] = "PROCESSING"
    BY <1>1, <2>1 DEF ConnInv, Agree
  <2> QED BY <1>1, <1>4, <2>1, <2>2 DEF TakenOn, MaySend
<1>5. CASE s2c[k] # <<>> /\ Head(s2c[k]).id = c
  <2>1. cst[k] = "WAITING"
    BY <1>1, <1>5 DEF ConnInv, OneWay, Busy
  <2>2. s2c[k] \in Seq(ReplySet)
    BY <1>1 DEF Inv, TypeOK
  <2>3. 1 \in 1 .. Len(s2c[k]) /\ Head(s2c[k]) = s2c[k][1]
    BY <1>5, <2>2
  <2>4. Underway(Head(s2c[k]), k)
    BY <1>1, <2>3 DEF Journeys, BackInv
  <2>5. c \in pending
    BY <1>5, <2>4, IdAssumption DEF Underway, Ids
  <2> QED BY <1>1, <1>5, <2>1, <2>5 DEF TakenOn
<1>6. ASSUME NEW m \in replies, m.id = c PROVE TakenOn(c)
  BY <1>6 DEF TakenOn
<1> QED BY <1>2, <1>3, <1>4, <1>5, <1>6 DEF Somewhere

\* As long as its connection is up, a call that was written and has no answer is
\* where an event that is not blocked takes it on, and a client's stream that waits
\* has something under way, unless the call it carried was made with call<discard>:
\* busy streams, retriggered calls, racing handlers and losses of other connections
\* leave nothing behind.
THEOREM NothingIsForgotten == Spec => []NothingForgotten
<1>1. Spec => [](Inv /\ Journeys)
  BY JourneysInOrder
<1>2. Spec => []Followed
  BY <1>1, FollowedInit, FollowedStep, PTL DEF Spec
<1>3. Inv /\ Journeys /\ Followed =>
        /\ \A c \in Calls \ Discards : on[c] \in open /\ told[c] = NoAnswer => TakenOn(c)
        /\ \A k \in Own \intersect open :
              cst[k] = "WAITING" => Busy(k) \/ \E c \in Discards : on[c] = k
  BY SomewhereTakenOn DEF Followed, Traced, Awaited
<1> QED BY <1>1, <1>2, <1>3, RepliesFindTheirCalls, PTL DEF NothingForgotten

=============================================================================
