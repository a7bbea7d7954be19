-------------------------- MODULE DiscoveryProofs --------------------------
(***************************************************************************)
(* Theorems about Discovery, for any number of processes, services and     *)
(* restarts.                                                               *)
(***************************************************************************)
EXTENDS Discovery, TLAPS

\* What is said of the services S of provider i may be held against the process that goes by
\* that identity now: it is gone again, or it is handling requests and has all of S.
Heard(i, S) ==
    /\ i \in Ident
    /\ i[2] <= boots[i[1]]
    /\ \A n \in Node \ Configured : i = Id(n) =>
          /\ stage[n] \in {"down", "up", "exiting"}
          /\ stage[n] # "down" => S \subseteq Listing(n)

\* ... and S is all there is.
Said(i, S) ==
    /\ Heard(i, S)
    /\ \A n \in Node \ Configured : i = Id(n) /\ stage[n] # "down" => Listing(n) \subseteq S

\* Who goes by this identity has left.
Gone(i) ==
    /\ i \in Ident
    /\ i[2] <= boots[i[1]]
    /\ \A n \in Node \ Configured : i = Id(n) => stage[n] \in {"down", "exiting"}

MessageInv ==
    /\ \A x \in hellos : Said(x.provider, x.services)
    /\ \A x \in answers : Said(x.provider, x.services)
    /\ \A d \in notices : d.path = "shutdown" => Gone(d.id)

RowInv ==
    \A m \in Node :
        /\ \A r \in remote[m] : Heard(r[1], {r[2]})
        /\ \A t \in adopting[m] : Heard(t.provider, t.left)
        /\ \A i \in providers[m] : i[1] # m => Heard(i, {})
        /\ \A i \in dropping[m] : Gone(i)

\* A process that is not running has nothing, and one that adopts is handling requests.
StageInv ==
    \A m \in Node :
        /\ stage[m] = "down" => providers[m] = {} /\ dropping[m] = {}
        /\ adopting[m] # {} => Handling(m)

\* How far a catalog with the given tables, and the handlers at work on it, have got with a
\* process that goes by i and has the services L: its services are there, or being added once.
Progressed(i, L, prov, rows, adopt) ==
    /\ i \notin prov => /\ \A p \in Path : <<i, p>> \notin rows
                        /\ \A t \in adopt : t.provider = i => t.left = {}
    /\ \A t \in adopt : t.provider = i => \A p \in t.left : <<i, p>> \notin rows
    /\ \A t, u \in adopt : t.provider = i /\ u.provider = i /\ t.left # {} /\ u.left # {} => t = u
    /\ i \in prov => \A p \in L : <<i, p>> \in rows \/ \E t \in adopt : t.provider = i /\ p \in t.left

\* How far m has got with n.
Introduction(m, n) == Progressed(Id(n), Listing(n), providers[m], remote[m], adopting[m])

IntroductionInv ==
    \A m \in Node, n \in Node \ Configured : m # n /\ stage[n] = "up" => Introduction(m, n)

Inv == TypeOK /\ MessageInv /\ RowInv /\ StageInv /\ IntroductionInv

\* The identities of a process.
LEMMA Identity ==
    ASSUME TypeOK, NEW n \in Node
    PROVE  /\ Id(n) \in Ident /\ ThisRun(n) \in Run /\ Id(n)[1] = n
           /\ Id(n)[2] <= boots[n] /\ boots[n] \in Nat
           /\ n \notin Configured => Id(n) = <<n, boots[n]>>
           /\ Listing(n) \subseteq Path
           /\ \A k \in Nat : IdentOf(n, k) \in Ident
<1>1. boots[n] \in Nat /\ own[n] \subseteq Path
  BY DEF TypeOK
<1>. QED BY <1>1 DEF Id, IdentOf, Ident, Run, ThisRun, Listing

\* The initial state: nobody has said anything.
LEMMA InitInv == Init => Inv
<1>. SUFFICES ASSUME Init PROVE Inv
  OBVIOUS
<1>1. TypeOK
  BY DiscoveryAssumption DEF Init, TypeOK, Stage
<1>2. MessageInv /\ RowInv /\ StageInv /\ IntroductionInv
  BY DEF Init, MessageInv, RowInv, StageInv, IntroductionInv
<1>. QED BY <1>1, <1>2 DEF Inv

\* Every step keeps the types.
LEMMA TypeStep == TypeOK /\ Next => TypeOK'
<1>. SUFFICES ASSUME TypeOK, Next PROVE TypeOK'
  OBVIOUS
<1>. USE DiscoveryAssumption
<1>1. ASSUME NEW n \in Node, Bind(n) PROVE TypeOK'
  <2>1. IdentOf(n, boots[n] + 1) \in Ident
    BY Identity
  <2>. QED BY <1>1, <2>1 DEF Bind, TypeOK, Stage, network
<1>2. ASSUME NEW n \in Node, NEW path \in {"boot", "shutdown"}, Broadcast(n, path)
      PROVE  notices' \subseteq Notice
  <2>1. \A m \in Node : [path |-> path, id |-> Id(n), to |-> ThisRun(m)] \in Notice
    BY Identity DEF Notice
  <2>. QED BY <1>2, <2>1 DEF Broadcast, TypeOK
<1>3. ASSUME NEW n \in Node, Announce(n) \/ Leave(n) PROVE TypeOK'
  <2>1. notices' \subseteq Notice
    BY <1>2, <1>3 DEF Announce, Leave
  <2>. QED BY <1>3, <2>1 DEF Announce, Leave, TypeOK, Stage, catalog
<1>4. ASSUME NEW n \in Node, NEW p \in Path, Register(n, p) PROVE TypeOK'
  BY <1>4 DEF Register, TypeOK, network
<1>5. ASSUME NEW n \in Node, StartPolling(n) PROVE TypeOK'
  BY <1>5 DEF StartPolling, TypeOK, Stage, network, catalog
<1>6. ASSUME NEW n \in Node, Stop(n) PROVE TypeOK'
  BY <1>6 DEF Stop, TypeOK, Stage
<1>7. ASSUME NEW d \in notices, Lose(d) PROVE TypeOK'
  BY <1>7 DEF Lose, TypeOK, catalog
<1>8. ASSUME NEW n \in Node, NEW d \in notices, MinionBoot(n, d) PROVE TypeOK'
  <2>1. d.id[1] \in Node
    BY DEF TypeOK, Notice, Ident
  <2>2. [to |-> d.id[1], from |-> ThisRun(n), provider |-> Id(n), services |-> Listing(n)] \in Hello
    BY <2>1, Identity DEF Hello
  <2>. QED BY <1>8, <2>2 DEF MinionBoot, TypeOK, catalog
<1>9. ASSUME NEW n \in Node, NEW x, NEW answer \in BOOLEAN, NEW caller \in Run,
             x.provider \in Ident, x.services \subseteq Path, AddMinion(n, x, answer, caller)
      PROVE  providers' \in [Node -> SUBSET Ident] /\ adopting' \in [Node -> SUBSET Adoption]
  <2>. DEFINE a == [provider |-> x.provider, answer |-> answer, caller |-> caller,
                    left |-> IF x.provider \in providers[n] THEN {} ELSE x.services]
  <2>1. a \in Adoption
    BY <1>9 DEF Adoption
  <2>2. adopting' = [adopting EXCEPT ![n] = @ \cup {a}]
    BY <1>9 DEF AddMinion
  <2>3. providers' = [providers EXCEPT ![n] = @ \cup {x.provider}]
    BY <1>9 DEF AddMinion
  <2>. HIDE DEF a
  <2>. QED BY <2>1, <2>2, <2>3, <1>9 DEF TypeOK
<1>10. ASSUME NEW n \in Node, NEW x \in hellos, MinionHello(n, x) PROVE TypeOK'
  <2>1. x.provider \in Ident /\ x.services \subseteq Path /\ x.from \in Run
    BY DEF TypeOK, Hello
  <2>2. AddMinion(n, x, TRUE, x.from)
    BY <1>10 DEF MinionHello
  <2>3. providers' \in [Node -> SUBSET Ident] /\ adopting' \in [Node -> SUBSET Adoption]
    BY <2>1, <2>2, <1>9
  <2>. QED BY <1>10, <2>3 DEF MinionHello, TypeOK
<1>11. ASSUME NEW n \in Node, NEW x \in answers, ServicesList(n, x) PROVE TypeOK'
  <2>1. x.provider \in Ident /\ x.services \subseteq Path /\ x.to \in Run
    BY DEF TypeOK, Answer
  <2>2. AddMinion(n, x, FALSE, x.to)
    BY <1>11 DEF ServicesList
  <2>3. providers' \in [Node -> SUBSET Ident] /\ adopting' \in [Node -> SUBSET Adoption]
    BY <2>1, <2>2, <1>9
  <2>. QED BY <1>11, <2>3 DEF ServicesList, TypeOK
<1>12. ASSUME NEW x \in hellos, HelloFails(x) PROVE TypeOK'
  BY <1>12 DEF HelloFails, TypeOK, catalog
<1>13. ASSUME NEW n \in Node, NEW t \in adopting[n], NEW p \in Path, AddService(n, t, p) PROVE TypeOK'
  <2>. DEFINE a == [t EXCEPT !.left = IF <<t.provider, p>> \in remote[n] THEN {} ELSE @ \ {p}]
  <2>1. t \in Adoption
    BY DEF TypeOK
  <2>2. a \in Adoption /\ <<t.provider, p>> \in Ident \X Path
    BY <2>1 DEF Adoption
  <2>3. adopting' = [adopting EXCEPT ![n] = (@ \ {t}) \cup {a}]
    BY <1>13 DEF AddService
  <2>4. remote' = [remote EXCEPT ![n] = @ \cup {<<t.provider, p>>}]
    BY <1>13 DEF AddService
  <2>. HIDE DEF a
  <2>5. adopting' \in [Node -> SUBSET Adoption]
    BY <2>2, <2>3 DEF TypeOK
  <2>6. remote' \in [Node -> SUBSET (Ident \X Path)]
    BY <2>2, <2>4 DEF TypeOK
  <2>. QED BY <1>13, <2>5, <2>6 DEF AddService, TypeOK, network
<1>14. ASSUME NEW n \in Node, NEW t \in adopting[n], Added(n, t) PROVE TypeOK'
  <2>1. t \in Adoption
    BY DEF TypeOK
  <2>2. t.caller \in Run
    BY <2>1 DEF Adoption
  <2>3. [to |-> t.caller, provider |-> Id(n), services |-> Listing(n)] \in Answer
    BY <2>2, Identity DEF Answer
  <2>. QED BY <1>14, <2>3 DEF Added, TypeOK, catalog
<1>15. ASSUME NEW n \in Node, NEW d \in notices, MinionShutdown(n, d) PROVE TypeOK'
  <2>1. d.id \in Ident
    BY DEF TypeOK, Notice
  <2>. QED BY <1>15, <2>1 DEF MinionShutdown, TypeOK
<1>16. ASSUME NEW n \in Node, NEW i \in dropping[n], RemoveProvider(n, i) PROVE TypeOK'
  BY <1>16 DEF RemoveProvider, TypeOK, network
<1>. QED BY <1>1, <1>3, <1>4, <1>5, <1>6, <1>7, <1>8, <1>10, <1>11, <1>12, <1>13, <1>14, <1>15, <1>16
         DEF Next, Progress

\* What has been said stays true when processes start, register, leave and stop: an identity
\* that has been mentioned is never that of a process which is still loading.
LEMMA Lasting ==
    ASSUME TypeOK, Next, NEW i, NEW S
    PROVE  /\ Heard(i, S) => Heard(i, S)'
           /\ Said(i, S) => Said(i, S)'
           /\ Gone(i) => Gone(i)'
<1>. USE DEF Heard, Said, Gone, Id, IdentOf, Listing
<1>1. CASE UNCHANGED <<stage, boots, own>>
  BY <1>1
<1>2. ASSUME NEW n \in Node, Bind(n)
      PROVE  /\ Heard(i, S) => Heard(i, S)'
             /\ Said(i, S) => Said(i, S)'
             /\ Gone(i) => Gone(i)'
  <2>1. /\ boots' = [boots EXCEPT ![n] = @ + 1] /\ stage' = [stage EXCEPT ![n] = "bound"]
        /\ own' = own /\ boots[n] \in Nat /\ boots \in [Node -> Nat] /\ stage \in [Node -> Stage]
    BY <1>2 DEF Bind, TypeOK
  <2>2. \A m \in Node : m # n => stage'[m] = stage[m] /\ boots'[m] = boots[m]
    BY <2>1
  <2>3. boots'[n] = boots[n] + 1
    BY <2>1
  <2>4. ASSUME i \in Ident, i[2] <= boots[i[1]] PROVE i[2] <= boots'[i[1]] /\ i # <<n, boots'[n]>>
    <3>1. i[1] \in Node /\ i[2] \in Nat
      BY <2>4 DEF Ident
    <3>2. boots[i[1]] \in Nat
      BY <3>1, <2>1
    <3>. QED BY <3>1, <3>2, <2>1, <2>2, <2>3, <2>4
  <2>. QED BY <2>1, <2>2, <2>4
<1>3. ASSUME NEW n \in Node, Announce(n) \/ StartPolling(n) \/ Leave(n) \/ Stop(n) \/ \E p \in Path : Register(n, p)
      PROVE  /\ Heard(i, S) => Heard(i, S)'
             /\ Said(i, S) => Said(i, S)'
             /\ Gone(i) => Gone(i)'
  <2>1. /\ boots' = boots /\ \A m \in Node \ {n} : stage'[m] = stage[m] /\ own'[m] = own[m]
        /\ \/ stage[n] \in {"bound", "loading"}
           \/ stage[n] = "up" /\ stage'[n] = "exiting" /\ own'[n] = own[n]
           \/ stage'[n] = "down"
    BY <1>3 DEF Announce, StartPolling, Leave, Stop, Register, TypeOK, catalog
  <2>. QED BY <2>1
<1>. QED BY <1>1, <1>2, <1>3 DEF Next, Progress, Lose, MinionBoot, MinionShutdown, MinionHello, ServicesList,
            Added, AddService, RemoveProvider, HelloFails, catalog, network

\* What a process that handles requests says of itself.
LEMMA SpokenTruly ==
    ASSUME TypeOK, NEW n \in Node, Handling(n)
    PROVE  Said(Id(n), Listing(n))
<1>1. \A m \in Node : Id(m) = Id(n) => m = n
  BY Identity
<1>. QED BY <1>1, Identity DEF Handling, Said, Heard

\* A smaller set of services.
LEMMA HeardLess ==
    ASSUME NEW i, NEW S, NEW T, T \subseteq S, Heard(i, S)
    PROVE  Heard(i, T)
BY DEF Heard

\* Messages are true when they are sent and remain so.
LEMMA MessageStep == Inv /\ Next => MessageInv'
<1>. SUFFICES ASSUME Inv, Next PROVE MessageInv'
  OBVIOUS
<1>1. TypeOK /\ MessageInv /\ StageInv
  BY DEF Inv
<1>2. \A i, S : Said(i, S) => Said(i, S)'
  BY <1>1, Lasting
<1>3. \A i : Gone(i) => Gone(i)'
  BY <1>1, Lasting
<1>4. SUFFICES /\ \A x \in hellos' : x \in hellos \/ Said(x.provider, x.services)
               /\ \A x \in answers' : x \in answers \/ Said(x.provider, x.services)
               /\ \A d \in notices' : d.path = "shutdown" => d \in notices \/ Gone(d.id)'
  BY <1>1, <1>2, <1>3 DEF MessageInv
<1>5. ASSUME NEW n \in Node, NEW d \in notices, MinionBoot(n, d)
      PROVE  /\ \A x \in hellos' : x \in hellos \/ Said(x.provider, x.services)
             /\ answers' = answers /\ notices' \subseteq notices
  <2>1. Said(Id(n), Listing(n))
    BY <1>1, <1>5, SpokenTruly DEF MinionBoot
  <2>2. hellos' = hellos \cup {[to |-> d.id[1], from |-> ThisRun(n),
                                provider |-> Id(n), services |-> Listing(n)]}
    BY <1>5 DEF MinionBoot
  <2>. QED BY <1>5, <2>1, <2>2 DEF MinionBoot
<1>6. ASSUME NEW n \in Node, NEW t \in adopting[n], Added(n, t)
      PROVE  /\ \A x \in answers' : x \in answers \/ Said(x.provider, x.services)
             /\ hellos' = hellos /\ notices' = notices
  <2>1. Handling(n)
    BY <1>1, <1>6 DEF StageInv
  <2>2. Said(Id(n), Listing(n))
    BY <1>1, <2>1, SpokenTruly
  <2>3. answers' \subseteq answers \cup {[to |-> t.caller, provider |-> Id(n), services |-> Listing(n)]}
    BY <1>6 DEF Added
  <2>. QED BY <1>6, <2>2, <2>3 DEF Added
<1>7. ASSUME NEW n \in Node, Leave(n)
      PROVE  /\ \A d \in notices' : d \in notices \/ Gone(d.id)'
             /\ hellos' = hellos /\ answers' = answers
  <2>1. Id(n) \in Ident /\ Id(n)[1] = n /\ Id(n)[2] <= boots[n]
    BY <1>1, Identity
  <2>2. \A d \in notices' : d \in notices \/ d.id = Id(n)
    BY <1>7 DEF Leave, Broadcast
  <2>3. boots' = boots /\ stage'[n] = "exiting"
    BY <1>7, <1>1 DEF Leave, TypeOK
  <2>4. \A m \in Node : Id(m) = Id(n) => m = n
    BY <1>1, Identity
  <2>5. ASSUME NEW i, i = Id(n) PROVE Gone(i)'
    BY <2>1, <2>3, <2>4, <2>5 DEF Gone, Id, IdentOf
  <2>. QED BY <1>7, <2>2, <2>5 DEF Leave
<1>8. ASSUME NEW n \in Node, Announce(n)
      PROVE  /\ \A d \in notices' : d \in notices \/ d.path = "boot"
             /\ hellos' = hellos /\ answers' = answers
  BY <1>8 DEF Announce, Broadcast
<1>9. ASSUME NEW n \in Node, \/ Bind(n) \/ StartPolling(n) \/ Stop(n) \/ \E p \in Path : Register(n, p)
                             \/ \E d \in notices : MinionShutdown(n, d)
                             \/ \E x \in hellos : MinionHello(n, x)
                             \/ \E x \in answers : ServicesList(n, x)
                             \/ \E t \in adopting[n], p \in Path : AddService(n, t, p)
                             \/ \E i \in dropping[n] : RemoveProvider(n, i)
      PROVE  hellos' \subseteq hellos /\ answers' \subseteq answers /\ notices' \subseteq notices
  BY <1>9 DEF Bind, StartPolling, Stop, Register, MinionShutdown, MinionHello, ServicesList, AddService,
              RemoveProvider, network
<1>10. ASSUME \/ \E d \in notices : Lose(d)
              \/ \E x \in hellos : HelloFails(x)
       PROVE  hellos' \subseteq hellos /\ answers' \subseteq answers /\ notices' \subseteq notices
  BY <1>10 DEF Lose, HelloFails
<1>. QED BY <1>5, <1>6, <1>7, <1>8, <1>9, <1>10 DEF Next, Progress

\* Processes that are down have nothing, and only those that handle requests adopt.
LEMMA StageStep == Inv /\ Next => StageInv'
<1>. SUFFICES ASSUME Inv, Next, NEW m \in Node
              PROVE  /\ stage'[m] = "down" => providers'[m] = {} /\ dropping'[m] = {}
                     /\ adopting'[m] # {} => Handling(m)'
  BY DEF StageInv
<1>. USE DEF StageInv, Handling
<1>1. TypeOK /\ StageInv
  BY DEF Inv
<1>2. ASSUME NEW n \in Node, \/ Bind(n) \/ Announce(n) \/ StartPolling(n) \/ Leave(n) \/ Stop(n)
                             \/ \E p \in Path : Register(n, p)
      PROVE  /\ stage'[m] = "down" => providers'[m] = {} /\ dropping'[m] = {}
             /\ adopting'[m] # {} => Handling(m)'
  BY <1>1, <1>2 DEF TypeOK, Bind, Announce, StartPolling, Leave, Stop, Register, catalog
<1>3. ASSUME NEW n \in Node, \/ \E d \in notices : MinionBoot(n, d) \/ MinionShutdown(n, d)
                             \/ \E x \in hellos : MinionHello(n, x)
                             \/ \E x \in answers : ServicesList(n, x)
      PROVE  /\ stage' = stage
             /\ m # n => providers'[m] = providers[m] /\ dropping'[m] = dropping[m] /\ adopting'[m] = adopting[m]
             /\ Handling(n)
  BY <1>1, <1>3 DEF TypeOK, MinionBoot, MinionShutdown, MinionHello, ServicesList, AddMinion, catalog
<1>4. ASSUME NEW n \in Node, \/ \E t \in adopting[n] : Added(n, t) \/ \E p \in Path : AddService(n, t, p)
                             \/ \E i \in dropping[n] : RemoveProvider(n, i)
      PROVE  /\ stage' = stage /\ providers'[m] \subseteq providers[m] /\ dropping'[m] \subseteq dropping[m]
             /\ adopting'[m] = {} \/ adopting[m] # {}
  <2>1. ASSUME NEW t \in adopting[n], Added(n, t)
        PROVE  UNCHANGED <<stage, providers, dropping>> /\ adopting'[m] \subseteq adopting[m]
    BY <2>1, <1>1 DEF Added, TypeOK, catalog
  <2>2. ASSUME NEW t \in adopting[n], NEW p \in Path, AddService(n, t, p)
        PROVE  UNCHANGED <<stage, providers, dropping>> /\ (m # n => adopting'[m] = adopting[m])
    BY <2>2, <1>1 DEF AddService, TypeOK
  <2>3. ASSUME NEW i \in dropping[n], RemoveProvider(n, i)
        PROVE  /\ UNCHANGED <<stage, adopting>>
               /\ providers'[m] \subseteq providers[m] /\ dropping'[m] \subseteq dropping[m]
    BY <2>3, <1>1 DEF RemoveProvider, TypeOK
  <2>. QED BY <1>4, <2>1, <2>2, <2>3
<1>5. ASSUME \/ \E d \in notices : Lose(d)
             \/ \E x \in hellos : HelloFails(x)
      PROVE  UNCHANGED <<stage, providers, dropping, adopting>>
  BY <1>5 DEF Lose, HelloFails, catalog
<1>. QED BY <1>1, <1>2, <1>3, <1>4, <1>5 DEF Next, Progress

\* The rows, the handlers and the tables of providers hold what has been said.
LEMMA RowStep == Inv /\ Next => RowInv'
<1>. SUFFICES ASSUME Inv, Next PROVE RowInv'
  OBVIOUS
<1>1. TypeOK /\ MessageInv /\ RowInv
  BY DEF Inv
<1>2. \A i, S : Heard(i, S) => Heard(i, S)'
  BY <1>1, Lasting
<1>3. \A i : Gone(i) => Gone(i)'
  BY <1>1, Lasting
<1>4. SUFFICES ASSUME NEW m \in Node
               PROVE  /\ \A r \in remote'[m] : r \in remote[m] \/ Heard(r[1], {r[2]})
                      /\ \A t \in adopting'[m] : t \in adopting[m] \/ Heard(t.provider, t.left)
                      /\ \A i \in providers'[m] : i \in providers[m] \/ i[1] = m \/ Heard(i, {})
                      /\ \A i \in dropping'[m] : i \in dropping[m] \/ Gone(i)
  BY <1>1, <1>2, <1>3 DEF RowInv
<1>5. ASSUME NEW n \in Node, Bind(n)
      PROVE  /\ UNCHANGED <<remote, adopting, dropping>>
             /\ \A i \in providers'[m] : i \in providers[m] \/ i[1] = m
  BY <1>5, <1>1 DEF Bind, TypeOK, IdentOf
<1>6. ASSUME NEW n \in Node, Stop(n)
      PROVE  /\ remote'[m] \subseteq remote[m] /\ adopting'[m] \subseteq adopting[m]
             /\ providers'[m] \subseteq providers[m] /\ dropping'[m] \subseteq dropping[m]
  BY <1>6, <1>1 DEF Stop, TypeOK
<1>7. ASSUME \/ \E n \in Node : \/ Announce(n) \/ StartPolling(n) \/ Leave(n)
                                \/ \E p \in Path : Register(n, p)
                                \/ \E d \in notices : MinionBoot(n, d)
             \/ \E d \in notices : Lose(d)
             \/ \E x \in hellos : HelloFails(x)
      PROVE  UNCHANGED <<remote, adopting, providers, dropping>>
  BY <1>7 DEF Announce, StartPolling, Leave, Register, MinionBoot, Lose, HelloFails, catalog
<1>8. ASSUME NEW n \in Node, NEW x, NEW answer, NEW caller, AddMinion(n, x, answer, caller),
             Said(x.provider, x.services)
      PROVE  /\ \A t \in adopting'[m] : t \in adopting[m] \/ Heard(t.provider, t.left)
             /\ \A i \in providers'[m] : i \in providers[m] \/ Heard(i, {})
  <2>. DEFINE a == [provider |-> x.provider, answer |-> answer, caller |-> caller,
                    left |-> IF x.provider \in providers[n] THEN {} ELSE x.services]
  <2>1. Heard(x.provider, x.services) /\ Heard(x.provider, {})
    BY <1>8, HeardLess DEF Said
  <2>2. Heard(a.provider, a.left)
    BY <2>1
  <2>3. adopting'[m] \subseteq adopting[m] \cup {a} /\ providers'[m] \subseteq providers[m] \cup {x.provider}
    BY <1>1, <1>8 DEF AddMinion, TypeOK
  <2>. HIDE DEF a
  <2>. QED BY <2>1, <2>2, <2>3
<1>9. ASSUME NEW n \in Node, NEW x \in hellos, MinionHello(n, x)
      PROVE  UNCHANGED <<remote, dropping>> /\ AddMinion(n, x, TRUE, x.from) /\ Said(x.provider, x.services)
  BY <1>9, <1>1 DEF MinionHello, MessageInv
<1>10. ASSUME NEW n \in Node, NEW x \in answers, ServicesList(n, x)
       PROVE  UNCHANGED <<remote, dropping>> /\ AddMinion(n, x, FALSE, x.to) /\ Said(x.provider, x.services)
  BY <1>10, <1>1 DEF ServicesList, MessageInv
<1>11. ASSUME NEW n \in Node, NEW t \in adopting[n], NEW p \in Path, AddService(n, t, p)
       PROVE  /\ UNCHANGED <<providers, dropping>>
              /\ \A r \in remote'[m] : r \in remote[m] \/ Heard(r[1], {r[2]})
              /\ \A u \in adopting'[m] : u \in adopting[m] \/ Heard(u.provider, u.left)
  <2>. DEFINE a == [t EXCEPT !.left = IF <<t.provider, p>> \in remote[n] THEN {} ELSE @ \ {p}]
  <2>1. t \in Adoption /\ Heard(t.provider, t.left) /\ p \in t.left
    BY <1>11, <1>1 DEF RowInv, TypeOK, AddService
  <2>2. a.provider = t.provider /\ a.left \subseteq t.left
    BY <2>1 DEF Adoption
  <2>3. Heard(a.provider, a.left) /\ Heard(t.provider, {p})
    BY <2>1, <2>2, HeardLess
  <2>4. adopting' = [adopting EXCEPT ![n] = (@ \ {t}) \cup {a}]
    BY <1>11 DEF AddService
  <2>5. remote' = [remote EXCEPT ![n] = @ \cup {<<t.provider, p>>}]
    BY <1>11 DEF AddService
  <2>6. UNCHANGED <<providers, dropping>>
    BY <1>11 DEF AddService
  <2>. HIDE DEF a
  <2>7. adopting'[m] \subseteq adopting[m] \cup {a} /\ remote'[m] \subseteq remote[m] \cup {<<t.provider, p>>}
    BY <1>1, <2>4, <2>5 DEF TypeOK
  <2>. QED BY <2>3, <2>6, <2>7
<1>12. ASSUME NEW n \in Node, NEW t \in adopting[n], Added(n, t)
       PROVE  UNCHANGED <<remote, providers, dropping>> /\ adopting'[m] \subseteq adopting[m]
  BY <1>12, <1>1 DEF Added, TypeOK, catalog
<1>13. ASSUME NEW n \in Node, NEW d \in notices, MinionShutdown(n, d)
       PROVE  /\ UNCHANGED <<providers, adopting>> /\ remote'[m] \subseteq remote[m]
              /\ \A i \in dropping'[m] : i \in dropping[m] \/ Gone(i)
  BY <1>13, <1>1 DEF MinionShutdown, TypeOK, MessageInv
<1>14. ASSUME NEW n \in Node, NEW i \in dropping[n], RemoveProvider(n, i)
       PROVE  /\ UNCHANGED <<remote, adopting>>
              /\ providers'[m] \subseteq providers[m] /\ dropping'[m] \subseteq dropping[m]
  BY <1>14, <1>1 DEF RemoveProvider, TypeOK
<1>15. CASE \E n \in Node : Bind(n) \/ Stop(n)
  BY <1>5, <1>6, <1>15
<1>16. CASE UNCHANGED <<remote, adopting, providers, dropping>>
  BY <1>16
<1>17. CASE \E n \in Node : \/ \E x \in hellos : MinionHello(n, x)
                            \/ \E x \in answers : ServicesList(n, x)
  <2>1. PICK n \in Node : \E x, answer, caller : /\ AddMinion(n, x, answer, caller) /\ Said(x.provider, x.services)
                                                /\ UNCHANGED <<remote, dropping>>
    BY <1>9, <1>10, <1>17
  <2>2. PICK x, answer, caller : /\ AddMinion(n, x, answer, caller) /\ Said(x.provider, x.services)
                                 /\ UNCHANGED <<remote, dropping>>
    BY <2>1
  <2>. QED BY <2>2, <1>8
<1>18. CASE \E n \in Node : \E t \in adopting[n] : Added(n, t) \/ \E p \in Path : AddService(n, t, p)
  BY <1>11, <1>12, <1>18
<1>19. CASE \E n \in Node : \/ \E d \in notices : MinionShutdown(n, d)
                            \/ \E i \in dropping[n] : RemoveProvider(n, i)
  BY <1>13, <1>14, <1>19
<1>. QED BY <1>7, <1>15, <1>16, <1>17, <1>18, <1>19 DEF Next, Progress

\* A provider that is not known is added, with all that is to be added; one that is, is not.
LEMMA ProgressedAdd ==
    ASSUME NEW i, NEW L, NEW prov, NEW rows, NEW adopt, NEW a, Progressed(i, L, prov, rows, adopt),
           L \subseteq Path,
           a.provider = i => a.left = IF i \in prov THEN {} ELSE L
    PROVE  Progressed(i, L, prov \cup {a.provider}, rows, adopt \cup {a})
<1>1. CASE a.provider # i
  BY <1>1 DEF Progressed
<1>2. CASE a.provider = i /\ i \in prov
  BY <1>2 DEF Progressed
<1>3. CASE a.provider = i /\ i \notin prov
  <2>1. /\ \A p \in Path : <<i, p>> \notin rows
        /\ \A t \in adopt : t.provider = i => t.left = {}
        /\ a.left = L
    BY <1>3 DEF Progressed
  <2>. QED BY <1>3, <2>1 DEF Progressed
<1>. QED BY <1>1, <1>2, <1>3

\* A service is added.
LEMMA ProgressedService ==
    ASSUME NEW i, NEW L, NEW prov, NEW rows, NEW adopt, NEW t \in adopt, NEW a, NEW p \in t.left,
           Progressed(i, L, prov, rows, adopt),
           a.provider = t.provider,
           a.left = IF <<t.provider, p>> \in rows THEN {} ELSE t.left \ {p},
           \A u \in adopt : u.left \subseteq Path
    PROVE  Progressed(i, L, prov, rows \cup {<<t.provider, p>>}, (adopt \ {t}) \cup {a})
<1>1. CASE t.provider # i
  BY <1>1 DEF Progressed
<1>2. CASE t.provider = i
  <2>1. i \in prov /\ <<i, p>> \notin rows /\ a.left = t.left \ {p} /\ p \in Path
    BY <1>2 DEF Progressed
  <2>2. \A u \in adopt : u.provider = i /\ u.left # {} => u = t
    BY <1>2 DEF Progressed
  <2>3. \A u \in (adopt \ {t}) \cup {a} : u.provider = i /\ u.left # {} => u = a
    BY <2>2
  <2>4. \A u \in (adopt \ {t}) \cup {a} : u.provider = i =>
            \A q \in u.left : <<i, q>> \notin rows \cup {<<t.provider, p>>}
    <3>1. \A q \in a.left : q # p /\ <<i, q>> \notin rows
      BY <1>2, <2>1 DEF Progressed
    <3>. QED BY <3>1, <2>3, <1>2
  <2>5. ASSUME NEW q \in L
        PROVE  \/ <<i, q>> \in rows \cup {<<t.provider, p>>}
               \/ \E u \in (adopt \ {t}) \cup {a} : u.provider = i /\ q \in u.left
    <3>1. <<i, q>> \in rows \/ \E u \in adopt : u.provider = i /\ q \in u.left
      BY <2>1 DEF Progressed
    <3>2. CASE <<i, q>> \in rows
      BY <3>2
    <3>3. CASE q \in t.left /\ q # p
      BY <3>3, <2>1, <1>2
    <3>4. CASE q = p
      BY <3>4, <1>2
    <3>. QED BY <3>1, <3>2, <3>3, <3>4, <2>2
  <2>. QED BY <2>1, <2>3, <2>4, <2>5 DEF Progressed
<1>. QED BY <1>1, <1>2

\* Whoever knows of a process is adding its services or has them.
LEMMA IntroductionStep == Inv /\ Next => IntroductionInv'
<1>. SUFFICES ASSUME Inv, Next, NEW m \in Node, NEW n \in Node \ Configured, m # n, stage'[n] = "up"
              PROVE  Introduction(m, n)'
  BY DEF IntroductionInv
<1>1. TypeOK /\ MessageInv /\ RowInv /\ StageInv
  BY DEF Inv
<1>. DEFINE i == Id(n)
            L == Listing(n)
<1>2. i \in Ident /\ i[1] = n /\ i = <<n, boots[n]>> /\ L \subseteq Path
  BY <1>1, Identity
<1>3. CASE StartPolling(n)
  <2>1. stage[n] = "loading" /\ UNCHANGED <<boots, own, providers, remote, adopting>>
    BY <1>3 DEF StartPolling, catalog
  <2>2. \A S : ~ Heard(i, S)
    BY <2>1 DEF Heard
  <2>3. /\ i \notin providers[m]
        /\ \A r \in remote[m] : r[1] # i
        /\ \A t \in adopting[m] : t.provider # i
    BY <1>1, <1>2, <2>2 DEF RowInv
  <2>4. \A p \in Path : <<i, p>> \notin remote[m]
    BY <2>3
  <2>5. Progressed(i, L, providers[m], remote[m], adopting[m])
    BY <2>3, <2>4 DEF Progressed
  <2>6. Id(n)' = i /\ Listing(n)' = L
    BY <2>1 DEF Id, IdentOf, Listing
  <2>. QED BY <2>1, <2>5, <2>6 DEF Introduction
<1>4. (stage[n] = "up" /\ UNCHANGED <<boots[n], own[n]>>) \/ StartPolling(n)
  <2>1. ASSUME NEW k \in Node, \/ Bind(k) \/ Announce(k) \/ StartPolling(k) \/ Leave(k) \/ Stop(k)
                               \/ \E p \in Path : Register(k, p)
        PROVE  (stage[n] = "up" /\ UNCHANGED <<boots[n], own[n]>>) \/ StartPolling(n)
    BY <2>1, <1>1 DEF TypeOK, Bind, Announce, StartPolling, Leave, Stop, Register, catalog
  <2>2. CASE UNCHANGED <<stage, boots, own>>
    BY <2>2
  <2>. QED BY <2>1, <2>2 DEF Next, Progress, Lose, MinionBoot, MinionShutdown, MinionHello, ServicesList,
              Added, AddService, RemoveProvider, HelloFails, catalog, network
<1>5. SUFFICES ASSUME stage[n] = "up", boots'[n] = boots[n], own'[n] = own[n]
               PROVE  Progressed(i, L, providers'[m], remote'[m], adopting'[m])
  <2>1. ASSUME boots'[n] = boots[n], own'[n] = own[n] PROVE Id(n)' = i /\ Listing(n)' = L
    BY <2>1 DEF Id, IdentOf, Listing
  <2>. QED BY <1>3, <1>4, <1>5, <2>1 DEF Introduction
<1>6. Progressed(i, L, providers[m], remote[m], adopting[m])
  BY <1>5 DEF Inv, IntroductionInv, Introduction
<1>7. CASE UNCHANGED <<providers[m], remote[m], adopting[m]>>
  BY <1>6, <1>7
<1>8. CASE Bind(m)
  <2>1. providers[m] = {} /\ i \notin providers'[m] /\ UNCHANGED <<remote, adopting>>
    BY <1>1, <1>2, <1>8 DEF Bind, StageInv, TypeOK, IdentOf
  <2>. QED BY <1>6, <2>1 DEF Progressed
<1>9. CASE Stop(m)
  <2>1. providers'[m] = {} /\ remote'[m] = {} /\ adopting'[m] = {}
    BY <1>1, <1>9 DEF Stop, TypeOK
  <2>. QED BY <2>1 DEF Progressed
<1>10. ASSUME NEW x, NEW answer, NEW caller, AddMinion(m, x, answer, caller), Said(x.provider, x.services),
              remote' = remote
       PROVE  Progressed(i, L, providers'[m], remote'[m], adopting'[m])
  <2>. DEFINE a == [provider |-> x.provider, answer |-> answer, caller |-> caller,
                    left |-> IF x.provider \in providers[m] THEN {} ELSE x.services]
  <2>1. x.provider = i => x.services = L
    BY <1>5, <1>10 DEF Said, Heard
  <2>2. a.provider = i => a.left = IF i \in providers[m] THEN {} ELSE L
    BY <2>1
  <2>3. adopting'[m] = adopting[m] \cup {a} /\ providers'[m] = providers[m] \cup {a.provider}
    BY <1>1, <1>10 DEF AddMinion, TypeOK
  <2>. HIDE DEF a, i, L
  <2>4. Progressed(i, L, providers[m] \cup {a.provider}, remote[m], adopting[m] \cup {a})
    BY <1>2, <1>6, <2>2, ProgressedAdd
  <2>. QED BY <1>10, <2>3, <2>4
<1>11. ASSUME NEW t \in adopting[m], NEW p \in Path, AddService(m, t, p)
       PROVE  Progressed(i, L, providers'[m], remote'[m], adopting'[m])
  <2>. DEFINE a == [t EXCEPT !.left = IF <<t.provider, p>> \in remote[m] THEN {} ELSE @ \ {p}]
  <2>1. t \in Adoption /\ \A u \in adopting[m] : u.left \subseteq Path
    BY <1>1 DEF TypeOK, Adoption
  <2>2. a.provider = t.provider /\ a.left = IF <<t.provider, p>> \in remote[m] THEN {} ELSE t.left \ {p}
    BY <2>1 DEF Adoption
  <2>3. /\ p \in t.left /\ providers' = providers
        /\ adopting'[m] = (adopting[m] \ {t}) \cup {a} /\ remote'[m] = remote[m] \cup {<<t.provider, p>>}
    BY <1>1, <1>11 DEF AddService, TypeOK
  <2>. HIDE DEF a, i, L
  <2>4. Progressed(i, L, providers[m], remote[m] \cup {<<t.provider, p>>}, (adopting[m] \ {t}) \cup {a})
    BY <1>6, <2>1, <2>2, <2>3, ProgressedService
  <2>. QED BY <2>3, <2>4
<1>12. ASSUME NEW t \in adopting[m], Added(m, t)
       PROVE  Progressed(i, L, providers'[m], remote'[m], adopting'[m])
  <2>1. t.left = {} /\ UNCHANGED <<providers, remote>> /\ adopting'[m] = adopting[m] \ {t}
    BY <1>1, <1>12 DEF Added, TypeOK, catalog
  <2>. QED BY <1>6, <2>1 DEF Progressed
<1>13. ASSUME NEW d \in notices, MinionShutdown(m, d)
       PROVE  Progressed(i, L, providers'[m], remote'[m], adopting'[m])
  <2>1. d.id # i
    BY <1>1, <1>5, <1>13 DEF MessageInv, Gone, MinionShutdown
  <2>2. UNCHANGED <<providers, adopting>> /\ remote'[m] = {r \in remote[m] : r[1] # d.id}
    BY <1>1, <1>13 DEF MinionShutdown, TypeOK
  <2>3. \A p : <<i, p>> \in remote'[m] <=> <<i, p>> \in remote[m]
    BY <2>1, <2>2
  <2>. QED BY <1>6, <2>2, <2>3 DEF Progressed
<1>14. ASSUME NEW j \in dropping[m], RemoveProvider(m, j)
       PROVE  Progressed(i, L, providers'[m], remote'[m], adopting'[m])
  <2>1. j # i
    BY <1>1, <1>5 DEF RowInv, Gone
  <2>2. UNCHANGED <<remote, adopting>> /\ providers'[m] = providers[m] \ {j}
    BY <1>1, <1>14 DEF RemoveProvider, TypeOK
  <2>. QED BY <1>6, <2>1, <2>2 DEF Progressed
<1>15. CASE (\E x \in hellos : MinionHello(m, x)) \/ (\E x \in answers : ServicesList(m, x))
  <2>1. PICK x, answer, caller : /\ AddMinion(m, x, answer, caller) /\ Said(x.provider, x.services)
                                 /\ remote' = remote
    BY <1>1, <1>15 DEF MinionHello, ServicesList, MessageInv
  <2>. QED BY <2>1, <1>10
<1>16. ASSUME NEW k \in Node, k # m,
              \/ Bind(k) \/ Stop(k)
              \/ \E d \in notices : MinionShutdown(k, d)
              \/ \E x \in hellos : MinionHello(k, x)
              \/ \E x \in answers : ServicesList(k, x)
              \/ \E t \in adopting[k] : Added(k, t) \/ \E p \in Path : AddService(k, t, p)
              \/ \E j \in dropping[k] : RemoveProvider(k, j)
       PROVE  UNCHANGED <<providers[m], remote[m], adopting[m]>>
  BY <1>1, <1>16 DEF TypeOK, Bind, Stop, MinionShutdown, MinionHello, ServicesList, AddMinion, Added, AddService,
                     RemoveProvider, catalog
<1>17. ASSUME \/ \E k \in Node : \/ Announce(k) \/ StartPolling(k) \/ Leave(k)
                                 \/ \E p \in Path : Register(k, p)
                                 \/ \E d \in notices : MinionBoot(k, d)
              \/ \E d \in notices : Lose(d)
              \/ \E x \in hellos : HelloFails(x)
       PROVE  UNCHANGED <<providers[m], remote[m], adopting[m]>>
  BY <1>17 DEF Announce, StartPolling, Leave, Register, MinionBoot, Lose, HelloFails, catalog
<1>18. CASE \E k \in Node \ {m} :
              \/ Bind(k) \/ Stop(k)
              \/ \E d \in notices : MinionShutdown(k, d)
              \/ \E x \in hellos : MinionHello(k, x)
              \/ \E x \in answers : ServicesList(k, x)
              \/ \E t \in adopting[k] : Added(k, t) \/ \E p \in Path : AddService(k, t, p)
              \/ \E j \in dropping[k] : RemoveProvider(k, j)
  BY <1>7, <1>16, <1>18
<1>. QED BY <1>7, <1>8, <1>9, <1>11, <1>12, <1>13, <1>14, <1>15, <1>17, <1>18 DEF Next, Progress

\* Every step preserves the invariant.
LEMMA NextInv == Inv /\ [Next]_vars => Inv'
<1>1. Inv /\ Next => Inv'
  BY TypeStep, MessageStep, RowStep, StageStep, IntroductionStep DEF Inv
<1>2. Inv /\ UNCHANGED vars => Inv'
  <2>. SUFFICES ASSUME Inv, UNCHANGED vars PROVE Inv'
    OBVIOUS
  <2>1. UNCHANGED <<stage, boots, own, remote, providers, adopting, dropping, notices, hellos, answers, lost>>
    BY DEF vars
  <2>2. \A n : Id(n)' = Id(n) /\ Listing(n)' = Listing(n)
    BY <2>1 DEF Id, IdentOf, Listing
  <2>3. \A i, S : Heard(i, S)' = Heard(i, S) /\ Said(i, S)' = Said(i, S) /\ Gone(i)' = Gone(i)
    BY <2>1, <2>2 DEF Heard, Said, Gone
  <2>4. TypeOK' /\ StageInv'
    BY <2>1 DEF Inv, TypeOK, StageInv, Handling
  <2>5. MessageInv' /\ RowInv'
    BY <2>1, <2>3 DEF Inv, MessageInv, RowInv
  <2>6. IntroductionInv'
    BY <2>1, <2>2 DEF Inv, IntroductionInv, Introduction
  <2>. QED BY <2>4, <2>5, <2>6 DEF Inv
<1>. QED BY <1>1, <1>2

\* Catalogs, messages and handlers keep their types.
THEOREM TypeCorrect == Spec => []TypeOK
<1>1. Inv => TypeOK
  BY DEF Inv
<1>. QED BY InitInv, NextInv, <1>1, PTL DEF Spec

\* No catalog offers what a running process does not have, or keeps to itself: what
\* minion_hello and minion_boot pass on was listed by a process that had registered it.
THEOREM CatalogsTruthful == Spec => []Truthful
<1>1. Inv => Truthful
  <2>. SUFFICES ASSUME Inv, NEW m \in Node, NEW n \in Node \ Configured, NEW p \in Path,
                       stage[n] \in {"up", "exiting"}, <<Id(n), p>> \in remote[m]
                PROVE  p \in own[n] \ Private
    BY DEF Truthful
  <2>1. Heard(<<Id(n), p>>[1], {<<Id(n), p>>[2]})
    BY DEF Inv, RowInv
  <2>2. Heard(Id(n), {p})
    BY <2>1
  <2>. QED BY <2>2 DEF Heard, Listing
<1>. QED BY InitInv, NextInv, <1>1, PTL DEF Spec

(***************************************************************************)
(* Nobody is forgotten: between two processes that have announced          *)
(* themselves, some message or handler still carries the introduction.     *)
(***************************************************************************)
Acquainted(m, n) == Id(n) \in providers[m] \/ Introducing(m, n)

AcquaintedInv ==
    \A m \in Node, n \in Node \ Configured :
        /\ m # n /\ stage[m] \in {"loading", "up", "exiting"} /\ stage[n] \in {"loading", "up"}
        /\ lost = 0
        => Acquainted(m, n)

\* What keeps an introduction under way.
LEMMA AcquaintedFrame ==
    ASSUME NEW m \in Node, NEW n \in Node, Acquainted(m, n),
           boots'[m] = boots[m], boots'[n] = boots[n],
           Id(n) \in providers[m] => Id(n) \in providers'[m],
           \A d \in notices : d.path = "boot" /\ d.to \in {ThisRun(m), ThisRun(n)} => d \in notices',
           \A x \in hellos : x.from \in {ThisRun(m), ThisRun(n)} => x \in hellos',
           \A t \in adopting[n] : \E u \in adopting'[n] : u.answer = t.answer /\ u.caller = t.caller,
           \A x \in answers : x.to = ThisRun(m) => x \in answers'
    PROVE  Acquainted(m, n)'
<1>1. Id(n)' = Id(n) /\ ThisRun(m)' = ThisRun(m) /\ ThisRun(n)' = ThisRun(n)
  BY DEF Id, IdentOf, ThisRun
<1>2. CASE Id(n) \in providers[m]
  BY <1>1, <1>2 DEF Acquainted
<1>3. CASE \E t \in adopting[n] : t.answer /\ t.caller = ThisRun(m)
  BY <1>1, <1>3 DEF Acquainted, Introducing
<1>4. CASE \E d \in notices : \/ d.path = "boot" /\ d.id = Id(n) /\ d.to = ThisRun(m)
                              \/ d.path = "boot" /\ d.id[1] = m /\ d.to = ThisRun(n)
  BY <1>1, <1>4 DEF Acquainted, Introducing
<1>5. CASE \E x \in hellos : \/ x.to = n /\ x.from = ThisRun(m)
                             \/ x.to = m /\ x.provider = Id(n) /\ x.from = ThisRun(n)
  BY <1>1, <1>5 DEF Acquainted, Introducing
<1>6. CASE \E x \in answers : x.to = ThisRun(m) /\ x.provider = Id(n)
  BY <1>1, <1>6 DEF Acquainted, Introducing
<1>. QED BY <1>2, <1>3, <1>4, <1>5, <1>6 DEF Acquainted, Introducing

\* A process that announces itself reaches everybody whose socket is bound.
LEMMA AcquaintedAnnounce ==
    ASSUME TypeOK, NEW m \in Node, NEW n \in Node, m # n,
           \/ Announce(n) /\ stage[m] # "down"
           \/ Announce(m) /\ stage[n] # "down"
    PROVE  Acquainted(m, n)'
<1>1. boots' = boots
  BY DEF Announce
<1>2. Id(n)' = Id(n) /\ ThisRun(m)' = ThisRun(m) /\ ThisRun(n)' = ThisRun(n)
  BY <1>1 DEF Id, IdentOf, ThisRun
<1>3. CASE Announce(n) /\ stage[m] # "down"
  <2>. DEFINE d == [path |-> "boot", id |-> Id(n), to |-> ThisRun(m)]
  <2>1. d \in notices'
    BY <1>3 DEF Announce, Broadcast
  <2>. QED BY <1>2, <2>1 DEF Acquainted, Introducing
<1>4. CASE Announce(m) /\ stage[n] # "down"
  <2>. DEFINE d == [path |-> "boot", id |-> Id(m), to |-> ThisRun(n)]
  <2>1. d \in notices' /\ d.id[1] = m
    BY <1>4, Identity DEF Announce, Broadcast
  <2>. QED BY <1>2, <2>1 DEF Acquainted, Introducing
<1>. QED BY <1>3, <1>4

\* The messages and the handlers pass the introduction on.
LEMMA AcquaintedMessages ==
    ASSUME Inv, NEW m \in Node, NEW n \in Node \ Configured, m # n, Acquainted(m, n),
           stage[m] # "down", stage[n] \in {"loading", "up"}, NEW k \in Node,
           \/ \E d \in notices : MinionBoot(k, d) \/ MinionShutdown(k, d)
           \/ \E x \in hellos : MinionHello(k, x) \/ HelloFails(x)
           \/ \E x \in answers : ServicesList(k, x)
           \/ \E t \in adopting[k] : Added(k, t) \/ \E p \in Path : AddService(k, t, p)
           \/ \E i \in dropping[k] : RemoveProvider(k, i)
    PROVE  Acquainted(m, n)'
<1>. USE DEF network, catalog
<1>1. TypeOK /\ RowInv
  BY DEF Inv
<1>2. /\ boots' = boots /\ stage' = stage
  BY DEF MinionBoot, MinionShutdown, MinionHello, HelloFails, ServicesList, Added, AddService,
         RemoveProvider
<1>3. Id(n)' = Id(n) /\ ThisRun(m)' = ThisRun(m) /\ ThisRun(n)' = ThisRun(n)
  BY <1>2 DEF Id, IdentOf, ThisRun
<1>4. /\ Id(n)[1] = n /\ Id(n) = <<n, boots[n]>> /\ ThisRun(n)[1] = n /\ ThisRun(m)[1] = m
      /\ ThisRun(m) # ThisRun(n)
  BY <1>1, Identity DEF ThisRun
<1>5. providers \in [Node -> SUBSET Ident] /\ adopting \in [Node -> SUBSET Adoption]
  BY <1>1 DEF TypeOK
<1>6. ASSUME NEW d \in notices, MinionBoot(k, d) PROVE Acquainted(m, n)'
  <2>1. /\ d.path = "boot" /\ d.to = ThisRun(k) /\ notices' = notices \ {d}
        /\ hellos' = hellos \cup {[to |-> d.id[1], from |-> ThisRun(k),
                                   provider |-> Id(k), services |-> Listing(k)]}
        /\ UNCHANGED <<providers, adopting, answers>>
    BY <1>6 DEF MinionBoot
  <2>. DEFINE h == [to |-> d.id[1], from |-> ThisRun(k), provider |-> Id(k), services |-> Listing(k)]
  <2>2. CASE d.id = Id(n) /\ d.to = ThisRun(m)
    <3>1. k = m
      BY <2>1, <2>2, <1>4 DEF ThisRun
    <3>2. h \in hellos' /\ h.to = n /\ h.from = ThisRun(m)
      BY <3>1, <2>1, <2>2, <1>4
    <3>. QED BY <3>2, <1>3 DEF Acquainted, Introducing
  <2>3. CASE d.id[1] = m /\ d.to = ThisRun(n)
    <3>1. k = n
      BY <2>1, <2>3, <1>4 DEF ThisRun
    <3>2. h \in hellos' /\ h.to = m /\ h.from = ThisRun(n) /\ h.provider = Id(n)
      BY <3>1, <2>1, <2>3
    <3>. QED BY <3>2, <1>3 DEF Acquainted, Introducing
  <2>4. CASE ~(d.id = Id(n) /\ d.to = ThisRun(m)) /\ ~(d.id[1] = m /\ d.to = ThisRun(n))
    <3>1. hellos \subseteq hellos' /\ \A e \in notices : e # d => e \in notices'
      BY <2>1
    <3>. QED BY <3>1, <2>1, <2>4, <1>3 DEF Acquainted, Introducing
  <2>. QED BY <2>2, <2>3, <2>4
<1>7. ASSUME NEW d \in notices, MinionShutdown(k, d) PROVE Acquainted(m, n)'
  <2>1. /\ d.path = "shutdown" /\ notices' = notices \ {d}
        /\ UNCHANGED <<providers, adopting, hellos, answers>>
    BY <1>7 DEF MinionShutdown
  <2>2. \A e \in notices : e.path = "boot" => e \in notices'
    BY <2>1
  <2>. QED BY <2>1, <2>2, <1>2, AcquaintedFrame
<1>8. ASSUME NEW x \in hellos, MinionHello(k, x) PROVE Acquainted(m, n)'
  <2>. DEFINE a == [provider |-> x.provider, answer |-> TRUE, caller |-> x.from,
                    left |-> IF x.provider \in providers[k] THEN {} ELSE x.services]
  <2>1. /\ x.to = k /\ hellos' = hellos \ {x}
        /\ providers' = [providers EXCEPT ![k] = @ \cup {x.provider}]
        /\ adopting' = [adopting EXCEPT ![k] = @ \cup {a}]
        /\ UNCHANGED <<notices, answers>>
    BY <1>8 DEF MinionHello, AddMinion
  <2>2. a.answer = TRUE /\ a.caller = x.from
    OBVIOUS
  <2>. HIDE DEF a
  <2>3. /\ providers[m] \subseteq providers'[m] /\ adopting[n] \subseteq adopting'[n]
        /\ x.provider \in providers'[k] /\ a \in adopting'[k]
    BY <2>1, <1>5
  <2>4. CASE x.to = n /\ x.from = ThisRun(m)
    <3>1. a \in adopting'[n] /\ a.answer /\ a.caller = ThisRun(m)
      BY <2>1, <2>2, <2>3, <2>4
    <3>. QED BY <3>1, <1>3 DEF Acquainted, Introducing
  <2>5. CASE x.to = m /\ x.provider = Id(n)
    BY <2>1, <2>3, <2>5, <1>3 DEF Acquainted
  <2>6. CASE ~(x.to = n /\ x.from = ThisRun(m)) /\ ~(x.to = m /\ x.provider = Id(n))
    <3>1. \A y \in hellos : y # x => y \in hellos'
      BY <2>1
    <3>. QED BY <3>1, <2>1, <2>3, <2>6, <1>3 DEF Acquainted, Introducing
  <2>. QED BY <2>4, <2>5, <2>6
<1>9. ASSUME NEW x \in hellos, HelloFails(x) PROVE Acquainted(m, n)'
  <2>1. /\ stage[x.to] = "down" \/ x.from # ThisRun(x.from[1]) \/ stage[x.from[1]] = "down"
        /\ hellos' = hellos \ {x} /\ UNCHANGED <<notices, providers, adopting, answers>>
    BY <1>9 DEF HelloFails
  <2>2. ~(x.to = n /\ x.from = ThisRun(m)) /\ ~(x.to = m /\ x.from = ThisRun(n))
    BY <2>1, <1>4
  <2>3. \A y \in hellos : y # x => y \in hellos'
    BY <2>1
  <2>. QED BY <2>1, <2>2, <2>3, <1>3 DEF Acquainted, Introducing
<1>10. ASSUME NEW x \in answers, ServicesList(k, x) PROVE Acquainted(m, n)'
  <2>. DEFINE a == [provider |-> x.provider, answer |-> FALSE, caller |-> x.to,
                    left |-> IF x.provider \in providers[k] THEN {} ELSE x.services]
  <2>1. /\ x.to = ThisRun(k) /\ answers' = answers \ {x}
        /\ providers' = [providers EXCEPT ![k] = @ \cup {x.provider}]
        /\ adopting' = [adopting EXCEPT ![k] = @ \cup {a}]
        /\ UNCHANGED <<notices, hellos>>
    BY <1>10 DEF ServicesList, AddMinion
  <2>. HIDE DEF a
  <2>2. /\ providers[m] \subseteq providers'[m] /\ adopting[n] \subseteq adopting'[n]
        /\ x.provider \in providers'[k]
    BY <2>1, <1>5
  <2>3. CASE x.to = ThisRun(m) /\ x.provider = Id(n)
    <3>1. k = m
      BY <2>1, <2>3 DEF ThisRun
    <3>. QED BY <3>1, <2>2, <2>3, <1>3 DEF Acquainted
  <2>4. CASE ~(x.to = ThisRun(m) /\ x.provider = Id(n))
    <3>1. \A y \in answers : y # x => y \in answers'
      BY <2>1
    <3>. QED BY <3>1, <2>1, <2>2, <2>4, <1>3 DEF Acquainted, Introducing
  <2>. QED BY <2>3, <2>4
<1>11. ASSUME NEW t \in adopting[k], Added(k, t) PROVE Acquainted(m, n)'
  <2>. DEFINE r == [to |-> t.caller, provider |-> Id(k), services |-> Listing(k)]
  <2>1. /\ adopting' = [adopting EXCEPT ![k] = @ \ {t}]
        /\ answers' = IF t.answer /\ t.caller = ThisRun(t.caller[1]) /\ stage[t.caller[1]] # "down"
                      THEN answers \cup {r} ELSE answers
        /\ UNCHANGED <<notices, hellos, providers>>
    BY <1>11 DEF Added
  <2>2. CASE k = n /\ t.answer /\ t.caller = ThisRun(m)
    <3>1. r \in answers' /\ r.to = ThisRun(m) /\ r.provider = Id(n)
      BY <2>1, <2>2, <1>4
    <3>. QED BY <3>1, <1>3 DEF Acquainted, Introducing
  <2>3. CASE ~(k = n /\ t.answer /\ t.caller = ThisRun(m))
    <3>. HIDE DEF r
    <3>1. answers \subseteq answers' /\ \A u \in adopting[n] : (k = n => u # t) => u \in adopting'[n]
      BY <2>1, <1>5
    <3>. QED BY <3>1, <2>1, <2>3, <1>3 DEF Acquainted, Introducing
  <2>. QED BY <2>2, <2>3
<1>12. ASSUME NEW t \in adopting[k], NEW p \in Path, AddService(k, t, p) PROVE Acquainted(m, n)'
  <2>. DEFINE a == [t EXCEPT !.left = IF <<t.provider, p>> \in remote[k] THEN {} ELSE @ \ {p}]
  <2>1. /\ adopting' = [adopting EXCEPT ![k] = (@ \ {t}) \cup {a}]
        /\ UNCHANGED <<notices, hellos, answers, providers>>
    BY <1>12 DEF AddService
  <2>2. t \in Adoption
    BY <1>5
  <2>3. a.answer = t.answer /\ a.caller = t.caller
    BY <2>2 DEF Adoption
  <2>. HIDE DEF a
  <2>4. \A u \in adopting[n] : u \in adopting'[n] \/ (u = t /\ a \in adopting'[n])
    BY <2>1, <1>5
  <2>5. \A u \in adopting[n] : \E v \in adopting'[n] : v.answer = u.answer /\ v.caller = u.caller
    BY <2>3, <2>4
  <2>. QED BY <2>1, <2>5, <1>2, AcquaintedFrame
<1>13. ASSUME NEW i \in dropping[k], RemoveProvider(k, i) PROVE Acquainted(m, n)'
  <2>1. /\ providers' = [providers EXCEPT ![k] = @ \ {i}]
        /\ UNCHANGED <<notices, hellos, answers, adopting>>
    BY <1>13 DEF RemoveProvider
  <2>2. i # Id(n)
    BY <1>1 DEF RowInv, Gone
  <2>3. Id(n) \in providers[m] => Id(n) \in providers'[m]
    BY <2>1, <2>2, <1>5
  <2>. QED BY <2>1, <2>3, <1>2, AcquaintedFrame
<1>. QED BY <1>6, <1>7, <1>8, <1>9, <1>10, <1>11, <1>12, <1>13

\* What other processes do, and what a process does once it has announced itself.
LEMMA AcquaintedLife ==
    ASSUME Inv, NEW m \in Node, NEW n \in Node, m # n, Acquainted(m, n), NEW k \in Node,
           \/ Announce(k) \/ StartPolling(k) \/ Leave(k) \/ \E p \in Path : Register(k, p)
           \/ (Bind(k) \/ Stop(k)) /\ k \notin {m, n}
    PROVE  Acquainted(m, n)'
<1>. USE DEF network, catalog
<1>1. TypeOK
  BY DEF Inv
<1>2. ThisRun(k)[1] = k /\ ThisRun(m)[1] = m /\ ThisRun(n)[1] = n
  BY DEF ThisRun
<1>3. /\ providers \in [Node -> SUBSET Ident] /\ adopting \in [Node -> SUBSET Adoption]
      /\ boots \in [Node -> Nat]
  BY <1>1 DEF TypeOK
<1>4. CASE Announce(k) \/ StartPolling(k) \/ Leave(k) \/ \E p \in Path : Register(k, p)
  <2>1. /\ UNCHANGED <<boots, providers, adopting, hellos, answers>> /\ notices \subseteq notices'
    BY <1>4 DEF Announce, StartPolling, Leave, Register, Broadcast
  <2>. QED BY <2>1, AcquaintedFrame
<1>5. CASE Bind(k) /\ k \notin {m, n}
  <2>1. /\ UNCHANGED <<adopting, notices, hellos, answers>>
        /\ boots' = [boots EXCEPT ![k] = @ + 1]
        /\ providers' = [providers EXCEPT ![k] = {IdentOf(k, boots[k] + 1)}]
    BY <1>5 DEF Bind
  <2>2. boots'[m] = boots[m] /\ boots'[n] = boots[n] /\ providers'[m] = providers[m]
    BY <2>1, <1>3, <1>5
  <2>. QED BY <2>1, <2>2, AcquaintedFrame
<1>6. CASE Stop(k) /\ k \notin {m, n}
  <2>1. /\ UNCHANGED <<boots, hellos>>
        /\ providers' = [providers EXCEPT ![k] = {}] /\ adopting' = [adopting EXCEPT ![k] = {}]
        /\ notices' = {d \in notices : d.to # ThisRun(k)}
        /\ answers' = {x \in answers : x.to # ThisRun(k)}
    BY <1>6 DEF Stop
  <2>2. providers'[m] = providers[m] /\ adopting'[n] = adopting[n]
    BY <2>1, <1>3, <1>6
  <2>3. ThisRun(m) # ThisRun(k) /\ ThisRun(n) # ThisRun(k)
    BY <1>2, <1>6
  <2>4. /\ \A d \in notices : d.to \in {ThisRun(m), ThisRun(n)} => d \in notices'
        /\ \A x \in answers : x.to = ThisRun(m) => x \in answers'
    BY <2>1, <2>3
  <2>. QED BY <2>1, <2>2, <2>4, AcquaintedFrame
<1>. QED BY <1>4, <1>5, <1>6

\* Every step keeps introductions under way until they are made.
LEMMA AcquaintedStep == Inv /\ AcquaintedInv /\ [Next]_vars => AcquaintedInv'
<1>. SUFFICES ASSUME Inv, AcquaintedInv, [Next]_vars, NEW m \in Node, NEW n \in Node \ Configured, m # n,
                     stage'[m] \in {"loading", "up", "exiting"}, stage'[n] \in {"loading", "up"}, lost' = 0
              PROVE  Acquainted(m, n)'
  BY DEF AcquaintedInv
<1>. USE DEF network, catalog
<1>1. stage \in [Node -> Stage] /\ lost \in Nat
  BY DiscoveryAssumption DEF Inv, TypeOK
<1>2. CASE UNCHANGED vars
  <2>1. UNCHANGED <<stage, boots, own, remote, providers, adopting, dropping, notices, hellos, answers, lost>>
    BY <1>2 DEF vars
  <2>2. Acquainted(m, n)
    BY <2>1 DEF AcquaintedInv
  <2>. QED BY <2>1, <2>2, AcquaintedFrame
<1>3. ASSUME NEW d \in notices, Lose(d) PROVE FALSE
  BY <1>3, <1>1 DEF Lose
<1>4. ASSUME UNCHANGED <<stage, lost>> PROVE Acquainted(m, n) /\ stage[m] # "down"
  BY <1>4 DEF AcquaintedInv
<1>5. ASSUME NEW k \in Node,
             \/ \E d \in notices : MinionBoot(k, d) \/ MinionShutdown(k, d)
             \/ \E x \in hellos : MinionHello(k, x) \/ HelloFails(x)
             \/ \E x \in answers : ServicesList(k, x)
             \/ \E t \in adopting[k] : Added(k, t) \/ \E p \in Path : AddService(k, t, p)
             \/ \E i \in dropping[k] : RemoveProvider(k, i)
      PROVE  Acquainted(m, n)'
  <2>1. UNCHANGED <<stage, lost>>
    BY <1>5 DEF MinionBoot, MinionShutdown, MinionHello, HelloFails, ServicesList, Added, AddService,
           RemoveProvider
  <2>2. Acquainted(m, n) /\ stage[m] # "down" /\ stage[n] \in {"loading", "up"}
    BY <2>1, <1>4
  <2>. QED BY <1>5, <2>2, AcquaintedMessages
<1>6. ASSUME NEW k \in Node, Announce(k) PROVE Acquainted(m, n)'
  <2>1. stage' = [stage EXCEPT ![k] = "loading"] /\ lost' = lost
    BY <1>6 DEF Announce
  <2>2. CASE k \in {m, n}
    <3>1. (k = n => stage[m] # "down") /\ (k = m => stage[n] # "down")
      BY <2>1, <1>1
    <3>. QED BY <3>1, <2>2, <1>6, AcquaintedAnnounce DEF Inv
  <2>3. CASE k \notin {m, n}
    <3>1. stage'[m] = stage[m] /\ stage'[n] = stage[n]
      BY <2>1, <2>3, <1>1
    <3>2. Acquainted(m, n)
      BY <2>1, <3>1 DEF AcquaintedInv
    <3>. QED BY <3>2, <1>6, AcquaintedLife
  <2>. QED BY <2>2, <2>3
<1>7. ASSUME NEW k \in Node, StartPolling(k) \/ Leave(k) \/ \E p \in Path : Register(k, p)
      PROVE  Acquainted(m, n)'
  <2>1. /\ lost' = lost /\ stage[m] \in {"loading", "up", "exiting"} /\ stage[n] \in {"loading", "up"}
    BY <1>7, <1>1 DEF StartPolling, Leave, Register
  <2>2. Acquainted(m, n)
    BY <2>1 DEF AcquaintedInv
  <2>. QED BY <2>2, <1>7, AcquaintedLife
<1>8. ASSUME NEW k \in Node, Bind(k) \/ Stop(k) PROVE Acquainted(m, n)'
  <2>1. lost' = lost /\ (stage' = [stage EXCEPT ![k] = "bound"] \/ stage' = [stage EXCEPT ![k] = "down"])
    BY <1>8 DEF Bind, Stop
  <2>2. k \notin {m, n} /\ stage'[m] = stage[m] /\ stage'[n] = stage[n]
    BY <2>1, <1>1
  <2>3. Acquainted(m, n)
    BY <2>1, <2>2 DEF AcquaintedInv
  <2>. QED BY <2>2, <2>3, <1>8, AcquaintedLife
<1>. QED BY <1>2, <1>3, <1>5, <1>6, <1>7, <1>8 DEF Next, Progress

\* Whoever knows a running process has all its public services, however notices, hellos and
\* answers were interleaved, lost or overtaken; and while no notice is lost, of two processes
\* that have announced themselves each knows the other or is about to (minion_boot,
\* minion_hello and services_list).
THEOREM CatalogsComplete == Spec => []Complete
<1>1. Init => AcquaintedInv
  BY DEF Init, AcquaintedInv
<1>2. Inv /\ AcquaintedInv => Complete
  <2>1. SUFFICES ASSUME Inv, AcquaintedInv, NEW m \in Node, NEW n \in Node \ Configured, m # n
                 PROVE  /\ (/\ stage[m] \in {"loading", "up", "exiting"} /\ stage[n] \in {"loading", "up"}
                            /\ lost = 0)
                              => Id(n) \in providers[m] \/ Introducing(m, n)
                        /\ stage[n] = "up" /\ Knows(m, n)
                              => \A p \in Listing(n) : <<Id(n), p>> \in remote[m]
    BY DEF Complete
  <2>2. stage[n] = "up" /\ Knows(m, n) => \A p \in Listing(n) : <<Id(n), p>> \in remote[m]
    BY <2>1 DEF Inv, IntroductionInv, Introduction, Progressed, Knows
  <2>3. (/\ stage[m] \in {"loading", "up", "exiting"} /\ stage[n] \in {"loading", "up"} /\ lost = 0)
           => Id(n) \in providers[m] \/ Introducing(m, n)
    BY <2>1 DEF AcquaintedInv, Acquainted
  <2>. QED BY <2>2, <2>3
<1>. QED BY InitInv, NextInv, AcquaintedStep, <1>1, <1>2, PTL DEF Spec
=============================================================================
