----------------------------- MODULE Discovery -----------------------------
(***************************************************************************)
(* How the processes of a network learn of each other's services: the      *)
(* "minions" handlers of the REST engine and the catalog they write to.    *)
(*                                                                         *)
(* A process that boots binds its sockets, announces itself by multicast   *)
(* (UDP: a notice may be lost, or overtaken), goes on to load the plugins  *)
(* that register services, and only then starts to poll.  Whoever reads    *)
(* the notice sends a hello, with its own services, to the address in it;  *)
(* the hello is answered with the services of the other.  A process that   *)
(* leaves says so by multicast as well; one that crashes does not.         *)
(*                                                                         *)
(* Handlers run on several workers: those that write more than one row of  *)
(* the catalog are tasks, and other handlers run between two of their      *)
(* steps.  The "/minions" services, which are never passed on, are left    *)
(* out; a catalog is in memory, and a process starts with an empty one.    *)
(***************************************************************************)
EXTENDS Naturals

CONSTANTS
    Node,         \* processes: an address each
    Path,         \* services
    Offers,       \* those that each process has plugins for
    Private,      \* those registered with "public": false
    Configured,   \* processes whose identity is configured; others make a new one each time
    MaxBoots,     \* bound: how often each process is started
    MaxLost       \* bound: how many notices are lost

ASSUME DiscoveryAssumption ==
    /\ Offers \in [Node -> SUBSET Path]
    /\ Private \subseteq Path
    /\ Configured \subseteq Node
    /\ MaxBoots \in [Node -> Nat]
    /\ MaxLost \in Nat

\* A run of a process, and the identity it goes by.
Run == Node \X Nat
Ident == Node \X Nat

VARIABLES
    stage,      \* of every process
    boots,      \* how often it has been started
    own,        \* its catalog: rows of its own, ...
    remote,     \* ... rows with hash 0, <<provider_id, path>>, ...
    providers,  \* ... and the table of providers
    adopting,   \* its handlers inside add_minion
    dropping,   \* its handlers inside remove_provider, which have removed the services
    notices,    \* multicast messages under way; equal messages, here and below, are one,
    hellos,     \*   as handling the second would change nothing
    answers,
    lost        \* how many notices were lost

vars == <<stage, boots, own, remote, providers, adopting, dropping, notices, hellos, answers, lost>>

catalog == <<own, remote, providers>>
network == <<notices, hellos, answers>>

Stage == {"down", "bound", "loading", "up", "exiting"}
Notice == [path : {"boot", "shutdown"}, id : Ident, to : Run]
Hello == [to : Node, from : Run, provider : Ident, services : SUBSET Path]
Answer == [to : Run, provider : Ident, services : SUBSET Path]
\* add_minion: the services still to be added and, for a hello, whom to answer.
Adoption == [provider : Ident, left : SUBSET Path, answer : BOOLEAN, caller : Run]

ThisRun(n) == <<n, boots[n]>>

\* IDENTITY()("_id") of a process started for the k-th time.
IdentOf(n, k) == IF n \in Configured THEN <<n, 0>> ELSE <<n, k>>

Id(n) == IdentOf(n, boots[n])

\* The process reads what arrives: poll() runs, or what it has read is still being handled.
Handling(n) == stage[n] \in {"up", "exiting"}

\* Faulty variant: private services are passed on too.
Listing_all(n) == own[n]

\* catalog::list of one's own services.
Listing(n) == own[n] \ Private

Init ==
    /\ stage = [n \in Node |-> "down"]
    /\ boots = [n \in Node |-> 0]
    /\ own = [n \in Node |-> {}]
    /\ remote = [n \in Node |-> {}]
    /\ providers = [n \in Node |-> {}]
    /\ adopting = [n \in Node |-> {}]
    /\ dropping = [n \in Node |-> {}]
    /\ notices = {}
    /\ hellos = {}
    /\ answers = {}
    /\ lost = 0

(***************************************************************************)
(* The life of a process                                                   *)
(***************************************************************************)

\* The transports are loaded, their sockets bound; the catalog knows the process itself.
Bind(n) ==
    /\ stage[n] = "down"
    /\ boots[n] < MaxBoots[n]
    /\ stage' = [stage EXCEPT ![n] = "bound"]
    /\ boots' = [boots EXCEPT ![n] = @ + 1]
    /\ providers' = [providers EXCEPT ![n] = {IdentOf(n, boots[n] + 1)}]
    /\ UNCHANGED <<own, remote, adopting, dropping, network, lost>>

\* services::broadcast: to whoever has its socket bound.  The sender gets a copy too; its
\* handlers ignore what has their own id, and the copy is left out here.
Broadcast(n, path) ==
    notices' = notices \cup {[path |-> path, id |-> Id(n), to |-> ThisRun(m)] :
                                 m \in {x \in Node \ {n} : stage[x] # "down"}}

\* The plugin "rest" is loaded.
Announce(n) ==
    /\ stage[n] = "bound"
    /\ stage' = [stage EXCEPT ![n] = "loading"]
    /\ Broadcast(n, "boot")
    /\ UNCHANGED <<boots, catalog, adopting, dropping, hellos, answers, lost>>

\* Faulty variant: services are registered while the process already answers.
Register_late(n, p) ==
    /\ stage[n] \in {"loading", "up"}
    /\ p \in Offers[n] \ own[n]
    /\ own' = [own EXCEPT ![n] = @ \cup {p}]
    /\ UNCHANGED <<stage, boots, remote, providers, adopting, dropping, network, lost>>

\* resolver_t::add, by the plugins that are loaded after "rest".
Register(n, p) ==
    /\ stage[n] = "loading"
    /\ p \in Offers[n] \ own[n]
    /\ own' = [own EXCEPT ![n] = @ \cup {p}]
    /\ UNCHANGED <<stage, boots, remote, providers, adopting, dropping, network, lost>>

\* Everything is loaded: poll().
StartPolling(n) ==
    /\ stage[n] = "loading"
    /\ stage' = [stage EXCEPT ![n] = "up"]
    /\ UNCHANGED <<boots, catalog, adopting, dropping, network, lost>>

\* SYSTEM_EVENT_EXITING.
Leave(n) ==
    /\ stage[n] = "up"
    /\ stage' = [stage EXCEPT ![n] = "exiting"]
    /\ Broadcast(n, "shutdown")
    /\ UNCHANGED <<boots, catalog, adopting, dropping, hellos, answers, lost>>

\* The process is gone, after it left or because it crashed, with its memory, its handlers
\* and its connections.
Stop(n) ==
    /\ stage[n] # "down"
    /\ stage' = [stage EXCEPT ![n] = "down"]
    /\ own' = [own EXCEPT ![n] = {}]
    /\ remote' = [remote EXCEPT ![n] = {}]
    /\ providers' = [providers EXCEPT ![n] = {}]
    /\ adopting' = [adopting EXCEPT ![n] = {}]
    /\ dropping' = [dropping EXCEPT ![n] = {}]
    /\ notices' = {d \in notices : d.to # ThisRun(n)}
    /\ answers' = {x \in answers : x.to # ThisRun(n)}
    /\ UNCHANGED <<boots, hellos, lost>>

(***************************************************************************)
(* The handlers                                                            *)
(***************************************************************************)
Lose(d) ==
    /\ lost < MaxLost
    /\ lost' = lost + 1
    /\ notices' = notices \ {d}
    /\ UNCHANGED <<stage, boots, catalog, adopting, dropping, hellos, answers>>

\* Faulty variant: sends the hello to X-My-ID, not to X-My-Location.
MinionBoot_id(n, d) ==
    /\ Handling(n)
    /\ d.path = "boot" /\ d.to = ThisRun(n)
    /\ notices' = notices \ {d}
    /\ hellos' = hellos \cup {[to |-> d.id, from |-> ThisRun(n),
                               provider |-> Id(n), services |-> Listing(n)]}
    /\ UNCHANGED <<stage, boots, catalog, adopting, dropping, answers, lost>>

\* minion_boot: say hello at the address in the notice.
MinionBoot(n, d) ==
    /\ Handling(n)
    /\ d.path = "boot" /\ d.to = ThisRun(n)
    /\ notices' = notices \ {d}
    /\ hellos' = hellos \cup {[to |-> d.id[1], from |-> ThisRun(n),
                               provider |-> Id(n), services |-> Listing(n)]}
    /\ UNCHANGED <<stage, boots, catalog, adopting, dropping, answers, lost>>

\* add_minion up to register_provider, which throws if the provider is known.
AddMinion(n, x, answer, caller) ==
    /\ providers' = [providers EXCEPT ![n] = @ \cup {x.provider}]
    /\ adopting' = [adopting EXCEPT ![n] = @ \cup
           {[provider |-> x.provider, answer |-> answer, caller |-> caller,
             left |-> IF x.provider \in providers[n] THEN {} ELSE x.services]}]

MinionHello(n, x) ==
    /\ Handling(n)
    /\ x.to = n
    /\ hellos' = hellos \ {x}
    /\ AddMinion(n, x, TRUE, x.from)
    /\ UNCHANGED <<stage, boots, own, remote, dropping, notices, answers, lost>>

\* The connection is refused, or the caller has gone.
HelloFails(x) ==
    /\ stage[x.to] = "down" \/ x.from # ThisRun(x.from[1]) \/ stage[x.from[1]] = "down"
    /\ hellos' = hellos \ {x}
    /\ UNCHANGED <<stage, boots, catalog, adopting, dropping, notices, answers, lost>>

\* services_list: the answer to one's hello.
ServicesList(n, x) ==
    /\ Handling(n)
    /\ x.to = ThisRun(n)
    /\ answers' = answers \ {x}
    /\ AddMinion(n, x, FALSE, x.to)
    /\ UNCHANGED <<stage, boots, own, remote, dropping, notices, hellos, lost>>

\* A row is added; if it is there already add throws, and the rest is not added.
AddService(n, t, p) ==
    /\ p \in t.left
    /\ remote' = [remote EXCEPT ![n] = @ \cup {<<t.provider, p>>}]
    /\ adopting' = [adopting EXCEPT ![n] = (@ \ {t}) \cup
           {[t EXCEPT !.left = IF <<t.provider, p>> \in remote[n] THEN {} ELSE @ \ {p}]}]
    /\ UNCHANGED <<stage, boots, own, providers, dropping, network, lost>>

\* Faulty variant: whoever says hello is not told of one's own services.
Added_silent(n, t) ==
    /\ t.left = {}
    /\ adopting' = [adopting EXCEPT ![n] = @ \ {t}]
    /\ UNCHANGED <<stage, boots, catalog, dropping, network, lost>>

\* add_minion is over; minion_hello answers, if the caller is still there.
Added(n, t) ==
    /\ t.left = {}
    /\ adopting' = [adopting EXCEPT ![n] = @ \ {t}]
    /\ answers' = IF t.answer /\ t.caller = ThisRun(t.caller[1]) /\ stage[t.caller[1]] # "down"
                  THEN answers \cup {[to |-> t.caller, provider |-> Id(n), services |-> Listing(n)]}
                  ELSE answers
    /\ UNCHANGED <<stage, boots, catalog, dropping, notices, hellos, lost>>

\* minion_shutdown up to the removal of the services ...
MinionShutdown(n, d) ==
    /\ Handling(n)
    /\ d.path = "shutdown" /\ d.to = ThisRun(n)
    /\ notices' = notices \ {d}
    /\ remote' = [remote EXCEPT ![n] = {r \in @ : r[1] # d.id}]
    /\ dropping' = [dropping EXCEPT ![n] = @ \cup {d.id}]
    /\ UNCHANGED <<stage, boots, own, providers, adopting, hellos, answers, lost>>

\* ... and the removal of the provider.
RemoveProvider(n, i) ==
    /\ providers' = [providers EXCEPT ![n] = @ \ {i}]
    /\ dropping' = [dropping EXCEPT ![n] = @ \ {i}]
    /\ UNCHANGED <<stage, boots, own, remote, adopting, network, lost>>

\* What the network and the workers do on their own.
Progress ==
    \/ \E n \in Node : \/ Announce(n) \/ StartPolling(n)
                       \/ \E d \in notices : MinionBoot(n, d) \/ MinionShutdown(n, d)
                       \/ \E x \in hellos : MinionHello(n, x)
                       \/ \E x \in answers : ServicesList(n, x)
                       \/ \E t \in adopting[n] : Added(n, t) \/ \E p \in Path : AddService(n, t, p)
                       \/ \E i \in dropping[n] : RemoveProvider(n, i)
    \/ \E x \in hellos : HelloFails(x)

Next ==
    \/ Progress
    \/ \E n \in Node : \/ Bind(n) \/ Leave(n) \/ Stop(n)
                       \/ \E p \in Path : Register(n, p)
    \/ \E d \in notices : Lose(d)

Spec == Init /\ [][Next]_vars

\* Boot goes on, the sockets are polled, and events that are ready are handled.
FairSpec == Spec /\ WF_vars(Progress)

(***************************************************************************)
(* Properties                                                              *)
(***************************************************************************)
TypeOK ==
    /\ stage \in [Node -> Stage]
    /\ boots \in [Node -> Nat]
    /\ own \in [Node -> SUBSET Path]
    /\ remote \in [Node -> SUBSET (Ident \X Path)]
    /\ providers \in [Node -> SUBSET Ident]
    /\ adopting \in [Node -> SUBSET Adoption]
    /\ dropping \in [Node -> SUBSET Ident]
    /\ notices \subseteq Notice
    /\ hellos \subseteq Hello
    /\ answers \subseteq Answer
    /\ lost \in 0..MaxLost

\* A catalog never offers a service of a running process that this process does not have,
\* nor one that it keeps private.
Truthful ==
    \A m \in Node, n \in Node \ Configured, p \in Path :
        stage[n] \in {"up", "exiting"} /\ <<Id(n), p>> \in remote[m] => p \in own[n] \ Private

\* m has n among its providers and no handler is adding its services.
Knows(m, n) ==
    /\ Id(n) \in providers[m]
    /\ \A t \in adopting[m] : t.provider = Id(n) => t.left = {}

\* m is about to learn of n.  Either n's boot notice is on its way to m, or m's hello to n,
\* or n is handling it or has answered; or the boot notice of m is on its way to n, or n's
\* hello to m.
Introducing(m, n) ==
    \/ \E d \in notices : d.path = "boot" /\ d.id = Id(n) /\ d.to = ThisRun(m)
    \/ \E x \in hellos : x.to = n /\ x.from = ThisRun(m)
    \/ \E t \in adopting[n] : t.answer /\ t.caller = ThisRun(m)
    \/ \E x \in answers : x.to = ThisRun(m) /\ x.provider = Id(n)
    \/ \E d \in notices : d.path = "boot" /\ d.id[1] = m /\ d.to = ThisRun(n)
    \/ \E x \in hellos : x.to = m /\ x.provider = Id(n) /\ x.from = ThisRun(n)

\* Of two processes that have announced themselves each knows the other or is about to
\* learn of it, as long as no notice is lost: whichever came first, whatever restarts,
\* no hello or answer went astray.  And whoever knows a running process knows all its
\* services: it got them in one list, made after everything was registered.
Complete ==
    \A m \in Node, n \in Node \ Configured : m # n =>
        /\ (/\ stage[m] \in {"loading", "up", "exiting"} /\ stage[n] \in {"loading", "up"}
            /\ lost = 0)
              => Id(n) \in providers[m] \/ Introducing(m, n)
        /\ stage[n] = "up" /\ Knows(m, n) => \A p \in Listing(n) : <<Id(n), p>> \in remote[m]

\* If no notice is lost, of two processes that stay up each comes to know the other, in
\* whatever order they were started: at least one of them was bound when the other announced.
Introduced ==
    \A m \in Node, n \in Node \ Configured :
        m # n /\ <>[](stage[m] = "up" /\ stage[n] = "up" /\ lost = 0) => <>[]Knows(m, n)
=============================================================================
