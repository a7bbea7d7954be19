--------------------------- MODULE StartupProofs ---------------------------
(***************************************************************************)
(* Theorems about Startup, for every table of builtin plugins and every    *)
(* configuration.                                                          *)
(***************************************************************************)
EXTENDS Startup, FiniteSetTheorems, TLAPS

\* Listed plugins that are not builtins are listed once and with a source; what was
\* appended for them requires nothing.
ListInv ==
    /\ listed \in 1..Len(conf)
    /\ \A i, j \in 1..listed :
          conf[i].name = conf[j].name /\ conf[i].name \notin Builtin => i = j
    /\ \A i \in 1..listed : conf[i].name \notin Builtin => conf[i].source = TRUE
    /\ \A i \in 1..Len(conf) :
          i > listed /\ conf[i].name \notin Builtin => conf[i].requires = <<>>

Resolving == phase \in {"resolve", "append"}

\* Entries that have been resolved have a source if they are builtins, and there is an
\* entry for everything they require.
ResolvedInv ==
    /\ \A i \in 1..Len(conf) : (Resolving => i < cursor) =>
          /\ conf[i].name \in Builtin => conf[i].source = TRUE
          /\ Elements(RequiresOf(conf[i])) \subseteq Names
    /\ phase = "append" =>
          /\ cursor \in 1..Len(conf)
          /\ conf[cursor].name \in Builtin => conf[cursor].source = TRUE
          /\ Elements(RequiresOf(conf[cursor])) \subseteq Names \cup Elements(deps)
    /\ Resolving => cursor >= 1 /\ plugins = {} /\ order = <<>> /\ waiting = [p \in Plugin |-> {}]

\* What is outstanding for a name is required by an entry of that name.
WaitInv ==
    \A p \in Plugin : \A x \in waiting[p] :
        \E j \in 1..Len(conf) : conf[j].name = p /\ x \in Elements(RequiresOf(conf[j]))

\* Some entry of the name requires something that is not loaded.
Stuck(p) ==
    \E j \in 1..Len(conf) : conf[j].name = p /\ ~ (Elements(RequiresOf(conf[j])) \subseteq plugins)

\* Every plugin that is left requires one that is left.
Circular ==
    \A p \in Names \ plugins : \E i \in 1..Len(conf) :
        conf[i].name = p /\ Elements(RequiresOf(conf[i])) \cap (Names \ plugins) # {}

\* Behind the cursor, what is not loaded has something outstanding; and as long as the
\* pass has loaded nothing, something that is not loaded.
PassInv ==
    phase = "load" =>
        \A i \in 1..Len(conf) : i < cursor /\ conf[i].name \notin plugins =>
            /\ waiting[conf[i].name] # {}
            /\ changed = FALSE => Stuck(conf[i].name)

\* What was loaded before the k-th plugin.
Before(k) == {order[j] : j \in 1..k - 1}

\* A plugin comes after all that it requires.
Ordered ==
    \A k \in 1..Len(order) : \A i \in 1..Len(conf) :
        conf[i].name = order[k] => Elements(RequiresOf(conf[i])) \subseteq Before(k)

\* The order of loading lists what is loaded, once.
OrderInv ==
    /\ Ordered
    /\ \A j, k \in 1..Len(order) : order[j] = order[k] => j = k
    /\ phase \in {"load", "running"} => plugins = {order[j] : j \in 1..Len(order)}
    /\ phase = "unload" => /\ cursor <= Len(order)
                           /\ plugins = {order[j] : j \in 1..cursor}

\* A pass starts at the first entry, and with something left to load.
CursorInv ==
    phase = "load" => cursor >= 1 /\ (changed = FALSE => ~ (Names \subseteq plugins))

Inv == TypeOK /\ ListInv /\ CursorInv /\ ResolvedInv /\ WaitInv /\ PassInv /\ OrderInv
          /\ SourceUsed /\ UnmetIsCircular /\ AllLoaded

\* The elements of a sequence, of none, and of one more.
LEMMA ElementsOf ==
    /\ \A s \in Seq(Plugin) : Elements(s) \subseteq Plugin
    /\ Elements(<<>>) = {}
    /\ \A s \in Seq(Plugin), x \in Plugin : Elements(Append(s, x)) = Elements(s) \cup {x}
    /\ \A s \in Seq(Plugin) : s # <<>> => Elements(s) = Elements(Tail(s)) \cup {Head(s)}
<1>1. \A s \in Seq(Plugin) : Elements(s) \subseteq Plugin
  BY DEF Elements
<1>2. Elements(<<>>) = {}
  BY DEF Elements
<1>3. ASSUME NEW s \in Seq(Plugin), NEW x \in Plugin
      PROVE  Elements(Append(s, x)) = Elements(s) \cup {x}
  <2>1. DOMAIN Append(s, x) = 1..Len(s) + 1 /\ DOMAIN s = 1..Len(s) /\ Len(s) \in Nat
    OBVIOUS
  <2>2. /\ \A i \in 1..Len(s) : Append(s, x)[i] = s[i]
        /\ Append(s, x)[Len(s) + 1] = x
    OBVIOUS
  <2>3. 1..Len(s) + 1 = 1..Len(s) \cup {Len(s) + 1}
    BY <2>1
  <2>. QED BY <2>1, <2>2, <2>3, Zenon DEF Elements
<1>4. ASSUME NEW s \in Seq(Plugin), s # <<>>
      PROVE  Elements(s) = Elements(Tail(s)) \cup {Head(s)}
  <2>1. /\ DOMAIN s = 1..Len(s) /\ DOMAIN Tail(s) = 1..Len(s) - 1
        /\ Len(s) \in Nat /\ Len(s) >= 1
        /\ Head(s) = s[1]
    BY <1>4
  <2>2. \A i \in 1..Len(s) - 1 : Tail(s)[i] = s[i + 1] /\ i + 1 \in 1..Len(s)
    BY <1>4, <2>1
  <2>3. ASSUME NEW x \in Elements(s) PROVE x \in Elements(Tail(s)) \cup {Head(s)}
    <3>1. PICK i \in 1..Len(s) : x = s[i]
      BY <2>1, <2>3 DEF Elements
    <3>2. CASE i = 1
      BY <3>1, <3>2, <2>1
    <3>3. CASE i # 1
      <4>1. i - 1 \in 1..Len(s) - 1 /\ (i - 1) + 1 = i
        BY <3>1, <3>3, <2>1
      <4>. QED BY <4>1, <2>1, <2>2, <3>1 DEF Elements
    <3>. QED BY <3>2, <3>3
  <2>4. ASSUME NEW x \in Elements(Tail(s)) \cup {Head(s)} PROVE x \in Elements(s)
    <3>1. 1 \in 1..Len(s)
      BY <2>1
    <3>. QED BY <2>1, <2>2, <2>4, <3>1 DEF Elements
  <2>. QED BY <2>3, <2>4
<1>. QED BY <1>1, <1>2, <1>3, <1>4

\* A list with one entry replaced.
LEMMA ReplaceEntry ==
    ASSUME NEW s \in Seq(Entry), NEW k \in 1..Len(s), NEW e \in Entry
    PROVE  LET t == [s EXCEPT ![k] = e]
           IN  /\ t \in Seq(Entry) /\ Len(t) = Len(s) /\ t[k] = e
               /\ \A i \in 1..Len(s) : i # k => t[i] = s[i]
OBVIOUS

\* Two lists with the same names.
LEMMA SameNames ==
    ASSUME NEW S, NEW s, NEW t, \A i \in S : t[i].name = s[i].name
    PROVE  {t[i].name : i \in S} = {s[i].name : i \in S}
OBVIOUS

\* The type of what an entry requires.
LEMMA RequiresTyped ==
    ASSUME TypeOK, NEW i \in 1..Len(conf)
    PROVE  /\ conf[i] \in Entry
           /\ conf[i].name \in Plugin
           /\ RequiresOf(conf[i]) \in Seq(Plugin)
           /\ Elements(RequiresOf(conf[i])) \subseteq Plugin
<1>1. conf[i] \in Entry
  BY DEF TypeOK
<1>2. conf[i].name \in Plugin /\ conf[i].requires \in Seq(Plugin)
  BY <1>1 DEF Entry
<1>3. RequiresOf(conf[i]) \in Seq(Plugin)
  BY <1>2 DEF TypeOK, RequiresOf
<1>. QED BY <1>1, <1>2, <1>3, ElementsOf

\* A configuration as the constructor leaves it.
LEMMA InitInv == Init => Inv
<1>. SUFFICES ASSUME Init PROVE Inv
  OBVIOUS
<1>. USE PluginAssumption
<1>1. PICK l \in UserLists :
        conf = Append(l, [name |-> Self, source |-> TRUE, requires |-> <<>>])
  BY DEF Init
<1>2. /\ l \in Seq(Entry)
      /\ [name |-> Self, source |-> TRUE, requires |-> <<>>] \in Entry
  <2>1. Self \in Plugin /\ <<>> \in Seq(Plugin) /\ TRUE \in BOOLEAN
    OBVIOUS
  <2>2. [name |-> Self, source |-> TRUE, requires |-> <<>>] \in Entry
    BY <2>1 DEF Entry
  <2>. QED BY <2>2
<1>3. /\ conf \in Seq(Entry) /\ Len(conf) = Len(l) + 1 /\ Len(l) \in Nat
      /\ \A i \in 1..Len(l) : conf[i] = l[i]
      /\ conf[Len(l) + 1] = [name |-> Self, source |-> TRUE, requires |-> <<>>]
  BY <1>1, <1>2
<1>4. TypeOK
  BY <1>3 DEF Init, TypeOK, Phase
<1>5. conf[Len(l) + 1].name = Self /\ conf[Len(l) + 1].name \in Builtin
  BY <1>3
<1>6. ListInv
  <2>1. listed \in 1..Len(conf) /\ listed = Len(l) + 1
    BY <1>3 DEF Init
  <2>2. ASSUME NEW i \in 1..listed, conf[i].name \notin Builtin
        PROVE  i \in 1..Len(l) /\ conf[i] = l[i]
    BY <2>1, <2>2, <1>3, <1>5
  <2>3. ASSUME NEW i \in 1..listed, NEW j \in 1..listed,
               conf[i].name = conf[j].name, conf[i].name \notin Builtin
        PROVE  i = j
    BY <2>2, <2>3
  <2>4. ASSUME NEW i \in 1..listed, conf[i].name \notin Builtin PROVE conf[i].source = TRUE
    <3>1. i \in 1..Len(l) /\ conf[i] = l[i] /\ l[i] \in Entry
      BY <2>2, <2>4, <1>2
    <3>2. l[i].source /\ l[i].source \in BOOLEAN
      BY <3>1, <2>4 DEF Entry
    <3>. QED BY <3>1, <3>2
  <2>5. ASSUME NEW i \in 1..Len(conf), i > listed PROVE FALSE
    BY <2>5, <2>1, <1>3
  <2>. QED BY <2>1, <2>3, <2>4, <2>5 DEF ListInv
<1>7. ResolvedInv
  BY <1>3 DEF Init, ResolvedInv, Resolving
<1>8. CursorInv /\ WaitInv /\ PassInv /\ OrderInv /\ SourceUsed /\ UnmetIsCircular /\ AllLoaded
  BY DEF Init, CursorInv, WaitInv, PassInv, OrderInv, Ordered, SourceUsed, UnmetIsCircular, AllLoaded
<1>. QED BY <1>4, <1>6, <1>7, <1>8 DEF Inv

\* The actions of load and unload leave the list and the table alone.
Fixed == conf' = conf /\ listed' = listed /\ table' = table /\ deps' = deps

\* What a step that leaves the list and the table alone leaves alone with them.
LEMMA FixedFrame ==
    ASSUME Fixed
    PROVE  /\ \A i \in 1..Len(conf) : RequiresOf(conf[i])' = RequiresOf(conf[i])
           /\ Names' = Names
           /\ ListInv => ListInv'
<1>1. \A i \in 1..Len(conf) : RequiresOf(conf[i])' = RequiresOf(conf[i])
  BY DEF Fixed, RequiresOf
<1>2. Names' = Names
  BY DEF Fixed, Names
<1>3. ListInv => ListInv'
  BY DEF Fixed, ListInv
<1>. QED BY <1>1, <1>2, <1>3

\* What depends on nothing but the list, the table and what is loaded.
LEMMA LoadedFrame ==
    ASSUME Fixed
    PROVE  /\ order' = order /\ Ordered => Ordered'
           /\ plugins' = plugins => \A p : Stuck(p)' = Stuck(p)
           /\ waiting' = waiting /\ WaitInv => WaitInv'
           /\ plugins' = plugins /\ Circular => Circular'
<1>1. order' = order /\ Ordered => Ordered'
  <2>1. SUFFICES ASSUME order' = order, Ordered PROVE Ordered'
    OBVIOUS
  <2>2. \A i \in 1..Len(conf) : Elements(RequiresOf(conf[i]))' = Elements(RequiresOf(conf[i]))
    BY DEF Fixed, RequiresOf, Elements
  <2>3. \A k : Before(k)' = Before(k)
    BY <2>1 DEF Before
  <2>. QED BY <2>1, <2>2, <2>3 DEF Ordered, Fixed
<1>2. plugins' = plugins => \A p : Stuck(p)' = Stuck(p)
  BY DEF Fixed, Stuck, RequiresOf, Elements
<1>3. waiting' = waiting /\ WaitInv => WaitInv'
  BY DEF Fixed, WaitInv, RequiresOf, Elements
<1>4. plugins' = plugins /\ Circular => Circular'
  <2>1. SUFFICES ASSUME plugins' = plugins, Circular, NEW p \in Names \ plugins
                 PROVE  \E i \in 1..Len(conf') :
                            conf'[i].name = p /\ Elements(RequiresOf(conf[i]))' \cap (Names \ plugins) # {}
    BY FixedFrame DEF Circular
  <2>2. PICK i \in 1..Len(conf) :
            conf[i].name = p /\ Elements(RequiresOf(conf[i])) \cap (Names \ plugins) # {}
    BY <2>1 DEF Circular
  <2>3. Elements(RequiresOf(conf[i]))' = Elements(RequiresOf(conf[i]))
    BY DEF Fixed, RequiresOf, Elements
  <2>. QED BY <2>2, <2>3 DEF Fixed
<1>. QED BY <1>1, <1>2, <1>3, <1>4

\* Once loading has begun, resolved entries stay resolved.
LEMMA ResolvedFrame ==
    ASSUME Inv, Fixed, ~ Resolving, ~ Resolving'
    PROVE  ResolvedInv'
<1>1. phase' # "append"
  BY DEF Resolving
<1>2. \A i \in 1..Len(conf) :
          /\ conf[i].name \in Builtin => conf[i].source = TRUE
          /\ Elements(RequiresOf(conf[i])) \subseteq Names
  BY DEF Inv, ResolvedInv
<1>. QED BY <1>1, <1>2, FixedFrame DEF ResolvedInv, Fixed, Elements

\* Resolving an entry adds its name to the table, and its name is listed.
LEMMA ResolveEntryStep == Inv /\ ResolveEntry => Inv'
<1>. SUFFICES ASSUME Inv, ResolveEntry PROVE Inv'
  OBVIOUS
<1>. USE PluginAssumption
<1>. DEFINE n == conf[cursor].name
<1>1. /\ TypeOK /\ ListInv /\ ResolvedInv /\ Resolving /\ Resolving'
      /\ phase = "resolve" /\ phase' = "append" /\ cursor \in 1..Len(conf) /\ cursor' = cursor
      /\ UNCHANGED <<listed, cursor, changed, waiting, plugins, order>>
  BY DEF Inv, ResolveEntry, Resolving, ResolvedInv, TypeOK
<1>2. n \in Plugin /\ conf[cursor] \in Entry
  BY <1>1, RequiresTyped
<1>3. /\ Len(conf') = Len(conf) /\ conf' \in Seq(Entry)
      /\ \A i \in 1..Len(conf) : /\ conf'[i].name = conf[i].name
                                 /\ conf'[i].requires = conf[i].requires
                                 /\ conf[i].source = TRUE => conf'[i].source = TRUE
      /\ n \in Builtin => conf'[cursor].source = TRUE
  <2>1. conf' = [conf EXCEPT ![cursor] = [conf[cursor] EXCEPT !.source = @ \/ n \in Builtin]]
    BY DEF ResolveEntry
  <2>2. conf[cursor].source \in BOOLEAN
    BY <1>2 DEF Entry
  <2>3. (conf[cursor].source \/ n \in Builtin) \in BOOLEAN
    OBVIOUS
  <2>4. [conf[cursor] EXCEPT !.source = @ \/ n \in Builtin] \in Entry
    BY <1>2, <2>3 DEF Entry
  <2>5. conf \in Seq(Entry)
    BY <1>1 DEF TypeOK
  <2>6. /\ conf' \in Seq(Entry) /\ Len(conf') = Len(conf)
        /\ \A i \in 1..Len(conf) : i # cursor => conf'[i] = conf[i]
        /\ conf'[cursor] = [conf[cursor] EXCEPT !.source = @ \/ n \in Builtin]
    BY <2>1, <2>4, <2>5, <1>1, ReplaceEntry
  <2>7. /\ conf'[cursor].name = n /\ conf'[cursor].requires = conf[cursor].requires
        /\ conf'[cursor].source = (conf[cursor].source \/ n \in Builtin)
    BY <2>6, <1>2 DEF Entry
  <2>. QED BY <2>2, <2>6, <2>7
<1>4. /\ table' = Grow(n)
      /\ table' \in [Builtin -> Seq(Plugin)]
      /\ \A b \in Builtin : Elements(table'[b]) \subseteq Elements(table[b]) \cup {n}
  <2>1. table' = Grow(n)
    BY DEF ResolveEntry
  <2>2. ASSUME NEW b \in Builtin
        PROVE  Grow(n)[b] \in Seq(Plugin) /\ Elements(Grow(n)[b]) \subseteq Elements(table[b]) \cup {n}
    <3>1. table[b] \in Seq(Plugin)
      BY <1>1 DEF TypeOK
    <3>2. Grow(n)[b] = Append(table[b], n) \/ Grow(n)[b] = table[b]
      BY DEF Grow
    <3>3. Append(table[b], n) \in Seq(Plugin)
      BY <3>1, <1>2
    <3>. QED BY <3>1, <3>2, <3>3, <1>2, ElementsOf
  <2>. QED BY <2>1, <2>2 DEF Grow
<1>5. deps' = RequiresOf(conf[cursor])' /\ deps' \in Seq(Plugin)
  <2>1. deps' = IF n \in Builtin THEN table'[n] ELSE conf[cursor].requires
    BY DEF ResolveEntry
  <2>2. conf'[cursor].name = n /\ conf'[cursor].requires = conf[cursor].requires
    BY <1>3, <1>1
  <2>3. conf[cursor].requires \in Seq(Plugin)
    BY <1>2 DEF Entry
  <2>. QED BY <2>1, <2>2, <2>3, <1>4, <1>1 DEF RequiresOf
<1>6. Names' = Names /\ n \in Names
  <2>1. \A i \in 1..Len(conf) : conf'[i].name = conf[i].name
    BY <1>3
  <2>2. {conf'[i].name : i \in 1..Len(conf)} = {conf[i].name : i \in 1..Len(conf)}
    BY ONLY <2>1, SameNames
  <2>3. Names' = {conf'[i].name : i \in 1..Len(conf)}
    BY <1>3 DEF Names
  <2>4. Names = {conf[i].name : i \in 1..Len(conf)}
    BY DEF Names
  <2>5. n \in Names
    BY <1>1, <2>4
  <2>. QED BY <2>2, <2>3, <2>4, <2>5
<1>7. TypeOK'
  BY <1>1, <1>3, <1>4, <1>5 DEF TypeOK, Phase
<1>8. ListInv'
  <2>1. listed' = listed /\ listed \in 1..Len(conf) /\ listed \in 1..Len(conf')
    BY <1>1, <1>3 DEF ListInv
  <2>2. \A i \in 1..listed : i \in 1..Len(conf)
    BY <2>1
  <2>3. \A i, j \in 1..listed :
            conf'[i].name = conf'[j].name /\ conf'[i].name \notin Builtin => i = j
    BY <1>1, <1>3, <2>2 DEF ListInv
  <2>4. \A i \in 1..listed : conf'[i].name \notin Builtin => conf'[i].source = TRUE
    BY <1>1, <1>3, <2>2 DEF ListInv
  <2>5. \A i \in 1..Len(conf) :
            i > listed /\ conf'[i].name \notin Builtin => conf'[i].requires = <<>>
    BY <1>1, <1>3 DEF ListInv
  <2>. QED BY <2>1, <2>3, <2>4, <2>5, <1>3 DEF ListInv
<1>9. ResolvedInv'
  <2>1. ASSUME NEW i \in 1..Len(conf), i < cursor
        PROVE  /\ conf'[i].name \in Builtin => conf'[i].source = TRUE
               /\ Elements(RequiresOf(conf[i])') \subseteq Names
    <3>1. /\ conf[i].name \in Builtin => conf[i].source = TRUE
          /\ Elements(RequiresOf(conf[i])) \subseteq Names
      BY <1>1, <2>1 DEF ResolvedInv
    <3>2. CASE conf[i].name \in Builtin
      <4>1. RequiresOf(conf[i]) = table[conf[i].name] /\ RequiresOf(conf[i])' = table'[conf[i].name]
        BY <3>2, <1>3 DEF RequiresOf
      <4>2. Elements(RequiresOf(conf[i])') \subseteq Elements(table[conf[i].name]) \cup {n}
        BY <4>1, <3>2, <1>4, Zenon
      <4>3. conf'[i].source = TRUE
        BY <3>1, <3>2, <1>3
      <4>. QED BY <4>1, <4>2, <4>3, <3>1, <1>6
    <3>3. CASE conf[i].name \notin Builtin
      <4>1. RequiresOf(conf[i])' = RequiresOf(conf[i])
        BY <3>3, <1>3 DEF RequiresOf
      <4>. QED BY <4>1, <3>1, <3>3, <1>3
    <3>. QED BY <3>2, <3>3
  <2>2. Elements(RequiresOf(conf[cursor])') \subseteq Names \cup Elements(deps')
    BY <1>5, <1>1
  <2>3. conf'[cursor].name \in Builtin => conf'[cursor].source = TRUE
    BY <1>3, <1>1
  <2>4. cursor >= 1 /\ plugins = {} /\ order = <<>> /\ waiting = [p \in Plugin |-> {}]
    BY <1>1 DEF ResolvedInv
  <2>5. \A i \in 1..Len(conf') : (Resolving' => i < cursor') =>
          /\ conf'[i].name \in Builtin => conf'[i].source = TRUE
          /\ Elements(RequiresOf(conf[i])') \subseteq Names'
    BY <2>1, <1>1, <1>3, <1>6
  <2>6. \A i : Elements(RequiresOf(conf[i]))' = Elements(RequiresOf(conf[i])')
    BY DEF Elements
  <2>7. Elements(deps)' = Elements(deps')
    BY DEF Elements
  <2>. QED BY <2>2, <2>3, <2>4, <2>5, <2>6, <2>7, <1>1, <1>3, <1>6 DEF ResolvedInv
<1>10. /\ CursorInv' /\ WaitInv' /\ PassInv' /\ OrderInv' /\ SourceUsed' /\ UnmetIsCircular' /\ AllLoaded'
  BY <1>1 DEF CursorInv, WaitInv, PassInv, OrderInv, Ordered, SourceUsed, UnmetIsCircular, AllLoaded, ResolvedInv
<1>. QED BY <1>7, <1>8, <1>9, <1>10 DEF Inv

\* After the dependency at the head of deps is handled, it is listed.
LEMMA AppendDependencyStep == Inv /\ AppendDependency => Inv'
<1>. SUFFICES ASSUME Inv, AppendDependency PROVE Inv'
  OBVIOUS
<1>1. /\ TypeOK /\ ListInv /\ ResolvedInv /\ Resolving /\ Resolving'
      /\ phase = "append" /\ phase' = "append" /\ cursor \in 1..Len(conf) /\ cursor' = cursor
      /\ UNCHANGED <<phase, listed, table, cursor, changed, waiting, plugins, order>>
      /\ deps # <<>> /\ deps \in Seq(Plugin) /\ deps' = Tail(deps)
  BY DEF Inv, AppendDependency, Resolving, ResolvedInv, TypeOK
<1>2. Head(deps) \in Plugin /\ Tail(deps) \in Seq(Plugin)
  BY <1>1
<1>3. Dependency(Head(deps)) \in Entry
  <2>1. <<>> \in Seq(Plugin) /\ FALSE \in BOOLEAN
    OBVIOUS
  <2>. QED BY <1>2, <2>1 DEF Dependency, Entry
<1>4. /\ conf' \in Seq(Entry) /\ Len(conf') >= Len(conf)
      /\ \A i \in 1..Len(conf) : conf'[i] = conf[i]
      /\ \A i \in 1..Len(conf') : i > Len(conf) => conf'[i] = Dependency(Head(deps))
      /\ \E i \in 1..Len(conf') : conf'[i].name = Head(deps)
  <2>1. conf \in Seq(Entry) /\ Len(conf) \in Nat /\ listed \in 1..Len(conf)
    BY <1>1 DEF TypeOK, ListInv
  <2>2. CASE AlreadyAdded(Head(deps))
    <3>1. conf' = conf
      BY <2>2 DEF AppendDependency
    <3>. QED BY <2>1, <2>2, <3>1 DEF AlreadyAdded
  <2>3. CASE ~ AlreadyAdded(Head(deps))
    <3>1. conf' = Append(conf, Dependency(Head(deps)))
      BY <2>3 DEF AppendDependency
    <3>2. /\ conf' \in Seq(Entry) /\ Len(conf') = Len(conf) + 1
          /\ \A i \in 1..Len(conf) : conf'[i] = conf[i]
          /\ conf'[Len(conf) + 1] = Dependency(Head(deps))
      BY <3>1, <2>1, <1>3
    <3>3. Dependency(Head(deps)).name = Head(deps)
      BY DEF Dependency
    <3>. QED BY <3>2, <3>3, <2>1
  <2>. QED BY <2>2, <2>3
<1>5. /\ \A i \in 1..Len(conf) : i \in 1..Len(conf') /\ RequiresOf(conf[i])' = RequiresOf(conf[i])
      /\ Names \subseteq Names' /\ Head(deps) \in Names'
  <2>1. \A i \in 1..Len(conf) : i \in 1..Len(conf')
    BY <1>4, <1>1
  <2>. QED BY <2>1, <1>4, <1>1 DEF RequiresOf, Names
<1>6. TypeOK'
  BY <1>1, <1>2, <1>4 DEF TypeOK
<1>7. ListInv'
  <2>1. listed' = listed /\ listed \in 1..Len(conf') /\ \A i \in 1..listed : conf'[i] = conf[i]
    BY <1>1, <1>4 DEF ListInv
  <2>2. Dependency(Head(deps)).requires = <<>>
    BY DEF Dependency
  <2>3. ASSUME NEW i \in 1..Len(conf'), i > listed, conf'[i].name \notin Builtin
        PROVE  conf'[i].requires = <<>>
    <3>1. CASE i \in 1..Len(conf)
      BY <3>1, <2>3, <1>1, <1>4 DEF ListInv
    <3>2. CASE i > Len(conf)
      BY <3>2, <2>2, <1>4
    <3>. QED BY <3>1, <3>2, <1>4, <1>1
  <2>. QED BY <2>1, <2>3, <1>1 DEF ListInv
<1>8. ResolvedInv'
  <2>1. ASSUME NEW i \in 1..Len(conf'), i < cursor
        PROVE  /\ conf'[i].name \in Builtin => conf'[i].source = TRUE
               /\ Elements(RequiresOf(conf[i]))' \subseteq Names'
    <3>1. i \in 1..Len(conf)
      BY <1>1, <2>1
    <3>2. /\ conf[i].name \in Builtin => conf[i].source = TRUE
          /\ Elements(RequiresOf(conf[i])) \subseteq Names
      BY <1>1, <2>1, <3>1 DEF ResolvedInv
    <3>3. Elements(RequiresOf(conf[i]))' = Elements(RequiresOf(conf[i]))
      BY <1>5, <3>1 DEF Elements
    <3>. QED BY <3>1, <3>2, <3>3, <1>4, <1>5
  <2>2. Elements(RequiresOf(conf[cursor]))' \subseteq Names' \cup Elements(deps)'
    <3>1. Elements(RequiresOf(conf[cursor])) \subseteq Names \cup Elements(deps)
      BY <1>1 DEF ResolvedInv
    <3>2. Elements(deps) = Elements(Tail(deps)) \cup {Head(deps)}
      BY <1>1, ElementsOf
    <3>3. Elements(RequiresOf(conf[cursor]))' = Elements(RequiresOf(conf[cursor]))
      BY <1>5, <1>1 DEF Elements
    <3>4. Elements(deps)' = Elements(Tail(deps))
      BY <1>1 DEF Elements
    <3>. QED BY <3>1, <3>2, <3>3, <3>4, <1>5
  <2>3. /\ cursor \in 1..Len(conf')
        /\ conf'[cursor].name \in Builtin => conf'[cursor].source = TRUE
    BY <1>1, <1>4, <1>5 DEF ResolvedInv
  <2>4. cursor >= 1 /\ plugins = {} /\ order = <<>> /\ waiting = [p \in Plugin |-> {}]
    BY <1>1 DEF ResolvedInv
  <2>. QED BY <2>1, <2>2, <2>3, <2>4, <1>1 DEF ResolvedInv
<1>9. /\ CursorInv' /\ WaitInv' /\ PassInv' /\ OrderInv' /\ SourceUsed' /\ UnmetIsCircular' /\ AllLoaded'
  BY <1>1 DEF CursorInv, WaitInv, PassInv, OrderInv, Ordered, SourceUsed, UnmetIsCircular, AllLoaded, ResolvedInv
<1>. QED BY <1>6, <1>7, <1>8, <1>9 DEF Inv

\* An entry without dependencies left is resolved.
LEMMA EndOfEntryStep == Inv /\ EndOfEntry => Inv'
<1>. SUFFICES ASSUME Inv, EndOfEntry PROVE Inv'
  OBVIOUS
<1>1. /\ TypeOK /\ ListInv /\ ResolvedInv /\ Resolving /\ Resolving' /\ Fixed
      /\ phase = "append" /\ phase' = "resolve" /\ cursor \in 1..Len(conf) /\ cursor' = cursor + 1
      /\ UNCHANGED <<changed, waiting, plugins, order>> /\ deps = <<>>
  BY DEF Inv, EndOfEntry, Resolving, ResolvedInv, Fixed
<1>2. TypeOK'
  BY <1>1 DEF TypeOK, Phase, Fixed
<1>3. ListInv'
  BY <1>1, FixedFrame
<1>4. ResolvedInv'
  <2>1. ASSUME NEW i \in 1..Len(conf), i < cursor + 1
        PROVE  /\ conf[i].name \in Builtin => conf[i].source = TRUE
               /\ Elements(RequiresOf(conf[i])) \subseteq Names
    <3>1. CASE i = cursor
      BY <3>1, <1>1, ElementsOf DEF ResolvedInv
    <3>2. CASE i < cursor
      BY <3>2, <1>1 DEF ResolvedInv
    <3>3. i = cursor \/ i < cursor
      BY <2>1, <1>1
    <3>. QED BY <3>1, <3>2, <3>3
  <2>2. \A i \in 1..Len(conf) : Elements(RequiresOf(conf[i]))' = Elements(RequiresOf(conf[i]))
    BY <1>1, FixedFrame DEF Elements
  <2>3. cursor + 1 >= 1 /\ plugins = {} /\ order = <<>> /\ waiting = [p \in Plugin |-> {}]
    BY <1>1 DEF ResolvedInv
  <2>. QED BY <2>1, <2>2, <2>3, <1>1, FixedFrame DEF ResolvedInv, Fixed
<1>5. /\ CursorInv' /\ WaitInv' /\ PassInv' /\ OrderInv' /\ SourceUsed' /\ UnmetIsCircular' /\ AllLoaded'
  BY <1>1 DEF CursorInv, WaitInv, PassInv, OrderInv, Ordered, SourceUsed, UnmetIsCircular, AllLoaded, ResolvedInv
<1>. QED BY <1>2, <1>3, <1>4, <1>5 DEF Inv

\* Loading starts with everything listed and nothing loaded.
LEMMA ResolvedStep == Inv /\ Resolved => Inv'
<1>. SUFFICES ASSUME Inv, Resolved PROVE Inv'
  OBVIOUS
<1>1. /\ TypeOK /\ ListInv /\ ResolvedInv /\ Resolving /\ ~ Resolving' /\ Fixed
      /\ phase = "resolve" /\ phase' = "load" /\ cursor > Len(conf) /\ cursor' = 1 /\ cursor \in Nat
      /\ changed' = FALSE /\ UNCHANGED <<waiting, plugins, order>>
      /\ plugins = {} /\ order = <<>> /\ waiting = [p \in Plugin |-> {}]
  BY DEF Inv, Resolved, Resolving, ResolvedInv, Fixed, TypeOK
<1>2. TypeOK'
  BY <1>1 DEF TypeOK, Phase, Fixed
<1>3. ListInv'
  BY <1>1, FixedFrame
<1>4. ResolvedInv'
  <2>1. \A i \in 1..Len(conf) :
               /\ conf[i].name \in Builtin => conf[i].source = TRUE
               /\ Elements(RequiresOf(conf[i])) \subseteq Names
    <3>1. \A i \in 1..Len(conf) : i < cursor
      BY <1>1 DEF TypeOK
    <3>. QED BY <3>1, <1>1 DEF ResolvedInv
  <2>2. \A i \in 1..Len(conf) : Elements(RequiresOf(conf[i]))' = Elements(RequiresOf(conf[i]))
    BY <1>1, FixedFrame DEF Elements
  <2>. QED BY <2>1, <2>2, <1>1, FixedFrame DEF ResolvedInv, Fixed
<1>5. WaitInv' /\ PassInv' /\ SourceUsed' /\ UnmetIsCircular' /\ AllLoaded'
  BY <1>1, <1>2 DEF WaitInv, PassInv, SourceUsed, UnmetIsCircular, AllLoaded, TypeOK
<1>6. OrderInv'
  BY <1>1 DEF OrderInv, Ordered
<1>7. CursorInv'
  <2>1. 1 \in 1..Len(conf)
    BY <1>1 DEF ListInv, TypeOK
  <2>2. conf[1].name \in Names
    BY <2>1 DEF Names
  <2>. QED BY <1>1, <2>2, FixedFrame DEF CursorInv
<1>. QED BY <1>2, <1>3, <1>4, <1>5, <1>6, <1>7 DEF Inv

\* When nothing is outstanding for an entry, all that any entry of its name requires is
\* loaded; and if the name is not a builtin's, no other entry of it was listed.
LEMMA NothingOutstanding ==
    ASSUME Inv, NEW e, AtEntry(e), e.name \notin plugins, Outstanding(e) = {}
    PROVE  /\ \A i \in 1..Len(conf) :
                 conf[i].name = e.name => Elements(RequiresOf(conf[i])) \subseteq plugins
           /\ e.name \notin Builtin => \A i \in 1..listed : conf[i].name = e.name => i = cursor
<1>1. /\ cursor \in Nat /\ cursor <= Len(conf) /\ e = conf[cursor] /\ phase = "load"
      /\ TypeOK /\ ListInv /\ PassInv /\ Len(conf) \in Nat
  BY DEF AtEntry, Inv, TypeOK
<1>2. Elements(RequiresOf(e)) \subseteq plugins /\ waiting[e.name] \subseteq Elements(RequiresOf(e))
  BY DEF Outstanding
<1>3. ASSUME e.name \notin Builtin, NEW i \in 1..listed, conf[i].name = e.name, i # cursor
      PROVE  FALSE
  <2>1. i \in 1..Len(conf) /\ listed \in 1..Len(conf)
    BY <1>1, <1>3 DEF ListInv
  <2>2. cursor >= 1 => cursor > listed
    BY <1>1, <1>3, <2>1 DEF ListInv
  <2>3. CASE cursor >= 1
    <3>1. e.requires = <<>> /\ RequiresOf(e) = e.requires /\ i < cursor
      BY <1>1, <1>3, <2>1, <2>2, <2>3 DEF ListInv, RequiresOf
    <3>2. waiting[e.name] = {}
      BY <3>1, <1>2, ElementsOf
    <3>. QED BY <3>1, <3>2, <2>1, <1>1, <1>3 DEF PassInv
  <2>4. cursor >= 1
    BY <1>1 DEF AtEntry, Inv, CursorInv
  <2>. QED BY <2>3, <2>4
<1>4. ASSUME NEW i \in 1..Len(conf), conf[i].name = e.name
      PROVE  Elements(RequiresOf(conf[i])) \subseteq plugins
  <2>1. CASE e.name \in Builtin
    <3>1. RequiresOf(conf[i]) = RequiresOf(e)
      BY <2>1, <1>4 DEF RequiresOf
    <3>. QED BY <3>1, <1>2
  <2>2. CASE e.name \notin Builtin /\ i \in 1..listed
    BY <2>2, <1>1, <1>2, <1>3, <1>4
  <2>3. CASE e.name \notin Builtin /\ i > listed
    <3>1. RequiresOf(conf[i]) = <<>>
      BY <2>3, <1>1, <1>4 DEF ListInv, RequiresOf
    <3>. QED BY <3>1, ElementsOf
  <2>4. i \in 1..listed \/ i > listed
    BY <1>1 DEF ListInv
  <2>. QED BY <2>1, <2>2, <2>3, <2>4
<1>. QED BY <1>3, <1>4

\* What the entry at the cursor is, and what it requires.
LEMMA EntryAtCursor ==
    ASSUME Inv, NEW e, AtEntry(e)
    PROVE  /\ phase = "load" /\ cursor \in 1..Len(conf) /\ e = conf[cursor] /\ e.name \in Plugin
           /\ e.name \in Names
           /\ Elements(RequiresOf(e)) \subseteq Plugin
           /\ Elements(RequiresOf(e)) \subseteq Names
           /\ \A i \in 1..Len(conf) : i < cursor + 1 => i = cursor \/ i < cursor
<1>1. phase = "load" /\ cursor \in 1..Len(conf) /\ e = conf[cursor] /\ ~ Resolving
  BY DEF AtEntry, Inv, TypeOK, CursorInv, Resolving
<1>2. e.name \in Plugin /\ Elements(RequiresOf(e)) \subseteq Plugin
  BY <1>1, RequiresTyped DEF Inv
<1>3. Elements(RequiresOf(e)) \subseteq Names
  BY <1>1 DEF Inv, ResolvedInv
<1>4. e.name \in Names
  BY <1>1 DEF Names
<1>5. \A i \in 1..Len(conf) : i < cursor + 1 => i = cursor \/ i < cursor
  BY <1>1
<1>. QED BY <1>1, <1>2, <1>3, <1>4, <1>5

\* An entry that is loaded already is passed over.
LEMMA SkipEntryStep == ASSUME Inv, NEW e, SkipEntry(e) PROVE Inv'
<1>1. /\ AtEntry(e) /\ e.name \in plugins /\ cursor' = cursor + 1 /\ Fixed
      /\ UNCHANGED <<phase, changed, waiting, plugins, order>>
  BY DEF SkipEntry, Fixed
<1>2. /\ phase = "load" /\ phase' = "load" /\ ~ Resolving /\ ~ Resolving'
      /\ cursor \in 1..Len(conf) /\ e = conf[cursor]
      /\ \A i \in 1..Len(conf) : i < cursor + 1 => i = cursor \/ i < cursor
  BY <1>1, EntryAtCursor DEF Resolving
<1>3. TypeOK'
  BY <1>1, <1>2 DEF Inv, TypeOK, Fixed
<1>4. ListInv' /\ ResolvedInv' /\ Names' = Names
  BY <1>1, <1>2, FixedFrame, ResolvedFrame DEF Inv
<1>5. CursorInv'
  BY <1>1, <1>2, <1>4 DEF Inv, CursorInv
<1>6. WaitInv' /\ OrderInv'
  BY <1>1, <1>2, LoadedFrame DEF Inv, OrderInv
<1>7. \A p : Stuck(p)' = Stuck(p)
  BY <1>1, LoadedFrame
<1>8. PassInv'
  BY <1>1, <1>2, <1>7 DEF Inv, PassInv, Fixed
<1>9. SourceUsed' /\ UnmetIsCircular' /\ AllLoaded'
  BY <1>2 DEF SourceUsed, UnmetIsCircular, AllLoaded
<1>. QED BY <1>3, <1>4, <1>5, <1>6, <1>8, <1>9 DEF Inv

\* An entry with something outstanding waits for the next pass.
LEMMA PostponeEntryStep == ASSUME Inv, NEW e, PostponeEntry(e) PROVE Inv'
<1>1. /\ AtEntry(e) /\ e.name \notin plugins /\ cursor' = cursor + 1 /\ Fixed
      /\ Outstanding(e) # {}
      /\ waiting' = [waiting EXCEPT ![e.name] = Outstanding(e)]
      /\ UNCHANGED <<phase, changed, plugins, order>>
  BY DEF PostponeEntry, Fixed
<1>2. /\ phase = "load" /\ phase' = "load" /\ ~ Resolving /\ ~ Resolving'
      /\ cursor \in 1..Len(conf) /\ e = conf[cursor] /\ e.name \in Plugin
      /\ Elements(RequiresOf(e)) \subseteq Plugin
      /\ \A i \in 1..Len(conf) : i < cursor + 1 => i = cursor \/ i < cursor
  BY <1>1, EntryAtCursor DEF Resolving
<1>3. /\ waiting \in [Plugin -> SUBSET Plugin]
      /\ Outstanding(e) \subseteq waiting[e.name] \cup Elements(RequiresOf(e))
      /\ waiting'[e.name] = Outstanding(e)
      /\ \A p \in Plugin : p # e.name => waiting'[p] = waiting[p]
      /\ waiting' \in [Plugin -> SUBSET Plugin]
  <2>1. waiting \in [Plugin -> SUBSET Plugin]
    BY DEF Inv, TypeOK
  <2>2. Outstanding(e) \subseteq waiting[e.name] \cup Elements(RequiresOf(e))
    BY DEF Outstanding
  <2>3. Outstanding(e) \in SUBSET Plugin
    BY <2>1, <2>2, <1>2
  <2>. QED BY <1>1, <1>2, <2>1, <2>2, <2>3
<1>4. TypeOK'
  BY <1>1, <1>2, <1>3 DEF Inv, TypeOK, Fixed
<1>5. ListInv' /\ ResolvedInv' /\ Names' = Names
  BY <1>1, <1>2, FixedFrame, ResolvedFrame DEF Inv
<1>6. CursorInv'
  BY <1>1, <1>2, <1>5 DEF Inv, CursorInv
<1>7. \A i \in 1..Len(conf) : Elements(RequiresOf(conf[i]))' = Elements(RequiresOf(conf[i]))
  BY <1>1, FixedFrame DEF Elements
<1>8. WaitInv'
  <2>1. ASSUME NEW p \in Plugin, NEW x \in waiting'[p]
        PROVE  \E j \in 1..Len(conf) : conf[j].name = p /\ x \in Elements(RequiresOf(conf[j]))
    <3>1. CASE x \in waiting[p]
      BY <3>1 DEF Inv, WaitInv
    <3>2. CASE x \notin waiting[p]
      <4>1. p = e.name /\ x \in Elements(RequiresOf(e))
        BY <3>2, <2>1, <1>3
      <4>. QED BY <4>1, <1>2
    <3>. QED BY <3>1, <3>2
  <2>. QED BY <2>1, <1>1, <1>7 DEF WaitInv, Fixed
<1>9. OrderInv'
  BY <1>1, <1>2, LoadedFrame DEF Inv, OrderInv
<1>10. \A p : Stuck(p)' = Stuck(p)
  BY <1>1, LoadedFrame
<1>11. ASSUME changed = FALSE PROVE Stuck(e.name)
  <2>1. PICK x \in Outstanding(e) : TRUE
    BY <1>1
  <2>2. CASE x \in Elements(RequiresOf(e))
    <3>1. x \notin plugins
      BY <2>1, <2>2 DEF Outstanding
    <3>. QED BY <3>1, <2>2, <1>2 DEF Stuck
  <2>3. CASE x \notin Elements(RequiresOf(e))
    <3>1. PICK j \in 1..Len(conf) : conf[j].name = e.name /\ x \in Elements(RequiresOf(conf[j]))
      BY <2>1, <2>3, <1>2, <1>3 DEF Inv, WaitInv
    <3>2. e.name \notin Builtin
      BY <3>1, <2>3 DEF RequiresOf
    <3>3. RequiresOf(conf[j]) # <<>> /\ RequiresOf(conf[j]) = conf[j].requires
      BY <3>1, <3>2, ElementsOf DEF RequiresOf
    <3>4. j \in 1..listed /\ j # cursor /\ listed \in 1..Len(conf)
      BY <3>1, <3>2, <3>3, <2>3, <1>2 DEF Inv, ListInv
    <3>5. j < cursor
      BY <3>1, <3>2, <3>4, <1>2 DEF Inv, ListInv
    <3>. QED BY <3>1, <3>5, <1>1, <1>2, <1>11 DEF Inv, PassInv
  <2>. QED BY <2>2, <2>3
<1>12. PassInv'
  <2>1. ASSUME NEW i \in 1..Len(conf), i < cursor + 1, conf[i].name \notin plugins
        PROVE  waiting'[conf[i].name] # {} /\ (changed = FALSE => Stuck(conf[i].name))
    <3>1. conf[i].name \in Plugin
      BY RequiresTyped DEF Inv
    <3>2. CASE conf[i].name = e.name
      BY <3>2, <1>1, <1>3, <1>11
    <3>3. CASE conf[i].name # e.name
      BY <3>1, <3>3, <2>1, <1>2, <1>3 DEF Inv, PassInv
    <3>. QED BY <3>2, <3>3
  <2>. QED BY <2>1, <1>1, <1>2, <1>10 DEF PassInv, Fixed
<1>13. SourceUsed' /\ UnmetIsCircular' /\ AllLoaded'
  BY <1>2 DEF SourceUsed, UnmetIsCircular, AllLoaded
<1>. QED BY <1>4, <1>5, <1>6, <1>8, <1>9, <1>12, <1>13 DEF Inv

\* The plugin that is loaded comes last in the order, after all that it requires.
LEMMA LoadEntryStep == ASSUME Inv, NEW e, LoadEntry(e) PROVE Inv'
<1>1. /\ AtEntry(e) /\ e.name \notin plugins /\ Outstanding(e) = {} /\ cursor' = cursor + 1
      /\ Fixed /\ plugins' = plugins \cup {e.name} /\ order' = Append(order, e.name)
      /\ waiting' = [waiting EXCEPT ![e.name] = {}] /\ changed' = TRUE /\ phase' = phase
  BY DEF LoadEntry, Fixed
<1>2. /\ phase = "load" /\ phase' = "load" /\ ~ Resolving /\ ~ Resolving'
      /\ cursor \in 1..Len(conf) /\ e = conf[cursor] /\ e.name \in Plugin
      /\ \A i \in 1..Len(conf) : i < cursor + 1 => i = cursor \/ i < cursor
  BY <1>1, EntryAtCursor DEF Resolving
<1>3. /\ waiting' \in [Plugin -> SUBSET Plugin]
      /\ waiting'[e.name] = {}
      /\ \A p \in Plugin : p # e.name => waiting'[p] = waiting[p]
  BY <1>1, <1>2 DEF Inv, TypeOK
<1>4. /\ order' \in Seq(Plugin) /\ Len(order') = Len(order) + 1 /\ Len(order) \in Nat
      /\ order'[Len(order) + 1] = e.name
      /\ \A j \in 1..Len(order) : order'[j] = order[j]
  BY <1>1, <1>2 DEF Inv, TypeOK
<1>5. TypeOK'
  BY <1>1, <1>2, <1>3, <1>4 DEF Inv, TypeOK, Fixed
<1>6. ListInv' /\ ResolvedInv' /\ Names' = Names
  BY <1>1, <1>2, FixedFrame, ResolvedFrame DEF Inv
<1>7. CursorInv'
  BY <1>1, <1>2 DEF CursorInv
<1>8. \A i \in 1..Len(conf) : Elements(RequiresOf(conf[i]))' = Elements(RequiresOf(conf[i]))
  BY <1>1, FixedFrame DEF Elements
<1>9. WaitInv'
  <2>1. \A p \in Plugin : waiting'[p] \subseteq waiting[p]
    BY <1>3
  <2>. QED BY <2>1, <1>1, <1>8 DEF Inv, WaitInv, Fixed
<1>10. PassInv'
  <2>1. ASSUME NEW i \in 1..Len(conf), i < cursor + 1, conf[i].name \notin plugins'
        PROVE  waiting'[conf[i].name] # {}
    <3>1. conf[i].name \in Plugin /\ conf[i].name # e.name /\ conf[i].name \notin plugins
      BY <2>1, <1>1, RequiresTyped DEF Inv
    <3>. QED BY <3>1, <2>1, <1>2, <1>3 DEF Inv, PassInv
  <2>. QED BY <2>1, <1>1, <1>2 DEF PassInv, Fixed
<1>11. plugins = {order[j] : j \in 1..Len(order)}
  BY <1>2 DEF Inv, OrderInv
<1>12. OrderInv'
  <2>1. \A k \in 1..Len(order) : Before(k)' = Before(k)
    <3>1. ASSUME NEW k \in 1..Len(order) PROVE Before(k)' = Before(k)
      <4>1. \A j \in 1..k - 1 : order'[j] = order[j]
        BY <1>4
      <4>. QED BY <4>1 DEF Before
    <3>. QED BY <3>1
  <2>2. ASSUME NEW k, k = Len(order) + 1 PROVE Before(k)' = plugins
    <3>1. 1..k - 1 = 1..Len(order)
      BY <2>2, <1>4
    <3>2. {order'[j] : j \in 1..Len(order)} = {order[j] : j \in 1..Len(order)}
      BY <1>4
    <3>. QED BY <3>1, <3>2, <1>11 DEF Before
  <2>3. ASSUME NEW k \in 1..Len(order'), NEW i \in 1..Len(conf), conf[i].name = order'[k]
        PROVE  Elements(RequiresOf(conf[i])) \subseteq Before(k)'
    <3>1. CASE k \in 1..Len(order)
      BY <3>1, <2>1, <2>3, <1>4 DEF Inv, OrderInv, Ordered
    <3>2. CASE k = Len(order) + 1
      BY <3>2, <2>2, <2>3, <1>1, <1>4, NothingOutstanding
    <3>. QED BY <3>1, <3>2, <1>4
  <2>4. Ordered'
    BY <2>3, <1>1, <1>8 DEF Ordered, Fixed
  <2>5. e.name \notin {order[j] : j \in 1..Len(order)}
    BY <1>1, <1>11
  <2>6. \A j, k \in 1..Len(order') : order'[j] = order'[k] => j = k
    <3>1. \A j \in 1..Len(order') : j \in 1..Len(order) \/ j = Len(order) + 1
      BY <1>4
    <3>. QED BY <3>1, <2>5, <1>4 DEF Inv, OrderInv
  <2>7. plugins' = {order'[j] : j \in 1..Len(order')}
    <3>1. 1..Len(order') = 1..Len(order) \cup {Len(order) + 1}
      BY <1>4
    <3>. QED BY <3>1, <1>1, <1>4, <1>11
  <2>. QED BY <2>4, <2>6, <2>7, <1>2 DEF OrderInv
<1>13. SourceUsed' /\ UnmetIsCircular' /\ AllLoaded'
  BY <1>2 DEF SourceUsed, UnmetIsCircular, AllLoaded
<1>. QED BY <1>5, <1>6, <1>7, <1>9, <1>10, <1>12, <1>13 DEF Inv

\* An entry without a source is reached only if nothing else is known of its name.
LEMMA LoadFailsStep == ASSUME Inv, NEW e, LoadSourceless(e) \/ LoadThrows(e) PROVE Inv'
<1>1. /\ AtEntry(e) /\ e.name \notin plugins /\ Outstanding(e) = {} /\ Fixed
      /\ UNCHANGED <<cursor, changed, waiting, plugins, order>>
      /\ phase' \in {"no_source", "threw"}
      /\ phase' = "no_source" => ~ e.source
  BY DEF LoadSourceless, LoadThrows, Fixed
<1>2. phase = "load" /\ ~ Resolving /\ ~ Resolving' /\ cursor \in 1..Len(conf) /\ e = conf[cursor]
  BY <1>1, EntryAtCursor DEF Resolving
<1>3. TypeOK'
  BY <1>1 DEF Inv, TypeOK, Phase, Fixed
<1>4. ListInv' /\ ResolvedInv' /\ WaitInv'
  BY <1>1, <1>2, FixedFrame, ResolvedFrame, LoadedFrame DEF Inv
<1>5. CursorInv' /\ PassInv' /\ UnmetIsCircular' /\ AllLoaded'
  BY <1>1 DEF CursorInv, PassInv, UnmetIsCircular, AllLoaded
<1>6. OrderInv'
  BY <1>1, LoadedFrame DEF Inv, OrderInv
<1>7. SourceUsed'
  <2>1. SUFFICES ASSUME ~ e.source
                 PROVE  e.name \notin Builtin /\ \A i \in 1..listed : conf[i].name # e.name
    BY <1>1, <1>2 DEF SourceUsed, Fixed
  <2>2. e.name \notin Builtin
    BY <2>1, <1>2 DEF Inv, ResolvedInv
  <2>3. cursor \notin 1..listed
    BY <2>1, <2>2, <1>2 DEF Inv, ListInv
  <2>. QED BY <2>2, <2>3, <1>1, NothingOutstanding
<1>. QED BY <1>3, <1>4, <1>5, <1>6, <1>7 DEF Inv

\* A pass that loads nothing leaves entries that wait for each other.
LEMMA EndPassStep == Inv /\ EndPass => Inv'
<1>. SUFFICES ASSUME Inv, EndPass PROVE Inv'
  OBVIOUS
<1>1. /\ phase = "load" /\ cursor > Len(conf) /\ cursor' = 1 /\ changed' = FALSE /\ Fixed
      /\ UNCHANGED <<waiting, plugins, order>> /\ changed \in BOOLEAN /\ cursor \in Nat
      /\ phase' \in {"unmet", "running", "load"}
      /\ phase' = "unmet" => changed = FALSE
      /\ phase' = "running" => Names \subseteq plugins
      /\ phase' = "load" => ~ (Names \subseteq plugins)
  BY DEF EndPass, Fixed, Inv, TypeOK
<1>2. ~ Resolving /\ ~ Resolving'
  BY <1>1 DEF Resolving
<1>3. TypeOK'
  BY <1>1 DEF Inv, TypeOK, Phase, Fixed
<1>4. ListInv' /\ ResolvedInv' /\ WaitInv' /\ Names' = Names
  BY <1>1, <1>2, FixedFrame, ResolvedFrame, LoadedFrame DEF Inv
<1>5. CursorInv' /\ SourceUsed'
  BY <1>1, <1>4 DEF CursorInv, SourceUsed
<1>6. PassInv'
  BY <1>1 DEF PassInv, Fixed
<1>7. OrderInv'
  BY <1>1, LoadedFrame DEF Inv, OrderInv
<1>8. \A i \in 1..Len(conf) : /\ Elements(RequiresOf(conf[i]))' = Elements(RequiresOf(conf[i]))
                              /\ Elements(RequiresOf(conf[i])) \subseteq Names
                              /\ i < cursor
  <2>1. \A i \in 1..Len(conf) : Elements(RequiresOf(conf[i]))' = Elements(RequiresOf(conf[i]))
    BY <1>1, FixedFrame DEF Elements
  <2>2. \A i \in 1..Len(conf) : Elements(RequiresOf(conf[i])) \subseteq Names
    BY <1>2 DEF Inv, ResolvedInv
  <2>3. \A i \in 1..Len(conf) : i < cursor
    BY <1>1 DEF Inv, TypeOK
  <2>. QED BY <2>1, <2>2, <2>3
<1>9. UnmetIsCircular'
  <2>1. SUFFICES ASSUME changed = FALSE
                 PROVE  Names \ plugins # {} /\ Circular
    <3>1. Circular' /\ Names' \ plugins' # {} => UnmetIsCircular'
      BY DEF Circular, UnmetIsCircular
    <3>2. phase' = "unmet" \/ UnmetIsCircular'
      BY DEF UnmetIsCircular
    <3>. QED BY <3>1, <3>2, <1>1, <1>4, LoadedFrame
  <2>2. Names \ plugins # {}
    BY <2>1, <1>1 DEF Inv, CursorInv
  <2>3. ASSUME NEW p \in Names \ plugins PROVE Stuck(p)
    <3>1. PICK i \in 1..Len(conf) : conf[i].name = p
      BY <2>3 DEF Names
    <3>. QED BY <3>1, <2>1, <2>3, <1>1, <1>8 DEF Inv, PassInv
  <2>. QED BY <2>2, <2>3, <1>8 DEF Stuck, Circular
<1>10. AllLoaded'
  <2>1. SUFFICES ASSUME Names \subseteq plugins, NEW i \in 1..Len(conf)
                 PROVE  {conf[i].name} \cup Elements(RequiresOf(conf[i])) \subseteq plugins
    BY <1>1, <1>8 DEF AllLoaded, Fixed
  <2>2. conf[i].name \in Names
    BY DEF Names
  <2>. QED BY <2>1, <2>2, <1>8
<1>. QED BY <1>3, <1>4, <1>5, <1>6, <1>7, <1>9, <1>10 DEF Inv

\* Unloading takes the last plugin of the order first.
LEMMA UnloadStep == Inv /\ (StartUnload \/ UnloadPlugin \/ Unloaded) => Inv'
<1>. SUFFICES ASSUME Inv, StartUnload \/ UnloadPlugin \/ Unloaded PROVE Inv'
  OBVIOUS
<1>1. /\ phase \in {"running", "unload"} /\ phase' \in {"unload", "stopped"} /\ Fixed
      /\ UNCHANGED <<changed, waiting, order>>
      /\ ~ Resolving /\ ~ Resolving'
  BY DEF StartUnload, UnloadPlugin, Unloaded, Fixed, Resolving
<1>2. ListInv' /\ ResolvedInv' /\ WaitInv' /\ Ordered'
  BY <1>1, FixedFrame, ResolvedFrame, LoadedFrame DEF Inv, OrderInv
<1>3. CursorInv' /\ PassInv' /\ SourceUsed' /\ UnmetIsCircular' /\ AllLoaded'
  BY <1>1 DEF CursorInv, PassInv, SourceUsed, UnmetIsCircular, AllLoaded
<1>4. order \in Seq(Plugin) /\ Len(order) \in Nat /\ cursor \in Nat
  BY DEF Inv, TypeOK
<1>5. /\ cursor' \in Nat /\ plugins' \subseteq Plugin
      /\ phase' = "unload" => cursor' <= Len(order) /\ plugins' = {order[j] : j \in 1..cursor'}
  <2>1. CASE StartUnload
    BY <2>1, <1>4 DEF StartUnload, Inv, OrderInv, TypeOK
  <2>2. CASE UnloadPlugin
    <3>1. /\ phase = "unload" /\ cursor > 0 /\ cursor <= Len(order) /\ cursor' = cursor - 1
          /\ plugins' = plugins \ {order[cursor]} /\ plugins = {order[j] : j \in 1..cursor}
          /\ \A j, k \in 1..Len(order) : order[j] = order[k] => j = k
      BY <2>2 DEF UnloadPlugin, Inv, OrderInv
    <3>2. 1..cursor = 1..cursor - 1 \cup {cursor} /\ cursor \in 1..Len(order)
      BY <3>1, <1>4
    <3>3. \A j \in 1..cursor - 1 : j \in 1..Len(order) /\ j # cursor
      BY <3>1, <1>4
    <3>4. \A j \in 1..cursor - 1 : order[j] # order[cursor]
      BY <3>1, <3>2, <3>3
    <3>5. plugins' = {order[j] : j \in 1..cursor - 1}
      BY <3>1, <3>2, <3>4
    <3>6. cursor' \in Nat /\ cursor' <= Len(order)
      BY <3>1, <1>4
    <3>. QED BY <3>1, <3>5, <3>6 DEF Inv, TypeOK
  <2>3. CASE Unloaded
    BY <2>3, <1>4 DEF Unloaded
  <2>. QED BY <2>1, <2>2, <2>3
<1>6. TypeOK'
  BY <1>1, <1>5 DEF Inv, TypeOK, Phase, Fixed
<1>7. OrderInv'
  BY <1>1, <1>2, <1>5 DEF Inv, OrderInv
<1>. QED BY <1>2, <1>3, <1>6, <1>7 DEF Inv

\* Every step preserves the invariant.
LEMMA NextInv == Inv /\ [Next]_vars => Inv'
<1>. SUFFICES ASSUME Inv, [Next]_vars PROVE Inv'
  OBVIOUS
<1>1. CASE ResolveEntry
  BY <1>1, ResolveEntryStep
<1>2. CASE AppendDependency
  BY <1>2, AppendDependencyStep
<1>3. CASE EndOfEntry
  BY <1>3, EndOfEntryStep
<1>4. CASE Resolved
  BY <1>4, ResolvedStep
<1>5. ASSUME NEW e \in Elements(conf),
             SkipEntry(e) \/ PostponeEntry(e) \/ LoadEntry(e) \/ LoadSourceless(e) \/ LoadThrows(e)
      PROVE  Inv'
  BY <1>5, SkipEntryStep, PostponeEntryStep, LoadEntryStep, LoadFailsStep
<1>6. CASE EndPass
  BY <1>6, EndPassStep
<1>7. CASE StartUnload \/ UnloadPlugin \/ Unloaded
  BY <1>7, UnloadStep
<1>8. CASE UNCHANGED vars
  <2>1. Fixed /\ UNCHANGED <<phase, cursor, changed, waiting, plugins, order>>
    BY <1>8 DEF vars, Fixed
  <2>2. TypeOK' /\ SourceUsed' /\ CursorInv' /\ Names' = Names
    BY <2>1, FixedFrame DEF Fixed, Inv, TypeOK, SourceUsed, CursorInv
  <2>3. ListInv' /\ WaitInv' /\ OrderInv'
    BY <2>1, FixedFrame, LoadedFrame DEF Inv, OrderInv
  <2>4. \A i \in 1..Len(conf) : Elements(RequiresOf(conf[i]))' = Elements(RequiresOf(conf[i]))
    BY <2>1, FixedFrame DEF Elements
  <2>5. Elements(deps)' = Elements(deps)
    BY <2>1 DEF Fixed, Elements
  <2>6. ResolvedInv'
    BY <2>1, <2>2, <2>4, <2>5 DEF Inv, ResolvedInv, Resolving, Fixed
  <2>7. PassInv'
    BY <2>1, LoadedFrame DEF Inv, PassInv, Fixed
  <2>8. UnmetIsCircular'
    <3>1. phase = "unmet" => Circular /\ Names \ plugins # {}
      BY DEF Inv, UnmetIsCircular, Circular
    <3>2. phase' = "unmet" => Circular' /\ Names' \ plugins' # {}
      BY <3>1, <2>1, <2>2, LoadedFrame
    <3>. QED BY <3>2 DEF UnmetIsCircular, Circular
  <2>9. AllLoaded'
    BY <2>1, <2>4 DEF Inv, AllLoaded, Fixed
  <2>. QED BY <2>2, <2>3, <2>6, <2>7, <2>8, <2>9 DEF Inv
<1>. QED BY <1>1, <1>2, <1>3, <1>4, <1>5, <1>6, <1>7, <1>8 DEF Next

\* Whatever is loaded comes after all it requires, and goes before it.
LEMMA OrderedLoading == Inv => RequiredFirst
<1>. SUFFICES ASSUME Inv, phase \in {"load", "running", "unload"}, NEW i \in 1..Len(conf),
                     conf[i].name \in plugins
              PROVE  Elements(RequiresOf(conf[i])) \subseteq plugins
  BY DEF RequiredFirst
<1>. DEFINE last == IF phase = "unload" THEN cursor ELSE Len(order)
<1>1. last \in Nat /\ last <= Len(order) /\ plugins = {order[j] : j \in 1..last}
  BY DEF Inv, TypeOK, OrderInv
<1>. HIDE DEF last
<1>2. PICK k \in 1..last : conf[i].name = order[k]
  BY <1>1
<1>3. Len(order) \in Nat
  BY DEF Inv, TypeOK
<1>4. k \in 1..Len(order) /\ \A j \in 1..k - 1 : j \in 1..last
  BY <1>1, <1>2, <1>3
<1>5. Elements(RequiresOf(conf[i])) \subseteq Before(k)
  BY <1>2, <1>4 DEF Inv, OrderInv, Ordered
<1>. QED BY <1>1, <1>4, <1>5 DEF Before

\* The list, the table, what waits and what is loaded keep their types (boot::load and
\* resolve_builtin_dependencies), whatever the configuration lists.
THEOREM TypeCorrect == Spec => []TypeOK
<1>1. Inv => TypeOK
  BY DEF Inv
<1>. QED BY InitInv, NextInv, <1>1, PTL DEF Spec

\* Whatever is loaded finds all that it requires loaded, from the first load to the last
\* unload, although the table of builtins grows while the list is resolved.
THEOREM RequirementsMet == Spec => []RequiredFirst
BY InitInv, NextInv, OrderedLoading, PTL DEF Spec

\* A plugin with a source is never loaded from an entry that has none.
THEOREM SourceIsUsed == Spec => []SourceUsed
<1>1. Inv => SourceUsed
  BY DEF Inv
<1>. QED BY InitInv, NextInv, <1>1, PTL DEF Spec

\* Only circular requirements make boot::load give up.
THEOREM OnlyCircularUnmet == Spec => []UnmetIsCircular
<1>1. Inv => UnmetIsCircular
  BY DEF Inv
<1>. QED BY InitInv, NextInv, <1>1, PTL DEF Spec

\* A process that runs has loaded all that is listed and all that is required.
THEOREM RunsComplete == Spec => []AllLoaded
<1>1. Inv => AllLoaded
  BY DEF Inv
<1>. QED BY InitInv, NextInv, <1>1, PTL DEF Spec

\* No name is appended twice: resolving ends although each entry that is appended is
\* resolved in its turn, and requirements may be circular.
AppendedOnce ==
    \A i, j \in 1..Len(conf) :
        i > listed /\ j > listed /\ conf[i].name = conf[j].name => i = j

\* The list grows by at most one entry for each plugin there is, and no plugin is loaded
\* twice.
BootBounded ==
    /\ Len(conf) <= listed + Cardinality(Plugin)
    /\ Len(order) <= Cardinality(Plugin)

\* A list without repetitions is no longer than there are things to list.
LEMMA DistinctBound ==
    ASSUME NEW S, IsFiniteSet(S), NEW lo \in Nat, NEW hi \in Nat, lo <= hi,
           NEW f \in [lo + 1..hi -> S],
           \A i, j \in lo + 1..hi : f[i] = f[j] => i = j
    PROVE  hi <= lo + Cardinality(S)
<1>1. f \in Injection(lo + 1..hi, S)
  BY DEF Injection, IsInjective
<1>2. Cardinality(lo + 1..hi) <= Cardinality(S)
  BY <1>1, FS_Injection
<1>3. lo + 1 \in Int /\ hi \in Int
  OBVIOUS
<1>4. Cardinality(lo + 1..hi) = IF lo + 1 > hi THEN 0 ELSE hi - (lo + 1) + 1
  BY <1>3, FS_Interval
<1>5. Cardinality(S) \in Nat
  BY FS_CardinalityType
<1>. QED BY <1>2, <1>4, <1>5

\* Only resolving changes the list, and AlreadyAdded keeps it from naming one twice.
LEMMA AppendedStep == Inv /\ AppendedOnce /\ [Next]_vars => AppendedOnce'
<1>. SUFFICES ASSUME Inv, AppendedOnce, [Next]_vars PROVE AppendedOnce'
  OBVIOUS
<1>1. conf \in Seq(Entry) /\ Len(conf) \in Nat /\ listed \in Nat /\ listed <= Len(conf)
  BY DEF Inv, TypeOK, ListInv
<1>2. CASE ResolveEntry
  <2>1. /\ Len(conf') = Len(conf) /\ listed' = listed
        /\ \A i \in 1..Len(conf) : conf'[i].name = conf[i].name
    <3>1. /\ cursor \in 1..Len(conf) /\ listed' = listed
          /\ conf' = [conf EXCEPT ![cursor] =
                        [conf[cursor] EXCEPT !.source = @ \/ conf[cursor].name \in Builtin]]
      BY <1>2 DEF ResolveEntry, Inv, ResolvedInv, Resolving, TypeOK
    <3>2. conf[cursor] \in Entry
      BY <1>1, <3>1
    <3>3. [conf[cursor] EXCEPT !.source = @ \/ conf[cursor].name \in Builtin].name
              = conf[cursor].name
      BY <3>2 DEF Entry
    <3>. QED BY <3>1, <3>3, <1>1
  <2>. QED BY <2>1 DEF AppendedOnce
<1>3. CASE AppendDependency
  <2>1. listed' = listed
    BY <1>3 DEF AppendDependency
  <2>2. CASE AlreadyAdded(Head(deps))
    <3>1. conf' = conf
      BY <1>3, <2>2 DEF AppendDependency
    <3>. QED BY <2>1, <3>1 DEF AppendedOnce
  <2>3. CASE ~ AlreadyAdded(Head(deps))
    <3>1. /\ conf' = Append(conf, Dependency(Head(deps)))
          /\ Head(deps) \in Plugin
      BY <1>3, <2>3 DEF AppendDependency, Inv, TypeOK
    <3>2. Dependency(Head(deps)) \in Entry /\ Dependency(Head(deps)).name = Head(deps)
      <4>1. <<>> \in Seq(Plugin) /\ FALSE \in BOOLEAN
        OBVIOUS
      <4>. QED BY <3>1, <4>1 DEF Dependency, Entry
    <3>3. /\ Len(conf') = Len(conf) + 1
          /\ \A i \in 1..Len(conf) : conf'[i] = conf[i]
          /\ conf'[Len(conf) + 1] = Dependency(Head(deps))
      BY <3>1, <3>2, <1>1
    <3>4. \A i \in 1..Len(conf) : i > listed => conf[i].name # Head(deps)
      BY <2>3, <1>1 DEF AlreadyAdded
    <3>5. \A i \in 1..Len(conf') : i \in 1..Len(conf) \/ i = Len(conf) + 1
      BY <3>3, <1>1
    <3>6. ASSUME NEW i \in 1..Len(conf'), NEW j \in 1..Len(conf'),
                 i > listed, j > listed, conf'[i].name = conf'[j].name
          PROVE  i = j
      <4>1. CASE i \in 1..Len(conf) /\ j \in 1..Len(conf)
        BY <4>1, <3>3, <3>6 DEF AppendedOnce
      <4>2. CASE i \in 1..Len(conf) /\ j = Len(conf) + 1
        BY <4>2, <3>2, <3>3, <3>4, <3>6
      <4>3. CASE i = Len(conf) + 1 /\ j \in 1..Len(conf)
        BY <4>3, <3>2, <3>3, <3>4, <3>6
      <4>. QED BY <4>1, <4>2, <4>3, <3>5
    <3>. QED BY <2>1, <3>6 DEF AppendedOnce
  <2>. QED BY <2>2, <2>3
<1>4. CASE conf' = conf /\ listed' = listed
  BY <1>4 DEF AppendedOnce
<1>5. ResolveEntry \/ AppendDependency \/ (conf' = conf /\ listed' = listed)
  BY DEF Next, vars, EndOfEntry, Resolved, SkipEntry, PostponeEntry, LoadEntry,
         LoadSourceless, LoadThrows, EndPass, StartUnload, UnloadPlugin, Unloaded
<1>. QED BY <1>2, <1>3, <1>4, <1>5

\* What boot::load works through is bounded, if there are finitely many plugins: the list
\* it resolves while it grows, and the passes, each of which but the last loads a plugin.
\* That the resolving and the passes go on is for the run to check (BootEnds).
THEOREM BootWorkBounded == IsFiniteSet(Plugin) /\ Spec => []BootBounded
<1>. SUFFICES ASSUME IsFiniteSet(Plugin) PROVE Spec => []BootBounded
  OBVIOUS
<1>1. Init => AppendedOnce
  <2>. SUFFICES ASSUME Init PROVE AppendedOnce
    OBVIOUS
  <2>1. listed = Len(conf) /\ Len(conf) \in Nat
    BY InitInv DEF Init, Inv, TypeOK
  <2>. QED BY <2>1 DEF AppendedOnce
<1>2. Inv /\ AppendedOnce => BootBounded
  <2>. SUFFICES ASSUME Inv, AppendedOnce PROVE BootBounded
    OBVIOUS
  <2>1. /\ Len(conf) \in Nat /\ listed \in Nat /\ listed <= Len(conf) /\ Len(order) \in Nat
        /\ order \in Seq(Plugin)
    BY DEF Inv, TypeOK, ListInv
  <2>2. Len(conf) <= listed + Cardinality(Plugin)
    <3>. DEFINE f == [i \in listed + 1..Len(conf) |-> conf[i].name]
    <3>1. \A i \in listed + 1..Len(conf) : i \in 1..Len(conf) /\ i > listed
      BY <2>1
    <3>2. f \in [listed + 1..Len(conf) -> Plugin]
      BY <3>1, RequiresTyped DEF Inv
    <3>3. \A i, j \in listed + 1..Len(conf) : f[i] = f[j] => i = j
      BY <3>1 DEF AppendedOnce
    <3>. HIDE DEF f
    <3>. QED BY <3>2, <3>3, <2>1, DistinctBound
  <2>3. Len(order) <= Cardinality(Plugin)
    <3>1. order \in [0 + 1..Len(order) -> Plugin] /\ 0 \in Nat /\ 0 <= Len(order)
      BY <2>1
    <3>2. \A i, j \in 0 + 1..Len(order) : order[i] = order[j] => i = j
      BY DEF Inv, OrderInv
    <3>3. Len(order) <= 0 + Cardinality(Plugin)
      BY <3>1, <3>2, <2>1, DistinctBound
    <3>4. Cardinality(Plugin) \in Nat
      BY FS_CardinalityType
    <3>. QED BY <3>3, <3>4
  <2>. QED BY <2>2, <2>3 DEF BootBounded
<1>. QED BY InitInv, NextInv, <1>1, AppendedStep, <1>2, PTL DEF Spec
=============================================================================
