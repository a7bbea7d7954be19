------------------------------ MODULE Startup ------------------------------
(***************************************************************************)
(* zpt::startup::boot: in which order the plugins of a process are loaded  *)
(* and unloaded.                                                           *)
(*                                                                         *)
(* The configuration lists plugins.  Those of the builtin table take their *)
(* "requires" from it, whatever the configuration says; the table itself   *)
(* grows while the list is resolved, because a plugin with "needed_for"    *)
(* adds itself to what others require.  Resolving an entry appends to the  *)
(* list an entry for everything it requires.  Then passes over the list    *)
(* load whatever has nothing outstanding, until nothing changes.           *)
(*                                                                         *)
(* zpt::json is a shared pointer: the "requires" of a builtin entry of the *)
(* list is the array of the table, not a copy of it.                       *)
(***************************************************************************)
EXTENDS Naturals, Sequences, FiniteSets

CONSTANTS
    Plugin,       \* names of plugins
    Builtin,      \* those in the table __builtins
    Required,     \* what the table says each one requires
    NeededFor,    \* what it says each one is needed for
    Self,         \* "builtin:self", which every process loads
    UserLists     \* the lists of entries a configuration may have

Entry == [name : Plugin, source : BOOLEAN, requires : Seq(Plugin)]

\* A name is listed once, and a listed plugin that is not a builtin has a source.
ASSUME PluginAssumption ==
    /\ Builtin \subseteq Plugin
    /\ Self \in Builtin
    /\ Required \in [Builtin -> Seq(Plugin)]
    /\ NeededFor \in [Builtin -> SUBSET Builtin]
    /\ UserLists \subseteq Seq(Entry)
    /\ \A l \in UserLists : \A i, j \in 1..Len(l) :
          /\ l[i].name = l[j].name => i = j
          /\ l[i].name \notin Builtin => l[i].source

VARIABLES
    phase,      \* where load or unload is
    conf,       \* __configuration("load")
    listed,     \* how many entries it had before dependencies were appended
    table,      \* the "requires" of __builtins
    deps,       \* dependencies of the entry being resolved still to be looked at
    cursor,     \* entry of conf (or, unloading, of order) that is next
    changed,    \* ~ _no_change
    waiting,    \* _to_load: what is outstanding for each name
    plugins,    \* the keys of __plugins
    order       \* __load_order

vars == <<phase, conf, listed, table, deps, cursor, changed, waiting, plugins, order>>

Phase == {"resolve", "append", "load", "running", "unload", "stopped",
          "unmet", "no_source", "threw"}

\* What an entry requires: for a builtin, the array it shares with the table.
RequiresOf(e) == IF e.name \in Builtin THEN table[e.name] ELSE e.requires

\* The elements of a sequence.
Elements(s) == {s[i] : i \in DOMAIN s}

\* Faulty variant: the name alone.
Dependency_bare(d) == [name |-> d, requires |-> <<>>]

\* The entry that is appended for a dependency, {"name", _dependency}.
Dependency(d) == [name |-> d, source |-> FALSE, requires |-> <<>>]

\* boot::boot: the entry of "self" goes to the end of whatever is listed.
Init ==
    /\ phase = "resolve"
    /\ \E l \in UserLists : conf = Append(l, [name |-> Self, source |-> TRUE, requires |-> <<>>])
    /\ listed = Len(conf)
    /\ table = Required
    /\ deps = <<>>
    /\ cursor = 1
    /\ changed = TRUE
    /\ waiting = [p \in Plugin |-> {}]
    /\ plugins = {}
    /\ order = <<>>

(***************************************************************************)
(* resolve_builtin_dependencies                                            *)
(***************************************************************************)

\* "needed_for": the entry's name is added to what others require.
Grow(n) ==
    [b \in Builtin |->
        IF n \in Builtin /\ b \in NeededFor[n] THEN Append(table[b], n) ELSE table[b]]

ResolveEntry ==
    /\ phase = "resolve"
    /\ cursor <= Len(conf)
    /\ LET n == conf[cursor].name IN
       /\ conf' = [conf EXCEPT ![cursor].source = @ \/ n \in Builtin]
       /\ table' = Grow(n)
       /\ deps' = IF n \in Builtin THEN Grow(n)[n] ELSE conf[cursor].requires
    /\ phase' = "append"
    /\ UNCHANGED <<listed, cursor, changed, waiting, plugins, order>>

\* Has an entry been appended for this dependency?  _already_added knows of no other.
AlreadyAdded(d) == \E i \in listed + 1..Len(conf) : conf[i].name = d

AppendDependency ==
    /\ phase = "append"
    /\ deps # <<>>
    /\ conf' = IF AlreadyAdded(Head(deps)) THEN conf ELSE Append(conf, Dependency(Head(deps)))
    /\ deps' = Tail(deps)
    /\ UNCHANGED <<phase, listed, table, cursor, changed, waiting, plugins, order>>

EndOfEntry ==
    /\ phase = "append"
    /\ deps = <<>>
    /\ phase' = "resolve"
    /\ cursor' = cursor + 1
    /\ UNCHANGED <<conf, listed, table, deps, changed, waiting, plugins, order>>

Resolved ==
    /\ phase = "resolve"
    /\ cursor > Len(conf)
    /\ phase' = "load"
    /\ cursor' = 1
    /\ changed' = FALSE
    /\ UNCHANGED <<conf, listed, table, deps, waiting, plugins, order>>

(***************************************************************************)
(* load                                                                    *)
(***************************************************************************)
Names == {conf[i].name : i \in 1..Len(conf)}

\* Faulty variant: a builtin entry has a copy of the array, made before the table grew.
Outstanding_copied(e) ==
    (IF e.name \in Builtin THEN Elements(Required[e.name]) ELSE Elements(e.requires)) \ plugins

\* Faulty variant: starts from nothing for every entry.
Outstanding_fresh(e) == Elements(RequiresOf(e)) \ plugins

\* Faulty variant: forgets that a requirement has been met since.
Outstanding_kept(e) == waiting[e.name] \cup (Elements(RequiresOf(e)) \ plugins)

\* What is outstanding for an entry's name once its "requires" have been looked at.
Outstanding(e) ==
    (waiting[e.name] \cup Elements(RequiresOf(e))) \ (Elements(RequiresOf(e)) \cap plugins)

AtEntry(e) == phase = "load" /\ cursor <= Len(conf) /\ e = conf[cursor]

\* Loaded already, under this or another entry of the same name.
SkipEntry(e) ==
    /\ AtEntry(e)
    /\ e.name \in plugins
    /\ cursor' = cursor + 1
    /\ UNCHANGED <<phase, conf, listed, table, deps, changed, waiting, plugins, order>>

PostponeEntry(e) ==
    /\ AtEntry(e)
    /\ e.name \notin plugins
    /\ Outstanding(e) # {}
    /\ waiting' = [waiting EXCEPT ![e.name] = Outstanding(e)]
    /\ cursor' = cursor + 1
    /\ UNCHANGED <<phase, conf, listed, table, deps, changed, plugins, order>>

\* The plugin is loaded.  A library that cannot be opened, or has no entry point, is
\* reported to the log and counts as loaded.
LoadEntry(e) ==
    /\ AtEntry(e)
    /\ e.name \notin plugins
    /\ Outstanding(e) = {}
    /\ e.source
    /\ plugins' = plugins \cup {e.name}
    /\ order' = Append(order, e.name)
    /\ waiting' = [waiting EXCEPT ![e.name] = {}]
    /\ changed' = TRUE
    /\ cursor' = cursor + 1
    /\ UNCHANGED <<phase, conf, listed, table, deps>>

\* Nobody catches what the constructor of zpt::plugin throws: for want of a source, ...
LoadSourceless(e) ==
    /\ AtEntry(e)
    /\ e.name \notin plugins
    /\ Outstanding(e) = {}
    /\ ~ e.source
    /\ phase' = "no_source"
    /\ UNCHANGED <<conf, listed, table, deps, cursor, changed, waiting, plugins, order>>

\* ... or because the entry point of the library throws.
LoadThrows(e) ==
    /\ AtEntry(e)
    /\ e.name \notin plugins
    /\ Outstanding(e) = {}
    /\ e.source
    /\ phase' = "threw"
    /\ UNCHANGED <<conf, listed, table, deps, cursor, changed, waiting, plugins, order>>

\* Faulty variant: does not start the next pass with "nothing changed yet".
EndPass_noReset ==
    /\ phase = "load"
    /\ cursor > Len(conf)
    /\ phase' = CASE ~ changed          -> "unmet"
                  [] Names \subseteq plugins -> "running"
                  [] OTHER              -> "load"
    /\ cursor' = 1
    /\ UNCHANGED <<conf, listed, table, deps, changed, waiting, plugins, order>>

\* The end of a pass: all loaded, nothing changed, or once more.
EndPass ==
    /\ phase = "load"
    /\ cursor > Len(conf)
    /\ phase' = CASE ~ changed          -> "unmet"
                  [] Names \subseteq plugins -> "running"
                  [] OTHER              -> "load"
    /\ cursor' = 1
    /\ changed' = FALSE
    /\ UNCHANGED <<conf, listed, table, deps, waiting, plugins, order>>

(***************************************************************************)
(* unload                                                                  *)
(***************************************************************************)
StartUnload ==
    /\ phase = "running"
    /\ phase' = "unload"
    /\ cursor' = Len(order)
    /\ UNCHANGED <<conf, listed, table, deps, changed, waiting, plugins, order>>

UnloadPlugin ==
    /\ phase = "unload"
    /\ cursor > 0
    /\ plugins' = plugins \ {order[cursor]}
    /\ cursor' = cursor - 1
    /\ UNCHANGED <<phase, conf, listed, table, deps, changed, waiting, order>>

Unloaded ==
    /\ phase = "unload"
    /\ cursor = 0
    /\ plugins' = {}
    /\ phase' = "stopped"
    /\ UNCHANGED <<conf, listed, table, deps, cursor, changed, waiting, order>>

Next ==
    \/ ResolveEntry \/ AppendDependency \/ EndOfEntry \/ Resolved
    \/ \E e \in Elements(conf) : \/ SkipEntry(e) \/ PostponeEntry(e)
                              \/ LoadEntry(e) \/ LoadSourceless(e) \/ LoadThrows(e)
    \/ EndPass
    \/ StartUnload \/ UnloadPlugin \/ Unloaded

Spec == Init /\ [][Next]_vars

\* One thread, which never waits.
FairSpec == Spec /\ WF_vars(Next)

(***************************************************************************)
(* Properties                                                              *)
(***************************************************************************)
TypeOK ==
    /\ phase \in Phase
    /\ conf \in Seq(Entry)
    /\ listed \in Nat
    /\ table \in [Builtin -> Seq(Plugin)]
    /\ deps \in Seq(Plugin)
    /\ cursor \in Nat
    /\ changed \in BOOLEAN
    /\ waiting \in [Plugin -> SUBSET Plugin]
    /\ plugins \subseteq Plugin
    /\ order \in Seq(Plugin)

\* Whatever is loaded finds all it requires loaded, while the process boots and while it
\* unloads: load looks at requirements entry by entry, and several entries of the list may
\* have one name and different requirements.
RequiredFirst ==
    phase \in {"load", "running", "unload"} =>
        \A i \in 1..Len(conf) :
            conf[i].name \in plugins => Elements(RequiresOf(conf[i])) \subseteq plugins

\* A plugin that the configuration gives a source is never loaded from the entry without
\* one that was appended because somebody requires it.
SourceUsed ==
    phase = "no_source" =>
        /\ conf[cursor].name \notin Builtin
        /\ \A i \in 1..listed : conf[i].name # conf[cursor].name

\* Booting fails for unmet dependencies only if some are circular: every plugin left
\* requires one that is left.
UnmetIsCircular ==
    phase = "unmet" =>
        /\ Names \ plugins # {}
        /\ \A p \in Names \ plugins : \E i \in 1..Len(conf) :
              /\ conf[i].name = p
              /\ Elements(RequiresOf(conf[i])) \cap (Names \ plugins) # {}

\* A process that runs has loaded what its configuration lists and whatever that requires.
AllLoaded ==
    phase = "running" =>
        \A i \in 1..Len(conf) : {conf[i].name} \cup Elements(RequiresOf(conf[i])) \subseteq plugins

\* Loading comes to an end: a pass that loads nothing is the last one.
BootEnds == <>(phase \in {"running", "unmet", "no_source", "threw"})
=============================================================================
