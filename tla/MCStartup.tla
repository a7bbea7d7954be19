----------------------------- MODULE MCStartup -----------------------------
(* The real table, with configurations of up to three plugins.             *)
EXTENDS Startup, BuiltinPlugins

CONSTANTS App, Lib, Ghost
MCPlugin == BuiltinNames \cup {App, Lib, Ghost}

Listed(n) == [name |-> n, source |-> FALSE, requires |-> <<>>]
Custom(n, r) == [name |-> n, source |-> TRUE, requires |-> r]

AppRequires == {<<>>, <<"rest">>, <<Lib>>, <<Lib, "mongodb">>, <<"lua", Ghost>>}
LibRequires == {<<>>, <<App>>, <<"rest", App>>, <<"sqlite">>}
MCUserLists ==
    {<<Listed(a), Listed(b)>> : <<a, b>> \in {p \in BuiltinNames \X BuiltinNames : p[1] # p[2]}}
    \cup {<<Custom(App, r), Custom(Lib, s), Listed("http")>> : r \in AppRequires, s \in LibRequires}
    \cup {<<Listed("http"), Custom(Lib, s), Custom(App, r)>> : r \in AppRequires, s \in LibRequires}
=============================================================================
