--------------------------- MODULE BuiltinPlugins ---------------------------
(***************************************************************************)
(* The plugins that come with zapata and what the table in startup.cpp     *)
(* says of them: whom each one requires, and whom it has to be loaded      *)
(* before if it is loaded at all.  Names are without their "builtin:".     *)
(***************************************************************************)

\* The transports, all with the same entry but "self".
Transports == {"amqp", "http", "local", "mqtt", "pipe", "tcp", "upnp", "ws"}

BuiltinNames == Transports \cup
    {"testing", "lua", "prolog", "rest", "transport", "self", "oauth2", "keystore",
     "mongodb", "mysqlx", "pgsql", "sqlite", "identity"}

\* "requires" of every entry.
BuiltinRequires ==
    [b \in BuiltinNames |->
        CASE b \in Transports           -> <<"transport", "self">>
          [] b = "testing"              -> <<"lua", "rest", "transport">>
          [] b \in {"lua", "prolog"}    -> <<"rest", "transport">>
          [] b = "rest"                 -> <<"transport", "self", "identity">>
          [] b \in {"self", "identity"} -> <<"transport">>
          [] b \in {"oauth2", "keystore"} -> <<"rest">>
          [] OTHER                      -> <<>>]

\* "needed_for" of every entry.
BuiltinNeededFor ==
    [b \in BuiltinNames |->
        CASE b \in Transports \cup {"self"} -> {"rest", "identity"}
          [] b = "sqlite"                   -> {"rest"}
          [] OTHER                          -> {}]
=============================================================================
