----------------------------- MODULE MCTracing -----------------------------
(***************************************************************************)
(* A small instance of Tracing for TLC: two task contexts, and two clients *)
(* who ask for the same, so that their messages cannot be told apart.      *)
(***************************************************************************)
EXTENDS Tracing

Ctx(p, u, n) == [pid |-> p, uid |-> u, name |-> n]

\* One task every client asks for, and one that meets only part of what they ask for.
MCContexts == {Ctx(7, 5, "nginx"), Ctx(8, 5, "curl")}

MCClients == {"a", "b"}

\* Their command line, with a filter of every kind.
MCOptions == [c \in MCClients |-> [pid |-> 7, uid |-> 5, name |-> "nginx"]]
=============================================================================
