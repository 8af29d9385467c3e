------------------------------ MODULE MCAgent ------------------------------
(***************************************************************************)
(* Small instances of Agent for TLC.                                       *)
(***************************************************************************)
EXTENDS Agent, Integers

\* The trace of a command, which client "a" asks for by name.
NginxOnly  == {[pid |-> 7, uid |-> 5, name |-> "nginx"]}

OneClient  == {"a"}
NoClient   == {}
MCOptions  == [c \in Clients |-> [pid |-> -1, uid |-> -1, name |-> "nginx"]]

NoTable    == {}
OneTable   == {"policies"}

LogOnly    == {"log"}
SignOnly   == {"csr_sign"}
=============================================================================
