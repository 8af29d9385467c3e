--------------------------- MODULE MCAugmentation ---------------------------
(***************************************************************************)
(* Two pids, and processes of root and of another user that run the same   *)
(* program; init sees that the other's were started by root.               *)
(***************************************************************************)
EXTENDS Augmentation, TLC

Process(uid, gid, name) ==
    [cgroup |-> <<"/pod">>, uid |-> uid, gid |-> gid, name |-> name,
     path |-> <<"/bin", name[1]>>]

Root == Process("0", "0", <<"sh">>)
User == Process("1", "1", <<"sh">>)

MCContexts == {Root, User}

MCScanned == [c \in MCContexts |-> Root]

PidSymmetry == Permutations(Pids)

MCFiles == [f \in {"/token", "/none", "/bad"} |->
    CASE f = "/token" -> "jwt" [] f = "/none" -> "missing" [] f = "/bad" -> "garbled"]

\* Only these options are mentioned, in the file or in the environment.
With(options) == [option \in Options |->
    IF option \in DOMAIN options THEN options[option] ELSE Unset]

MCSettings ==
    {[line |-> With(<<>>),
      env |-> With(<<>>),
      file |-> With([kubernetes |-> TRUE, linuxos |-> FALSE,
                     credentials |-> "/token"])],
     [line |-> With([localAddress |-> Blank]),
      env |-> With([kubernetes |-> TRUE]),
      file |-> With([kubernetes |-> FALSE, kubeletCA |-> "/none"])],
     [line |-> With([trustDomain |-> "other"]),
      env |-> With([linuxos |-> Blank, trustDomain |-> Blank, kubernetes |-> TRUE]),
      file |-> With([trustDomain |-> "acme", credentials |-> "/bad"])],
     [line |-> With(<<>>),
      env |-> With([docker |-> TRUE]),
      file |-> With([procfs |-> TRUE, defaultCertTTL |-> "unparsable"])]}
=============================================================================
