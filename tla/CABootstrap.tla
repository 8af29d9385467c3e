---------------------------- MODULE CABootstrap ----------------------------
(***************************************************************************)
(* How the agent comes by its certificate authority: ensureCACertificate   *)
(* finds or creates ca.pem, NewCertificateAuthority loads it, and its      *)
(* trust anchor is written to public_ca.crt for others, before any command *)
(* is handled.  Each step is a system call of its own; the process may end *)
(* between any two of them, by a crash or because the call failed (run     *)
(* returns every error and the process exits), and systemd starts it       *)
(* again.  The files stay.                                                 *)
(***************************************************************************)
EXTENDS Naturals

CONSTANTS
    CAs,          \* certificate authorities: a certificate and its key each
    None,         \* no such file, or no certificate authority
    Empty,        \* a file without contents
    Partial       \* a file that holds only part of what was written

Damaged == {Empty, Partial}

ASSUME ContentsAssumption ==
    /\ None \notin CAs \cup Damaged
    /\ Damaged \cap CAs = {}

VARIABLES
    pc,           \* the next system call of runCommander, "failed" when it
                  \* returns an error, "serve" when the handlers run, "down"
                  \* without a process
    file,         \* contents of ca.pem
    mode,         \* its permissions: "open" when others may read it
    created,      \* the agent created it
    public,       \* contents of public_ca.crt
    made,         \* the authority this process has generated
    ca,           \* the authority it has loaded
    signers,      \* the authorities certificates have been signed with
    overlooked,   \* what was in ca.pem when os.Stat failed on it
    others        \* another user's open descriptor of ca.pem: "none", "early" when
                  \* it was opened before the agent wrote a key, "late" after

vars == <<pc, file, mode, created, public, made, ca, signers, overlooked, others>>

-----------------------------------------------------------------------------
\* ensureCACertificate.

\* A new key is one nobody has seen.
NewKeys == CAs \ (signers \cup overlooked \cup {public, file})

\* Mutant: the file is created whether or not there is one.
StatIgnored ==
    /\ pc = "stat"
    /\ pc' = "generate"
    /\ UNCHANGED <<file, mode, created, public, made, ca, signers, overlooked, others>>

Stat ==
    /\ pc = "stat"
    /\ pc' = IF file = None THEN "generate" ELSE "protect"
    /\ UNCHANGED <<file, mode, created, public, made, ca, signers, overlooked, others>>

\* Any error of os.Stat is taken for "there is none", also when it says nothing of
\* the sort.  (The bound: a key is left to generate.)
StatFails ==
    /\ pc = "stat"
    /\ file # None /\ NewKeys # {}
    /\ overlooked' = overlooked \cup {file}
    /\ pc' = "generate"
    /\ UNCHANGED <<file, mode, created, public, made, ca, signers, others>>

ProtectExisting ==
    /\ pc = "protect"
    /\ mode' = "private"
    /\ pc' = "load"
    /\ UNCHANGED <<file, created, public, made, ca, signers, overlooked, others>>

Generate == \E k \in NewKeys :
    /\ pc = "generate"
    /\ made' = k
    /\ pc' = "create"
    /\ UNCHANGED <<file, mode, created, public, ca, signers, overlooked, others>>

\* os.Create truncates a file that is there and leaves its permissions; a new one
\* has 0666 less the umask.
Create ==
    /\ pc = "create"
    /\ file' = Empty
    /\ mode' = IF file = None THEN "open" ELSE mode
    /\ created' = TRUE
    /\ pc' = "protectNew"
    /\ UNCHANGED <<public, made, ca, signers, overlooked, others>>

\* Mutant: the permissions are left for the next start to correct.
ProtectNewLater ==
    /\ pc = "protectNew"
    /\ pc' = "write"
    /\ UNCHANGED <<file, mode, created, public, made, ca, signers, overlooked, others>>

ProtectNew ==
    /\ pc = "protectNew"
    /\ mode' = "private"
    /\ pc' = "write"
    /\ UNCHANGED <<file, created, public, made, ca, signers, overlooked, others>>

\* Mutant: the file is opened for appending.
WriteAppended ==
    /\ pc = "write"
    /\ file' = <<file, made>>
    /\ pc' = "load"
    /\ UNCHANGED <<mode, created, public, made, ca, signers, overlooked, others>>

Write ==
    /\ pc = "write"
    /\ file' = made
    /\ pc' = "load"
    /\ UNCHANGED <<mode, created, public, made, ca, signers, overlooked, others>>

\* The disk is full, or the process ends, before everything is written.
WriteCutShort ==
    /\ pc = "write"
    /\ file' = Partial
    /\ pc' = "down"
    /\ made' = None
    /\ UNCHANGED <<mode, created, public, ca, signers, overlooked, others>>

-----------------------------------------------------------------------------
\* The rest of runCommander.

\* NewCertificateAuthority refuses a file without a key or a certificate.
Load ==
    /\ pc = "load"
    /\ IF file \in CAs
       THEN pc' = "truncate" /\ ca' = file /\ UNCHANGED made
       ELSE pc' = "failed" /\ UNCHANGED <<made, ca>>
    /\ UNCHANGED <<file, mode, created, public, signers, overlooked, others>>

\* Mutant: a public_ca.crt that exists is taken to be the right one.
TruncateUnlessThere ==
    /\ pc = "truncate"
    /\ IF public = None
       THEN public' = Empty /\ pc' = "publish"
       ELSE pc' = "serve" /\ UNCHANGED public
    /\ UNCHANGED <<file, mode, created, made, ca, signers, overlooked, others>>

\* Mutant: public_ca.crt is created exclusively.
TruncateExclusive ==
    /\ pc = "truncate"
    /\ public = None
    /\ public' = Empty
    /\ pc' = "publish"
    /\ UNCHANGED <<file, mode, created, made, ca, signers, overlooked, others>>

\* os.WriteFile truncates what is there ...
Truncate ==
    /\ pc = "truncate"
    /\ public' = Empty
    /\ pc' = "publish"
    /\ UNCHANGED <<file, mode, created, made, ca, signers, overlooked, others>>

\* ... and writes.
Publish ==
    /\ pc = "publish"
    /\ public' = ca
    /\ pc' = "serve"
    /\ UNCHANGED <<file, mode, created, made, ca, signers, overlooked, others>>

PublishCutShort ==
    /\ pc = "publish"
    /\ public' = Partial
    /\ pc' = "down"
    /\ made' = None
    /\ ca' = None
    /\ UNCHANGED <<file, mode, created, signers, overlooked, others>>

\* csr_sign.
Sign ==
    /\ pc = "serve"
    /\ signers' = signers \cup {ca}
    /\ UNCHANGED <<pc, file, mode, created, public, made, ca, overlooked, others>>

-----------------------------------------------------------------------------
\* The process.

\* main logs the error and exits.
Exit ==
    /\ pc = "failed"
    /\ pc' = "down"
    /\ made' = None
    /\ ca' = None
    /\ UNCHANGED <<file, mode, created, public, signers, overlooked, others>>

\* A system call fails, a signal comes.
End ==
    /\ pc \notin {"down", "failed"}
    /\ pc' = "down"
    /\ made' = None
    /\ ca' = None
    /\ UNCHANGED <<file, mode, created, public, signers, overlooked, others>>

Restart ==
    /\ pc = "down"
    /\ pc' = "stat"
    /\ UNCHANGED <<file, mode, created, public, made, ca, signers, overlooked, others>>

-----------------------------------------------------------------------------
\* Other users of the machine.  A descriptor stays when the permissions change,
\* and reads what is written later.

OthersOpen ==
    /\ file # None /\ mode = "open"
    /\ others' = IF created /\ file # Empty THEN "late" ELSE "early"
    /\ UNCHANGED <<pc, file, mode, created, public, made, ca, signers, overlooked>>

OthersClose ==
    /\ others # "none"
    /\ others' = "none"
    /\ UNCHANGED <<pc, file, mode, created, public, made, ca, signers, overlooked>>

-----------------------------------------------------------------------------
\* The administrator may have put an authority of their own into place, with
\* permissions as they come, or something that is none.
Init ==
    /\ pc = "stat"
    /\ \/ file = None /\ mode = "private"
       \/ file \in CAs \cup Damaged /\ mode \in {"open", "private"}
    /\ created = FALSE
    /\ public = None
    /\ made = None
    /\ ca = None
    /\ signers = {}
    /\ overlooked = {}
    /\ others = "none"

Ensure == Stat \/ ProtectExisting \/ Generate \/ Create \/ ProtectNew \/ Write
Start  == Load \/ Truncate \/ Publish \/ Exit
Broken == StatFails \/ WriteCutShort \/ PublishCutShort \/ End
Others == OthersOpen \/ OthersClose

Next == Ensure \/ Start \/ Sign \/ Broken \/ Restart \/ Others

Spec == Init /\ [][Next]_vars

\* The one goroutine of the start-up goes on, and systemd restarts.
FairSpec == Spec /\ WF_vars(Ensure \/ Start) /\ WF_vars(Restart)

-----------------------------------------------------------------------------
\* Properties.

\* Every variable has the values its Go or file system counterpart can have.
TypeOK ==
    /\ pc \in {"down", "stat", "protect", "generate", "create", "protectNew",
               "write", "load", "failed", "truncate", "publish", "serve"}
    /\ file \in CAs \cup Damaged \cup {None}
    /\ mode \in {"open", "private"}
    /\ created \in BOOLEAN
    /\ public \in CAs \cup Damaged \cup {None}
    /\ made \in CAs \cup {None}
    /\ ca \in CAs \cup {None}
    /\ signers \subseteq CAs
    /\ overlooked \subseteq CAs \cup Damaged
    /\ others \in {"none", "early", "late"}

\* Nobody else can open a file with the key the agent wrote, whatever system calls
\* a crash comes between: a file it created has its permissions before it has the
\* key (agent.go:151-159), one it found has them before the agent uses it (:135).
\* That leaves one way to the key: a descriptor opened before, in the window
\* between os.Create and the chmod or while the file found there was open.
KeyIsPrivate ==
    /\ created /\ file # Empty => mode = "private"
    /\ others # "late"
    /\ pc \in {"load", "truncate", "publish", "serve"} => mode = "private"

\* The identity of the mesh does not change under the feet of those who trust
\* it: all certificates ever signed on this machine, over every restart, come
\* from the authority in ca.pem, which is not replaced once it signed unless
\* os.Stat fails on it, an error that is taken for "not there" (agent.go:134).
OneAuthority ==
    /\ signers \subseteq {file} \cup overlooked
    /\ pc \in {"truncate", "publish", "serve"} => ca = file

\* While the agent signs, public_ca.crt is the trust anchor of the authority it
\* signs with, also after a start that was cut short.
PublicIsCurrent == pc = "serve" => public = ca /\ ca \in CAs

\* From some point on no system call fails, os.Stat neither, and nobody kills the
\* agent.
Healthy == <>[][~Broken]_vars

\* A start-up that is not interrupted for ever succeeds, or ca.pem was left
\* damaged by an earlier one (or by the administrator).
ServesUnlessDamaged ==
    Healthy => <>[](pc = "serve") \/ <>[](file \in Damaged)

\* deploy/camblet.service:7, "Restart=always": an agent that ended is back after
\* the restart, unless the administrator's ca.pem was damaged to begin with.
RestartHeals ==
    file \notin Damaged => (Healthy => <>[](pc = "serve"))
=============================================================================
