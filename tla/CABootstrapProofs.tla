------------------------- MODULE CABootstrapProofs -------------------------
(***************************************************************************)
(* Machine-checked proofs about CABootstrap, for every set of authorities. *)
(***************************************************************************)
EXTENDS CABootstrap, TLAPS

\* What ca.pem holds while a start-up is between two system calls.
FileState ==
    /\ pc \in {"generate", "create"} => file = None \/ file \in overlooked
    /\ pc \in {"protectNew", "write"} => file = Empty
    /\ pc \in {"create", "protectNew", "write"} => made \in CAs
    /\ pc = "write" => mode = "private"
    /\ pc \in {"truncate", "publish", "serve"} => file \in CAs

IInv == TypeOK /\ FileState /\ KeyIsPrivate /\ OneAuthority /\ PublicIsCurrent

\* The machine starts without an agent ever having run.
LEMMA InitIInv == Init => IInv
BY ContentsAssumption
   DEF Init, IInv, TypeOK, FileState, KeyIsPrivate, OneAuthority, PublicIsCurrent, Damaged

\* Every system call, every crash and every restart keeps the types.
LEMMA TypeStep == IInv /\ [Next]_vars => TypeOK'
<1> SUFFICES ASSUME IInv, [Next]_vars
             PROVE  TypeOK'
    OBVIOUS
<1>. USE DEF IInv, TypeOK, FileState, OneAuthority, Damaged
<1>1. CASE Ensure
    BY <1>1 DEF Ensure, Stat, ProtectExisting, Generate, NewKeys, Create, ProtectNew,
                Write
<1>2. CASE Start
    BY <1>2 DEF Start, Load, Truncate, Publish, Exit
<1>3. CASE Sign
    BY <1>3 DEF Sign
<1>4. CASE Broken \/ Restart \/ Others \/ UNCHANGED vars
    BY <1>4 DEF Broken, StatFails, WriteCutShort, PublishCutShort, End, Restart,
              Others, OthersOpen, OthersClose, vars
<1> QED BY <1>1, <1>2, <1>3, <1>4 DEF Next

\* The two ways through ensureCACertificate stay apart: an authority is only
\* generated when there is no file, or os.Stat failed on it, and only written into
\* an empty one.
LEMMA FileStep == IInv /\ [Next]_vars => FileState'
<1> SUFFICES ASSUME IInv, [Next]_vars
             PROVE  FileState'
    OBVIOUS
<1>. USE DEF IInv, TypeOK, FileState
<1>1. CASE Ensure
    BY <1>1 DEF Ensure, Stat, ProtectExisting, Generate, NewKeys, Create, ProtectNew,
                Write
<1>2. CASE Start
    BY <1>2 DEF Start, Load, Truncate, Publish, Exit
<1>3. CASE Sign \/ Broken \/ Restart \/ Others \/ UNCHANGED vars
    BY <1>3 DEF Sign, Broken, StatFails, WriteCutShort, PublishCutShort, End, Restart,
              Others, OthersOpen, OthersClose, vars
<1> QED BY <1>1, <1>2, <1>3 DEF Next

\* No step puts the key where others can read it.
LEMMA PrivateStep == IInv /\ [Next]_vars => KeyIsPrivate'
<1> SUFFICES ASSUME IInv, [Next]_vars
             PROVE  KeyIsPrivate'
    OBVIOUS
<1>. USE DEF IInv, FileState, KeyIsPrivate
<1>1. CASE Ensure
    BY <1>1 DEF Ensure, Stat, ProtectExisting, Generate, NewKeys, Create, ProtectNew,
                Write
<1>2. CASE Start
    BY <1>2 DEF Start, Load, Truncate, Publish, Exit
<1>3. CASE Sign \/ Broken \/ Restart \/ Others \/ UNCHANGED vars
    BY <1>3 DEF Sign, Broken, StatFails, WriteCutShort, PublishCutShort, End, Restart,
              Others, OthersOpen, OthersClose, vars
<1> QED BY <1>1, <1>2, <1>3 DEF Next

\* A file that is overwritten is one nobody has signed with, or one that os.Stat
\* failed on.
LEMMA AuthorityStep == IInv /\ [Next]_vars => OneAuthority'
<1> SUFFICES ASSUME IInv, [Next]_vars
             PROVE  OneAuthority'
    OBVIOUS
<1>1. file \notin CAs => signers \subseteq overlooked
    BY DEF IInv, TypeOK, OneAuthority
<1>2. pc \in {"create", "protectNew", "write"} => signers \subseteq overlooked
    BY <1>1, ContentsAssumption DEF IInv, FileState, OneAuthority, Damaged
<1>. USE DEF IInv, OneAuthority
<1>3. CASE Ensure
    BY <1>2, <1>3 DEF Ensure, Stat, ProtectExisting, Generate, Create, ProtectNew, Write
<1>4. CASE Start
    BY <1>4 DEF Start, Load, Truncate, Publish, Exit
<1>5. CASE Sign
    BY <1>5 DEF Sign
<1>6. CASE Broken \/ Restart \/ Others \/ UNCHANGED vars
    BY <1>2, <1>6 DEF Broken, StatFails, WriteCutShort, PublishCutShort, End, Restart,
              Others, OthersOpen, OthersClose, vars
<1> QED BY <1>3, <1>4, <1>5, <1>6 DEF Next

\* Only Publish leads to serving, and it writes the anchor of the loaded one.
LEMMA PublicStep == IInv /\ [Next]_vars => PublicIsCurrent'
<1> SUFFICES ASSUME IInv, [Next]_vars
             PROVE  PublicIsCurrent'
    OBVIOUS
<1>. USE DEF IInv, FileState, OneAuthority, PublicIsCurrent
<1>1. CASE Ensure
    BY <1>1 DEF Ensure, Stat, ProtectExisting, Generate, NewKeys, Create, ProtectNew,
                Write
<1>2. CASE Start
    BY <1>2 DEF Start, Load, Truncate, Publish, Exit
<1>3. CASE Sign \/ Broken \/ Restart \/ Others \/ UNCHANGED vars
    BY <1>3 DEF Sign, Broken, StatFails, WriteCutShort, PublishCutShort, End, Restart,
              Others, OthersOpen, OthersClose, vars
<1> QED BY <1>1, <1>2, <1>3 DEF Next

\* The inductive invariant holds of every behaviour.
LEMMA Invariance == Spec => []IInv
<1>1. Init => IInv
    BY InitIInv
<1>2. IInv /\ [Next]_vars => IInv'
    BY TypeStep, FileStep, PrivateStep, AuthorityStep, PublicStep DEF IInv
<1> QED BY <1>1, <1>2, PTL DEF Spec

\* ca.pem and public_ca.crt hold whole authorities, what is left of one, or
\* nothing, and only a loaded authority signs (agent.go:97-106, :133-164).
THEOREM TypeCorrect == Spec => []TypeOK
BY Invariance, PTL DEF IInv

\* Over crashes at any system call of the start-up, nobody else can open a file with
\* the key the agent wrote; who reads it all the same has opened the file before.
THEOREM KeyStaysPrivate == Spec => []KeyIsPrivate
BY Invariance, PTL DEF IInv

\* All certificates come from the one authority in ca.pem, over all restarts, but
\* for authorities that os.Stat failed on.
THEOREM AuthorityStaysTheSame == Spec => []OneAuthority
BY Invariance, PTL DEF IInv

\* Whoever trusts public_ca.crt trusts what the agent signs.
THEOREM PublicStaysCurrent == Spec => []PublicIsCurrent
BY Invariance, PTL DEF IInv
=============================================================================
