---------------------- MODULE FileContentLoaderProofs ----------------------
(***************************************************************************)
(* Machine-checked proofs about FileContentLoader, for every set of files  *)
(* and paths and every number of edits.                                    *)
(***************************************************************************)
EXTENDS FileContentLoader, TLAPS

\* What the load under way has found in the paths it has visited is not older
\* than the load, and not newer than the disk.
Found ==
    /\ \A f \in Files : begun[f] <= disk[f]
    /\ pc = "load" =>
         \A f \in Files : PathOf[f] \in paths \ todo =>
             begun[f] <= got[f] /\ got[f] <= disk[f]
    /\ pc = "new" => watching = {}

IInv == TypeOK /\ Found

\* A loader that was not started yet has neither loaded nor watched anything.
LEMMA InitIInv == Init => IInv
<1> SUFFICES ASSUME Init
             PROVE  IInv
    OBVIOUS
<1>1. 0 \in 0 .. MaxVersion /\ 1 \in 0 .. MaxVersion
    BY BoundAssumption
<1>2. \A f \in Files : disk[f] \in {0, 1} /\ begun[f] = disk[f]
    BY DEF Init
<1>3. ASSUME NEW f \in Files
      PROVE  begun[f] <= disk[f]
    <2>1. disk[f] \in Nat /\ begun[f] = disk[f]
        BY <1>2
    <2> QED
        BY <2>1
<1>4. disk \in [Files -> 0 .. MaxVersion]
    BY <1>1 DEF Init
<1> QED
    BY <1>1, <1>3, <1>4 DEF Init, IInv, TypeOK, Found

\* Only Edit changes the disk: a file's state grows, up to the bound.
LEMMA DiskGrows ==
    ASSUME TypeOK, NEW f \in Files, Edit(f)
    PROVE  /\ disk' \in [Files -> 0 .. MaxVersion]
           /\ edited' \in [Files -> 0 .. MaxVersion]
           /\ \A g \in Files : disk[g] <= disk'[g]
<1>1. PICK v \in {disk[f] + 1, disk[f] + 2} :
          /\ v <= MaxVersion
          /\ disk' = [disk EXCEPT ![f] = v]
          /\ edited' = IF looping THEN [edited EXCEPT ![f] = v] ELSE edited
    BY DEF Edit
<1>2. /\ v \in 0 .. MaxVersion
      /\ disk[f] <= v
    BY <1>1, BoundAssumption DEF TypeOK
<1> QED
    BY <1>1, <1>2, BoundAssumption DEF TypeOK

\* Every step of the loader and every edit keeps the types.
LEMMA TypeStep == IInv /\ [Next]_vars => TypeOK'
<1> SUFFICES ASSUME IInv, [Next]_vars
             PROVE  TypeOK'
    OBVIOUS
<1>. USE DEF IInv, loadVars, auxVars, diskVars
<1>1. CASE New
    BY <1>1 DEF New, BeginLoad, TypeOK, Found
<1>2. ASSUME NEW p \in Paths, List(p)
      PROVE  TypeOK'
    BY <1>2 DEF List, LoadFails, FilesOf, TypeOK
<1>3. ASSUME NEW p \in Paths, Add(p)
      PROVE  TypeOK'
    BY <1>3 DEF Add, TypeOK
<1>4. ASSUME NEW f \in Files, Read(f)
      PROVE  TypeOK'
    BY <1>4 DEF Read, LoadFails, TypeOK
<1>5. CASE Handle
    BY <1>5 DEF Handle, TypeOK
<1>6. CASE StartLoop
    BY <1>6 DEF StartLoop, TypeOK
<1>7. CASE TakeEvent
    BY <1>7 DEF TakeEvent, BeginLoad, TypeOK
<1>8. ASSUME NEW f \in Files, Edit(f)
      PROVE  TypeOK'
    <2>1. UNCHANGED <<paths, pc, looping, todo, unread, got, published, begun>>
        BY <1>8 DEF Edit
    <2>2. watching' \subseteq watching /\ event' \in BOOLEAN /\ unreadable' = unreadable
        BY <1>8 DEF Edit, TypeOK
    <2> QED
        BY <1>8, <2>1, <2>2, DiskGrows DEF TypeOK
<1>9. ASSUME NEW f \in Files, Protect(f)
      PROVE  TypeOK'
    BY <1>9 DEF Protect, TypeOK
<1>10. CASE UNCHANGED vars
    BY <1>10 DEF vars, TypeOK
<1> QED
    BY <1>1, <1>2, <1>3, <1>4, <1>5, <1>6, <1>7, <1>8, <1>9, <1>10 DEF Next, Loader

\* A load starts with nothing visited; List and Read find the disk as it is; an
\* edit only makes the disk newer.
LEMMA FoundStep == IInv /\ [Next]_vars => Found'
<1> SUFFICES ASSUME IInv, [Next]_vars
             PROVE  Found'
    OBVIOUS
<1>. USE DEF IInv, loadVars, auxVars, diskVars
<1>0. \A f \in Files : /\ disk[f] \in Nat /\ begun[f] \in Nat /\ got[f] \in Nat
    BY BoundAssumption DEF TypeOK
<1>1. CASE New
    BY <1>0, <1>1 DEF New, BeginLoad, Found
<1>2. ASSUME NEW p \in Paths, List(p)
      PROVE  Found'
    BY <1>0, <1>2 DEF List, LoadFails, FilesOf, Found
<1>3. ASSUME NEW p \in Paths, Add(p)
      PROVE  Found'
    BY <1>3 DEF Add, Found
<1>4. ASSUME NEW f \in Files, Read(f)
      PROVE  Found'
    BY <1>0, <1>4 DEF Read, LoadFails, Found, TypeOK
<1>5. CASE Handle
    BY <1>5 DEF Handle, Found
<1>6. CASE StartLoop
    BY <1>6 DEF StartLoop, Found
<1>7. CASE TakeEvent
    BY <1>0, <1>7 DEF TakeEvent, BeginLoad, Found
<1>8. ASSUME NEW f \in Files, Edit(f)
      PROVE  Found'
    <2>1. /\ UNCHANGED <<paths, pc, todo, got, begun>>
          /\ pc = "new" => watching' \subseteq watching
        BY <1>8 DEF Edit
    <2>2. \A g \in Files : disk'[g] \in Nat /\ disk[g] <= disk'[g]
        BY <1>8, DiskGrows, BoundAssumption
    <2> QED
        BY <1>0, <2>1, <2>2 DEF Found
<1>9. ASSUME NEW f \in Files, Protect(f)
      PROVE  Found'
    BY <1>9 DEF Protect, Found
<1>10. CASE UNCHANGED vars
    BY <1>10 DEF vars, Found
<1> QED
    BY <1>1, <1>2, <1>3, <1>4, <1>5, <1>6, <1>7, <1>8, <1>9, <1>10 DEF Next, Loader

\* The invariant holds in every reachable state.
LEMMA Invariance == Spec => []IInv
<1>1. IInv /\ [Next]_vars => IInv'
    BY TypeStep, FoundStep DEF IInv
<1> QED
    BY InitIInv, <1>1, PTL DEF Spec

\* What a load has found when everything is visited is what the callback gets.
LEMMA HandleFresh ==
    IInv => [Handle => \A f \in Files : PathOf[f] \in paths =>
                begun[f] <= published'[f] /\ published'[f] <= disk[f]]_vars
BY DEF IInv, Found, Handle

\* Every variable keeps to its values.
THEOREM TypeCorrect == Spec => []TypeOK
BY Invariance, PTL DEF IInv

\* The callback is handed what this very load found (load, lines 105-146), for
\* any number of paths and files, whatever is edited meanwhile.
THEOREM FreshContents == Spec => ContentsAreFresh
BY Invariance, HandleFresh, PTL DEF ContentsAreFresh
=============================================================================
