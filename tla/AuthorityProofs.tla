-------------------------- MODULE AuthorityProofs --------------------------
(***************************************************************************)
(* Machine-checked proofs about Authority, for every set of PEM files,     *)
(* requests, keys and lifetimes.                                           *)
(***************************************************************************)
EXTENDS Authority, TLAPS, WellFoundedInduction

-----------------------------------------------------------------------------
\* Induction over the natural numbers, and functions that are defined by recursion.

\* A non-empty set of natural numbers has a least element.
LEMMA LeastElement ==
    ASSUME NEW T, T \subseteq Nat, T # {}
    PROVE  \E n \in T : \A k \in T : n <= k
<1> DEFINE R == {p \in Nat \X Nat : p[1] < p[2]}
<1>1. IsWellFoundedOn(R, Nat)
    BY NatLessThanWellFounded DEF OpToRel
<1>2. \A k, n \in Nat : k < n => <<k, n>> \in R
    OBVIOUS
<1> HIDE DEF R
<1>3. PICK n \in T : \A k \in T : <<k, n>> \notin R
    BY <1>1, WFMin
<1>4. \A k \in T : ~(k < n)
    BY <1>2, <1>3
<1> QED BY <1>4

\* Induction over the natural numbers, for a set of them instead of a predicate.
LEMMA SetInduction ==
    ASSUME NEW S, 0 \in S, \A n \in Nat : n \in S => n + 1 \in S
    PROVE  \A n \in Nat : n \in S
<1> SUFFICES ASSUME Nat \ S # {} PROVE FALSE
    OBVIOUS
<1> DEFINE T == Nat \ S
<1>1. PICK n \in T : \A k \in T : n <= k
    BY LeastElement
<1>2. n - 1 \in Nat /\ n - 1 \in S
    BY <1>1
<1> QED BY <1>1, <1>2

\* f is the function on 0 .. n with first value a and step h.
Recursive(f, n, S, a, h) ==
    /\ f \in [0 .. n -> S]
    /\ f[0] = a
    /\ \A k \in 1 .. n : f[k] = h[<<k, f[k - 1]>>]

\* A function that is defined by a first value and a step exists.
LEMMA Recursion ==
    ASSUME NEW N \in Nat, NEW S, NEW a \in S, NEW h \in [(1 .. N) \X S -> S]
    PROVE  \E f : Recursive(f, N, S, a, h)
<1> DEFINE D == {n \in Nat : n <= N => \E f : Recursive(f, n, S, a, h)}
<1>1. 0 \in D
    <2> DEFINE f == [k \in 0 .. 0 |-> a]
    <2>1. Recursive(f, 0, S, a, h)
        BY DEF Recursive
    <2> QED BY <2>1
<1>2. ASSUME NEW n \in Nat, n \in D
      PROVE  n + 1 \in D
    <2> SUFFICES ASSUME n + 1 <= N PROVE \E f : Recursive(f, n + 1, S, a, h)
        OBVIOUS
    <2>1. PICK f : Recursive(f, n, S, a, h)
        BY <1>2
    <2> DEFINE g == [k \in 0 .. n + 1 |-> IF k = n + 1 THEN h[<<k, f[n]>>] ELSE f[k]]
    <2>2. h[<<n + 1, f[n]>>] \in S
        BY <2>1 DEF Recursive
    <2>3. g \in [0 .. n + 1 -> S]
        BY <2>1, <2>2 DEF Recursive
    <2>4. g[0] = a
        BY <2>1 DEF Recursive
    <2>5. \A k \in 1 .. n + 1 : g[k] = h[<<k, g[k - 1]>>]
        BY <2>1 DEF Recursive
    <2> HIDE DEF g
    <2> QED BY <2>3, <2>4, <2>5 DEF Recursive
<1>3. \A n \in Nat : n \in D
    <2> HIDE DEF D
    <2> QED BY <1>1, <1>2, SetInduction
<1> QED BY <1>3

-----------------------------------------------------------------------------
\* Lemmas.

\* A set of positions that is not empty has a first one, so FirstOf is one of
\* the elements it chooses from, and none comes before it.
LEMMA FirstPosition ==
    ASSUME NEW at \in SUBSET Nat, at # {}
    PROVE  LET i == CHOOSE i \in at : \A j \in at : i <= j
           IN  i \in at /\ \A j \in at : i <= j
<1>1. \E i \in at : \A j \in at : i <= j
    BY LeastElement
<1> QED BY <1>1

\* FirstOf is an element at one of the positions, before all others.
LEMMA FirstOfEffect ==
    ASSUME NEW s, NEW at \in SUBSET Nat, at # {}
    PROVE  \E i \in at : FirstOf(s, at) = s[i] /\ \A j \in at : i <= j
BY FirstPosition DEF FirstOf

\* The certificates of a file are numbered from one.
LEMMA Positions ==
    ASSUME NEW blocks
    PROVE  DOMAIN CertificatesIn(blocks) \subseteq Nat
<1> DEFINE chosen == Selected(blocks, {i \in DOMAIN blocks : IsCertificate(blocks[i])})
<1>1. DOMAIN CertificatesIn(blocks) = 1 .. Len(chosen)
    BY DEF CertificatesIn
<1> QED BY <1>1

\* What ca.init establishes: the signing certificate is among those of the
\* answer, as a link of the chain or as the trust anchor itself.
LEMMA LoadedIsSound ==
    ASSUME NEW blocks, NEW t, Loads(blocks, t)
    PROVE  LET a      == NewCertificateAuthority(blocks)
               anchor == GetTrustAnchor(a.certificates)
           IN  /\ a.certificate.ca
               /\ a.certificate.key = a.privateKey
               /\ Roots(a.certificates) # {}
               /\ CertType(anchor) = "ROOT CA"
               /\ a.certificate \in IntermediatesIn(a.certificates) \cup {anchor}
<1> DEFINE certs == CertificatesIn(blocks)
           first(at) == CHOOSE i \in at : \A j \in at : i <= j
           i     == first(CACertificates(certs))
           r     == first(Roots(certs))
<1> HIDE DEF certs
<1>1. /\ CACertificates(certs) # {}
      /\ CACertificates(certs) \subseteq DOMAIN certs
      /\ Roots(certs) # {}
      /\ Roots(certs) \subseteq CACertificates(certs)
      /\ DOMAIN certs \subseteq Nat
      /\ SigningCertificate(certs).key = SigningKey(blocks)
    BY Positions DEF Loads, certs, CACertificates, Roots, CertType
<1>2. i \in CACertificates(certs) /\ \A j \in CACertificates(certs) : i <= j
    BY <1>1, FirstPosition
<1>3. r \in Roots(certs) /\ \A j \in Roots(certs) : r <= j
    BY <1>1, FirstPosition
<1>4. SigningCertificate(certs) = certs[i] /\ GetTrustAnchor(certs) = certs[r]
    BY DEF SigningCertificate, GetTrustAnchor, FirstOf
<1>5. certs[i].ca /\ CertType(certs[r]) = "ROOT CA"
    BY <1>2, <1>3 DEF CACertificates, Roots
<1>6. CASE CertType(certs[i]) = "ROOT CA"
    <2>1. i \in Roots(certs)
        BY <1>1, <1>2, <1>6 DEF Roots
    <2>2. i = r
        BY <1>1, <1>2, <1>3, <2>1
    <2> QED BY <1>1, <1>4, <1>5, <2>2 DEF NewCertificateAuthority, certs
<1>7. CASE CertType(certs[i]) # "ROOT CA"
    <2>1. IsIntermediate(certs[i])
        BY <1>5, <1>7 DEF IsIntermediate, CertType
    <2>2. certs[i] \in IntermediatesIn(certs)
        BY <1>1, <1>2, <2>1 DEF IntermediatesIn
    <2> QED BY <1>1, <1>4, <1>5, <2>2 DEF NewCertificateAuthority, certs
<1> QED BY <1>6, <1>7

\* x509.Certificate.Verify: what a verified certificate issued is verified in
\* turn, if it is valid itself.
LEMMA IssuedVerifies ==
    ASSUME NEW p, NEW c, NEW anchor, NEW pool, NEW t,
           p \in pool \cup {anchor}, Verifies(p, anchor, pool, t),
           Issued(p, c), Valid(c, t)
    PROVE  Verifies(c, anchor, pool, t)
<1> SUFFICES ASSUME NEW S \in SUBSET (pool \cup {anchor, c}),
                    Valid(anchor, t) => anchor \in S,
                    \A x \in S, q \in pool \cup {c} :
                        Issued(x, q) /\ Valid(q, t) => q \in S
             PROVE  c \in S
    BY DEF Verifies
<1> DEFINE T == S \cap (pool \cup {anchor})
<1>1. /\ T \in SUBSET (pool \cup {anchor, p})
      /\ Valid(anchor, t) => anchor \in T
      /\ \A x \in T, q \in pool \cup {p} :
             Issued(x, q) /\ Valid(q, t) => q \in T
    OBVIOUS
<1>2. p \in T
    BY <1>1 DEF Verifies
<1> QED BY <1>2

-----------------------------------------------------------------------------
\* The invariant.

\* An authority is as LoadedIsSound says for as long as the process has it.
CAInv ==
    ca # None =>
        /\ DOMAIN ca = {"privateKey", "certificate", "certificates"}
        /\ ca.certificate.ca
        /\ ca.certificate.key = ca.privateKey
        /\ Roots(ca.certificates) # {}
        /\ CertType(GetTrustAnchor(ca.certificates)) = "ROOT CA"
        /\ ca.certificate \in IntermediatesIn(ca.certificates)
                                \cup {GetTrustAnchor(ca.certificates)}

\* And so the certificate that signed an answer can be found in it.
ResponsesInv == \A r \in responses :
    /\ DOMAIN r = {"certificate", "chain", "trust_anchor", "by"}
    /\ ~r.certificate.ca
    /\ CertType(r.trust_anchor) = "ROOT CA"
    /\ \A c \in r.chain : CertType(c) = "INTERMEDIATE CA"
    /\ r.by \in r.chain \cup {r.trust_anchor}
    /\ Issued(r.by, r.certificate)

ClockInv == now \in 0 .. MaxTime /\ generated \subseteq GeneratedKeys

IInv == ClockInv /\ CAInv /\ ResponsesInv

\* At first no authority is loaded and nothing signed.
LEMMA InitIInv == Init => IInv
BY BoundsAssumption DEF Init, IInv, ClockInv, CAInv, ResponsesInv

\* Only time and new keys disturb the counters.
LEMMA ClockStep == IInv /\ [Next]_vars => ClockInv'
<1> SUFFICES ASSUME IInv, [Next]_vars
             PROVE  ClockInv'
    OBVIOUS
<1>. USE BoundsAssumption DEF IInv, ClockInv
<1>1. CASE Commands
    BY <1>1 DEF Commands, CreateRoot, CreateIntermediate, NewKeys
<1>2. CASE Agent
    BY <1>2 DEF Agent, Load, LoadFails, CSRSign, CSRSignPanics, End, vars
<1>3. CASE Tick \/ UNCHANGED vars
    BY <1>3 DEF Tick, vars
<1> QED BY <1>1, <1>2, <1>3 DEF Next

\* Only Load sets an authority, and it has loaded one.
LEMMA CAStep == IInv /\ [Next]_vars => CAInv'
<1> SUFFICES ASSUME IInv, [Next]_vars
             PROVE  CAInv'
    OBVIOUS
<1>1. CASE Load
    <2>1. ca' = NewCertificateAuthority(pem) /\ Loads(pem, now)
        BY <1>1 DEF Load
    <2>2. DOMAIN ca' = {"privateKey", "certificate", "certificates"}
        BY <2>1 DEF NewCertificateAuthority
    <2> QED BY <2>1, <2>2, LoadedIsSound DEF CAInv
<1>2. CASE ca' = ca
    BY <1>2 DEF IInv, CAInv
<1>3. CASE ca' = None
    BY <1>3 DEF CAInv
<1> QED BY <1>1, <1>2, <1>3
        DEF Next, Commands, Agent, CreateRoot, CreateIntermediate, LoadFails,
            CSRSign, CSRSignPanics, End, Tick, vars

\* Only CSRSign adds an answer, with the authority that was loaded.
LEMMA ResponsesStep == IInv /\ [Next]_vars => ResponsesInv'
<1> SUFFICES ASSUME IInv, [Next]_vars
             PROVE  ResponsesInv'
    OBVIOUS
<1>1. CASE CSRSign
    <2>1. PICK req \in Requests :
              /\ ca # None
              /\ responses' = responses \cup
                    {[certificate  |-> [subject  |-> req.csr[1].object.subject,
                                        issuer   |-> ca.certificate.subject,
                                        key      |-> req.csr[1].object.key,
                                        signer   |-> ca.privateKey,
                                        ca       |-> FALSE,
                                        notAfter |-> now + LeafTTL(req.ttl)],
                      chain        |-> IntermediatesIn(ca.certificates),
                      trust_anchor |-> GetTrustAnchor(ca.certificates),
                      by           |-> ca.certificate]}
        BY <1>1 DEF CSRSign
    <2>2. \A c \in IntermediatesIn(ca.certificates) : CertType(c) = "INTERMEDIATE CA"
        BY DEF IntermediatesIn, IsIntermediate
    <2> DEFINE new == [certificate  |-> [subject  |-> req.csr[1].object.subject,
                                         issuer   |-> ca.certificate.subject,
                                         key      |-> req.csr[1].object.key,
                                         signer   |-> ca.privateKey,
                                         ca       |-> FALSE,
                                         notAfter |-> now + LeafTTL(req.ttl)],
                       chain        |-> IntermediatesIn(ca.certificates),
                       trust_anchor |-> GetTrustAnchor(ca.certificates),
                       by           |-> ca.certificate]
    <2>3. /\ DOMAIN new = {"certificate", "chain", "trust_anchor", "by"}
          /\ ~new.certificate.ca
          /\ new.chain = IntermediatesIn(ca.certificates)
          /\ new.trust_anchor = GetTrustAnchor(ca.certificates)
          /\ new.by = ca.certificate
          /\ new.certificate.issuer = ca.certificate.subject
          /\ new.certificate.signer = ca.privateKey
        OBVIOUS
    <2> HIDE DEF new
    <2>4. \A r \in responses' : r \in responses \/ r = new
        BY <2>1 DEF new
    <2> QED BY <2>1, <2>2, <2>3, <2>4 DEF IInv, CAInv, ResponsesInv, Issued
<1>2. CASE responses' = responses
    BY <1>2 DEF IInv, ResponsesInv
<1> QED BY <1>1, <1>2
        DEF Next, Commands, Agent, CreateRoot, CreateIntermediate, Load,
            LoadFails, CSRSignPanics, End, Tick, vars

\* The invariant holds at every moment.
THEOREM Invariance == Spec => []IInv
<1>1. IInv /\ [Next]_vars => IInv'
    BY ClockStep, CAStep, ResponsesStep DEF IInv
<1> QED BY InitIInv, <1>1, PTL DEF Spec

-----------------------------------------------------------------------------
\* Results.

\* The agent never signs without a complete authority (authority.go:157-221).
THEOREM TypeCorrect == Spec => []TypeOK
<1>1. IInv => TypeOK
    BY DEF IInv, ClockInv, CAInv, ResponsesInv, TypeOK
<1> QED BY Invariance, <1>1, PTL

\* Whatever PEM file was loaded, a csr_sign answer is enough to verify the
\* certificate in it, as long as the authority itself can be verified
\* (csrsign.go:84-91, authority.go:92-155).
THEOREM AnswersVerify == Spec => []ResponsesVerify
<1>1. IInv => ResponsesVerify
    BY IssuedVerifies DEF IInv, ResponsesInv, ResponsesVerify
<1> QED BY Invariance, <1>1, PTL
-----------------------------------------------------------------------------
\* What Selected selects.

\* One step of the recursion in Selected, from what was selected so far.
SelectStep(s, at, n, x) ==
    IF n = 0 THEN <<>> ELSE IF n \in at THEN Append(x, s[n]) ELSE x

\* The selected elements are those at the positions given, and the first element
\* comes first if it is one of them.
LEMMA SelectedEffect ==
    ASSUME NEW S, NEW s \in Seq(S), NEW at
    PROVE  /\ Selected(s, at) \in Seq(S)
           /\ \A i \in 1 .. Len(Selected(s, at)) :
                 \E j \in 1 .. Len(s) : j \in at /\ Selected(s, at)[i] = s[j]
           /\ \A j \in 1 .. Len(s) : j \in at =>
                 \E i \in 1 .. Len(Selected(s, at)) : Selected(s, at)[i] = s[j]
           /\ 1 \in at /\ s # <<>> => Selected(s, at) # <<>> /\ Selected(s, at)[1] = s[1]
<1> DEFINE Q == Seq(S)
           N == Len(s)
           Step(n, x) == SelectStep(s, at, n, x)
           Eq(f) == f = [n \in 0 .. N |-> Step(n, f[n - 1])]
           F == CHOOSE f : Eq(f)
<1>1. N \in Nat /\ <<>> \in Q
    OBVIOUS
<1>2. \A n \in 1 .. N, x \in Q : Step(n, x) \in Q
    BY DEF SelectStep
<1>3. \A x : Step(0, x) = <<>>
    BY DEF SelectStep
<1>4. Selected(s, at) = F[N]
    BY DEF Selected, SelectStep
<1> HIDE DEF Q, N, Step
<1>5. \E f : Eq(f)
    <2> DEFINE h == [p \in (1 .. N) \X Q |-> Step(p[1], p[2])]
    <2>1. \A n \in 1 .. N, x \in Q : h[<<n, x>>] = Step(n, x)
        OBVIOUS
    <2>2. h \in [(1 .. N) \X Q -> Q]
        BY <1>2
    <2> HIDE DEF h
    <2>3. PICK f : Recursive(f, N, Q, <<>>, h)
        BY <1>1, <2>2, Recursion
    <2>4. \A n \in 0 .. N : f[n] = Step(n, f[n - 1])
        <3> TAKE n \in 0 .. N
        <3>1. CASE n = 0
            BY <1>3, <2>3, <3>1 DEF Recursive
        <3>2. CASE n # 0
            <4>1. n \in 1 .. N /\ n - 1 \in 0 .. N
                BY <1>1, <3>2
            <4> QED BY <2>1, <2>3, <4>1 DEF Recursive
        <3> QED BY <3>1, <3>2
    <2>5. Eq(f)
        BY <2>3, <2>4 DEF Recursive
    <2> QED BY <2>5
<1>6. Eq(F)
    <2> HIDE DEF Eq
    <2> QED BY <1>5
<1> HIDE DEF F
<1>7. \A n \in 0 .. N : F[n] = Step(n, F[n - 1])
    BY <1>6
<1> DEFINE Good(n) ==
        /\ F[n] \in Q
        /\ \A i \in 1 .. Len(F[n]) : \E j \in 1 .. n : j \in at /\ F[n][i] = s[j]
        /\ \A j \in 1 .. n : j \in at => \E i \in 1 .. Len(F[n]) : F[n][i] = s[j]
        /\ 1 \in at /\ n >= 1 => F[n] # <<>> /\ F[n][1] = s[1]
           D == {n \in Nat : n <= N => Good(n)}
<1>8. Good(0)
    <2>1. 0 \in 0 .. N
        BY <1>1
    <2>2. F[0] = Step(0, F[0 - 1])
        BY <1>7, <2>1
    <2>3. F[0] = <<>>
        BY <1>3, <2>2
    <2> QED BY <1>1, <2>3
<1>9. ASSUME NEW n \in Nat, Good(n), n + 1 <= N
      PROVE  Good(n + 1)
    <2>1. F[n + 1] = Step(n + 1, F[n])
        BY <1>1, <1>7, <1>9
    <2>2. F[n] \in Seq(S) /\ s[n + 1] \in S
        BY <1>9 DEF Q, N
    <2> DEFINE x == F[n]
               y == F[n + 1]
    <2>3. CASE n + 1 \in at
        <3>1. y = Append(x, s[n + 1])
            BY <2>1, <2>3 DEF Step, SelectStep
        <3> HIDE DEF x, y
        <3>2. /\ x \in Seq(S) /\ y \in Seq(S) /\ Len(y) = Len(x) + 1
              /\ y[Len(x) + 1] = s[n + 1]
              /\ \A i \in 1 .. Len(x) : y[i] = x[i]
            BY <2>2, <3>1 DEF x
        <3>3. Len(x) \in Nat
            BY <3>2
        <3>4. \A i \in 1 .. Len(y) : \E j \in 1 .. n + 1 : j \in at /\ y[i] = s[j]
            <4> TAKE i \in 1 .. Len(y)
            <4>1. CASE i = Len(x) + 1
                BY <2>3, <3>2, <4>1
            <4>2. CASE i \in 1 .. Len(x)
                <5>1. PICK j \in 1 .. n : j \in at /\ x[i] = s[j]
                    BY <1>9, <4>2 DEF x
                <5> QED BY <3>2, <4>2, <5>1
            <4> QED BY <3>2, <3>3, <4>1, <4>2
        <3>5. \A j \in 1 .. n + 1 : j \in at => \E i \in 1 .. Len(y) : y[i] = s[j]
            <4> SUFFICES ASSUME NEW j \in 1 .. n + 1, j \in at
                         PROVE  \E i \in 1 .. Len(y) : y[i] = s[j]
                OBVIOUS
            <4>1. CASE j = n + 1
                BY <3>2, <3>3, <4>1
            <4>2. CASE j \in 1 .. n
                <5>1. PICK i \in 1 .. Len(x) : x[i] = s[j]
                    BY <1>9, <4>2 DEF x
                <5> QED BY <3>2, <3>3, <5>1
            <4> QED BY <4>1, <4>2
        <3>6. 1 \in at => y # <<>> /\ y[1] = s[1]
            <4>1. CASE n = 0
                <5>1. 0 \in 0 .. N /\ x = F[0]
                    BY <1>1, <4>1 DEF x
                <5>2. F[0] = Step(0, F[0 - 1])
                    BY <1>7, <5>1
                <5>3. x = <<>>
                    BY <1>3, <5>1, <5>2
                <5> QED BY <3>1, <3>2, <4>1, <5>3
            <4>2. CASE n >= 1
                BY <1>9, <3>2, <3>3, <4>2 DEF x
            <4> QED BY <4>1, <4>2
        <3>7. y \in Q
            BY <3>2 DEF Q
        <3> QED BY <3>4, <3>5, <3>6, <3>7 DEF y
    <2>4. CASE n + 1 \notin at
        <3>1. y = x
            BY <2>1, <2>4 DEF Step, SelectStep
        <3>2. \A j \in 1 .. n + 1 : j \in at => j \in 1 .. n
            BY <2>4
        <3>3. 1 \in at => n >= 1
            BY <2>4
        <3> QED BY <1>9, <3>1, <3>2, <3>3
    <2> QED BY <2>3, <2>4
<1>10. Good(N)
    <2> HIDE DEF Good
    <2>1. 0 \in D
        BY <1>8
    <2>2. ASSUME NEW n \in Nat, n \in D
          PROVE  n + 1 \in D
        <3>1. n + 1 <= N => n <= N
            BY <1>1
        <3> QED BY <1>9, <2>2, <3>1
    <2>3. \A n \in Nat : n \in D
        <3> HIDE DEF D
        <3> QED BY <2>1, <2>2, SetInduction
    <2>4. N \in D /\ N <= N
        BY <1>1, <2>3
    <2> QED BY <2>4
<1>11. s # <<>> => N >= 1
    BY DEF N
<1> QED BY <1>4, <1>10, <1>11 DEF Q, N

\* The certificates of a file are the contents of its certificate blocks, and
\* the first block, if it is one, has the first of them.
LEMMA CertificatesOfBlocks ==
    ASSUME NEW S, NEW blocks \in Seq(S)
    PROVE  LET certs == CertificatesIn(blocks) IN
           /\ DOMAIN certs \subseteq Nat
           /\ \A i \in DOMAIN certs : \E j \in DOMAIN blocks :
                 IsCertificate(blocks[j]) /\ certs[i] = blocks[j].object
           /\ \A j \in DOMAIN blocks : IsCertificate(blocks[j]) =>
                 \E i \in DOMAIN certs : certs[i] = blocks[j].object
           /\ blocks # <<>> /\ IsCertificate(blocks[1]) =>
                 1 \in DOMAIN certs /\ certs[1] = blocks[1].object
           /\ \A i \in DOMAIN certs : i >= 1
           /\ \E T : certs \in Seq(T)
<1> DEFINE at     == {i \in DOMAIN blocks : IsCertificate(blocks[i])}
           chosen == Selected(blocks, at)
           certs  == CertificatesIn(blocks)
<1>1. certs = [i \in 1 .. Len(chosen) |-> chosen[i].object]
    BY DEF CertificatesIn
<1>2. DOMAIN blocks = 1 .. Len(blocks) /\ at \subseteq DOMAIN blocks
    OBVIOUS
<1>3. \A j \in DOMAIN blocks : j \in at <=> IsCertificate(blocks[j])
    OBVIOUS
<1> HIDE DEF at
<1>4. /\ chosen \in Seq(S)
      /\ \A i \in 1 .. Len(chosen) :
            \E j \in 1 .. Len(blocks) : j \in at /\ chosen[i] = blocks[j]
      /\ \A j \in 1 .. Len(blocks) : j \in at =>
            \E i \in 1 .. Len(chosen) : chosen[i] = blocks[j]
      /\ 1 \in at /\ blocks # <<>> => chosen # <<>> /\ chosen[1] = blocks[1]
    BY SelectedEffect
<1> HIDE DEF chosen, certs
<1>5. DOMAIN certs = 1 .. Len(chosen) /\ \A i \in 1 .. Len(chosen) : certs[i] = chosen[i].object
    BY <1>1
<1>6. blocks # <<>> => 1 \in DOMAIN blocks
    BY <1>2
<1>7. chosen # <<>> => 1 \in 1 .. Len(chosen)
    BY <1>4
<1>8. DOMAIN certs \subseteq Nat /\ \A i \in DOMAIN certs : i >= 1
    BY <1>5
<1>9. \A i \in DOMAIN certs : \E j \in DOMAIN blocks :
          IsCertificate(blocks[j]) /\ certs[i] = blocks[j].object
    <2> TAKE i \in DOMAIN certs
    <2>1. PICK j \in 1 .. Len(blocks) : j \in at /\ chosen[i] = blocks[j]
        BY <1>4, <1>5
    <2> QED BY <1>2, <1>3, <1>5, <2>1
<1>10. \A j \in DOMAIN blocks : IsCertificate(blocks[j]) =>
          \E i \in DOMAIN certs : certs[i] = blocks[j].object
    <2> SUFFICES ASSUME NEW j \in DOMAIN blocks, IsCertificate(blocks[j])
                 PROVE  \E i \in DOMAIN certs : certs[i] = blocks[j].object
        OBVIOUS
    <2>1. PICK i \in 1 .. Len(chosen) : chosen[i] = blocks[j]
        BY <1>2, <1>3, <1>4
    <2> QED BY <1>5, <2>1
<1>11. blocks # <<>> /\ IsCertificate(blocks[1]) =>
          1 \in DOMAIN certs /\ certs[1] = blocks[1].object
    <2> SUFFICES ASSUME blocks # <<>>, IsCertificate(blocks[1])
                 PROVE  1 \in DOMAIN certs /\ certs[1] = blocks[1].object
        OBVIOUS
    <2>1. 1 \in at
        BY <1>3, <1>6
    <2>2. chosen # <<>> /\ chosen[1] = blocks[1]
        BY <1>4, <2>1
    <2> QED BY <1>5, <1>7, <2>2
<1>12. \E T : certs \in Seq(T)
    <2> DEFINE T == {chosen[i].object : i \in 1 .. Len(chosen)}
    <2>1. certs \in [1 .. Len(chosen) -> T] /\ Len(chosen) \in Nat
        BY <1>1, <1>4
    <2> HIDE DEF T
    <2>2. certs \in Seq(T)
        BY <2>1
    <2> QED BY <2>2
<1> QED BY <1>8, <1>9, <1>10, <1>11, <1>12 DEF certs

-----------------------------------------------------------------------------
\* What the commands write.

\* A file that begins with a certificate that may sign and its key, without
\* another private key, and that has one root.
Written(blocks, c, key, anchor) ==
    /\ blocks # <<>>
    /\ c.ca /\ blocks[1] = CertificateBlock(c)
    /\ blocks[2].object = key /\ PrivateKeysIn(blocks) = {2}
    /\ CertType(anchor) = "ROOT CA"
    /\ \E j \in DOMAIN blocks : blocks[j] = CertificateBlock(anchor)
    /\ \A j \in DOMAIN blocks :
          IsCertificate(blocks[j]) /\ CertType(blocks[j].object) = "ROOT CA"
          => blocks[j].object = anchor

\* Its first certificate signs, and the root is the trust anchor.
LEMMA WrittenFile ==
    ASSUME NEW S, NEW blocks \in Seq(S), NEW c, NEW key, NEW anchor,
           Written(blocks, c, key, anchor)
    PROVE  LET certs == CertificatesIn(blocks) IN
           /\ SigningKey(blocks) = key
           /\ CACertificates(certs) # {}
           /\ SigningCertificate(certs) = c
           /\ Roots(certs) # {}
           /\ GetTrustAnchor(certs) = anchor
<1> DEFINE certs == CertificatesIn(blocks)
<1>1. /\ \A a : CertificateBlock(a).object = a
      /\ \A a : IsCertificate(CertificateBlock(a))
    BY DEF CertificateBlock, IsCertificate
<1>2. blocks # <<>> /\ blocks[1].object = c /\ IsCertificate(blocks[1])
    BY <1>1 DEF Written
<1>3. /\ DOMAIN certs \subseteq Nat
      /\ \A i \in DOMAIN certs : \E j \in DOMAIN blocks :
            IsCertificate(blocks[j]) /\ certs[i] = blocks[j].object
      /\ \A j \in DOMAIN blocks : IsCertificate(blocks[j]) =>
            \E i \in DOMAIN certs : certs[i] = blocks[j].object
      /\ 1 \in DOMAIN certs /\ certs[1] = c
      /\ \A i \in DOMAIN certs : i >= 1
    BY <1>2, CertificatesOfBlocks
<1> HIDE DEF certs
<1>4. SigningKey(blocks) = key
    <2>1. {2} \in SUBSET Nat /\ {2} # {}
        OBVIOUS
    <2>2. PICK i \in {2} : FirstOf(blocks, {2}) = blocks[i]
        BY <2>1, FirstOfEffect
    <2>3. FirstOf(blocks, {2}) = blocks[2]
        BY <2>2
    <2> QED BY <2>3 DEF SigningKey, Written
<1>5. CACertificates(certs) # {} /\ SigningCertificate(certs) = c
    <2>1. /\ CACertificates(certs) \subseteq Nat
          /\ 1 \in CACertificates(certs)
          /\ \A i \in CACertificates(certs) : i >= 1
        BY <1>3 DEF CACertificates, Written
    <2>2. PICK i \in CACertificates(certs) :
              /\ SigningCertificate(certs) = certs[i]
              /\ \A j \in CACertificates(certs) : i <= j
        BY <2>1, FirstOfEffect DEF SigningCertificate
    <2>3. i \in Nat /\ i <= 1 /\ i >= 1
        BY <2>1, <2>2
    <2>4. i = 1
        BY <2>3
    <2> QED BY <1>3, <2>1, <2>2, <2>4
<1>6. Roots(certs) # {} /\ GetTrustAnchor(certs) = anchor
    <2>1. PICK j \in DOMAIN blocks : blocks[j] = CertificateBlock(anchor)
        BY DEF Written
    <2>2. IsCertificate(blocks[j]) /\ blocks[j].object = anchor
        BY <1>1, <2>1
    <2>3. PICK i \in DOMAIN certs : certs[i] = anchor
        BY <1>3, <2>2
    <2>4. i \in Roots(certs) /\ Roots(certs) \subseteq Nat
        BY <1>3, <2>3 DEF Roots, Written
    <2>5. \A k \in Roots(certs) : certs[k] = anchor
        BY <1>3 DEF Roots, Written
    <2>6. PICK k \in Roots(certs) : GetTrustAnchor(certs) = certs[k]
        BY <2>4, FirstOfEffect DEF GetTrustAnchor
    <2> QED BY <2>4, <2>5, <2>6
<1> QED BY <1>4, <1>5, <1>6 DEF certs

\* x509.Certificate.Verify: what could be verified can be at any time all of
\* the certificates are valid, and with more of them.
LEMMA VerifiesWithMore ==
    ASSUME NEW c, NEW anchor, NEW pool, NEW more, NEW t0, NEW t,
           Verifies(c, anchor, pool, t0), pool \subseteq more, c \in more \cup {anchor},
           \A q \in more \cup {anchor} : Valid(q, t)
    PROVE  Verifies(c, anchor, more, t)
<1> SUFFICES ASSUME NEW S \in SUBSET (more \cup {anchor, c}),
                    Valid(anchor, t) => anchor \in S,
                    \A x \in S, q \in more \cup {c} :
                        Issued(x, q) /\ Valid(q, t) => q \in S
             PROVE  c \in S
    BY DEF Verifies
<1> DEFINE T == S \cap (pool \cup {anchor, c})
<1>1. /\ T \in SUBSET (pool \cup {anchor, c})
      /\ Valid(anchor, t0) => anchor \in T
      /\ \A x \in T, q \in pool \cup {c} :
             Issued(x, q) /\ Valid(q, t0) => q \in T
    OBVIOUS
<1>2. c \in T
    BY <1>1 DEF Verifies
<1> QED BY <1>2

\* What a file has that CreateIntermediate writes, at which position.
LEMMA Positioned ==
    ASSUME NEW S, NEW u \in S, NEW v \in S, NEW w \in S, NEW m \in Seq(S),
           NEW n, n = <<u, v>> \o m \o <<w>>
    PROVE  /\ n \in Seq(S) /\ n # <<>> /\ DOMAIN n = 1 .. Len(m) + 3
           /\ n[1] = u /\ n[2] = v /\ n[Len(m) + 3] = w
           /\ \A i \in 1 .. Len(m) : i + 2 \in DOMAIN n /\ n[i + 2] = m[i]
           /\ \A j \in DOMAIN n \ {1, 2, Len(m) + 3} :
                 j - 2 \in 1 .. Len(m) /\ n[j] = m[j - 2]
<1> DEFINE L == Len(m)
<1>1. L \in Nat
    OBVIOUS
<1>2. PICK h : h = <<u, v>> \o m
    OBVIOUS
<1>3. /\ h \in Seq(S) /\ Len(h) = L + 2 /\ h[1] = u /\ h[2] = v
      /\ \A i \in 1 .. L : h[i + 2] = m[i]
    BY <1>2
<1>4. /\ n \in Seq(S) /\ Len(n) = L + 3 /\ n[L + 3] = w
      /\ \A i \in 1 .. L + 2 : n[i] = h[i]
    BY <1>2, <1>3
<1>5. DOMAIN n = 1 .. L + 3
    BY <1>4
<1>6. 1 \in 1 .. L + 2 /\ 2 \in 1 .. L + 2 /\ n # <<>>
    BY <1>1, <1>4
<1>7. \A i \in 1 .. L : i + 2 \in DOMAIN n /\ n[i + 2] = m[i]
    BY <1>1, <1>3, <1>4, <1>5
<1>8. ASSUME NEW j \in DOMAIN n, j \notin {1, 2, L + 3}
      PROVE  j - 2 \in 1 .. L /\ n[j] = m[j - 2]
    <2>1. j - 2 \in 1 .. L /\ (j - 2) + 2 = j
        BY <1>1, <1>5, <1>8
    <2> QED BY <1>7, <2>1
<1> QED BY <1>3, <1>4, <1>5, <1>6, <1>7, <1>8

\* GetIntermediates has the elements of IntermediatesIn.
LEMMA IntermediatesSelected ==
    ASSUME NEW S, NEW certs \in Seq(S)
    PROVE  /\ GetIntermediates(certs) \in Seq(S)
           /\ \A i \in 1 .. Len(GetIntermediates(certs)) :
                 GetIntermediates(certs)[i] \in IntermediatesIn(certs)
           /\ \A c \in IntermediatesIn(certs) :
                 \E i \in 1 .. Len(GetIntermediates(certs)) :
                    GetIntermediates(certs)[i] = c
<1> DEFINE at    == {i \in DOMAIN certs : IsIntermediate(certs[i])}
           chain == GetIntermediates(certs)
<1>1. DOMAIN certs = 1 .. Len(certs)
    OBVIOUS
<1>2. \A c : c \in IntermediatesIn(certs) <=> \E j \in at : c = certs[j]
    BY DEF IntermediatesIn
<1>3. \A j \in at : j \in 1 .. Len(certs)
    BY <1>1
<1>4. chain = Selected(certs, at)
    BY DEF GetIntermediates
<1> HIDE DEF at
<1>5. LET chosen == Selected(certs, at) IN
      /\ chosen \in Seq(S)
      /\ \A i \in 1 .. Len(chosen) :
            \E j \in 1 .. Len(certs) : j \in at /\ chosen[i] = certs[j]
      /\ \A j \in 1 .. Len(certs) : j \in at =>
            \E i \in 1 .. Len(chosen) : chosen[i] = certs[j]
    BY SelectedEffect
<1> HIDE DEF chain
<1>6. /\ chain \in Seq(S)
      /\ \A i \in 1 .. Len(chain) :
            \E j \in 1 .. Len(certs) : j \in at /\ chain[i] = certs[j]
      /\ \A j \in 1 .. Len(certs) : j \in at =>
            \E i \in 1 .. Len(chain) : chain[i] = certs[j]
    BY <1>5, <1>4
<1>7. ASSUME NEW i \in 1 .. Len(chain)
      PROVE  chain[i] \in IntermediatesIn(certs)
    <2>1. PICK j \in 1 .. Len(certs) : j \in at /\ chain[i] = certs[j]
        BY <1>6
    <2> QED BY <1>2, <2>1
<1>8. ASSUME NEW c \in IntermediatesIn(certs)
      PROVE  \E i \in 1 .. Len(chain) : chain[i] = c
    <2>1. PICK j \in at : c = certs[j]
        BY <1>2
    <2>2. PICK i \in 1 .. Len(chain) : chain[i] = certs[j]
        BY <1>3, <1>6, <2>1
    <2> QED BY <2>1, <2>2
<1> QED BY <1>6, <1>7, <1>8 DEF chain

-----------------------------------------------------------------------------
\* What `camblet ca create-intermediate' prints.

IntermediateFile(certs, cert, key) ==
    <<CertificateBlock(cert), PrivateKeyBlock(key)>> \o ChainBlocks(certs)
    \o <<CertificateBlock(GetTrustAnchor(certs))>>

Links(certs, cert) == IntermediatesIn(certs) \cup {cert, GetTrustAnchor(certs)}

\* Its blocks are the new certificate and its key, and the chain up to the anchor.
LEMMA IntermediateBlocks ==
    ASSUME NEW T, NEW certs \in Seq(T), NEW cert, NEW key
    PROVE  LET new == IntermediateFile(certs, cert, key) IN
           /\ \E S : new \in Seq(S)
           /\ new # <<>> /\ 1 \in DOMAIN new /\ new[1] = CertificateBlock(cert)
           /\ 2 \in DOMAIN new /\ new[2] = PrivateKeyBlock(key)
           /\ \A j \in DOMAIN new \ {2} :
                 \E x \in Links(certs, cert) : new[j] = CertificateBlock(x)
           /\ \A x \in Links(certs, cert) :
                 \E j \in DOMAIN new : new[j] = CertificateBlock(x)
<1> DEFINE new    == IntermediateFile(certs, cert, key)
           chain  == GetIntermediates(certs)
           L      == Len(chain)
           m      == ChainBlocks(certs)
           anchor == GetTrustAnchor(certs)
           links  == Links(certs, cert)
           S      == {CertificateBlock(x) : x \in links} \cup {PrivateKeyBlock(key)}
<1>1. /\ L \in Nat
      /\ \A i \in 1 .. L : chain[i] \in IntermediatesIn(certs)
      /\ \A c \in IntermediatesIn(certs) : \E i \in 1 .. L : chain[i] = c
    BY IntermediatesSelected
<1>2. m = [i \in 1 .. L |-> CertificateBlock(chain[i])]
    BY DEF ChainBlocks
<1>3. new = <<CertificateBlock(cert), PrivateKeyBlock(key)>> \o m
                \o <<CertificateBlock(anchor)>>
    BY DEF IntermediateFile
<1>4. \A x : x \in links <=> x \in IntermediatesIn(certs) \/ x = cert \/ x = anchor
    BY DEF Links
<1> HIDE DEF new, chain, L, m, anchor, links
<1>5. CertificateBlock(cert) \in S /\ PrivateKeyBlock(key) \in S /\ CertificateBlock(anchor) \in S
    BY <1>4
<1>6. \A i \in 1 .. L : m[i] = CertificateBlock(chain[i])
    BY <1>2
<1>7. m \in Seq(S) /\ Len(m) = L
    <2>1. \A i \in 1 .. L : CertificateBlock(chain[i]) \in S
        BY <1>1, <1>4
    <2> HIDE DEF S
    <2>2. m \in [1 .. L -> S]
        BY <1>2, <2>1
    <2> QED BY <1>1, <2>2
<1> HIDE DEF S
<1>8. /\ new \in Seq(S) /\ new # <<>> /\ DOMAIN new = 1 .. Len(m) + 3
      /\ new[1] = CertificateBlock(cert) /\ new[2] = PrivateKeyBlock(key)
      /\ new[Len(m) + 3] = CertificateBlock(anchor)
      /\ \A i \in 1 .. Len(m) : i + 2 \in DOMAIN new /\ new[i + 2] = m[i]
      /\ \A j \in DOMAIN new \ {1, 2, Len(m) + 3} :
            j - 2 \in 1 .. Len(m) /\ new[j] = m[j - 2]
    BY <1>3, <1>5, <1>7, Positioned
<1>9. 1 \in DOMAIN new /\ 2 \in DOMAIN new /\ L + 3 \in DOMAIN new
    BY <1>1, <1>7, <1>8
<1>10. ASSUME NEW j \in DOMAIN new, j # 2
       PROVE  \E x \in links : new[j] = CertificateBlock(x)
    <2>1. CASE j = 1
        BY <1>4, <1>8, <2>1
    <2>2. CASE j = L + 3
        BY <1>4, <1>7, <1>8, <2>2
    <2>3. CASE j # 1 /\ j # L + 3
        <3>1. j - 2 \in 1 .. L /\ new[j] = m[j - 2]
            BY <1>7, <1>8, <1>10, <2>3
        <3>2. new[j] = CertificateBlock(chain[j - 2]) /\ chain[j - 2] \in links
            BY <1>1, <1>4, <1>6, <3>1
        <3> QED BY <3>2
    <2> QED BY <2>1, <2>2, <2>3
<1>11. ASSUME NEW x \in links
       PROVE  \E j \in DOMAIN new : new[j] = CertificateBlock(x)
    <2>1. CASE x = cert
        BY <1>8, <1>9, <2>1
    <2>2. CASE x = anchor
        BY <1>7, <1>8, <1>9, <2>2
    <2>3. CASE x \in IntermediatesIn(certs)
        <3>1. PICK i \in 1 .. L : chain[i] = x
            BY <1>1, <2>3
        <3>2. i + 2 \in DOMAIN new /\ new[i + 2] = m[i] /\ m[i] = CertificateBlock(x)
            BY <1>6, <1>7, <1>8, <3>1
        <3> QED BY <3>2
    <2> QED BY <1>4, <2>1, <2>2, <2>3
<1> QED BY <1>8, <1>9, <1>10, <1>11 DEF new, links

\* A file that loads at any time at which all of its certificates are valid, and
\* whose trust anchor is the one given.
Loadable(blocks, anchor) ==
    LET certs == CertificatesIn(blocks) IN
    /\ ParsePEMs(blocks)
    /\ PrivateKeysIn(blocks) # {}
    /\ CACertificates(certs) # {}
    /\ SigningCertificate(certs).key = SigningKey(blocks)
    /\ Roots(certs) # {}
    /\ GetTrustAnchor(certs) = anchor
    /\ \A t \in Nat : (\A i \in DOMAIN certs : Valid(certs[i], t)) =>
          Verifies(SigningCertificate(certs), anchor, IntermediatesIn(certs), t)

\* A certificate for a new key, issued by the signing certificate of a file.
Successor(blocks, cert, key) ==
    /\ cert.ca /\ cert.key = key /\ cert.signer # key
    /\ cert # None /\ key # None /\ Algorithm[key] = "RSA"
    /\ Issued(SigningCertificate(CertificatesIn(blocks)), cert)

\* The blocks that the commands write can be parsed.
LEMMA BlocksParse ==
    /\ \A x : CertificateBlock(x).object = x /\ IsCertificate(CertificateBlock(x))
              /\ ~IsPrivateKey(CertificateBlock(x))
    /\ \A x : PrivateKeyBlock(x).object = x /\ IsPrivateKey(PrivateKeyBlock(x))
              /\ ~IsCertificate(PrivateKeyBlock(x))
    /\ \A x : ParseX509Certificate(x) => ParsePEM(CertificateBlock(x))
    /\ \A x : x # None /\ Algorithm[x] = "RSA" => ParsePEM(PrivateKeyBlock(x))
BY DEF CertificateBlock, PrivateKeyBlock, IsCertificate, IsPrivateKey, ParsePEM,
       ParseX509PrivateKey

\* The certificates of a file that can be parsed can be.
LEMMA CertificatesParse ==
    ASSUME NEW S, NEW blocks \in Seq(S), ParsePEMs(blocks)
    PROVE  LET certs == CertificatesIn(blocks)
           IN  \A i \in DOMAIN certs : ParseX509Certificate(certs[i])
<1> DEFINE certs == CertificatesIn(blocks)
<1>1. \A i \in DOMAIN certs : \E j \in DOMAIN blocks :
          IsCertificate(blocks[j]) /\ certs[i] = blocks[j].object
    BY CertificatesOfBlocks
<1>2. \A j \in DOMAIN blocks : IsCertificate(blocks[j]) =>
          ParseX509Certificate(blocks[j].object)
    BY DEF ParsePEMs, ParsePEM, IsCertificate, IsPrivateKey
<1> HIDE DEF certs
<1> QED BY <1>1, <1>2 DEF certs

\* The trust anchor of a file that loads is one of its roots.
LEMMA AnchorIsRoot ==
    ASSUME NEW blocks, NEW t, Loads(blocks, t)
    PROVE  LET certs == CertificatesIn(blocks)
           IN  \E i \in DOMAIN certs :
                  GetTrustAnchor(certs) = certs[i] /\ CertType(certs[i]) = "ROOT CA"
<1> DEFINE certs == CertificatesIn(blocks)
<1>1. Roots(certs) # {} /\ Roots(certs) \in SUBSET Nat
    BY Positions DEF Loads, Roots
<1>2. PICK i \in Roots(certs) : GetTrustAnchor(certs) = certs[i]
    BY <1>1, FirstOfEffect DEF GetTrustAnchor
<1> QED BY <1>2 DEF Roots

\* What `camblet ca create-intermediate' prints loads, with the trust anchor of
\* the authority it was made with.
LEMMA IntermediateLoads ==
    ASSUME NEW S, NEW blocks \in Seq(S), NEW t0, Loads(blocks, t0),
           NEW cert, NEW key, Successor(blocks, cert, key)
    PROVE  LET certs == CertificatesIn(blocks)
           IN  Loadable(IntermediateFile(certs, cert, key), GetTrustAnchor(certs))
<1> DEFINE old    == CertificatesIn(blocks)
           signer == SigningCertificate(old)
           anchor == GetTrustAnchor(old)
           new    == IntermediateFile(old, cert, key)
           certs  == CertificatesIn(new)
           links  == Links(old, cert)
<1>1. \E T : old \in Seq(T)
    BY CertificatesOfBlocks
<1>2. /\ \E T : new \in Seq(T)
      /\ new # <<>> /\ 1 \in DOMAIN new /\ new[1] = CertificateBlock(cert)
      /\ 2 \in DOMAIN new /\ new[2] = PrivateKeyBlock(key)
      /\ \A j \in DOMAIN new \ {2} : \E x \in links : new[j] = CertificateBlock(x)
      /\ \A x \in links : \E j \in DOMAIN new : new[j] = CertificateBlock(x)
    BY <1>1, IntermediateBlocks
<1>3. /\ signer \in IntermediatesIn(old) \cup {anchor}
      /\ CertType(anchor) = "ROOT CA"
    BY LoadedIsSound DEF NewCertificateAuthority
<1>4. \A x : x \in links <=> x \in IntermediatesIn(old) \/ x = cert \/ x = anchor
    BY DEF Links
<1>5. /\ Verifies(signer, anchor, IntermediatesIn(old), t0)
      /\ ParsePEMs(blocks)
    BY DEF Loads
<1>6. \A i \in DOMAIN old : ParseX509Certificate(old[i])
    BY <1>5, CertificatesParse
<1>7. \A x \in IntermediatesIn(old) : CertType(x) = "INTERMEDIATE CA" /\ ParseX509Certificate(x)
    BY <1>6 DEF IntermediatesIn, IsIntermediate
<1>8. ParseX509Certificate(anchor)
    BY <1>6, AnchorIsRoot
<1>9. /\ CertType(cert) = "INTERMEDIATE CA" /\ ParseX509Certificate(cert)
      /\ Issued(signer, cert) /\ cert.ca /\ cert.key = key
      /\ ParsePEM(PrivateKeyBlock(key))
    BY BlocksParse DEF Successor, CertType, Issued, ParseX509Certificate, parseX509PublicKey
<1> HIDE DEF new, old, signer, anchor, links, certs
<1>10. ParsePEMs(new)
    <2> SUFFICES ASSUME NEW j \in DOMAIN new
                 PROVE  ParsePEM(new[j])
        BY DEF ParsePEMs
    <2>1. CASE j = 2
        BY <1>2, <1>9, <2>1
    <2>2. CASE j # 2
        <3>1. PICK x \in links : new[j] = CertificateBlock(x)
            BY <1>2, <2>2
        <3>2. ParseX509Certificate(x)
            BY <1>4, <1>7, <1>8, <1>9
        <3> QED BY <3>1, <3>2, BlocksParse
    <2> QED BY <2>1, <2>2
<1>11. PrivateKeysIn(new) = {2}
    <2>1. \A j \in DOMAIN new \ {2} : ~IsPrivateKey(new[j])
        BY <1>2, BlocksParse
    <2>2. IsPrivateKey(new[2])
        BY <1>2, BlocksParse
    <2> QED BY <1>2, <2>1, <2>2 DEF PrivateKeysIn
<1>12. Written(new, cert, key, anchor)
    <2>1. anchor \in links
        BY <1>4
    <2>2. ASSUME NEW j \in DOMAIN new, IsCertificate(new[j]),
                 CertType(new[j].object) = "ROOT CA"
          PROVE  new[j].object = anchor
        <3>1. j # 2
            BY <1>2, <2>2, BlocksParse
        <3>2. PICK x \in links : new[j] = CertificateBlock(x)
            BY <1>2, <3>1
        <3>3. new[j].object = x
            BY <3>2, BlocksParse
        <3>4. CertType(x) = "ROOT CA"
            BY <2>2, <3>3
        <3> QED BY <1>4, <1>7, <1>9, <3>3, <3>4
    <2>3. new[2].object = key
        BY <1>2, BlocksParse
    <2> QED BY <1>2, <1>3, <1>9, <1>11, <2>1, <2>2, <2>3 DEF Written
<1>13. /\ SigningKey(new) = key
       /\ CACertificates(certs) # {}
       /\ SigningCertificate(certs) = cert
       /\ Roots(certs) # {}
       /\ GetTrustAnchor(certs) = anchor
    BY <1>2, <1>12, WrittenFile DEF certs
<1>14. ASSUME NEW x \in links
       PROVE  \E i \in DOMAIN certs : certs[i] = x
    <2>1. PICK j \in DOMAIN new : new[j] = CertificateBlock(x)
        BY <1>2
    <2>2. IsCertificate(new[j]) /\ new[j].object = x
        BY <2>1, BlocksParse
    <2>3. \A k \in DOMAIN new : IsCertificate(new[k]) =>
              \E i \in DOMAIN certs : certs[i] = new[k].object
        BY <1>2, CertificatesOfBlocks DEF certs
    <2> QED BY <2>2, <2>3
<1>15. ASSUME NEW t \in Nat, \A i \in DOMAIN certs : Valid(certs[i], t)
       PROVE  Verifies(cert, anchor, IntermediatesIn(certs), t)
    <2> DEFINE more == IntermediatesIn(certs)
    <2>1. \A x \in links : Valid(x, t)
        BY <1>14, <1>15
    <2>2. \A x \in more : Valid(x, t)
        BY <1>15 DEF IntermediatesIn
    <2>3. IntermediatesIn(old) \subseteq more
        <3> SUFFICES ASSUME NEW x \in IntermediatesIn(old)
                     PROVE  x \in more
            OBVIOUS
        <3>1. PICK i \in DOMAIN certs : certs[i] = x
            BY <1>4, <1>14
        <3> QED BY <1>7, <3>1 DEF IntermediatesIn, IsIntermediate
    <2> HIDE DEF more
    <2>4. Valid(anchor, t) /\ Valid(cert, t)
        BY <1>4, <2>1
    <2>5. Verifies(signer, anchor, more, t)
        BY <1>3, <1>5, <2>2, <2>3, <2>4, VerifiesWithMore
    <2> QED BY <1>3, <1>9, <2>3, <2>4, <2>5, IssuedVerifies DEF more
<1> QED BY <1>9, <1>10, <1>11, <1>13, <1>15 DEF Loadable, certs, new, old, anchor

\* What `camblet ca create-root' prints loads, with the new certificate as anchor.
LEMMA RootLoads ==
    ASSUME NEW cert, NEW key, cert.ca = TRUE, cert.key = key, Issued(cert, cert),
           cert # None, key # None, Algorithm[key] = "RSA"
    PROVE  Loadable(<<CertificateBlock(cert), PrivateKeyBlock(key)>>, cert)
<1> DEFINE new   == <<CertificateBlock(cert), PrivateKeyBlock(key)>>
           certs == CertificatesIn(new)
           S     == {CertificateBlock(cert), PrivateKeyBlock(key)}
<1>1. new \in Seq(S) /\ DOMAIN new = {1, 2} /\ new # <<>>
    OBVIOUS
<1>2. new[1] = CertificateBlock(cert) /\ new[2] = PrivateKeyBlock(key)
    OBVIOUS
<1>3. CertType(cert) = "ROOT CA" /\ ParseX509Certificate(cert)
    BY DEF CertType, ParseX509Certificate, parseX509PublicKey
<1>4. /\ new[1].object = cert /\ IsCertificate(new[1]) /\ ~IsPrivateKey(new[1])
      /\ new[2].object = key /\ IsPrivateKey(new[2]) /\ ~IsCertificate(new[2])
      /\ ParsePEM(new[1]) /\ ParsePEM(new[2])
    BY <1>2, <1>3, BlocksParse
<1> HIDE DEF new, S, certs
<1>5. PrivateKeysIn(new) = {2} /\ ParsePEMs(new)
    BY <1>1, <1>4 DEF PrivateKeysIn, ParsePEMs
<1>6. Written(new, cert, key, cert)
    BY <1>1, <1>2, <1>3, <1>4, <1>5 DEF Written
<1>7. /\ SigningKey(new) = key
      /\ CACertificates(certs) # {}
      /\ SigningCertificate(certs) = cert
      /\ Roots(certs) # {}
      /\ GetTrustAnchor(certs) = cert
    BY <1>1, <1>6, WrittenFile DEF certs
<1>8. 1 \in DOMAIN certs /\ certs[1] = cert
    BY <1>1, <1>4, CertificatesOfBlocks DEF certs
<1>9. \A t \in Nat : (\A i \in DOMAIN certs : Valid(certs[i], t)) =>
          Verifies(cert, cert, IntermediatesIn(certs), t)
    BY <1>8 DEF Verifies
<1> QED BY <1>5, <1>7, <1>9 DEF Loadable, certs, new

-----------------------------------------------------------------------------
\* The PEM file as a part of the state.

\* A sequence of blocks that hold what they say, and no key yet to be generated.
BlocksInv ==
    /\ \E S : pem \in Seq(S)
    /\ \A i \in DOMAIN pem :
          /\ IsCertificate(pem[i]) => pem[i].object \in Certificates \cup {None}
          /\ IsPrivateKey(pem[i]) => pem[i].object \in (Keys \ NewKeys) \cup {None}

\* What the commands have written remains good, whatever else happens.
WrittenInv == origin # None => Loadable(pem, origin)

FileInv == ClockInv /\ BlocksInv /\ WrittenInv

\* At first the file is one that was assembled.
LEMMA InitFileInv == Init => FileInv
<1> SUFFICES ASSUME Init
             PROVE  FileInv
    OBVIOUS
<1>1. BlocksInv
    BY AssembledAssumption, KeysAssumption DEF Init, BlocksInv, NewKeys
<1> QED BY <1>1, InitIInv DEF Init, FileInv, WrittenInv, IInv

\* The certificate of an authority, and what there is to say of its new key.
NewAuthority(cert, subject, key, parent, signer) ==
    /\ cert \in Certificates /\ cert # None /\ key \in Keys /\ key # None
    /\ Algorithm[key] = "RSA"
    /\ cert.ca = TRUE /\ cert.key = key /\ cert.signer = signer
    /\ cert.subject = subject /\ cert.issuer = parent

\* That is what CACertificate makes.
LEMMA NewCertificate ==
    ASSUME ClockInv, NEW subject \in Subjects, NEW ttl \in TTLs, NEW key \in NewKeys,
           NEW parent \in Subjects, NEW signer \in Keys,
           NEW cert, cert = CACertificate(subject, ttl, key, parent, signer)
    PROVE  NewAuthority(cert, subject, key, parent, signer)
<1>1. now \in Int /\ key \in GeneratedKeys /\ key \in Keys
    BY BoundsAssumption, KeysAssumption DEF ClockInv, NewKeys
<1>2. now + (IF ttl = 0 THEN DefaultCACertificateTTL ELSE ttl) \in Int
    BY <1>1, TTLsAssumption
<1>3. PICK n \in Int : n = now + (IF ttl = 0 THEN DefaultCACertificateTTL ELSE ttl)
    BY <1>2
<1>4. cert = [subject |-> subject, issuer |-> parent, key |-> key,
              signer |-> signer, ca |-> TRUE, notAfter |-> n]
    BY <1>3 DEF CACertificate
<1>6. cert \in Certificates
    BY <1>1, <1>4 DEF Certificates
<1>7. /\ cert.ca = TRUE /\ cert.key = key /\ cert.signer = signer
      /\ cert.subject = subject /\ cert.issuer = parent
    BY <1>4
<1>8. cert # None /\ key # None /\ Algorithm[key] = "RSA"
    BY <1>1, <1>6, KeysAssumption, NoneAssumption
<1> QED BY <1>1, <1>6, <1>7, <1>8 DEF NewAuthority

\* create-root replaces the file.
LEMMA RootStep == FileInv /\ CreateRoot => BlocksInv' /\ WrittenInv'
<1> SUFFICES ASSUME FileInv, CreateRoot
             PROVE  BlocksInv' /\ WrittenInv'
    OBVIOUS
<1>1. PICK subject \in Subjects, ttl \in TTLs, key \in NewKeys :
          LET cert == CACertificate(subject, ttl, key, subject, key) IN
          /\ pem' = <<CertificateBlock(cert), PrivateKeyBlock(key)>>
          /\ origin' = cert
          /\ generated' = generated \cup {key}
    BY DEF CreateRoot
<1>2. PICK cert : cert = CACertificate(subject, ttl, key, subject, key)
    OBVIOUS
<1>3. key \in Keys
    BY KeysAssumption DEF NewKeys
<1>4. /\ cert \in Certificates /\ cert # None /\ key # None /\ Algorithm[key] = "RSA"
      /\ cert.ca = TRUE /\ cert.key = key /\ Issued(cert, cert)
    <2>1. ClockInv
        BY DEF FileInv
    <2>2. NewAuthority(cert, subject, key, subject, key)
        BY <1>2, <1>3, <2>1, NewCertificate
    <2> QED BY <2>2 DEF NewAuthority, Issued
<1>5. pem' = <<CertificateBlock(cert), PrivateKeyBlock(key)>> /\ origin' = cert
    BY <1>1, <1>2
<1>6. WrittenInv'
    BY <1>4, <1>5, RootLoads DEF WrittenInv
<1>7. key \in (Keys \ NewKeys')
    BY <1>1, <1>3 DEF NewKeys
<1>8. BlocksInv'
    <2>1. pem' \in Seq({CertificateBlock(cert), PrivateKeyBlock(key)})
          /\ DOMAIN pem' = {1, 2}
        BY <1>5
    <2>2. pem'[1] = CertificateBlock(cert) /\ pem'[2] = PrivateKeyBlock(key)
        BY <1>5
    <2> QED BY <1>4, <1>7, <2>1, <2>2, BlocksParse DEF BlocksInv
<1> QED BY <1>6, <1>8

\* create-intermediate replaces it by one made with what it was.
LEMMA IntermediateStep == FileInv /\ CreateIntermediate => BlocksInv' /\ WrittenInv'
<1> SUFFICES ASSUME FileInv, CreateIntermediate
             PROVE  BlocksInv' /\ WrittenInv'
    OBVIOUS
<1> DEFINE certs  == CertificatesIn(pem)
           anchor == GetTrustAnchor(certs)
           parent == SigningCertificate(certs)
           signer == SigningKey(pem)
<1>1. PICK subject \in Subjects, ttl \in TTLs, key \in NewKeys :
          LET from == NewCertificateAuthority(pem)
              cert == CACertificate(subject, ttl, key, from.certificate.subject,
                                    from.privateKey)
          IN
          /\ Loads(pem, now)
          /\ pem' = <<CertificateBlock(cert), PrivateKeyBlock(key)>>
                    \o ChainBlocks(from.certificates)
                    \o <<CertificateBlock(GetTrustAnchor(from.certificates))>>
          /\ origin' = GetTrustAnchor(from.certificates)
          /\ generated' = generated \cup {key}
    BY DEF CreateIntermediate
<1>2. PICK cert : cert = CACertificate(subject, ttl, key, parent.subject, signer)
    OBVIOUS
<1>3. /\ Loads(pem, now)
      /\ pem' = IntermediateFile(certs, cert, key)
      /\ origin' = anchor
      /\ generated' = generated \cup {key}
    BY <1>1, <1>2 DEF NewCertificateAuthority, IntermediateFile
<1>4. PICK S : pem \in Seq(S)
    BY DEF FileInv, BlocksInv
<1>5. \A i \in DOMAIN certs : certs[i] \in Certificates
    <2>1. \A i \in DOMAIN certs : certs[i] # None
        BY <1>3, <1>4, CertificatesParse DEF Loads, ParseX509Certificate
    <2>2. \A i \in DOMAIN certs : \E j \in DOMAIN pem :
              IsCertificate(pem[j]) /\ certs[i] = pem[j].object
        BY <1>4, CertificatesOfBlocks
    <2> HIDE DEF certs
    <2> QED BY <2>1, <2>2 DEF FileInv, BlocksInv
<1>6. /\ parent \in IntermediatesIn(certs) \cup {anchor}
      /\ parent.key = signer
      /\ IntermediatesIn(certs) \cup {anchor} \subseteq Certificates
    <2>1. anchor \in Certificates
        BY <1>3, <1>5, AnchorIsRoot
    <2>2. IntermediatesIn(certs) \subseteq Certificates
        BY <1>5 DEF IntermediatesIn
    <2> QED BY <1>3, <2>1, <2>2, LoadedIsSound DEF NewCertificateAuthority
<1>7. signer \in Keys \ NewKeys
    <2>1. PrivateKeysIn(pem) \in SUBSET Nat /\ PrivateKeysIn(pem) # {}
        BY <1>3, <1>4 DEF PrivateKeysIn, Loads
    <2>2. PICK i \in PrivateKeysIn(pem) : FirstOf(pem, PrivateKeysIn(pem)) = pem[i]
        BY <2>1, FirstOfEffect
    <2>3. i \in DOMAIN pem /\ IsPrivateKey(pem[i]) /\ signer = pem[i].object
        BY <2>2 DEF PrivateKeysIn, SigningKey
    <2>4. pem[i].object # None
        BY <1>3, <2>3 DEF Loads, ParsePEMs, ParsePEM, IsPrivateKey, IsCertificate,
                          ParseX509PrivateKey
    <2> QED BY <2>3, <2>4 DEF FileInv, BlocksInv
<1>8. /\ cert \in Certificates /\ cert # None /\ key \in Keys /\ key # None
      /\ Algorithm[key] = "RSA"
      /\ cert.ca = TRUE /\ cert.key = key /\ cert.signer = signer
      /\ cert.issuer = parent.subject
    <2>1. PICK name \in Subjects : name = parent.subject
        BY <1>6 DEF Certificates
    <2>2. PICK k \in Keys : k = signer
        BY <1>7
    <2>3. ClockInv /\ cert = CACertificate(subject, ttl, key, name, k)
        BY <1>2, <2>1, <2>2 DEF FileInv
    <2>4. NewAuthority(cert, subject, key, name, k)
        BY <2>3, NewCertificate
    <2> HIDE DEF parent, signer
    <2> QED BY <2>1, <2>2, <2>4 DEF NewAuthority
<1>9. Successor(pem, cert, key)
    <2>1. Issued(parent, cert)
        <3>1. parent.ca
            BY <1>3, LoadedIsSound DEF NewCertificateAuthority
        <3> QED BY <1>6, <1>8, <3>1 DEF Issued
    <2>2. cert.signer # key
        BY <1>7, <1>8
    <2> HIDE DEF signer
    <2> QED BY <1>8, <2>1, <2>2 DEF Successor
<1>10. Loadable(IntermediateFile(certs, cert, key), anchor)
    BY <1>3, <1>4, <1>9, IntermediateLoads
<1>11. PICK new : new = IntermediateFile(certs, cert, key)
    OBVIOUS
<1>12. PICK a : a = anchor
    OBVIOUS
<1>13. pem' = new /\ origin' = a /\ Loadable(new, a)
    BY <1>3, <1>10, <1>11, <1>12
<1>14. WrittenInv'
    BY <1>13 DEF WrittenInv
<1>15. /\ \E T : new \in Seq(T)
       /\ \A j \in DOMAIN new :
             \/ new[j] = PrivateKeyBlock(key)
             \/ \E x \in Links(certs, cert) : new[j] = CertificateBlock(x)
    <2>1. \E T : certs \in Seq(T)
        BY <1>4, CertificatesOfBlocks
    <2> HIDE DEF certs
    <2> QED BY <1>11, <2>1, IntermediateBlocks
<1>16. Links(certs, cert) \subseteq Certificates
    BY <1>6, <1>8 DEF Links
<1>17. key \in Keys \ NewKeys'
    BY <1>3, <1>8 DEF NewKeys
<1>18. \A j \in DOMAIN new :
          /\ IsCertificate(new[j]) => new[j].object \in Certificates
          /\ IsPrivateKey(new[j]) => new[j].object \in Keys \ NewKeys'
    <2> HIDE DEF certs
    <2> QED BY <1>15, <1>16, <1>17, BlocksParse
<1>19. BlocksInv'
    BY <1>13, <1>15, <1>18 DEF BlocksInv
<1> QED BY <1>14, <1>19

\* Nothing else changes it.
LEMMA FileStep == FileInv /\ [Next]_vars => BlocksInv' /\ WrittenInv'
<1> SUFFICES ASSUME FileInv, [Next]_vars
             PROVE  BlocksInv' /\ WrittenInv'
    OBVIOUS
<1>1. CASE UNCHANGED <<generated, pem, origin>>
    BY <1>1 DEF FileInv, BlocksInv, WrittenInv, NewKeys
<1> QED BY <1>1, RootStep, IntermediateStep
        DEF Next, Commands, Agent, Load, LoadFails, CSRSign, CSRSignPanics, End,
            Tick, vars

\* What `camblet ca' prints (root.go:82, intermediate.go:98-107) is a file that
\* loads until something in it expires, with the trust anchor of the authority
\* it was made with, through any number of commands.
THEOREM CommandsCorrect == Spec => []CommandsWriteAuthorities
<1>1. FileInv => CommandsWriteAuthorities
    <2> SUFFICES ASSUME FileInv, origin # None
                 PROVE  LET certs == CertificatesIn(pem) IN
                        /\ GetTrustAnchor(certs) = origin
                        /\ \/ Loads(pem, now)
                           \/ \E i \in DOMAIN certs : ~Valid(certs[i], now)
        BY DEF CommandsWriteAuthorities
    <2>1. now \in Nat
        BY BoundsAssumption DEF FileInv, ClockInv
    <2> QED BY <2>1 DEF FileInv, WrittenInv, Loadable, Loads
<1>2. FileInv /\ [Next]_vars /\ IInv => FileInv'
    BY FileStep, ClockStep DEF FileInv
<1> QED BY InitFileInv, Invariance, <1>1, <1>2, PTL DEF Spec
=============================================================================
