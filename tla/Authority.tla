----------------------------- MODULE Authority -----------------------------
(***************************************************************************)
(* The certificate authority: PEM files, `camblet ca create-root' and      *)
(* `create-intermediate' that write them, NewCertificateAuthority that     *)
(* loads one when the agent starts, and the csr_sign command that signs    *)
(* with it.  Time passes, and certificates expire with it.                 *)
(*                                                                         *)
(* A PEM file is the sequence of its blocks.  Of a certificate there is    *)
(* what decides whether it is trusted: names, keys, who signed it and      *)
(* until when it is valid.  Two keys are equal when they are a pair.       *)
(***************************************************************************)
EXTENDS Integers, Sequences, FiniteSets

CONSTANTS
    Keys,               \* key pairs
    Algorithm,          \* of each key: "RSA", "ECDSA" or another one
    GeneratedKeys,      \* those the commands generate; bounds their number
    Subjects,           \* names of certificate authorities
    Assembled,          \* PEM files that are not the work of the commands
    Requests,           \* the data of csr_sign commands
    TTLs,               \* what --ttl can say; 0 stands for the default
    DefaultCACertificateTTL,
    DefaultLeafCerticiateTTL,
    DefaultCertTTL,     \* agent.defaultCertTTL in the configuration
    None,
    Unparsable,         \* what is no duration
    MaxTime,            \* bound: how long time is followed
    MaxResponses        \* bound: certificates signed

ASSUME KeysAssumption ==
    /\ GeneratedKeys \subseteq Keys
    /\ \A k \in GeneratedKeys : Algorithm[k] = "RSA"

ASSUME BoundsAssumption == MaxTime \in Nat

ASSUME TTLsAssumption == TTLs \subseteq Int /\ DefaultCACertificateTTL \in Int

VARIABLES
    now,
    generated,          \* the keys that have been generated
    pem,                \* the file named by agent.caPEMFile
    origin,             \* the trust anchor of what it was created from, None
                        \* for a file the commands have not written
    ca,                 \* the authority the agent has loaded, None without
    responses           \* what csr_sign has answered

vars == <<now, generated, pem, origin, ca, responses>>

-----------------------------------------------------------------------------
\* Certificates.

Valid(c, t) == t <= c.notAfter

Issued(p, c) == p.ca /\ c.issuer = p.subject /\ c.signer = p.key

\* getX509CertificateType: only a certificate that its own key signed is a root.
CertType(c) ==
    IF ~c.ca THEN "LEAF CERTIFICATE"
    ELSE IF Issued(c, c) THEN "ROOT CA" ELSE "INTERMEDIATE CA"

\* x509.Certificate.Verify, at time t: a path of valid certificates leads from
\* the anchor to c.  That is, c is in every set of certificates that has the
\* anchor and with a certificate all it issued.
Verifies(c, anchor, pool, t) ==
    \A S \in SUBSET (pool \cup {anchor, c}) :
        /\ Valid(anchor, t) => anchor \in S
        /\ \A p \in S, q \in pool \cup {c} :
               Issued(p, q) /\ Valid(q, t) => q \in S
        => c \in S

-----------------------------------------------------------------------------
\* PEM files (parser.go).

CertificateBlock(c) == [type |-> "CERTIFICATE", object |-> c]
RequestBlock(r)     == [type |-> "CERTIFICATE REQUEST", object |-> r]
PrivateKeyBlock(k)  == [type |-> "PRIVATE KEY", object |-> k]
PublicKeyBlock(k)   == [type |-> "PUBLIC KEY", object |-> k]

Certificates == [subject : Subjects, issuer : Subjects, key : Keys, signer : Keys,
                 ca : BOOLEAN, notAfter : Int]

Objects == Certificates \cup Keys \cup [subject : Subjects, key : Keys] \cup {None}

ASSUME NoneAssumption == None \notin Certificates \cup Keys

\* Keys of two kinds are known, and contents (None) that are not what the
\* block says are an error.
parseX509PublicKey(k) == Algorithm[k] \in {"RSA", "ECDSA"}

ParseX509PublicKey(k) == k # None /\ parseX509PublicKey(k)

ParseX509PrivateKey(k) == k # None /\ Algorithm[k] \in {"RSA", "ECDSA"}

ParseX509Certificate(c) == c # None /\ parseX509PublicKey(c.key)

ParseX509CertificateRequest(r) == r # None /\ parseX509PublicKey(r.key)

IsPrivateKey(block) ==
    block.type \in {"PRIVATE KEY", "RSA PRIVATE KEY", "EC PRIVATE KEY"}

IsCertificate(block) == block.type = "CERTIFICATE"

ParsePEM(block) ==
    \/ /\ block.type = "CERTIFICATE REQUEST"
       /\ ParseX509CertificateRequest(block.object)
    \/ IsCertificate(block) /\ ParseX509Certificate(block.object)
    \/ block.type = "PUBLIC KEY" /\ ParseX509PublicKey(block.object)
    \/ IsPrivateKey(block) /\ ParseX509PrivateKey(block.object)

\* Files from elsewhere hold what their blocks say, or contents that are an error,
\* and none of the keys that will be generated.
ASSUME AssembledAssumption == \A blocks \in Assembled :
    /\ blocks \in Seq([type : STRING, object : Objects])
    /\ \A i \in DOMAIN blocks :
          /\ IsCertificate(blocks[i]) => blocks[i].object \in Certificates \cup {None}
          /\ IsPrivateKey(blocks[i]) =>
                blocks[i].object \in (Keys \ GeneratedKeys) \cup {None}

\* One block that cannot be parsed makes the whole file an error.
ParsePEMs(blocks) == \A i \in DOMAIN blocks : ParsePEM(blocks[i])

\* The elements of s at some of its positions, in their order.
Selected(s, at) ==
    LET upTo[n \in 0 .. Len(s)] ==
            IF n = 0 THEN <<>>
            ELSE IF n \in at THEN Append(upTo[n - 1], s[n]) ELSE upTo[n - 1]
    IN  upTo[Len(s)]

FirstOf(s, at) == s[CHOOSE i \in at : \A j \in at : i <= j]

-----------------------------------------------------------------------------
\* ca.init.

\* The positions of the private keys, and the certificates in their order.
PrivateKeysIn(blocks) == {i \in DOMAIN blocks : IsPrivateKey(blocks[i])}

CertificatesIn(blocks) ==
    LET chosen == Selected(blocks, {i \in DOMAIN blocks : IsCertificate(blocks[i])})
    IN  [i \in 1 .. Len(chosen) |-> chosen[i].object]

CACertificates(certs) == {i \in DOMAIN certs : certs[i].ca}

Roots(certs) == {i \in DOMAIN certs : CertType(certs[i]) = "ROOT CA"}

GetTrustAnchor(certs) == FirstOf(certs, Roots(certs))

IsIntermediate(c) == CertType(c) = "INTERMEDIATE CA"

\* Mutant: the signing certificate is not part of its own chain.
IntermediatesOfOthers(certs) ==
    {certs[i] : i \in {j \in DOMAIN certs : j > 1 /\ IsIntermediate(certs[j])}}

\* GetIntermediates as a set, where only that matters.
IntermediatesIn(certs) ==
    {certs[i] : i \in {j \in DOMAIN certs : IsIntermediate(certs[j])}}

GetIntermediates(certs) == Selected(certs, {i \in DOMAIN certs : IsIntermediate(certs[i])})

SigningKey(blocks) == FirstOf(blocks, PrivateKeysIn(blocks)).object

\* Mutant: the file is taken to begin with the signing certificate.
LeadingCertificate(certs) == certs[1]

SigningCertificate(certs) == FirstOf(certs, CACertificates(certs))

\* NewCertificateAuthority returns no error.
Loads(blocks, t) ==
    LET certs == CertificatesIn(blocks) IN
    /\ ParsePEMs(blocks)
    /\ PrivateKeysIn(blocks) # {}
    /\ CACertificates(certs) # {}
    /\ SigningCertificate(certs).key = SigningKey(blocks)
    /\ Roots(certs) # {}
    /\ Verifies(SigningCertificate(certs), GetTrustAnchor(certs),
                IntermediatesIn(certs), t)

NewCertificateAuthority(blocks) ==
    LET certs == CertificatesIn(blocks)
    IN  [privateKey   |-> SigningKey(blocks),
         certificate  |-> SigningCertificate(certs),
         certificates |-> certs]

-----------------------------------------------------------------------------
\* The commands of an administrator, who redirects what they print.

NewKeys == GeneratedKeys \ generated

CACertificate(subject, ttl, key, parentSubject, signer) ==
    [subject  |-> subject,
     issuer   |-> parentSubject,
     key      |-> key,
     signer   |-> signer,
     ca       |-> TRUE,
     notAfter |-> now + (IF ttl = 0 THEN DefaultCACertificateTTL ELSE ttl)]

CreateRoot == \E subject \in Subjects, ttl \in TTLs, key \in NewKeys :
    LET cert == CACertificate(subject, ttl, key, subject, key) IN
    /\ pem' = <<CertificateBlock(cert), PrivateKeyBlock(key)>>
    /\ origin' = cert
    /\ generated' = generated \cup {key}
    /\ UNCHANGED <<now, ca, responses>>

ChainBlocks(certs) ==
    LET chain == GetIntermediates(certs)
    IN  [i \in 1 .. Len(chain) |-> CertificateBlock(chain[i])]

\* Mutant: the intermediate certificates come first.
CreateIntermediateLast == \E subject \in Subjects, ttl \in TTLs, key \in NewKeys :
    LET from == NewCertificateAuthority(pem)
        cert == CACertificate(subject, ttl, key, from.certificate.subject,
                              from.privateKey)
    IN
    /\ Loads(pem, now)
    /\ Algorithm[from.privateKey] = "RSA"
    /\ pem' = ChainBlocks(from.certificates)
              \o <<CertificateBlock(cert), PrivateKeyBlock(key),
                   CertificateBlock(GetTrustAnchor(from.certificates))>>
    /\ origin' = GetTrustAnchor(from.certificates)
    /\ generated' = generated \cup {key}
    /\ UNCHANGED <<now, ca, responses>>

\* The key of the parent is taken to be an RSA key; with another one the
\* command ends in a panic, and prints nothing.
CreateIntermediate == \E subject \in Subjects, ttl \in TTLs, key \in NewKeys :
    LET from == NewCertificateAuthority(pem)
        cert == CACertificate(subject, ttl, key, from.certificate.subject,
                              from.privateKey)
    IN
    /\ Loads(pem, now)
    /\ Algorithm[from.privateKey] = "RSA"
    /\ pem' = <<CertificateBlock(cert), PrivateKeyBlock(key)>>
              \o ChainBlocks(from.certificates)
              \o <<CertificateBlock(GetTrustAnchor(from.certificates))>>
    /\ origin' = GetTrustAnchor(from.certificates)
    /\ generated' = generated \cup {key}
    /\ UNCHANGED <<now, ca, responses>>

-----------------------------------------------------------------------------
\* The agent.

Load ==
    /\ ca = None
    /\ Loads(pem, now)
    /\ ca' = NewCertificateAuthority(pem)
    /\ UNCHANGED <<now, generated, pem, origin, responses>>

\* The agent exits with the error, and systemd tries again.
LoadFails ==
    /\ ca = None
    /\ ~Loads(pem, now)
    /\ UNCHANGED vars

\* csr_sign gets as far as SignCertificateRequest; everything else is answered
\* with an error, and changes nothing.
Accepted(req) ==
    /\ ParsePEMs(req.csr)
    /\ Len(req.csr) = 1
    /\ req.ttl # Unparsable

LeafTTL(ttl) ==
    LET asked == IF ttl = None THEN DefaultCertTTL ELSE ttl
    IN  IF asked = 0 THEN DefaultLeafCerticiateTTL ELSE asked

\* SignCertificateRequest: neither the life of the authority's certificate nor
\* whether it is over bounds that of the certificate it signs.
CSRSign == \E req \in Requests :
    /\ ca # None
    /\ Accepted(req)
    /\ req.csr[1].type = "CERTIFICATE REQUEST"
    /\ Algorithm[ca.privateKey] = "RSA"
    /\ Cardinality(responses) < MaxResponses
    /\ responses' = responses \cup
          {[certificate  |-> [subject  |-> req.csr[1].object.subject,
                              issuer   |-> ca.certificate.subject,
                              key      |-> req.csr[1].object.key,
                              signer   |-> ca.privateKey,
                              ca       |-> FALSE,
                              notAfter |-> now + LeafTTL(req.ttl)],
            chain        |-> IntermediatesIn(ca.certificates),
            trust_anchor |-> GetTrustAnchor(ca.certificates),
            by           |-> ca.certificate]}
    /\ UNCHANGED <<now, generated, pem, origin, ca>>

\* A single block of another type has no request (a nil pointer), and a private
\* key that is no RSA key fails the type assertion: the process panics.
CSRSignPanics == \E req \in Requests :
    /\ ca # None
    /\ Accepted(req)
    /\ \/ req.csr[1].type # "CERTIFICATE REQUEST"
       \/ Algorithm[ca.privateKey] # "RSA"
    /\ ca' = None
    /\ UNCHANGED <<now, generated, pem, origin, responses>>

\* The process ends.
End ==
    /\ ca # None
    /\ ca' = None
    /\ UNCHANGED <<now, generated, pem, origin, responses>>

Tick ==
    /\ now < MaxTime
    /\ now' = now + 1
    /\ UNCHANGED <<generated, pem, origin, ca, responses>>

-----------------------------------------------------------------------------
Init ==
    /\ now = 0
    /\ generated = {}
    /\ pem \in Assembled
    /\ origin = None
    /\ ca = None
    /\ responses = {}

Commands == CreateRoot \/ CreateIntermediate
Agent    == Load \/ LoadFails \/ CSRSign \/ CSRSignPanics \/ End

Next == Commands \/ Agent \/ Tick

Spec == Init /\ [][Next]_vars

-----------------------------------------------------------------------------
\* Properties.

\* The agent signs with a key and a certificate of it that may sign, and each
\* answer has the certificate, its chain and the trust anchor.
TypeOK ==
    /\ now \in 0 .. MaxTime
    /\ generated \subseteq GeneratedKeys
    /\ ca # None =>
           /\ DOMAIN ca = {"privateKey", "certificate", "certificates"}
           /\ ca.certificate.ca
           /\ ca.certificate.key = ca.privateKey
           /\ Roots(ca.certificates) # {}
    /\ \A r \in responses :
           /\ DOMAIN r = {"certificate", "chain", "trust_anchor", "by"}
           /\ ~r.certificate.ca
           /\ CertType(r.trust_anchor) = "ROOT CA"
           /\ \A c \in r.chain : CertType(c) = "INTERMEDIATE CA"

\* Whatever PEM file the agent was given (authority.go:157-221 accepts files
\* with several roots, keys and chains in any order), a certificate it signed
\* can be verified with nothing but the answer it came in, for as long as it
\* is valid and the certificate that signed it can.
ResponsesVerify == \A r \in responses :
    /\ Valid(r.certificate, now)
    /\ Verifies(r.by, r.trust_anchor, r.chain, now)
    => Verifies(r.certificate, r.trust_anchor, r.chain, now)

\* What `camblet ca' prints (root.go:82, intermediate.go:98-107) is a file the
\* agent can load until something in it expires, with the same trust anchor
\* as the authority it was made with: moving a mesh to an intermediate
\* authority does not change whom it trusts.
CommandsWriteAuthorities ==
    origin # None =>
        LET certs == CertificatesIn(pem) IN
        /\ GetTrustAnchor(certs) = origin
        /\ Loads(pem, now) \/ \E i \in DOMAIN certs : ~Valid(certs[i], now)
=============================================================================
