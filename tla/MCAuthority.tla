---------------------------- MODULE MCAuthority ----------------------------
(***************************************************************************)
(* PEM files put together by hand from the certificates and keys of two    *)
(* root authorities, of an intermediate one that may have its root's name, *)
(* and of an authority with an ECDSA key.                                  *)
(***************************************************************************)
EXTENDS Authority

CONSTANTS a, b, c, d, e, f, g, s, t

MCAlgorithm == [k \in Keys |->
    IF k = f THEN "ECDSA" ELSE IF k = g THEN "Ed25519" ELSE "RSA"]

Cert(subject, issuer, key, signer, isCA, notAfter) ==
    [subject |-> subject, issuer |-> issuer, key |-> key, signer |-> signer,
     ca |-> isCA, notAfter |-> notAfter]

RootA   == CertificateBlock(Cert(s, s, a, a, TRUE, 1))
RootB   == CertificateBlock(Cert(t, t, b, b, TRUE, 2))
RootEC  == CertificateBlock(Cert(t, t, f, f, TRUE, 2))
SubA(n) == CertificateBlock(Cert(n, s, c, a, TRUE, 2))
LeafA   == CertificateBlock(Cert(t, s, a, a, FALSE, 2))

MCBlocks == {RootA, RootB, SubA(s), SubA(t), LeafA,
             PrivateKeyBlock(a), PrivateKeyBlock(c)}

MCAssembled ==
    UNION {[1 .. n -> MCBlocks] : n \in 0 .. 3}
    \cup {<<x, PrivateKeyBlock(c), y, z>> :
              x \in {SubA(s), SubA(t)}, y, z \in MCBlocks}
    \cup {<<RootEC, [type |-> "EC PRIVATE KEY", object |-> f]>>,
          <<RootA, PrivateKeyBlock(a), PublicKeyBlock(g)>>,
          <<RootA, PrivateKeyBlock(a), CertificateBlock(None)>>,
          <<RootA, PrivateKeyBlock(a), [type |-> "EC PARAMETERS", object |-> None]>>}

CSR == RequestBlock([subject |-> t, key |-> b])

MCRequests ==
    {[csr |-> <<CSR>>, ttl |-> ttl] : ttl \in {None, 0, 3, Unparsable}}
    \cup {[csr |-> x, ttl |-> None] : x \in {<<>>, <<CSR, CSR>>, <<LeafA>>}}
=============================================================================
