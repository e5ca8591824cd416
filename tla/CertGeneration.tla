---------------------------- MODULE CertGeneration ----------------------------
(***************************************************************************)
(* Certificate generation: oxitls-rcgen/src/cert.rs, csr.rs, keypair.rs.   *)
(* Roots, intermediates, leaves and signing requests are generated in any  *)
(* order and with any issuer.  What they are good for is decided by the    *)
(* peer, whose path validation (webpki, external) is the reference here.   *)
(*                                                                         *)
(* Keys are numbered as they are drawn.  Serial numbers (constants, unless *)
(* the builder was given one), key identifiers, validity dates, CRL, AIA   *)
(* and name constraint extensions are carried to the certificate unchanged *)
(* and play no part in what is checked; they are left out.                 *)
(***************************************************************************)
EXTENDS Integers, Sequences, FiniteSets, SignatureSchemes

CONSTANTS SigningAlgorithm,  \* the algorithms leaves and requests are made with
          CaAlgorithm,       \* the algorithms authorities are made with
          CommonName,        \* names of authorities
          San,               \* names of servers and clients
          Builders,          \* the builder values that are tried
          MaxPathLen,        \* u8::MAX, the largest path length that can be asked for
          MaxCerts,          \* bound on the certificates issued
          MaxLeaves,         \* bound on those among them that cannot sign
          MaxCsrs            \* bound on the requests

Purpose == {"ServerAuth", "ClientAuth", "CodeSigning"}
Unlimited == MaxPathLen + 1

(***************************************************************************)
(* CertificateParamsBuilder and those of its setters that matter here.     *)
(* noName is a subject that was never set.                                 *)
(***************************************************************************)
Builder == [cn : CommonName \cup {"noName"}, sans : SUBSET San, ca : BOOLEAN,
            limit : 0..Unlimited, eku : SUBSET Purpose]

NewBuilder == [cn |-> "noName", sans |-> {}, ca |-> FALSE, limit |-> 0, eku |-> {}]

WithCommonName(b, cn) == [b EXCEPT !.cn = cn]

\* with_dns_names and with_ip_addresses, which drops what does not parse.
WithNames(b, sans) == [b EXCEPT !.sans = @ \cup sans]

\* with_ca and with_ca_path_length.
WithCa(b, pathLen) == [b EXCEPT !.ca = TRUE, !.limit = pathLen]

\* with_server_auth, with_client_auth and their siblings.
WithPurpose(b, purpose) == [b EXCEPT !.eku = @ \cup {purpose}]

\* with_extended_key_usages replaces what was set before.
WithExtendedKeyUsages(b, purposes) == [b EXCEPT !.eku = purposes]

ASSUME CertGenerationAssumption ==
    /\ SigningAlgorithm \subseteq Algorithms
    /\ CaAlgorithm \subseteq Algorithms
    /\ CommonName \cap San = {}
    /\ Builders \subseteq Builder
    /\ MaxPathLen \in Nat
    /\ MaxCerts \in Nat
    /\ MaxLeaves \in Nat
    /\ MaxCsrs \in Nat

VARIABLES certs,  \* the certificates, in the order of their issue
          csrs,   \* the signing requests
          keys    \* number of key pairs drawn so far

certVars == <<certs, csrs, keys>>

-----------------------------------------------------------------------------
\* OxiEd25519Key::generate and its four siblings: a fresh pair.
Generate(alg) == [number |-> keys + 1, alg |-> alg, spki |-> Spki(alg)]

-----------------------------------------------------------------------------
(* Parameters.  eku = {} is a certificate without the extension.           *)

\* build_params and build_client_params, which differ in the purpose: no
\* parameters, and an error, without a name.
LeafParams(sans, purpose) ==
    {[subject |-> cn, ca |-> FALSE, limit |-> 0, eku |-> {purpose}, sans |-> sans] : cn \in sans}

\* build_ca_params.
CaParams(cn, pathLength) ==
    [subject |-> cn, ca |-> TRUE, limit |-> pathLength, eku |-> {}, sans |-> {}]

\* build_with_spki: the parameters, or none if a leaf has no alternative name.  Without
\* a subject the first DNS name is taken, and nothing if all names are IP addresses.
BuildWithSpki(b) ==
    {[subject |-> cn, ca |-> b.ca, limit |-> b.limit, eku |-> b.eku, sans |-> b.sans] :
        cn \in IF ~b.ca /\ b.sans = {} THEN {}
               ELSE IF b.cn # "noName" THEN {b.cn} ELSE b.sans \cup {"noName"}}

-----------------------------------------------------------------------------
(* Signing.  handle is the type of the result, which decides what can be   *)
(* done with it; parent is history: the place of the issuer in certs.      *)

Certificate(p, key, handle, issuer, signer, parent) ==
    [number |-> key.number, alg |-> key.alg, spki |-> key.spki, subject |-> p.subject,
     ca |-> p.ca, limit |-> p.limit, eku |-> p.eku, sans |-> p.sans,
     handle |-> handle, issuer |-> issuer, signer |-> signer, parent |-> parent]

\* params.self_signed(&key).
SelfSigned(p, key, handle) ==
    Certificate(p, key, handle, p.subject, key.number, Len(certs) + 1)

\* sign_child and sign_with_issuer: the issuer's name is that of its parameters.
SignChild(p, key, handle, i) ==
    Certificate(p, key, handle, certs[i].subject, certs[i].number, i)

\* Only a CaCertifiedKey can sign.
Authorities == {i \in 1..Len(certs) : certs[i].handle = "CaCertifiedKey"}

Issue(cert) ==
    /\ Len(certs) < MaxCerts
    /\ cert.handle = "CaCertifiedKey" \/ Len(certs) - Cardinality(Authorities) < MaxLeaves
    /\ certs' = Append(certs, cert)

-----------------------------------------------------------------------------
CertInit ==
    /\ certs = <<>>
    /\ csrs = {}
    /\ keys = 0

\* generate_ca.
GenerateCa(cn, alg) ==
    /\ Issue(SelfSigned(CaParams(cn, Unlimited), Generate(alg), "CaCertifiedKey"))
    /\ keys' = keys + 1
    /\ UNCHANGED csrs

\* Faulty variant of GenerateIntermediateCa: no path length.
GenerateIntermediateUnlimited(cn, alg, i) ==
    /\ Issue(SignChild(CaParams(cn, Unlimited), Generate(alg), "CaCertifiedKey", i))
    /\ keys' = keys + 1
    /\ UNCHANGED csrs

\* generate_intermediate_ca: path length 0, whatever the parent may sign.
GenerateIntermediateCa(cn, alg, i) ==
    /\ Issue(SignChild(CaParams(cn, 0), Generate(alg), "CaCertifiedKey", i))
    /\ keys' = keys + 1
    /\ UNCHANGED csrs

\* generate_ca_signed_leaf.
GenerateCaSignedLeaf(sans, alg, i) ==
    /\ \E p \in LeafParams(sans, "ServerAuth") :
         Issue(SignChild(p, Generate(alg), "CertifiedKey", i))
    /\ keys' = keys + 1
    /\ UNCHANGED csrs

\* generate_ca_signed_client_cert.
GenerateCaSignedClientCert(sans, alg, i) ==
    /\ \E p \in LeafParams(sans, "ClientAuth") :
         Issue(SignChild(p, Generate(alg), "CertifiedKey", i))
    /\ keys' = keys + 1
    /\ UNCHANGED csrs

\* generate_self_signed and the functions for each algorithm, which it calls.
GenerateSelfSigned(sans, alg) ==
    /\ \E p \in LeafParams(sans, "ServerAuth") :
         Issue(SelfSigned(p, Generate(alg), "CertifiedKey"))
    /\ keys' = keys + 1
    /\ UNCHANGED csrs

\* Parameters from the builder, self-signed by the caller with a key of this crate.
SelfSignWithBuilder(b, alg) ==
    /\ \E p \in BuildWithSpki(b) : Issue(SelfSigned(p, Generate(alg), "CertifiedKey"))
    /\ keys' = keys + 1
    /\ UNCHANGED csrs

\* generate_csr: the name is the subject and the alternative name.
GenerateCsr(san, alg) ==
    /\ Cardinality(csrs) < MaxCsrs
    /\ csrs' = csrs \cup {[number |-> keys + 1, alg |-> alg, oid |-> KeyType(alg).oid,
                           subject |-> san, sans |-> {san}]}
    /\ keys' = keys + 1
    /\ UNCHANGED certs

\* Signature identifiers that other tools write into a request for such a key.
ForeignOids(alg) == CASE alg = "Ed25519" -> {"ed25519"}
                      [] alg \in {"EcdsaP256", "EcdsaP384"} ->
                           {"ecdsa-with-SHA256", "ecdsa-with-SHA384"}
                      [] alg \in {"Rsa2048", "Rsa4096"} -> {"sha256WithRSA", "sha384WithRSA"}

\* A request that another tool made: any hash, and perhaps no alternative name.
ReceiveForeignCsr(san, alg, oid, sans) ==
    /\ Cardinality(csrs) < MaxCsrs
    /\ csrs' = csrs \cup {[number |-> keys + 1, alg |-> alg, oid |-> oid,
                           subject |-> san, sans |-> sans]}
    /\ keys' = keys + 1
    /\ UNCHANGED certs

\* signature_algorithm_from_oid: the SPKI algorithm of the certificate, if any.
SignatureAlgorithmFromOid(oid) ==
    CASE oid = "ed25519" -> {"ed25519"}
      [] oid = "ecdsa-with-SHA256" -> {"p256"}
      [] oid = "ecdsa-with-SHA384" -> {"p384"}
      [] oid = "sha256WithRSA" -> {"rsa"}
      [] OTHER -> {}

(***************************************************************************)
(* sign_csr.  The bits of the key come from the request's SPKI, the name   *)
(* of its algorithm from the request's signature; the request's own        *)
(* signature is not verified.  Neither usage extension is set.             *)
(***************************************************************************)
SignCsr(r, i) ==
    /\ \E spki \in SignatureAlgorithmFromOid(r.oid) :
         Issue(SignChild([subject |-> r.subject, ca |-> FALSE, limit |-> 0, eku |-> {},
                          sans |-> r.sans],
                         [number |-> r.number, alg |-> r.alg, spki |-> spki],
                         "SignedCertificate", i))
    /\ UNCHANGED <<csrs, keys>>

CertNext ==
    \/ \E cn \in CommonName, alg \in CaAlgorithm : GenerateCa(cn, alg)
    \/ \E cn \in CommonName, alg \in CaAlgorithm, i \in Authorities :
          GenerateIntermediateCa(cn, alg, i)
    \/ \E sans \in SUBSET San, alg \in SigningAlgorithm, i \in Authorities :
          \/ GenerateCaSignedLeaf(sans, alg, i)
          \/ GenerateCaSignedClientCert(sans, alg, i)
    \/ \E sans \in SUBSET San, alg \in SigningAlgorithm : GenerateSelfSigned(sans, alg)
    \/ \E b \in Builders, alg \in CaAlgorithm : SelfSignWithBuilder(b, alg)
    \/ \E san \in San, alg \in SigningAlgorithm : GenerateCsr(san, alg)
    \/ \E san \in San, sans \in SUBSET San, alg \in SigningAlgorithm :
          \E oid \in ForeignOids(alg) : ReceiveForeignCsr(san, alg, oid, sans)
    \/ \E r \in csrs, i \in Authorities : SignCsr(r, i)

CertSpec == CertInit /\ [][CertNext]_certVars

-----------------------------------------------------------------------------
(* Path validation as webpki does it (external): certs[i] vouches for      *)
(* certs[j] if the name and the signature fit.                             *)

Vouches(i, j) == /\ certs[j].issuer = certs[i].subject
                 /\ certs[j].signer = certs[i].number
                 /\ certs[i].spki = Spki(certs[i].alg)

\* Of a trust anchor only the name and the key count.
ValidPath(leaf, path, anchor, purpose, name) ==
    LET full == <<leaf>> \o path \o <<anchor>>
    IN  /\ name \in certs[leaf].sans
        /\ \A n \in 1..Len(path) + 1 :
             /\ Vouches(full[n + 1], full[n])
             /\ certs[full[n]].eku = {} \/ purpose \in certs[full[n]].eku
        /\ \A n \in 1..Len(path) : certs[path[n]].ca /\ certs[path[n]].limit >= n - 1

\* Paths through some of the certificates that the peer presented.
Paths(presented) == UNION {[1..n -> presented] : n \in 0..Cardinality(presented)}

Verifies(leaf, presented, anchor, purpose) ==
    /\ ~certs[leaf].ca
    /\ \E path \in Paths(presented), name \in San :
         ValidPath(leaf, path, anchor, purpose, name)

\* What the functions of the crate promise of a leaf: it is accepted below its
\* issuer and below the issuer of its issuer, for the purpose it was made for.
Promised(leaf, anchor, purpose) ==
    /\ ~certs[leaf].ca
    /\ certs[leaf].sans # {}
    /\ certs[leaf].eku = {} \/ purpose \in certs[leaf].eku
    /\ anchor \in {certs[leaf].parent, certs[certs[leaf].parent].parent}

(***************************************************************************)
(* A leaf verifies below exactly those anchors that are its issuer or the  *)
(* issuer of its issuer, in whatever order authorities of equal names were *)
(* made and however deep they were nested: one intermediate is always      *)
(* enough to reach the root, and two are always refused.                   *)
(***************************************************************************)
IssuedChainsVerify ==
    \A leaf, anchor \in 1..Len(certs), purpose \in Purpose :
        Verifies(leaf, Authorities, anchor, purpose) <=> Promised(leaf, anchor, purpose)

-----------------------------------------------------------------------------
Name == CommonName \cup San \cup {"noName"}

SpkiName == {"ed25519", "p256", "p384", "rsa"}
Oid == {"ed25519", "ecdsa-with-SHA256", "ecdsa-with-SHA384", "sha256WithRSA", "sha384WithRSA"}

Issued == [number : Nat, alg : Algorithms, spki : SpkiName, subject : Name, ca : BOOLEAN,
           limit : 0..Unlimited, eku : SUBSET Purpose, sans : SUBSET San,
           handle : {"CaCertifiedKey", "CertifiedKey", "SignedCertificate"},
           issuer : Name, signer : Nat, parent : Nat]

Request == [number : Nat, alg : Algorithms, oid : Oid, subject : San, sans : SUBSET San]

CertTypeOK ==
    /\ certs \in Seq(Issued)
    /\ csrs \subseteq Request
    /\ keys \in Nat

\* A certificate is signed by itself or by an authority that was there before.
ParentsSign ==
    \A i \in 1..Len(certs) :
        LET p == certs[i].parent
        IN  /\ p \in 1..i
            /\ certs[i].issuer = certs[p].subject
            /\ certs[i].signer = certs[p].number
            /\ p # i => certs[p].handle = "CaCertifiedKey"

\* What the type of the result says of a certificate.  Authorities can sign others
\* without limit if they are roots, and only leaves otherwise.
HandlesTell ==
    \A i \in 1..Len(certs) :
        /\ certs[i].handle # "SignedCertificate" => certs[i].spki = Spki(certs[i].alg)
        /\ certs[i].handle = "SignedCertificate" => certs[i].parent # i
        /\ certs[i].handle = "CaCertifiedKey" =>
             /\ certs[i].ca
             /\ certs[i].eku = {}
             /\ certs[i].limit = IF certs[i].parent = i THEN Unlimited ELSE 0

\* A key is in one certificate, or in one request and the certificates for it.
KeysHaveOneOwner ==
    /\ \A i \in 1..Len(certs) : certs[i].number <= keys
    /\ \A r \in csrs : r.number <= keys
    /\ \A i, j \in 1..Len(certs) : (i # j /\ certs[i].number = certs[j].number) =>
          certs[i].handle = "SignedCertificate" /\ certs[i].alg = certs[j].alg
    /\ \A r \in csrs, i \in 1..Len(certs) : certs[i].number = r.number =>
          certs[i].handle = "SignedCertificate" /\ certs[i].alg = r.alg
    /\ \A r, q \in csrs : r.number = q.number => r.alg = q.alg

\* The inductive invariant.
CertInv == CertTypeOK /\ ParentsSign /\ HandlesTell /\ KeysHaveOneOwner
=============================================================================
