------------------------------ MODULE CertProofs ------------------------------
(***************************************************************************)
(* Proofs about the issue of certificates and the handshakes with them     *)
(* (CertGeneration.tla, ProviderHandshake.tla), for any algorithms, names, *)
(* builders, offers and any number of certificates and requests.           *)
(***************************************************************************)
EXTENDS ProviderHandshake, FiniteSetTheorems, SequenceTheorems, NaturalsInduction, WellFoundedInduction, TLAPS

-----------------------------------------------------------------------------
(* Certificates.                                                           *)

\* The algorithms that an SPKI can name.
LEMMA SpkiIsName ==
    ASSUME NEW alg \in Algorithms
    PROVE  Spki(alg) \in SpkiName
  BY DEF SpkiName, Algorithms, Spki, KeyType, OxiEd25519Key, OxiEcdsaP256Key, OxiEcdsaP384Key,
         OxiRsa2048Key, OxiRsa4096Key

\* The first state satisfies the invariant.
LEMMA CertInitInv == CertInit => CertInv
<1> SUFFICES ASSUME CertInit PROVE CertInv
  OBVIOUS
<1>1. certs = <<>> /\ csrs = {} /\ keys = 0 /\ Len(certs) = 0
  BY DEF CertInit
<1>2. CertTypeOK
  BY <1>1 DEF CertTypeOK
<1>3. ParentsSign /\ HandlesTell /\ KeysHaveOneOwner
  BY <1>1 DEF ParentsSign, HandlesTell, KeysHaveOneOwner
<1> QED
  BY <1>2, <1>3 DEF CertInv

\* The fields of a certificate.
LEMMA CertFields ==
    ASSUME NEW c \in Issued
    PROVE  /\ c.number \in Nat /\ c.alg \in Algorithms /\ c.subject \in Name
           /\ c.ca \in BOOLEAN /\ c.limit \in 0..Unlimited /\ c.sans \subseteq San
           /\ c.parent \in Nat
  BY DEF Issued

\* The fields of a request.
LEMMA RequestFields ==
    ASSUME NEW r \in Request
    PROVE  /\ r.number \in Nat /\ r.alg \in Algorithms
           /\ r.subject \in San /\ r.sans \subseteq San
  BY DEF Request

\* The certificates and requests are well formed.
LEMMA CertTypes ==
    ASSUME CertInv
    PROVE  /\ keys \in Nat /\ certs \in Seq(Issued) /\ Len(certs) \in Nat
           /\ \A i \in 1..Len(certs) : certs[i] \in Issued /\ certs[i].number \in Nat
           /\ csrs \subseteq Request /\ \A r \in csrs : r.number \in Nat
<1>1. keys \in Nat /\ certs \in Seq(Issued) /\ csrs \subseteq Request
  BY DEF CertInv, CertTypeOK
<1>2. Len(certs) \in Nat /\ \A i \in 1..Len(certs) : certs[i] \in Issued
  BY <1>1
<1>3. \A i \in 1..Len(certs) : certs[i].number \in Nat
  BY <1>2, CertFields
<1>4. \A r \in csrs : r.number \in Nat
  BY <1>1, RequestFields
<1> QED
  BY <1>1, <1>2, <1>3, <1>4

\* What may be said of a new certificate c: it is well formed, and its parent is
\* itself or an authority.
NewCert(c) ==
    /\ c \in Issued
    /\ \/ /\ c.parent = Len(certs) + 1
          /\ c.issuer = c.subject
          /\ c.signer = c.number
       \/ /\ c.parent \in Authorities
          /\ c.issuer = certs[c.parent].subject
          /\ c.signer = certs[c.parent].number
    /\ c.handle # "SignedCertificate" => c.spki = Spki(c.alg)
    /\ c.handle = "SignedCertificate" => c.parent # Len(certs) + 1
    /\ c.handle = "CaCertifiedKey" =>
         /\ c.ca
         /\ c.eku = {}
         /\ c.limit = IF c.parent = Len(certs) + 1 THEN Unlimited ELSE 0

\* A new certificate joins the others, whose places and parents remain.
LEMMA NewCertInv ==
    ASSUME CertInv, NEW c, NewCert(c), certs' = Append(certs, c)
    PROVE  /\ certs' \in Seq(Issued) /\ Len(certs') = Len(certs) + 1
           /\ certs'[Len(certs) + 1] = c
           /\ \A i \in 1..Len(certs) : certs'[i] = certs[i]
           /\ ParentsSign' /\ HandlesTell'
<1> DEFINE n == Len(certs)
<1>1. certs \in Seq(Issued) /\ n \in Nat /\ c \in Issued
  BY DEF CertInv, CertTypeOK, NewCert
<1>2. /\ certs' \in Seq(Issued) /\ Len(certs') = n + 1
      /\ certs'[n + 1] = c
      /\ \A i \in 1..n : certs'[i] = certs[i]
  BY <1>1, AppendProperties
<1>3. \A i \in 1..n + 1 : i \in 1..n \/ i = n + 1
  BY <1>1
<1>4. ParentsSign'
  <2> SUFFICES ASSUME NEW i \in 1..n + 1
               PROVE  /\ certs'[i].parent \in 1..i
                      /\ certs'[i].issuer = certs'[certs'[i].parent].subject
                      /\ certs'[i].signer = certs'[certs'[i].parent].number
                      /\ certs'[i].parent # i => certs'[certs'[i].parent].handle = "CaCertifiedKey"
    BY <1>2 DEF ParentsSign
  <2>1. CASE i \in 1..n
    <3>1. /\ certs[i].parent \in 1..i
          /\ certs[i].issuer = certs[certs[i].parent].subject
          /\ certs[i].signer = certs[certs[i].parent].number
          /\ certs[i].parent # i => certs[certs[i].parent].handle = "CaCertifiedKey"
      BY <2>1 DEF CertInv, ParentsSign
    <3>2. certs[i].parent \in 1..n
      BY <1>1, <2>1, <3>1
    <3> QED
      BY <1>2, <2>1, <3>1, <3>2
  <2>2. CASE i = n + 1
    <3>1. CASE c.parent = n + 1 /\ c.issuer = c.subject /\ c.signer = c.number
      BY <1>1, <1>2, <2>2, <3>1
    <3>2. CASE /\ c.parent \in Authorities
               /\ c.issuer = certs[c.parent].subject
               /\ c.signer = certs[c.parent].number
      <4>1. c.parent \in 1..n /\ certs[c.parent].handle = "CaCertifiedKey"
        BY <3>2 DEF Authorities
      <4> QED
        BY <1>1, <1>2, <2>2, <3>2, <4>1
    <3> QED
      BY <3>1, <3>2 DEF NewCert
  <2> QED
    BY <1>3, <2>1, <2>2
<1>5. HandlesTell'
  <2> SUFFICES ASSUME NEW i \in 1..n + 1
               PROVE  /\ certs'[i].handle # "SignedCertificate" => certs'[i].spki = Spki(certs'[i].alg)
                      /\ certs'[i].handle = "SignedCertificate" => certs'[i].parent # i
                      /\ certs'[i].handle = "CaCertifiedKey" =>
                           /\ certs'[i].ca
                           /\ certs'[i].eku = {}
                           /\ certs'[i].limit = IF certs'[i].parent = i THEN Unlimited ELSE 0
    BY <1>2 DEF HandlesTell
  <2>1. CASE i \in 1..n
    BY <1>2, <2>1 DEF CertInv, HandlesTell
  <2>2. CASE i = n + 1
    BY <1>2, <2>2 DEF NewCert
  <2> QED
    BY <1>3, <2>1, <2>2
<1> QED
  BY <1>2, <1>4, <1>5

\* A certificate with a key that was just drawn.
LEMMA FreshCertInv ==
    ASSUME CertInv, NEW c, NewCert(c), certs' = Append(certs, c),
           c.number = keys + 1, keys' = keys + 1, UNCHANGED csrs
    PROVE  CertInv'
<1> DEFINE n == Len(certs)
<1>1. /\ certs' \in Seq(Issued) /\ Len(certs') = n + 1 /\ certs'[n + 1] = c
      /\ \A i \in 1..n : certs'[i] = certs[i]
      /\ ParentsSign' /\ HandlesTell'
  BY NewCertInv
<1>2. /\ keys \in Nat /\ csrs \subseteq Request /\ n \in Nat
      /\ \A i \in 1..n : certs[i].number \in Nat
      /\ \A r \in csrs : r.number \in Nat
  BY CertTypes
<1>3. CertTypeOK'
  BY <1>1, <1>2 DEF CertTypeOK
<1>4. \A i \in 1..n + 1 : i \in 1..n \/ i = n + 1
  BY <1>2
<1>5. KeysHaveOneOwner
  BY DEF CertInv
<1>6. \A i \in 1..n : certs[i].number <= keys /\ certs[i].number # keys + 1
  BY <1>2, <1>5 DEF KeysHaveOneOwner
<1>7. \A r \in csrs : r.number <= keys /\ r.number # keys + 1
  BY <1>2, <1>5 DEF KeysHaveOneOwner
<1>8. \A i \in 1..n + 1 : certs'[i].number <= keys'
  BY <1>1, <1>2, <1>4, <1>6
<1>9. \A r \in csrs : r.number <= keys'
  BY <1>2, <1>7
<1>10. \A i, j \in 1..n + 1 : (i # j /\ certs'[i].number = certs'[j].number) =>
          certs'[i].handle = "SignedCertificate" /\ certs'[i].alg = certs'[j].alg
  BY <1>1, <1>4, <1>5, <1>6 DEF KeysHaveOneOwner
<1>11. \A r \in csrs, i \in 1..n + 1 : certs'[i].number = r.number =>
          certs'[i].handle = "SignedCertificate" /\ certs'[i].alg = r.alg
  BY <1>1, <1>4, <1>5, <1>7 DEF KeysHaveOneOwner
<1>12. KeysHaveOneOwner'
  BY <1>1, <1>5, <1>8, <1>9, <1>10, <1>11 DEF KeysHaveOneOwner
<1> QED
  BY <1>1, <1>3, <1>12 DEF CertInv

\* A certificate for a request has the key of the request.
LEMMA SignedCertInv ==
    ASSUME CertInv, NEW c, NewCert(c), certs' = Append(certs, c), UNCHANGED <<csrs, keys>>,
           NEW r \in csrs, c.number = r.number, c.alg = r.alg, c.handle = "SignedCertificate"
    PROVE  CertInv'
<1> DEFINE n == Len(certs)
<1>1. /\ certs' \in Seq(Issued) /\ Len(certs') = n + 1 /\ certs'[n + 1] = c
      /\ \A i \in 1..n : certs'[i] = certs[i]
      /\ ParentsSign' /\ HandlesTell'
  BY NewCertInv
<1>2. keys \in Nat /\ csrs \subseteq Request /\ n \in Nat
  BY CertTypes
<1>3. CertTypeOK'
  BY <1>1, <1>2 DEF CertTypeOK
<1>4. \A i \in 1..n + 1 : i \in 1..n \/ i = n + 1
  BY <1>2
<1>5. KeysHaveOneOwner
  BY DEF CertInv
<1>6. \A i \in 1..n + 1 : certs'[i].number <= keys'
  BY <1>1, <1>4, <1>5 DEF KeysHaveOneOwner
<1>7. \A i, j \in 1..n + 1 : (i # j /\ certs'[i].number = certs'[j].number) =>
          certs'[i].handle = "SignedCertificate" /\ certs'[i].alg = certs'[j].alg
  BY <1>1, <1>4, <1>5 DEF KeysHaveOneOwner
<1>8. \A q \in csrs, i \in 1..n + 1 : certs'[i].number = q.number =>
          certs'[i].handle = "SignedCertificate" /\ certs'[i].alg = q.alg
  BY <1>1, <1>4, <1>5 DEF KeysHaveOneOwner
<1>9. KeysHaveOneOwner'
  BY <1>1, <1>5, <1>6, <1>7, <1>8 DEF KeysHaveOneOwner
<1> QED
  BY <1>1, <1>3, <1>9 DEF CertInv

\* A new request has a key that was just drawn.
LEMMA RequestInv ==
    ASSUME CertInv, NEW r \in Request, r.number = keys + 1, csrs' = csrs \cup {r},
           keys' = keys + 1, UNCHANGED certs
    PROVE  CertInv'
<1>1. /\ keys \in Nat /\ csrs \subseteq Request
      /\ \A i \in 1..Len(certs) : certs[i].number \in Nat
      /\ \A q \in csrs : q.number \in Nat
  BY CertTypes
<1>2. CertTypeOK' /\ ParentsSign' /\ HandlesTell'
  BY <1>1 DEF CertInv, CertTypeOK, ParentsSign, HandlesTell
<1>3. KeysHaveOneOwner
  BY DEF CertInv
<1>4. /\ \A i \in 1..Len(certs) : certs[i].number <= keys' /\ certs[i].number # keys + 1
      /\ \A q \in csrs : q.number <= keys' /\ q.number # keys + 1
      /\ r.number <= keys'
  BY <1>1, <1>3 DEF KeysHaveOneOwner
<1>5. \A q \in csrs' : q \in csrs \/ q = r
  OBVIOUS
<1>6. KeysHaveOneOwner'
  BY <1>3, <1>4, <1>5 DEF KeysHaveOneOwner
<1> QED
  BY <1>2, <1>6 DEF CertInv

\* The parameters of a certificate.
Params == [subject : Name, ca : BOOLEAN, limit : 0..Unlimited, eku : SUBSET Purpose, sans : SUBSET San]

\* The builders of parameters make well-formed ones.
LEMMA LeafParamsType ==
    ASSUME NEW sans \in SUBSET San, NEW purpose \in Purpose, NEW p \in LeafParams(sans, purpose)
    PROVE  p \in Params
<1>1. PICK cn \in sans : p = [subject |-> cn, ca |-> FALSE, limit |-> 0, eku |-> {purpose}, sans |-> sans]
  BY DEF LeafParams
<1>2. cn \in Name /\ 0 \in 0..Unlimited /\ {purpose} \in SUBSET Purpose
  BY CertGenerationAssumption DEF Name, Unlimited
<1> QED
  BY <1>1, <1>2 DEF Params

\* What build_ca_params makes.
LEMMA CaParamsType ==
    ASSUME NEW cn \in CommonName, NEW limit \in {0, Unlimited}
    PROVE  /\ CaParams(cn, limit) \in Params
           /\ CaParams(cn, limit).ca /\ CaParams(cn, limit).eku = {} /\ CaParams(cn, limit).limit = limit
<1>1. cn \in Name /\ limit \in 0..Unlimited
  BY CertGenerationAssumption DEF Name, Unlimited
<1> QED
  BY <1>1 DEF CaParams, Params

\* What build_with_spki makes of a builder.
LEMMA BuildWithSpkiType ==
    ASSUME NEW b \in Builders, NEW p \in BuildWithSpki(b)
    PROVE  p \in Params
<1>1. b \in Builder
  BY CertGenerationAssumption
<1>2. /\ b.cn \in CommonName \cup {"noName"} /\ b.sans \subseteq San /\ b.ca \in BOOLEAN
      /\ b.limit \in 0..Unlimited /\ b.eku \subseteq Purpose
  BY <1>1 DEF Builder
<1>3. PICK name \in b.sans \cup {b.cn, "noName"} :
         p = [subject |-> name, ca |-> b.ca, limit |-> b.limit, eku |-> b.eku, sans |-> b.sans]
  BY DEF BuildWithSpki
<1>4. name \in Name
  BY <1>2 DEF Name
<1> QED
  BY <1>2, <1>3, <1>4 DEF Params

\* A certificate that is signed with its own key.
LEMMA SelfSignedNew ==
    ASSUME CertInv, NEW p \in Params, NEW alg \in Algorithms,
           NEW handle \in {"CaCertifiedKey", "CertifiedKey"},
           handle = "CaCertifiedKey" => p.ca /\ p.eku = {} /\ p.limit = Unlimited
    PROVE  LET c == SelfSigned(p, Generate(alg), handle)
           IN  NewCert(c) /\ c.number = keys + 1
<1> DEFINE c == SelfSigned(p, Generate(alg), handle)
<1>1. /\ keys + 1 \in Nat /\ Len(certs) + 1 \in Nat
      /\ Spki(alg) \in SpkiName
  <2>1. keys \in Nat /\ Len(certs) \in Nat
    BY CertTypes
  <2> QED
    BY <2>1, SpkiIsName
<1>2. /\ p.subject \in Name /\ p.ca \in BOOLEAN /\ p.limit \in 0..Unlimited
      /\ p.eku \in SUBSET Purpose /\ p.sans \in SUBSET San
  BY DEF Params
<1>3. /\ c = [number |-> keys + 1, alg |-> alg, spki |-> Spki(alg), subject |-> p.subject,
              ca |-> p.ca, limit |-> p.limit, eku |-> p.eku, sans |-> p.sans, handle |-> handle,
              issuer |-> p.subject, signer |-> keys + 1, parent |-> Len(certs) + 1]
  BY DEF SelfSigned, Certificate, Generate
<1> HIDE DEF c
<1>4. c \in Issued
  BY <1>1, <1>2, <1>3 DEF Issued
<1>5. NewCert(c)
  BY <1>3, <1>4 DEF NewCert
<1> QED
  BY <1>3, <1>5 DEF c

\* A certificate that an authority signs.
LEMMA SignChildNew ==
    ASSUME CertInv, NEW p \in Params, NEW i \in Authorities,
           NEW number \in Nat, NEW alg \in Algorithms, NEW spki \in SpkiName,
           NEW handle \in {"CaCertifiedKey", "CertifiedKey", "SignedCertificate"},
           handle = "CaCertifiedKey" => p.ca /\ p.eku = {} /\ p.limit = 0,
           handle # "SignedCertificate" => spki = Spki(alg)
    PROVE  LET c == SignChild(p, [number |-> number, alg |-> alg, spki |-> spki], handle, i)
           IN  NewCert(c) /\ c.number = number /\ c.alg = alg /\ c.handle = handle
<1> DEFINE c == SignChild(p, [number |-> number, alg |-> alg, spki |-> spki], handle, i)
<1>1. /\ Len(certs) \in Nat /\ i \in 1..Len(certs) /\ i # Len(certs) + 1 /\ certs[i] \in Issued
  BY CertTypes DEF Authorities
<1>2. /\ p.subject \in Name /\ p.ca \in BOOLEAN /\ p.limit \in 0..Unlimited
      /\ p.eku \in SUBSET Purpose /\ p.sans \in SUBSET San
  BY DEF Params
<1>3. certs[i].subject \in Name /\ certs[i].number \in Nat
  BY <1>1, CertFields
<1>4. /\ c = [number |-> number, alg |-> alg, spki |-> spki, subject |-> p.subject,
              ca |-> p.ca, limit |-> p.limit, eku |-> p.eku, sans |-> p.sans, handle |-> handle,
              issuer |-> certs[i].subject, signer |-> certs[i].number, parent |-> i]
  BY DEF SignChild, Certificate
<1> HIDE DEF c
<1>5. c \in Issued
  BY <1>1, <1>2, <1>3, <1>4 DEF Issued
<1>6. NewCert(c)
  BY <1>1, <1>4, <1>5 DEF NewCert
<1> QED
  BY <1>4, <1>6 DEF c

\* The same for a key that was just drawn.
LEMMA FreshChildNew ==
    ASSUME CertInv, NEW p \in Params, NEW i \in Authorities, NEW alg \in Algorithms,
           NEW handle \in {"CaCertifiedKey", "CertifiedKey"},
           handle = "CaCertifiedKey" => p.ca /\ p.eku = {} /\ p.limit = 0
    PROVE  LET c == SignChild(p, Generate(alg), handle, i)
           IN  NewCert(c) /\ c.number = keys + 1
<1>1. keys + 1 \in Nat /\ Spki(alg) \in SpkiName
  <2>1. keys \in Nat
    BY CertTypes
  <2> QED
    BY <2>1, SpkiIsName
<1>2. Generate(alg) = [number |-> keys + 1, alg |-> alg, spki |-> Spki(alg)]
  BY DEF Generate
<1> DEFINE k == keys + 1
           s == Spki(alg)
<1>3. k \in Nat /\ s \in SpkiName
  BY <1>1
<1> HIDE DEF k, s
<1>4. LET c == SignChild(p, [number |-> k, alg |-> alg, spki |-> s], handle, i)
      IN  NewCert(c) /\ c.number = k
  BY <1>3, SignChildNew DEF s
<1> QED
  BY <1>2, <1>4 DEF k, s

\* Every function of the crate keeps the invariant.
LEMMA CertNextInv == CertInv /\ [CertNext]_certVars => CertInv'
<1> SUFFICES ASSUME CertInv, [CertNext]_certVars PROVE CertInv'
  OBVIOUS
<1>1. CASE UNCHANGED certVars
  BY <1>1 DEF certVars, CertInv, CertTypeOK, ParentsSign, HandlesTell, KeysHaveOneOwner
<1>2. ASSUME NEW cn \in CommonName, NEW alg \in CaAlgorithm, GenerateCa(cn, alg)
      PROVE  CertInv'
  <2> DEFINE p == CaParams(cn, Unlimited)
             c == SelfSigned(p, Generate(alg), "CaCertifiedKey")
  <2>1. p \in Params /\ p.ca /\ p.eku = {} /\ p.limit = Unlimited /\ alg \in Algorithms
    BY CaParamsType, CertGenerationAssumption
  <2> HIDE DEF p
  <2>2. NewCert(c) /\ c.number = keys + 1
    BY <2>1, SelfSignedNew
  <2>3. certs' = Append(certs, c) /\ keys' = keys + 1 /\ UNCHANGED csrs
    BY <1>2 DEF GenerateCa, Issue, p
  <2> HIDE DEF c
  <2> QED
    BY <2>2, <2>3, FreshCertInv
<1>3. ASSUME NEW cn \in CommonName, NEW alg \in CaAlgorithm, NEW i \in Authorities,
             GenerateIntermediateCa(cn, alg, i)
      PROVE  CertInv'
  <2> DEFINE p == CaParams(cn, 0)
             c == SignChild(p, Generate(alg), "CaCertifiedKey", i)
  <2>1. p \in Params /\ p.ca /\ p.eku = {} /\ p.limit = 0 /\ alg \in Algorithms
    BY CaParamsType, CertGenerationAssumption
  <2> HIDE DEF p
  <2>2. NewCert(c) /\ c.number = keys + 1
    BY <2>1, FreshChildNew
  <2>3. certs' = Append(certs, c) /\ keys' = keys + 1 /\ UNCHANGED csrs
    BY <1>3 DEF GenerateIntermediateCa, Issue, p
  <2> HIDE DEF c
  <2> QED
    BY <2>2, <2>3, FreshCertInv
<1>4. ASSUME NEW sans \in SUBSET San, NEW alg \in SigningAlgorithm, NEW i \in Authorities,
             GenerateCaSignedLeaf(sans, alg, i) \/ GenerateCaSignedClientCert(sans, alg, i)
      PROVE  CertInv'
  <2>0. PICK purpose \in Purpose : \E p \in LeafParams(sans, purpose) :
          /\ certs' = Append(certs, SignChild(p, Generate(alg), "CertifiedKey", i))
          /\ keys' = keys + 1 /\ UNCHANGED csrs
    BY <1>4 DEF GenerateCaSignedLeaf, GenerateCaSignedClientCert, Issue, Purpose
  <2>1. PICK p \in LeafParams(sans, purpose) :
          /\ certs' = Append(certs, SignChild(p, Generate(alg), "CertifiedKey", i))
          /\ keys' = keys + 1 /\ UNCHANGED csrs
    BY <2>0
  <2> DEFINE c == SignChild(p, Generate(alg), "CertifiedKey", i)
  <2>2. p \in Params /\ alg \in Algorithms
    BY LeafParamsType, CertGenerationAssumption
  <2>3. NewCert(c) /\ c.number = keys + 1
    BY <2>2, FreshChildNew
  <2> HIDE DEF c
  <2> QED
    BY <2>1, <2>3, FreshCertInv DEF c
<1>5. ASSUME NEW sans \in SUBSET San, NEW alg \in SigningAlgorithm, GenerateSelfSigned(sans, alg)
      PROVE  CertInv'
  <2>1. PICK p \in LeafParams(sans, "ServerAuth") :
          /\ certs' = Append(certs, SelfSigned(p, Generate(alg), "CertifiedKey"))
          /\ keys' = keys + 1 /\ UNCHANGED csrs
    BY <1>5 DEF GenerateSelfSigned, Issue
  <2> DEFINE c == SelfSigned(p, Generate(alg), "CertifiedKey")
  <2>2. p \in Params /\ alg \in Algorithms
    BY LeafParamsType, CertGenerationAssumption DEF Purpose
  <2>3. NewCert(c) /\ c.number = keys + 1
    BY <2>2, SelfSignedNew
  <2> HIDE DEF c
  <2> QED
    BY <2>1, <2>3, FreshCertInv DEF c
<1>6. ASSUME NEW b \in Builders, NEW alg \in CaAlgorithm, SelfSignWithBuilder(b, alg)
      PROVE  CertInv'
  <2>1. PICK p \in BuildWithSpki(b) :
          /\ certs' = Append(certs, SelfSigned(p, Generate(alg), "CertifiedKey"))
          /\ keys' = keys + 1 /\ UNCHANGED csrs
    BY <1>6 DEF SelfSignWithBuilder, Issue
  <2> DEFINE c == SelfSigned(p, Generate(alg), "CertifiedKey")
  <2>2. p \in Params /\ alg \in Algorithms
    BY BuildWithSpkiType, CertGenerationAssumption
  <2>3. NewCert(c) /\ c.number = keys + 1
    BY <2>2, SelfSignedNew
  <2> HIDE DEF c
  <2> QED
    BY <2>1, <2>3, FreshCertInv DEF c
<1>7. ASSUME NEW san \in San, NEW sans \in SUBSET San, NEW alg \in SigningAlgorithm, NEW oid \in Oid,
             csrs' = csrs \cup {[number |-> keys + 1, alg |-> alg, oid |-> oid, subject |-> san, sans |-> sans]},
             keys' = keys + 1, UNCHANGED certs
      PROVE  CertInv'
  <2> DEFINE r == [number |-> keys + 1, alg |-> alg, oid |-> oid, subject |-> san, sans |-> sans]
  <2>1. keys \in Nat /\ alg \in Algorithms
    BY CertTypes, CertGenerationAssumption
  <2>2. r \in Request /\ r.number = keys + 1
    BY <2>1 DEF Request
  <2> HIDE DEF r
  <2> QED
    BY <1>7, <2>2, RequestInv DEF r
<1>8. ASSUME NEW san \in San, NEW alg \in SigningAlgorithm, GenerateCsr(san, alg)
      PROVE  CertInv'
  <2>1. alg \in Algorithms
    BY CertGenerationAssumption
  <2>2. KeyType(alg).oid \in Oid
    BY <2>1 DEF Oid, Algorithms, KeyType, OxiEd25519Key, OxiEcdsaP256Key, OxiEcdsaP384Key,
                OxiRsa2048Key, OxiRsa4096Key
  <2>3. {san} \in SUBSET San
    OBVIOUS
  <2> QED
    BY <1>7, <1>8, <2>2, <2>3 DEF GenerateCsr
<1>9. ASSUME NEW san \in San, NEW sans \in SUBSET San, NEW alg \in SigningAlgorithm,
             NEW oid \in ForeignOids(alg), ReceiveForeignCsr(san, alg, oid, sans)
      PROVE  CertInv'
  <2>1. alg \in Algorithms
    BY CertGenerationAssumption
  <2>2. oid \in Oid
    BY <2>1 DEF Algorithms, ForeignOids, Oid
  <2> QED
    BY <1>7, <1>9, <2>2 DEF ReceiveForeignCsr
<1>10. ASSUME NEW r \in csrs, NEW i \in Authorities, SignCsr(r, i)
       PROVE  CertInv'
  <2> DEFINE p == [subject |-> r.subject, ca |-> FALSE, limit |-> 0, eku |-> {}, sans |-> r.sans]
  <2>1. PICK spki \in SignatureAlgorithmFromOid(r.oid) :
          /\ certs' = Append(certs, SignChild(p, [number |-> r.number, alg |-> r.alg, spki |-> spki],
                                              "SignedCertificate", i))
          /\ UNCHANGED <<csrs, keys>>
    BY <1>10 DEF SignCsr, Issue
  <2> DEFINE c == SignChild(p, [number |-> r.number, alg |-> r.alg, spki |-> spki], "SignedCertificate", i)
  <2>2. r.number \in Nat /\ r.alg \in Algorithms /\ r.subject \in San /\ r.sans \subseteq San
    BY CertTypes, RequestFields
  <2>3. p \in Params
    <3>1. r.subject \in Name /\ 0 \in 0..Unlimited
      BY <2>2, CertGenerationAssumption DEF Name, Unlimited
    <3> QED
      BY <2>2, <3>1 DEF Params
  <2>4. spki \in SpkiName
    BY DEF SignatureAlgorithmFromOid, SpkiName
  <2> HIDE DEF p
  <2>5. NewCert(c) /\ c.number = r.number /\ c.alg = r.alg /\ c.handle = "SignedCertificate"
    BY <2>2, <2>3, <2>4, SignChildNew
  <2> HIDE DEF c
  <2> QED
    BY <2>1, <2>5, SignedCertInv DEF c
<1> QED
  BY <1>1, <1>2, <1>3, <1>4, <1>5, <1>6, <1>8, <1>9, <1>10 DEF CertNext

(***************************************************************************)
(* Certificates are well formed, name their issuers rightly, and no key is *)
(* in two of them but by a request, in whatever order they are made.       *)
(***************************************************************************)
THEOREM CertInvariant == CertSpec => []CertInv
<1>1. CertInit => CertInv
  BY CertInitInv
<1>2. CertInv /\ [CertNext]_certVars => CertInv'
  BY CertNextInv
<1> QED
  BY <1>1, <1>2, PTL DEF CertSpec

-----------------------------------------------------------------------------
(* Path validation.                                                        *)

\* A set of numbers has a least one.
LEMMA LeastNumber ==
    ASSUME NEW T \in SUBSET Nat, T # {}
    PROVE  \E m \in T : \A n \in T : m <= n
<1>1. PICK m \in T : \A n \in T : ~(<<n, m>> \in OpToRel(<, Nat))
  BY NatLessThanWellFounded, WFMin
<1>2. \A n \in T : ~(n < m)
  BY <1>1 DEF OpToRel
<1> QED
  BY <1>2

\* A certificate and its issuer.
LEMMA ParentFacts ==
    ASSUME CertInv, NEW j \in 1..Len(certs)
    PROVE  LET p == certs[j].parent
           IN  /\ p \in 1..Len(certs)
               /\ certs[j].issuer = certs[p].subject
               /\ certs[j].signer = certs[p].number
               /\ p # j => certs[p].handle = "CaCertifiedKey"
               /\ certs[p].handle # "SignedCertificate"
               /\ certs[p].spki = Spki(certs[p].alg)
<1> DEFINE p == certs[j].parent
<1>1. p \in 1..j /\ certs[j].issuer = certs[p].subject /\ certs[j].signer = certs[p].number
      /\ (p # j => certs[p].handle = "CaCertifiedKey")
  BY DEF CertInv, ParentsSign
<1>2. Len(certs) \in Nat
  BY CertTypes
<1>3. p \in 1..Len(certs)
  BY <1>1, <1>2
<1>4. certs[p].handle # "SignedCertificate"
  <2>1. certs[j].handle = "SignedCertificate" => p # j
    BY DEF CertInv, HandlesTell
  <2> QED
    BY <1>1, <2>1
<1>5. certs[p].spki = Spki(certs[p].alg)
  BY <1>3, <1>4 DEF CertInv, HandlesTell
<1> QED
  BY <1>1, <1>3, <1>4, <1>5

\* Names may be shared, but only the issuer of a certificate vouches for it.
LEMMA VouchesIsParent ==
    ASSUME CertInv, NEW i \in 1..Len(certs), NEW j \in 1..Len(certs)
    PROVE  Vouches(i, j) <=> i = certs[j].parent
<1> DEFINE p == certs[j].parent
<1>1. /\ p \in 1..Len(certs)
      /\ certs[j].issuer = certs[p].subject
      /\ certs[j].signer = certs[p].number
      /\ certs[p].handle # "SignedCertificate"
      /\ certs[p].spki = Spki(certs[p].alg)
  BY ParentFacts
<1> HIDE DEF p
<1>2. ASSUME Vouches(i, j), i # p PROVE FALSE
  <2>1. certs[p].number = certs[i].number
    BY <1>1, <1>2 DEF Vouches
  <2>2. certs[p].handle = "SignedCertificate"
    BY <1>1, <1>2, <2>1 DEF CertInv, KeysHaveOneOwner
  <2> QED
    BY <1>1, <2>2
<1>3. ASSUME i = p PROVE Vouches(i, j)
  BY <1>1, <1>3 DEF Vouches
<1> QED
  BY <1>2, <1>3 DEF p

\* The authorities.
LEMMA AuthorityFacts ==
    ASSUME CertInv, NEW i \in Authorities
    PROVE  /\ i \in 1..Len(certs)
           /\ certs[i].ca /\ certs[i].eku = {}
           /\ certs[i].limit \in Nat
           /\ certs[i].limit >= 1 => certs[i].parent = i
<1>1. i \in 1..Len(certs) /\ certs[i].handle = "CaCertifiedKey"
  BY DEF Authorities
<1>2. /\ certs[i].ca /\ certs[i].eku = {}
      /\ certs[i].limit = IF certs[i].parent = i THEN Unlimited ELSE 0
  BY <1>1 DEF CertInv, HandlesTell
<1>3. Unlimited \in Nat
  BY CertGenerationAssumption DEF Unlimited
<1> QED
  BY <1>1, <1>2, <1>3

\* A path with its two ends.
LEMMA FullPath ==
    ASSUME NEW S, NEW leaf \in S, NEW anchor \in S, NEW n \in Nat, NEW path \in [1..n -> S]
    PROVE  LET full == <<leaf>> \o path \o <<anchor>>
           IN  /\ Len(path) = n
               /\ full[1] = leaf
               /\ \A k \in 1..n : full[k + 1] = path[k]
               /\ full[n + 2] = anchor
<1>1. path \in Seq(S) /\ Len(path) = n
  BY SeqDef
<1>2. <<leaf>> \in Seq(S) /\ <<anchor>> \in Seq(S) /\ Len(<<leaf>>) = 1 /\ Len(<<anchor>>) = 1
      /\ <<leaf>>[1] = leaf /\ <<anchor>>[1] = anchor
  OBVIOUS
<1> DEFINE a == <<leaf>>  z == <<anchor>>  b == a \o path
<1> HIDE DEF a, z
<1>3. /\ b \in Seq(S) /\ Len(b) = n + 1
      /\ \A i \in 1..n + 1 : b[i] = IF i <= 1 THEN a[i] ELSE path[i - 1]
  BY <1>1, <1>2, ConcatProperties DEF a, z
<1> HIDE DEF b
<1>4. \A i \in 1..n + 2 : (b \o z)[i] = IF i <= n + 1 THEN b[i] ELSE z[i - (n + 1)]
  BY <1>2, <1>3, ConcatProperties DEF z
<1>5. (b \o z)[1] = leaf
  BY <1>2, <1>3, <1>4 DEF a
<1>6. \A k \in 1..n : (b \o z)[k + 1] = path[k]
  BY <1>3, <1>4
<1>7. (b \o z)[n + 2] = anchor
  <2>1. (b \o z)[n + 2] = z[1]
    <3> DEFINE m == n + 2
    <3>1. m \in 1..n + 2 /\ ~(m <= n + 1) /\ m - (n + 1) = 1
      OBVIOUS
    <3> HIDE DEF m
    <3>2. (b \o z)[m] = z[m - (n + 1)]
      BY <1>4, <3>1
    <3> QED
      BY <3>1, <3>2 DEF m
  <2> QED
    BY <1>2, <2>1 DEF z
<1> QED
  BY <1>1, <1>5, <1>6, <1>7 DEF a, b, z

\* Whatever verifies with authorities in between was promised: the second of them is
\* a root, and so are all that follow.
LEMMA VerifiedIsPromised ==
    ASSUME CertInv, NEW leaf \in 1..Len(certs), NEW anchor \in 1..Len(certs), NEW purpose,
           NEW presented \in SUBSET Authorities, IsFiniteSet(presented),
           Verifies(leaf, presented, anchor, purpose)
    PROVE  Promised(leaf, anchor, purpose)
<1>1. Cardinality(presented) \in Nat
  BY FS_CardinalityType
<1>2. PICK path \in Paths(presented), name \in San : ValidPath(leaf, path, anchor, purpose, name)
  BY DEF Verifies
<1>3. PICK n \in Nat : path \in [1..n -> presented]
  BY <1>1 DEF Paths
<1> DEFINE S == 1..Len(certs)
           full == <<leaf>> \o path \o <<anchor>>
           Parent(i) == certs[i].parent
<1>4. presented \subseteq S
  BY DEF Authorities
<1>5. path \in [1..n -> S]
  BY <1>3, <1>4
<1>6. /\ Len(path) = n
      /\ full[1] = leaf
      /\ \A k \in 1..n : full[k + 1] = path[k]
      /\ full[n + 2] = anchor
  <2> HIDE DEF S
  <2>1. leaf \in S /\ anchor \in S
    BY DEF S
  <2> QED
    BY <1>5, <2>1, FullPath
<1> HIDE DEF full
<1>7. /\ name \in certs[leaf].sans
      /\ \A k \in 1..n + 1 : Vouches(full[k + 1], full[k])
      /\ certs[leaf].eku = {} \/ purpose \in certs[leaf].eku
      /\ \A k \in 1..n : certs[path[k]].limit >= k - 1
  <2>1. \A k \in 1..n + 1 : /\ Vouches(full[k + 1], full[k])
                            /\ certs[full[k]].eku = {} \/ purpose \in certs[full[k]].eku
    BY <1>2, <1>6 DEF ValidPath, full
  <2>2. name \in certs[leaf].sans /\ \A k \in 1..n : certs[path[k]].limit >= k - 1
    BY <1>2, <1>6 DEF ValidPath
  <2>3. 1 \in 1..n + 1
    OBVIOUS
  <2> QED
    BY <1>6, <2>1, <2>2, <2>3
<1>8. \A k \in 1..n + 2 : full[k] \in S
  <2> SUFFICES ASSUME NEW k \in 1..n + 2 PROVE full[k] \in S
    OBVIOUS
  <2>1. CASE k = 1
    BY <1>6, <2>1
  <2>2. CASE k = n + 2
    BY <1>6, <2>2
  <2>3. CASE k # 1 /\ k # n + 2
    <3>1. k - 1 \in 1..n /\ (k - 1) + 1 = k
      BY <2>3
    <3> QED
      BY <1>5, <1>6, <3>1
  <2> QED
    BY <2>1, <2>2, <2>3
<1>9. \A k \in 1..n + 1 : full[k + 1] = Parent(full[k])
  <2> SUFFICES ASSUME NEW k \in 1..n + 1 PROVE full[k + 1] = Parent(full[k])
    OBVIOUS
  <2>1. full[k] \in S /\ full[k + 1] \in S
    BY <1>8
  <2> QED
    BY <1>7, <2>1, VouchesIsParent
<1>10. full[2] = Parent(leaf)
  BY <1>6, <1>9
<1>11. anchor \in {Parent(leaf), Parent(Parent(leaf))}
  <2>1. CASE n = 0
    BY <1>6, <1>10, <2>1
  <2>2. CASE n # 0
    <3>1. full[3] = Parent(Parent(leaf))
      <4>1. 2 \in 1..n + 1 /\ 2 + 1 = 3
        BY <2>2
      <4> QED
        BY <1>9, <1>10, <4>1
    <3> DEFINE T == {k \in 3..n + 2 : full[k] # full[3]}
    <3>2. ASSUME T # {} PROVE FALSE
      <4>1. T \in SUBSET Nat
        OBVIOUS
      <4> HIDE DEF T
      <4>2. PICK m \in T : \A k \in T : m <= k
        BY <3>2, <4>1, LeastNumber
      <4>3. m \in 4..n + 2 /\ full[m] # full[3]
        <5>1. m \in 3..n + 2 /\ full[m] # full[3]
          BY DEF T
        <5> QED
          BY <5>1
      <4>4. m - 1 \in 3..n + 1 /\ (m - 1) + 1 = m /\ m - 2 \in 1..n /\ (m - 2) + 1 = m - 1
        BY <4>3
      <4>5. full[m - 1] = full[3]
        <5>1. m - 1 \notin T
          BY <4>2, <4>4
        <5> QED
          BY <4>4, <5>1 DEF T
      <4>6. full[m] = Parent(full[m - 1]) /\ full[m - 1] = path[m - 2]
        BY <1>6, <1>9, <4>4
      <4>7. path[m - 2] \in Authorities
        BY <1>3, <4>4
      <4>8. certs[path[m - 2]].limit >= (m - 2) - 1
        BY <1>7, <4>4
      <4>9. certs[path[m - 2]].limit >= 1
        <5>1. certs[path[m - 2]].limit \in Nat
          BY <4>7, AuthorityFacts
        <5> QED
          BY <4>3, <4>8, <5>1
      <4>10. Parent(path[m - 2]) = path[m - 2]
        BY <4>7, <4>9, AuthorityFacts
      <4> QED
        BY <4>3, <4>5, <4>6, <4>10
    <3>3. n + 2 \in 3..n + 2
      BY <2>2
    <3> QED
      BY <1>6, <3>1, <3>2, <3>3
  <2> QED
    BY <2>1, <2>2
<1>12. ~certs[leaf].ca
  BY DEF Verifies
<1> QED
  BY <1>7, <1>11, <1>12 DEF Promised

\* Whatever was promised verifies, if the issuer is trusted or presented.
LEMMA PromisedVerifies ==
    ASSUME CertInv, NEW leaf \in 1..Len(certs), NEW anchor \in 1..Len(certs), NEW purpose,
           NEW presented \in SUBSET Authorities, IsFiniteSet(presented),
           Promised(leaf, anchor, purpose),
           certs[leaf].parent = anchor \/ certs[leaf].parent \in presented
    PROVE  Verifies(leaf, presented, anchor, purpose)
<1> DEFINE S == 1..Len(certs)
           p == certs[leaf].parent
<1>1. Cardinality(presented) \in Nat /\ (presented # {} => Cardinality(presented) >= 1)
  BY FS_CardinalityType, FS_EmptySet
<1>2. PICK name \in San : name \in certs[leaf].sans
  <2>1. certs[leaf] \in Issued
    BY CertTypes
  <2>2. certs[leaf].sans \subseteq San
    BY <2>1, CertFields
  <2> QED
    BY <2>2 DEF Promised
<1>3. /\ ~certs[leaf].ca
      /\ certs[leaf].eku = {} \/ purpose \in certs[leaf].eku
      /\ anchor \in {p, certs[p].parent}
  BY DEF Promised
<1>4. p \in S
  BY ParentFacts
<1>5. CASE p = anchor
  <2> DEFINE path == <<>>
             full == <<leaf>> \o path \o <<anchor>>
  <2>1. full[1] = leaf /\ full[2] = anchor /\ Len(path) = 0
    <3>1. path \in [1..0 -> S] /\ leaf \in S /\ anchor \in S
      OBVIOUS
    <3> HIDE DEF S, path
    <3>2. Len(path) = 0 /\ full[1] = leaf /\ full[0 + 2] = anchor
      BY <3>1, FullPath
    <3> QED
      BY <3>2
  <2>2. Vouches(anchor, leaf)
    BY <1>5, VouchesIsParent
  <2>3. ValidPath(leaf, path, anchor, purpose, name)
    <3>1. \A n \in 1..Len(path) + 1 : n = 1 /\ full[n] = leaf /\ full[n + 1] = anchor
      BY <2>1
    <3> HIDE DEF full
    <3>2. \A n \in 1..Len(path) + 1 :
             /\ Vouches(full[n + 1], full[n])
             /\ certs[full[n]].eku = {} \/ purpose \in certs[full[n]].eku
      BY <1>3, <2>2, <3>1
    <3>3. \A n \in 1..Len(path) : certs[path[n]].ca /\ certs[path[n]].limit >= n - 1
      BY <2>1
    <3> QED
      BY <1>2, <3>2, <3>3 DEF ValidPath, full
  <2>4. path \in Paths(presented)
    <3>1. path \in [1..0 -> presented] /\ 0 \in 0..Cardinality(presented)
      BY <1>1
    <3> QED
      BY <3>1 DEF Paths
  <2> QED
    BY <1>2, <1>3, <2>3, <2>4 DEF Verifies
<1>6. CASE p # anchor
  <2>1. p \in presented /\ p \in Authorities /\ anchor = certs[p].parent
    BY <1>3, <1>6
  <2> DEFINE path == <<p>>
             full == <<leaf>> \o path \o <<anchor>>
  <2>2. full[1] = leaf /\ full[2] = p /\ full[3] = anchor /\ Len(path) = 1 /\ path[1] = p
    <3>1. path \in [1..1 -> S] /\ leaf \in S /\ anchor \in S /\ path[1] = p
      BY <1>4
    <3> HIDE DEF S, path
    <3> DEFINE n == 1
    <3>2. n \in Nat /\ path \in [1..n -> S]
      BY <3>1
    <3> HIDE DEF n
    <3>3. /\ Len(path) = n /\ full[1] = leaf /\ full[n + 2] = anchor
          /\ \A k \in 1..n : full[k + 1] = path[k]
      BY <3>1, <3>2, FullPath
    <3> HIDE DEF full
    <3>4. full[1 + 2] = anchor /\ full[1 + 1] = path[1]
      BY <3>3 DEF n
    <3> QED
      BY <3>1, <3>3, <3>4 DEF n
  <2>3. Vouches(p, leaf) /\ Vouches(anchor, p)
    BY <1>4, <2>1, VouchesIsParent
  <2>4. certs[p].ca /\ certs[p].eku = {} /\ certs[p].limit \in Nat
    BY <2>1, AuthorityFacts
  <2>5. ValidPath(leaf, path, anchor, purpose, name)
    <3>1. full[1] = leaf /\ full[2] = p /\ full[3] = anchor
      BY <2>2
    <3>2. \A n \in 1..Len(path) + 1 : n = 1 \/ n = 2
      BY <2>2
    <3> HIDE DEF full, p
    <3>3. \A n \in 1..Len(path) + 1 :
             /\ Vouches(full[n + 1], full[n])
             /\ certs[full[n]].eku = {} \/ purpose \in certs[full[n]].eku
      <4> SUFFICES ASSUME NEW n \in 1..Len(path) + 1
                   PROVE  /\ Vouches(full[n + 1], full[n])
                          /\ certs[full[n]].eku = {} \/ purpose \in certs[full[n]].eku
        OBVIOUS
      <4>1. CASE n = 1
        BY <1>3, <2>3, <3>1, <4>1
      <4>2. CASE n = 2
        BY <2>3, <2>4, <3>1, <4>2
      <4> QED
        BY <3>2, <4>1, <4>2
    <3>4. \A n \in 1..Len(path) : certs[path[n]].ca /\ certs[path[n]].limit >= n - 1
      <4>1. \A n \in 1..Len(path) : n = 1
        BY <2>2
      <4> HIDE DEF path
      <4> QED
        BY <2>2, <2>4, <4>1
    <3> QED
      BY <1>2, <3>3, <3>4 DEF ValidPath, full
  <2>6. path \in Paths(presented)
    <3>1. path \in [1..1 -> presented]
      BY <2>1
    <3>2. 1 \in 0..Cardinality(presented)
      BY <1>1, <2>1
    <3> QED
      BY <3>1, <3>2 DEF Paths
  <2> QED
    BY <1>2, <1>3, <2>5, <2>6 DEF Verifies
<1> QED
  BY <1>5, <1>6

\* There are finitely many authorities.
LEMMA FiniteAuthorities ==
    ASSUME CertInv
    PROVE  IsFiniteSet(Authorities)
<1>1. Len(certs) \in Nat
  BY CertTypes
<1>2. IsFiniteSet(1..Len(certs))
  BY <1>1, FS_Interval
<1> QED
  BY <1>2, FS_Subset DEF Authorities

(***************************************************************************)
(* For any number of authorities, names and algorithms: a leaf verifies    *)
(* below its issuer and the issuer of that, and below nothing else.        *)
(***************************************************************************)
THEOREM LeavesVerifyAsPromised == CertSpec => []IssuedChainsVerify
<1>1. CertInv => IssuedChainsVerify
  <2> SUFFICES ASSUME CertInv, NEW leaf \in 1..Len(certs), NEW anchor \in 1..Len(certs),
                      NEW purpose \in Purpose
               PROVE  Verifies(leaf, Authorities, anchor, purpose) <=> Promised(leaf, anchor, purpose)
    BY DEF IssuedChainsVerify
  <2>1. IsFiniteSet(Authorities)
    BY FiniteAuthorities
  <2>2. ASSUME Verifies(leaf, Authorities, anchor, purpose) PROVE Promised(leaf, anchor, purpose)
    BY <2>1, <2>2, VerifiedIsPromised
  <2>3. ASSUME Promised(leaf, anchor, purpose) PROVE Verifies(leaf, Authorities, anchor, purpose)
    <3> DEFINE p == certs[leaf].parent
    <3>1. /\ p \in 1..Len(certs)
          /\ p # leaf => certs[p].handle = "CaCertifiedKey"
      BY ParentFacts
    <3>2. p = anchor \/ p \in Authorities
      <4>1. CASE p = leaf
        BY <2>3, <4>1 DEF Promised
      <4>2. CASE p # leaf
        BY <3>1, <4>2 DEF Authorities
      <4> QED
        BY <4>1, <4>2
    <3> QED
      BY <2>1, <2>3, <3>2, PromisedVerifies
  <2> QED
    BY <2>2, <2>3
<1> QED
  BY <1>1, CertInvariant, PTL

-----------------------------------------------------------------------------
(* Handshakes.                                                             *)

\* The first state satisfies the invariant.
LEMMA AuthInitInv == AuthInit => AuthInv
<1> SUFFICES ASSUME AuthInit PROVE AuthInv
  OBVIOUS
<1>1. CertInv
  BY CertInitInv DEF AuthInit
<1>2. identity = NoIdentity /\ hello = NoHello /\ answer = NoAnswer /\ hello.phase = "idle"
  BY DEF AuthInit, NoHello
<1> QED
  BY <1>1, <1>2 DEF AuthInv, IdentityIsHeld, HelloIsSent, AnswerIsChosen, VerdictIsKept

\* Before there is a server there is no client, and before a client no answer.
LEMMA PhasesInOrder ==
    ASSUME AuthInv
    PROVE  /\ identity = NoIdentity => hello = NoHello
           /\ hello = NoHello => answer = NoAnswer
           /\ answer = NoAnswer => answer.phase = "idle"
           /\ hello = NoHello => hello.phase = "idle"
  BY DEF AuthInv, HelloIsSent, AnswerIsChosen, NoHello, NoAnswer

\* Without a client most of the invariant says nothing.
LEMMA NothingSent ==
    ASSUME CertInv', IdentityIsHeld', hello' = NoHello, answer' = NoAnswer
    PROVE  AuthInv'
  BY DEF AuthInv, HelloIsSent, AnswerIsChosen, VerdictIsKept, NoHello

\* The verdict on a chain depends on the anchor only.
LEMMA SameVerdict ==
    ASSUME UNCHANGED <<certs, identity>>, hello'.anchor = hello.anchor
    PROVE  ChainVerifies' <=> ChainVerifies
  BY DEF ChainVerifies, Verifies, ValidPath, Vouches

\* The server's side of the invariant is about its configuration.
LEMMA SameIdentity ==
    ASSUME IdentityIsHeld, UNCHANGED <<certVars, identity>>
    PROVE  IdentityIsHeld'
  BY DEF IdentityIsHeld, Authorities, HeldKeys, certVars

\* The same holds for the certificates.
LEMMA SameCerts ==
    ASSUME CertInv, UNCHANGED certVars
    PROVE  CertInv'
  BY CertNextInv

\* A configured server holds what it was given.
LEMMA ServerConfigInv ==
    ASSUME AuthInv, NEW leaf \in 1..Len(certs), NEW q \in Intermediates, NEW key \in HeldKeys,
           NEW format \in KeyFormat, ServerConfig(leaf, q, key, format)
    PROVE  AuthInv'
<1>1. CertInv /\ CertInv'
  BY SameCerts DEF AuthInv, ServerConfig
<1>2. hello' = NoHello /\ answer' = NoAnswer
  BY PhasesInOrder DEF ServerConfig
<1>3. PICK kind \in AnySupportedType(key.alg, format) :
         identity' = [chain |-> Chain(leaf, q), number |-> key.number, kind |-> kind]
  BY DEF ServerConfig
<1>4. kind = Spki(key.alg)
  BY DEF AnySupportedType, Decodes
<1>5. PICK n \in Nat : q \in [1..n -> Authorities]
  <2>1. Cardinality(Authorities) \in Nat
    BY <1>1, FiniteAuthorities, FS_CardinalityType
  <2> QED
    BY <2>1 DEF Intermediates
<1> DEFINE S == 1..Len(certs)
           c == Chain(leaf, q)
<1>6. q \in Seq(S) /\ Len(q) = n /\ \A k \in 1..n : q[k] \in Authorities
  BY <1>5, SeqDef DEF Authorities
<1>7. <<leaf>> \in Seq(S) /\ Len(<<leaf>>) = 1
  OBVIOUS
<1>8. /\ c \in Seq(S) /\ Len(c) = n + 1
      /\ \A k \in 2..n + 1 : c[k] = q[k - 1]
  <2> DEFINE a == <<leaf>>
  <2>1. a \in Seq(S) /\ Len(a) = 1 /\ c = a \o q
    BY <1>7 DEF Chain
  <2> HIDE DEF S, a, c
  <2>2. /\ a \o q \in Seq(S) /\ Len(a \o q) = Len(a) + Len(q)
        /\ \A k \in 1..Len(a) + Len(q) :
              (a \o q)[k] = IF k <= Len(a) THEN a[k] ELSE q[k - Len(a)]
    <3>1. q \in Seq(S)
      BY <1>6
    <3> QED
      BY <2>1, <3>1, ConcatProperties
  <2>3. Len(a) = 1 /\ Len(q) = n
    BY <1>6, <2>1
  <2> QED
    BY <2>1, <2>2, <2>3
<1>9. c # <<>>
  BY <1>8
<1>10. \A k \in 2..Len(c) : c[k] \in Authorities
  <2> SUFFICES ASSUME NEW k \in 2..Len(c) PROVE c[k] \in Authorities
    OBVIOUS
  <2>1. k \in 2..n + 1 /\ k - 1 \in 1..n
    BY <1>8
  <2> QED
    BY <1>6, <1>8, <2>1
<1> HIDE DEF c
<1>11. IdentityIsHeld'
  <2>1. certs' = certs /\ csrs' = csrs
    BY DEF ServerConfig, certVars
  <2>2. Authorities' = Authorities /\ HeldKeys' = HeldKeys
    BY <2>1 DEF Authorities, HeldKeys
  <2>3. identity'.chain = c /\ identity'.number = key.number /\ identity'.kind = kind
    BY <1>3 DEF c
  <2> QED
    BY <1>4, <1>8, <1>9, <1>10, <2>1, <2>2, <2>3 DEF IdentityIsHeld
<1> QED
  BY <1>1, <1>2, <1>11, NothingSent

\* A client starts without an answer.
LEMMA ConnectInv ==
    ASSUME AuthInv, NEW version \in {"TLSv1_2", "TLSv1_3"}, NEW offered \in Offered,
           NEW anchor \in 1..Len(certs), Connect(version, offered, anchor)
    PROVE  AuthInv'
<1>1. CertInv' /\ IdentityIsHeld'
  BY SameCerts, SameIdentity DEF AuthInv, Connect
<1>2. answer' = NoAnswer /\ identity' # NoIdentity /\ certs' = certs
  BY PhasesInOrder DEF Connect, certVars
<1>3. hello' = [phase |-> "sent", version |-> version, offered |-> offered, anchor |-> anchor]
  BY DEF Connect
<1>4. HelloIsSent' /\ hello'.phase = "sent"
  BY <1>2, <1>3 DEF HelloIsSent
<1> QED
  BY <1>1, <1>2, <1>4 DEF AuthInv, AnswerIsChosen, VerdictIsKept

\* The server answers with a scheme of its choice.
LEMMA AnswerInv ==
    ASSUME AuthInv, Answer
    PROVE  AuthInv'
<1>1. CertInv' /\ IdentityIsHeld'
  BY SameCerts, SameIdentity DEF AuthInv, Answer
<1>2. certs' = certs /\ identity' = identity /\ hello' = hello /\ hello.phase = "sent"
  BY DEF Answer, certVars
<1>3. hello # NoHello
  BY <1>2 DEF NoHello
<1>4. HelloIsSent'
  BY <1>2 DEF AuthInv, HelloIsSent
<1> DEFINE schemes == ChooseScheme(identity.kind, Admitted(hello.version, identity.kind, hello.offered))
<1>5. answer' = IF schemes = {} THEN [phase |-> "failed"]
                ELSE LET scheme == CHOOSE s \in schemes : TRUE
                     IN  [phase |-> "signed", scheme |-> scheme,
                          signature |-> Signature(identity.number, identity.kind, scheme)]
  BY DEF Answer
<1> HIDE DEF schemes
<1>6. \/ answer'.phase = "failed" /\ schemes = {}
      \/ /\ answer'.phase = "signed"
         /\ answer'.scheme \in schemes
         /\ answer'.signature = Signature(identity.number, identity.kind, answer'.scheme)
  BY <1>5
<1>7. AnswerIsChosen'
  BY <1>2, <1>3, <1>6 DEF AnswerIsChosen, schemes
<1>8. VerdictIsKept'
  BY <1>2 DEF VerdictIsKept
<1> QED
  BY <1>1, <1>4, <1>7, <1>8 DEF AuthInv

\* The client keeps its verdict.
LEMMA VerifyInv ==
    ASSUME AuthInv, Verify
    PROVE  AuthInv'
<1>1. CertInv' /\ IdentityIsHeld'
  BY SameCerts, SameIdentity DEF AuthInv, Verify
<1>2. certs' = certs /\ identity' = identity /\ answer' = answer
      /\ hello.phase = "sent" /\ answer.phase = "signed"
  BY DEF Verify, certVars
<1>3. hello # NoHello
  BY <1>2 DEF NoHello
<1>4. hello \in [phase : {"sent", "connected", "failed"}, version : {"TLSv1_2", "TLSv1_3"},
                 offered : Offered, anchor : 1..Len(certs)]
      /\ identity # NoIdentity
  BY <1>3 DEF AuthInv, HelloIsSent
<1>5. hello' = [hello EXCEPT !.phase =
                  IF ChainVerifies /\ SignatureVerifies THEN "connected" ELSE "failed"]
  BY DEF Verify, ChainVerifies, SignatureVerifies
<1> DEFINE verdict == IF ChainVerifies /\ SignatureVerifies THEN "connected" ELSE "failed"
<1>6. verdict \in {"connected", "failed"} /\ (verdict = "connected" <=> ChainVerifies /\ SignatureVerifies)
  OBVIOUS
<1> HIDE DEF verdict
<1>7. /\ hello' \in [phase : {"sent", "connected", "failed"}, version : {"TLSv1_2", "TLSv1_3"},
                     offered : Offered, anchor : 1..Len(certs)]
      /\ hello'.phase = verdict /\ hello'.version = hello.version
      /\ hello'.offered = hello.offered /\ hello'.anchor = hello.anchor
  BY <1>4, <1>5, <1>6 DEF verdict
<1>8. hello' # NoHello
  BY <1>6, <1>7 DEF NoHello
<1>9. HelloIsSent'
  BY <1>2, <1>4, <1>7 DEF HelloIsSent
<1>10. AnswerIsChosen'
  BY <1>2, <1>3, <1>7, <1>8 DEF AuthInv, AnswerIsChosen
<1>11. VerdictIsKept'
  <2>1. ChainVerifies' <=> ChainVerifies
    BY <1>2, <1>7, SameVerdict
  <2>2. SignatureVerifies' <=> SignatureVerifies
    BY <1>2, <1>7 DEF SignatureVerifies
  <2> QED
    BY <1>2, <1>6, <1>7, <2>1, <2>2 DEF VerdictIsKept
<1> QED
  BY <1>1, <1>9, <1>10, <1>11 DEF AuthInv

\* Every step keeps the invariant.
LEMMA AuthNextInv == AuthInv /\ [AuthNext]_authVars => AuthInv'
<1> SUFFICES ASSUME AuthInv, [AuthNext]_authVars PROVE AuthInv'
  OBVIOUS
<1>1. CASE identity = NoIdentity /\ CertNext /\ UNCHANGED handshakeVars
  <2>1. CertInv'
    BY <1>1, CertNextInv DEF AuthInv
  <2>2. identity' = NoIdentity /\ hello' = NoHello /\ answer' = NoAnswer
    BY <1>1, PhasesInOrder DEF handshakeVars
  <2>3. IdentityIsHeld'
    BY <2>2 DEF IdentityIsHeld, NoIdentity
  <2> QED
    BY <2>1, <2>2, <2>3, NothingSent
<1>2. CASE UNCHANGED authVars
  <2>1. UNCHANGED certVars /\ UNCHANGED <<certs, identity, hello, answer>>
    BY <1>2 DEF authVars, handshakeVars, certVars
  <2>2. CertInv' /\ IdentityIsHeld'
    BY <2>1, SameCerts, SameIdentity DEF AuthInv
  <2>3. (ChainVerifies' <=> ChainVerifies) /\ (SignatureVerifies' <=> SignatureVerifies)
    BY <2>1, SameVerdict DEF SignatureVerifies
  <2>4. HelloIsSent' /\ AnswerIsChosen' /\ VerdictIsKept'
    BY <2>1, <2>3 DEF AuthInv, HelloIsSent, AnswerIsChosen, VerdictIsKept
  <2> QED
    BY <2>2, <2>4 DEF AuthInv
<1> QED
  BY <1>1, <1>2, ServerConfigInv, ConnectInv, AnswerInv, VerifyInv DEF AuthNext

\* A server's identity stays what its loader made of it, and the client's verdict is
\* the one on the certificates as they are.
THEOREM AuthInvariant == AuthSpec => []AuthInv
<1>1. AuthInit => AuthInv
  BY AuthInitInv
<1>2. AuthInv /\ [AuthNext]_authVars => AuthInv'
  BY AuthNextInv
<1> QED
  BY <1>1, <1>2, PTL DEF AuthSpec

\* What a configured server presents.
LEMMA PresentedFacts ==
    ASSUME AuthInv, hello # NoHello
    PROVE  LET presented == {identity.chain[n] : n \in 2..Len(identity.chain)}
           IN  /\ identity.chain[1] \in 1..Len(certs)
               /\ hello.anchor \in 1..Len(certs)
               /\ presented \in SUBSET Authorities
               /\ IsFiniteSet(presented)
<1> DEFINE presented == {identity.chain[n] : n \in 2..Len(identity.chain)}
<1>1. identity # NoIdentity /\ hello.anchor \in 1..Len(certs)
  BY DEF AuthInv, HelloIsSent
<1>2. /\ identity.chain \in Seq(1..Len(certs)) /\ identity.chain # <<>>
      /\ \A n \in 2..Len(identity.chain) : identity.chain[n] \in Authorities
  BY <1>1 DEF AuthInv, IdentityIsHeld
<1>3. identity.chain[1] \in 1..Len(certs)
  BY <1>2
<1>4. presented \in SUBSET Authorities
  BY <1>2
<1>5. IsFiniteSet(presented)
  BY <1>4, FiniteAuthorities, FS_Subset DEF AuthInv
<1> QED
  BY <1>1, <1>3, <1>4, <1>5

(***************************************************************************)
(* Whatever chain, key and anchor were put together: a client that         *)
(* connected talks to the holder of the leaf's key, and the leaf was       *)
(* issued for servers below the client's anchor.                           *)
(***************************************************************************)
THEOREM ServersHoldTheirKeys == AuthSpec => []ConnectedServersHoldTheKey
<1>1. AuthInv => ConnectedServersHoldTheKey
  <2> SUFFICES ASSUME AuthInv, hello.phase = "connected"
               PROVE  LET leaf == identity.chain[1]
                      IN  /\ identity.number = certs[leaf].number
                          /\ certs[leaf].spki = Spki(certs[leaf].alg)
                          /\ Promised(leaf, hello.anchor, "ServerAuth")
    BY DEF ConnectedServersHoldTheKey
  <2> DEFINE leaf == identity.chain[1]
             presented == {identity.chain[n] : n \in 2..Len(identity.chain)}
  <2>1. hello # NoHello
    BY DEF NoHello
  <2>2. answer.phase = "signed" /\ ChainVerifies /\ SignatureVerifies
    BY DEF AuthInv, VerdictIsKept
  <2>3. answer # NoAnswer
    BY <2>2 DEF NoAnswer
  <2>4. answer.signature = Signature(identity.number, identity.kind, answer.scheme)
    BY <2>2, <2>3 DEF AuthInv, AnswerIsChosen
  <2>5. answer.signature.number = identity.number
    BY <2>4 DEF Signature
  <2>6. PICK n \in 1..Len(Mapping(answer.scheme)) :
          VerifySignature(Mapping(answer.scheme)[n], certs[leaf], answer.signature)
    BY <2>2 DEF SignatureVerifies, VerifyHandshakeSignature
  <2>7. identity.number = certs[leaf].number /\ certs[leaf].spki = Spki(certs[leaf].alg)
    BY <2>5, <2>6 DEF VerifySignature
  <2>8. /\ leaf \in 1..Len(certs) /\ hello.anchor \in 1..Len(certs)
        /\ presented \in SUBSET Authorities /\ IsFiniteSet(presented)
    BY <2>1, PresentedFacts
  <2>9. Verifies(leaf, presented, hello.anchor, "ServerAuth")
    BY <2>2 DEF ChainVerifies
  <2> HIDE DEF leaf, presented
  <2>10. Promised(leaf, hello.anchor, "ServerAuth")
    BY <2>8, <2>9, VerifiedIsPromised DEF AuthInv
  <2> QED
    BY <2>7, <2>10 DEF leaf
<1> QED
  BY <1>1, AuthInvariant, PTL

\* ALL_RSA_SCHEMES as a set.
LEMMA RsaSchemeSet ==
    {AllRsaSchemes[n] : n \in 1..Len(AllRsaSchemes)} =
        {"RSA_PSS_SHA512", "RSA_PSS_SHA384", "RSA_PSS_SHA256",
         "RSA_PKCS1_SHA512", "RSA_PKCS1_SHA384", "RSA_PKCS1_SHA256"}
<1>1. Len(AllRsaSchemes) = 6
  BY DEF AllRsaSchemes
<1>2. /\ AllRsaSchemes[1] = "RSA_PSS_SHA512" /\ AllRsaSchemes[2] = "RSA_PSS_SHA384"
      /\ AllRsaSchemes[3] = "RSA_PSS_SHA256" /\ AllRsaSchemes[4] = "RSA_PKCS1_SHA512"
      /\ AllRsaSchemes[5] = "RSA_PKCS1_SHA384" /\ AllRsaSchemes[6] = "RSA_PKCS1_SHA256"
  BY DEF AllRsaSchemes
<1>3. \A n \in 1..6 : n = 1 \/ n = 2 \/ n = 3 \/ n = 4 \/ n = 5 \/ n = 6
  OBVIOUS
<1> QED
  BY <1>1, <1>2, <1>3

\* The first verifier for each of the schemes expects what the key signs with it.
AllFit(schemes, kind, number) ==
    \A s \in schemes : /\ Len(Mapping(s)) >= 1
                       /\ Mapping(s)[1][1] = kind
                       /\ Mapping(s)[1][2] = Signature(number, kind, s).form

\* For every kind of key, choose_scheme finds a scheme in a full offer, and what the
\* key signs with it is what the first verifier for the scheme expects.
LEMMA SchemesFit ==
    ASSUME NEW kind \in SpkiName, NEW version \in {"TLSv1_2", "TLSv1_3"}, NEW offered,
           SupportedSchemes \subseteq offered, NEW number
    PROVE  LET schemes == ChooseScheme(kind, Admitted(version, kind, offered))
           IN  schemes # {} /\ AllFit(schemes, kind, number)
<1> DEFINE admitted == Admitted(version, kind, offered)
<1>1. CASE kind = "p256"
  <2> DEFINE s == "ECDSA_NISTP256_SHA256"
  <2>1. s \in admitted
    BY <1>1 DEF Admitted, SupportedSchemes, Pkcs1Schemes, Tls12Schemes
  <2>2. ChooseScheme(kind, admitted) = {s}
    <3> HIDE DEF admitted
    <3> QED
      BY <1>1, <2>1 DEF ChooseScheme, EcdsaScheme
  <2>3. Mapping(s) = <<<<"p256", "ecdsa-sha256">>, <<"p384", "ecdsa-sha256">>>>
    BY RsaSchemeSet DEF Mapping, EcdsaVerifier
  <2>4. Signature(number, kind, s).form = "ecdsa-sha256"
    BY <1>1 DEF Signature
  <2> HIDE DEF s, admitted
  <2> QED
    BY <1>1, <2>2, <2>3, <2>4 DEF admitted, AllFit
<1>2. CASE kind = "p384"
  <2> DEFINE s == "ECDSA_NISTP384_SHA384"
  <2>1. s \in admitted
    BY <1>2 DEF Admitted, SupportedSchemes, Pkcs1Schemes, Tls12Schemes
  <2>2. ChooseScheme(kind, admitted) = {s}
    <3> HIDE DEF admitted
    <3> QED
      BY <1>2, <2>1 DEF ChooseScheme, EcdsaScheme
  <2>3. Mapping(s) = <<<<"p384", "ecdsa-sha384">>, <<"p256", "ecdsa-sha384">>>>
    <3>1. /\ EcdsaVerifier("p384", 384) = <<"p384", "ecdsa-sha384">>
          /\ EcdsaVerifier("p256", 384) = <<"p256", "ecdsa-sha384">>
      BY DEF EcdsaVerifier
    <3>2. Mapping(s) = <<EcdsaVerifier("p384", 384), EcdsaVerifier("p256", 384)>>
      BY RsaSchemeSet DEF Mapping
    <3> QED
      BY <3>1, <3>2
  <2>4. Signature(number, kind, s).form = "ecdsa-sha384"
    BY <1>2 DEF Signature
  <2> HIDE DEF s, admitted
  <2> QED
    BY <1>2, <2>2, <2>3, <2>4 DEF admitted, AllFit
<1>3. CASE kind = "ed25519"
  <2> DEFINE s == "ED25519"
  <2>1. s \in admitted
    BY <1>3 DEF Admitted, SupportedSchemes, Pkcs1Schemes, Tls12Schemes
  <2>2. ChooseScheme(kind, admitted) = {s}
    <3> HIDE DEF admitted
    <3> QED
      BY <1>3, <2>1 DEF ChooseScheme, EddsaScheme
  <2>3. Mapping(s) = <<<<"ed25519", "ED25519">>>>
    BY RsaSchemeSet DEF Mapping, EddsaVerifier
  <2>4. Signature(number, kind, s).form = "ED25519"
    BY <1>3 DEF Signature
  <2> HIDE DEF s, admitted
  <2> QED
    BY <1>3, <2>2, <2>3, <2>4 DEF admitted, AllFit
<1>4. CASE kind = "rsa"
  <2> DEFINE s == "RSA_PSS_SHA512"
  <2>1. Len(AllRsaSchemes) = 6 /\ AllRsaSchemes[1] = s
    BY DEF AllRsaSchemes
  <2>2. s \in SupportedSchemes /\ s \in Tls12Schemes("rsa") /\ s \notin Pkcs1Schemes
    BY <2>1 DEF SupportedSchemes, Tls12Schemes, Pkcs1Schemes
  <2>3. s \in admitted
    BY <1>4, <2>2 DEF Admitted
  <2>4. ChooseScheme(kind, admitted) = {s}
    <3> HIDE DEF admitted
    <3> DEFINE fits == {n \in 1..Len(AllRsaSchemes) : AllRsaSchemes[n] \in admitted}
    <3>1. 1 \in fits /\ \A n \in fits : n \in 1..6
      BY <2>1, <2>3
    <3>2. ChooseScheme(kind, admitted) =
            {AllRsaSchemes[n] : n \in {m \in fits : \A k \in fits : m <= k}}
      BY <1>4 DEF ChooseScheme
    <3> HIDE DEF fits
    <3>3. {m \in fits : \A k \in fits : m <= k} = {1}
      BY <3>1
    <3> QED
      BY <2>1, <3>2, <3>3
  <2>5. Mapping(s) = <<<<"rsa", s>>>>
    <3>1. s \in {AllRsaSchemes[n] : n \in 1..Len(AllRsaSchemes)}
      BY <2>1
    <3> QED
      BY <3>1 DEF Mapping, RsaVerifier
  <2>6. Signature(number, kind, s).form = s
    BY <1>4 DEF Signature
  <2> HIDE DEF s, admitted
  <2> QED
    BY <1>4, <2>4, <2>5, <2>6 DEF admitted, AllFit
<1> QED
  BY <1>1, <1>2, <1>3, <1>4 DEF SpkiName

\* A key is of the kind that the certificate with its number names.
LEMMA HeldKeyFits ==
    ASSUME CertInv, NEW leaf \in 1..Len(certs), NEW key \in HeldKeys,
           key.number = certs[leaf].number
    PROVE  key.alg = certs[leaf].alg
<1>1. CASE \E i \in {j \in 1..Len(certs) : certs[j].handle # "SignedCertificate"} :
             key = [number |-> certs[i].number, alg |-> certs[i].alg]
  <2>1. PICK i \in {j \in 1..Len(certs) : certs[j].handle # "SignedCertificate"} :
             key = [number |-> certs[i].number, alg |-> certs[i].alg]
    BY <1>1
  <2>2. key.number = certs[i].number /\ key.alg = certs[i].alg
    BY <2>1
  <2>3. i = leaf
    BY <2>2 DEF CertInv, KeysHaveOneOwner
  <2> QED
    BY <2>2, <2>3
<1>2. CASE \E r \in csrs : key = [number |-> r.number, alg |-> r.alg]
  <2>1. PICK r \in csrs : key = [number |-> r.number, alg |-> r.alg]
    BY <1>2
  <2>2. key.number = r.number /\ key.alg = r.alg
    BY <2>1
  <2> QED
    BY <2>2 DEF CertInv, KeysHaveOneOwner
<1> QED
  BY <1>1, <1>2 DEF HeldKeys

(***************************************************************************)
(* A server with its own key and a leaf below the client's anchor is never *)
(* refused by a client that offers all schemes, for every algorithm and    *)
(* both versions.                                                          *)
(***************************************************************************)
THEOREM GoodServersAreAccepted == AuthSpec => []GoodServersConnect
<1>1. AuthInv => GoodServersConnect
  <2> SUFFICES ASSUME AuthInv, hello # NoHello, SupportedSchemes \subseteq hello.offered,
                      WellConfigured, "failed" \in {answer.phase, hello.phase}
               PROVE  FALSE
    BY DEF GoodServersConnect
  <2> DEFINE leaf == identity.chain[1]
             presented == {identity.chain[n] : n \in 2..Len(identity.chain)}
             schemes == ChooseScheme(identity.kind, Admitted(hello.version, identity.kind, hello.offered))
  <2>1. /\ identity.number = certs[leaf].number
        /\ certs[leaf].spki = Spki(certs[leaf].alg)
        /\ Promised(leaf, hello.anchor, "ServerAuth")
        /\ certs[leaf].parent = hello.anchor \/ certs[leaf].parent \in presented
    BY DEF WellConfigured
  <2>2. /\ leaf \in 1..Len(certs) /\ hello.anchor \in 1..Len(certs)
        /\ presented \in SUBSET Authorities /\ IsFiniteSet(presented)
    BY PresentedFacts
  <2>3. ChainVerifies
    <3>1. Verifies(leaf, presented, hello.anchor, "ServerAuth")
      <4> HIDE DEF leaf, presented
      <4> QED
        BY <2>1, <2>2, PromisedVerifies DEF AuthInv
    <3> QED
      BY <3>1 DEF ChainVerifies
  <2>4. identity.kind = certs[leaf].spki /\ identity.kind \in SpkiName
    <3>1. identity # NoIdentity
      BY DEF AuthInv, HelloIsSent
    <3>2. PICK key \in HeldKeys : key.number = identity.number /\ Spki(key.alg) = identity.kind
      BY <3>1 DEF AuthInv, IdentityIsHeld
    <3>3. key.alg = certs[leaf].alg
      <4> HIDE DEF leaf
      <4> QED
        BY <2>1, <2>2, <3>2, HeldKeyFits DEF AuthInv
    <3>4. certs[leaf].alg \in Algorithms
      <4> HIDE DEF leaf
      <4>1. certs[leaf] \in Issued
        BY <2>2, CertTypes DEF AuthInv
      <4> QED
        BY <4>1, CertFields
    <3> QED
      BY <2>1, <3>2, <3>3, <3>4, SpkiIsName
  <2>5. hello.version \in {"TLSv1_2", "TLSv1_3"}
    BY DEF AuthInv, HelloIsSent
  <2>6. schemes # {} /\ AllFit(schemes, identity.kind, identity.number)
    <3> DEFINE kind == identity.kind  version == hello.version  offered == hello.offered
               number == identity.number
    <3>1. /\ kind \in SpkiName /\ version \in {"TLSv1_2", "TLSv1_3"}
          /\ SupportedSchemes \subseteq offered
          /\ schemes = ChooseScheme(kind, Admitted(version, kind, offered))
      BY <2>4, <2>5
    <3> HIDE DEF kind, version, offered, number, schemes
    <3>2. schemes # {} /\ AllFit(schemes, kind, number)
      BY <3>1, SchemesFit
    <3> QED
      BY <3>2 DEF kind, number
  <2> HIDE DEF schemes
  <2>7. answer # NoAnswer => answer.phase # "failed"
    BY <2>6 DEF AuthInv, AnswerIsChosen, schemes
  <2>8. answer.phase # "failed"
    BY <2>7 DEF NoAnswer
  <2>9. hello.phase = "failed"
    BY <2>8
  <2>10. answer.phase = "signed" /\ ~SignatureVerifies
    BY <2>3, <2>9 DEF AuthInv, VerdictIsKept
  <2>11. /\ answer.scheme \in schemes
         /\ answer.signature = Signature(identity.number, identity.kind, answer.scheme)
    <3>1. answer # NoAnswer
      BY <2>10 DEF NoAnswer
    <3> QED
      BY <2>10, <3>1 DEF AuthInv, AnswerIsChosen, schemes
  <2>12. answer.signature.number = identity.number
    BY <2>11 DEF Signature
  <2>13. VerifySignature(Mapping(answer.scheme)[1], certs[leaf], answer.signature)
    BY <2>1, <2>4, <2>6, <2>11, <2>12 DEF VerifySignature, AllFit
  <2>14. 1 \in 1..Len(Mapping(answer.scheme))
    <3>1. Len(Mapping(answer.scheme)) >= 1
      BY <2>6, <2>11 DEF AllFit
    <3> QED
      BY <3>1
  <2>15. SignatureVerifies
    BY <2>13, <2>14 DEF SignatureVerifies, VerifyHandshakeSignature
  <2> QED
    BY <2>10, <2>15
<1> QED
  BY <1>1, AuthInvariant, PTL
=============================================================================
