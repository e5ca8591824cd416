------------------------ MODULE ClientHandshakeProofs ------------------------
(***************************************************************************)
(* Proofs about ClientHandshake: whatever the builder's fields, the lists  *)
(* of SCTs, the staples and the order of steps, the accepted servers are   *)
(* the ones that the configured verifiers were meant to accept.            *)
(***************************************************************************)
EXTENDS ClientHandshake, FiniteSetTheorems, SequenceTheorems, WellFoundedInduction, TLAPS

-----------------------------------------------------------------------------
(* What the loop over the SCTs counts.                                     *)

\* A set of natural numbers that is not empty has a least element.
LEMMA LeastNumber ==
    ASSUME NEW T \in SUBSET Nat, T # {}
    PROVE  \E m \in T : \A n \in T : m <= n
<1>1. PICK m \in T : \A n \in T : ~(<<n, m>> \in OpToRel(<, Nat))
      BY NatLessThanWellFounded, WFMin
<1>2. \A n \in T : ~(n < m)
      BY <1>1 DEF OpToRel
<1> QED BY <1>2

\* The logs that signed for the entry.
Signers(scts, entry, n) == {scts[i].log : i \in {j \in 1..n : Verifies(scts[j], entry)}}

\* count_trusted_verified counts the logs, each once, whatever the order of the
\* entries and whatever stands between them.
THEOREM CountIsOfSigners ==
    ASSUME NEW scts \in Seq(Sct), NEW entry
    PROVE  CountTrustedVerified(scts, entry) = Cardinality(Signers(scts, entry, Len(scts)))
<1> DEFINE Step(f, n) == IF n = 0 THEN {}
                         ELSE IF scts[n].log \notin f[n - 1] /\ Verifies(scts[n], entry)
                              THEN f[n - 1] \cup {scts[n].log} ELSE f[n - 1]
           Loop(f) == f = [n \in 0..Len(scts) |-> Step(f, n)]
           Closed == [n \in 0..Len(scts) |-> Signers(scts, entry, n)]
<1>1. Len(scts) \in Nat
      BY LenProperties
<1>2. Signers(scts, entry, 0) = {}
      BY DEF Signers
<1>3. \A n \in 1..Len(scts) : Signers(scts, entry, n) =
          IF Verifies(scts[n], entry) THEN Signers(scts, entry, n - 1) \cup {scts[n].log}
          ELSE Signers(scts, entry, n - 1)
      BY <1>1 DEF Signers
<1>4. Loop(Closed)
  <2>1. Closed[0] = Step(Closed, 0)
        BY <1>1, <1>2
  <2>2. ASSUME NEW n \in 1..Len(scts)
        PROVE  Closed[n] = Step(Closed, n)
    <3>1. n \in 0..Len(scts) /\ n - 1 \in 0..Len(scts) /\ n # 0
          BY <1>1
    <3>2. Closed[n] = Signers(scts, entry, n) /\ Closed[n - 1] = Signers(scts, entry, n - 1)
          BY <3>1
    <3> QED BY <1>3, <3>1, <3>2
  <2>3. \A n \in 0..Len(scts) : n = 0 \/ n \in 1..Len(scts)
        BY <1>1
  <2> QED BY <2>1, <2>2, <2>3
<1>5. PICK f : Loop(f) /\ CountTrustedVerified(scts, entry) = Cardinality(f[Len(scts)])
  <2> DEFINE g == CHOOSE f : Loop(f)
  <2>1. Loop(g)
        BY <1>4
  <2>2. CountTrustedVerified(scts, entry) = Cardinality(g[Len(scts)])
        BY DEF CountTrustedVerified
  <2> QED BY <2>1, <2>2
<1>6. \A n \in 0..Len(scts) : f[n] = Step(f, n)
      BY <1>5
<1> HIDE DEF Loop
<1>7. f[0] = {}
  <2>1. 0 \in 0..Len(scts)
        BY <1>1
  <2>2. f[0] = Step(f, 0)
        BY <1>6, <2>1
  <2> QED BY <2>2
<1>8. ASSUME NEW n \in 1..Len(scts), f[n - 1] = Signers(scts, entry, n - 1)
      PROVE  f[n] = Signers(scts, entry, n)
  <2>1. n \in 0..Len(scts) /\ n # 0
        BY <1>1
  <2>2. f[n] = Step(f, n)
        BY <1>6, <2>1
  <2> QED BY <1>3, <1>8, <2>1, <2>2
<1>9. ASSUME NEW n \in 0..Len(scts), f[n] # Signers(scts, entry, n)
      PROVE  FALSE
  <2> DEFINE T == {k \in 0..Len(scts) : f[k] # Signers(scts, entry, k)}
  <2>1. T \in SUBSET Nat /\ T # {}
        BY <1>1, <1>9
  <2>2. PICK m \in T : \A k \in T : m <= k
        BY <2>1, LeastNumber
  <2>3. m \in 1..Len(scts)
    <3>1. m \in 0..Len(scts) /\ m # 0
          BY <1>2, <1>7
    <3> QED BY <1>1, <3>1
  <2>4. m - 1 \in 0..Len(scts) /\ m - 1 \notin T
        BY <1>1, <2>2, <2>3
  <2> QED BY <1>8, <2>3, <2>4
<1> QED BY <1>1, <1>5, <1>9

\* A list of SCTs that parses is a sequence.
LEMMA SctListIsSeq ==
    ASSUME NEW scts \in SctList
    PROVE  scts \in Seq(Sct) /\ DOMAIN scts = 1..Len(scts) /\ Len(scts) \in Nat
<1>1. PICK n \in 0..MaxScts : scts \in [1..n -> Sct]
      BY DEF SctList
<1>2. n \in Nat
      BY CertVerifiersAssumption
<1>3. scts = [i \in 1..n |-> scts[i]] /\ \A i \in 1..n : scts[i] \in Sct
      BY <1>1
<1>4. scts \in Seq(Sct)
      BY <1>1, <1>2, <1>3
<1> QED BY <1>4, LenProperties

\* The SCTs are worth what the verifier makes of them: under Strict it passes a
\* list only if enough logs vouch for the certificate, and then always, provided
\* that it can rebuild what they signed.
LEMMA SctPassesForVouching ==
    ASSUME NEW scts \in SctList, NEW known \in BOOLEAN, NEW rebuilt \in BOOLEAN,
           NEW mode \in {"off", "Permissive", "Strict"}
    PROVE  LET policy == [mode |-> mode, min |-> MinLogs]
           IN  /\ mode = "Strict" /\ SctPasses(policy, scts, known, rebuilt) =>
                    Cardinality(Vouching(scts)) >= MinLogs
               /\ known /\ rebuilt /\ Cardinality(Vouching(scts)) >= MinLogs =>
                    SctPasses(policy, scts, known, rebuilt)
<1> DEFINE Count(entry) == CountTrustedVerified(scts, entry)
<1>1. scts \in Seq(Sct) /\ DOMAIN scts = 1..Len(scts) /\ Len(scts) \in Nat
      BY SctListIsSeq
<1>2. \A i \in 1..Len(scts) : scts[i] \in Sct
      BY <1>1, ElementOfSeq
<1>3. Signers(scts, "precert", Len(scts)) = Vouching(scts)
      BY <1>1, <1>2 DEF Signers, Vouching, Verifies, Sct
<1>4. Signers(scts, "x509", Len(scts)) = {}
      BY <1>2 DEF Signers, Verifies, Sct
<1>5. Count("precert") = Cardinality(Vouching(scts))
      BY <1>1, <1>3, CountIsOfSigners
<1>6. Count("x509") = 0
      BY <1>1, <1>4, CountIsOfSigners, FS_EmptySet
<1>7. MinLogs \in Nat /\ ~(0 >= MinLogs)
      BY ClientBuilderAssumption
<1> HIDE DEF Count
<1>8. SctPasses([mode |-> mode, min |-> MinLogs], scts, known, rebuilt) <=>
        \/ mode = "Permissive"
        \/ Count(IF known /\ rebuilt THEN "precert" ELSE "x509") >= MinLogs
      BY DEF SctPasses, SignedEntry, Count
<1> QED BY <1>5, <1>6, <1>7, <1>8

-----------------------------------------------------------------------------
(* What the OCSP layer makes of a staple.                                  *)

\* A staple that gets past the OCSP layer is not one that shows the certificate
\* to be revoked, and under HardRequire it is one that shows it to be good; one
\* that is good and well-formed always gets past.
LEMMA OcspPassesForGood ==
    ASSUME NEW st \in Staple, NEW known \in BOOLEAN,
           NEW policy \in {"off", "SoftFail", "HardRequire"}
    PROVE  /\ known /\ OcspPasses(policy, st, known) => Shows(st) # "revoked"
           /\ policy # "SoftFail" /\ OcspPasses(policy, st, known) =>
                Shows(st) \in {"good", "goodOddly"}
           /\ known /\ Shows(st) = "good" => OcspPasses(policy, st, known)
<1>1. /\ st.form \in {"basic", "empty", "unsuccessful", "undecodable"}
      /\ st.byName \in BOOLEAN
      /\ st.delegate \in {"none", "noEku", "foreign", "issued"}
      /\ st.signer \in {"issuer", "delegate", "other"}
      BY DEF Staple, Basic, Blank
<1> DEFINE revoked == \E r \in st.responses : r.bound /\ r.status = "revoked"
           good    == \E r \in st.responses : r.bound /\ r.current /\ r.status = "good"
<1>2. /\ Evaluate(st.responses) = "revoked" <=> revoked
      /\ Evaluate(st.responses) = "good" <=> good /\ ~revoked
      BY DEF Evaluate
<1>3. Shows(st) = "revoked" <=> Authentic(st) /\ revoked
      BY DEF Shows, ShowsRevoked, ShowsGood
<1>4. Shows(st) \in {"good", "goodOddly"} <=> Authentic(st) /\ good /\ ~revoked
      BY DEF Shows, ShowsRevoked, ShowsGood
<1>5. Shows(st) = "good" <=> Authentic(st) /\ good /\ ~revoked /\ WellFormed(st)
      BY DEF Shows, ShowsRevoked, ShowsGood
<1>6. CheckStaple(st, known) = "good" <=>
        st.form = "basic" /\ known /\ SignerKey(st, known) = st.signer /\ Evaluate(st.responses) = "good"
      BY <1>1 DEF CheckStaple, Evaluate, SignerKey
<1>7. known /\ Authentic(st) /\ revoked =>
        CheckStaple(st, known) \in {"badSignature", "revoked"}
      BY <1>1, <1>2 DEF CheckStaple, Authentic, SignerKey
<1>8. known /\ st.form = "basic" /\ SignerKey(st, known) = st.signer => Authentic(st)
      BY <1>1 DEF SignerKey, Authentic
<1>9. known /\ Authentic(st) /\ WellFormed(st) => SignerKey(st, known) = st.signer
      BY <1>1 DEF SignerKey, Authentic, WellFormed
<1>10. OcspPasses(policy, st, known) <=>
         \/ CheckStaple(st, known) = "good"
         \/ policy = "SoftFail" /\ CheckStaple(st, known) \in {"absent", "unparseable", "unknown"}
      BY DEF OcspPasses
<1>11. Authentic(st) => st.form = "basic"
      BY DEF Authentic
<1> HIDE DEF revoked, good
<1> QED BY <1>2, <1>3, <1>4, <1>5, <1>6, <1>7, <1>8, <1>9, <1>10, <1>11

-----------------------------------------------------------------------------
(* The operations of the cache.                                            *)

\* Using a certificate puts it into the first place; the other entries are those
\* that were there, each once, and the cache grows only by a new one.
LEMMA UseKeepsOrder ==
    ASSUME NEW q \in Seq(Intermediate), IsInjective(q), NEW c \in Intermediate
    PROVE  /\ Use(c, q) \in Seq(Intermediate)
           /\ IsInjective(Use(c, q))
           /\ Range(Use(c, q)) = Range(q) \cup {c}
           /\ Len(Use(c, q)) = Len(q) + (IF c \in Range(q) THEN 0 ELSE 1)
<1> DEFINE places == {i \in DOMAIN q : q[i] = c}
           place == IF places = {} THEN Len(q) + 1 ELSE CHOOSE i \in places : TRUE
           len == Len(q) + (IF places = {} THEN 1 ELSE 0)
           r == [i \in 1..len |-> IF i = 1 THEN c ELSE IF i <= place THEN q[i - 1] ELSE q[i]]
<1>1. /\ Len(q) \in Nat
      /\ DOMAIN q = 1..Len(q)
      /\ \A i \in 1..Len(q) : q[i] \in Intermediate
      BY LenProperties, ElementOfSeq
<1>2. places = {} <=> c \notin Range(q)
      BY DEF Range
<1>3. /\ place \in 1..len
      /\ len \in Nat \ {0}
      /\ \A i \in 1..Len(q) : q[i] = c <=> i = place
      /\ \A i \in 1..len : i # place => i \in 1..Len(q)
  <2>1. CASE places = {}
        BY <1>1, <2>1
  <2>2. CASE places # {}
    <3>1. place \in places
          BY <2>2
    <3>2. place \in 1..Len(q) /\ q[place] = c
          BY <1>1, <3>1
    <3> HIDE DEF place, places
    <3>3. len = Len(q)
      <4>1. len = Len(q) + 0
            BY <2>2
      <4>2. Len(q) \in Nat
            BY <1>1
      <4> HIDE DEF len
      <4> QED BY <4>1, <4>2
    <3> HIDE DEF len
    <3>4. \A i \in 1..Len(q) : q[i] = c => i = place
          BY <1>1, <3>2 DEF IsInjective
    <3> QED BY <1>1, <3>2, <3>3, <3>4
  <2> QED BY <2>1, <2>2
<1>4. Use(c, q) = r
      BY DEF Use
<1> HIDE DEF places, place, len
<1>5. \A i \in 1..len : r[i] \in Intermediate
      BY <1>1, <1>3
<1>6. r \in Seq(Intermediate) /\ Len(r) = len
      BY <1>3, <1>5
<1>7. IsInjective(r)
  <2> SUFFICES ASSUME NEW i \in 1..len, NEW j \in 1..len, r[i] = r[j], i < j
               PROVE  FALSE
        BY <1>3 DEF IsInjective
  <2>1. r[j] = IF j <= place THEN q[j - 1] ELSE q[j]
        BY <1>3
  <2>2. CASE i = 1
        BY <1>1, <1>3, <2>1, <2>2
  <2>3. CASE i # 1
    <3>1. r[i] = IF i <= place THEN q[i - 1] ELSE q[i]
          BY <1>3, <2>3
    <3> DEFINE a == IF i <= place THEN i - 1 ELSE i
               d == IF j <= place THEN j - 1 ELSE j
    <3>2. a \in 1..Len(q) /\ d \in 1..Len(q) /\ a # d
          BY <1>1, <1>3, <2>3
    <3>3. q[a] = q[d]
          BY <2>1, <3>1
    <3> QED BY <1>1, <3>2, <3>3 DEF IsInjective
  <2> QED BY <2>2, <2>3
<1>8. Range(r) = Range(q) \cup {c}
  <2>1. \A i \in 1..len : r[i] \in Range(q) \cup {c}
        BY <1>1, <1>3 DEF Range
  <2>2. r[1] = c /\ 1 \in 1..len
        BY <1>3
  <2>3. ASSUME NEW i \in 1..Len(q), i # place
        PROVE  \E j \in 1..len : r[j] = q[i]
    <3>1. CASE i < place
      <4>1. i + 1 \in 1..len /\ i + 1 # 1 /\ i + 1 <= place
            BY <1>1, <1>3, <3>1
      <4>2. r[i + 1] = q[i]
            BY <4>1
      <4> QED BY <4>1, <4>2
    <3>2. CASE i > place
      <4>1. i \in 1..len /\ i # 1 /\ ~(i <= place)
            BY <1>1, <1>3, <3>2 DEF len
      <4> QED BY <4>1
    <3> QED BY <1>3, <2>3, <3>1, <3>2
  <2>4. DOMAIN r = 1..len
        OBVIOUS
  <2> QED BY <1>1, <1>3, <2>1, <2>2, <2>3, <2>4 DEF Range
<1> QED BY <1>1, <1>2, <1>4, <1>6, <1>7, <1>8 DEF len

\* An insert evicts from the end what exceeds the capacity.
LEMMA PutIsBounded ==
    ASSUME NEW q \in Seq(Intermediate), IsInjective(q), NEW c \in Intermediate
    PROVE  /\ Put(c, q) \in Seq(Intermediate)
           /\ IsInjective(Put(c, q))
           /\ Range(Put(c, q)) \subseteq Range(q) \cup {c}
           /\ Len(Put(c, q)) <= Capacity
<1> DEFINE u == Use(c, q)
           n == IF Len(u) < Capacity THEN Len(u) ELSE Capacity
<1>1. u \in Seq(Intermediate) /\ IsInjective(u) /\ Range(u) = Range(q) \cup {c}
      BY UseKeepsOrder
<1> HIDE DEF u
<1>2. Len(u) \in Nat /\ DOMAIN u = 1..Len(u) /\ \A i \in 1..Len(u) : u[i] \in Intermediate
      BY <1>1, LenProperties, ElementOfSeq
<1>3. n \in Nat /\ n <= Len(u) /\ n <= Capacity
      BY <1>2, ClientHandshakeAssumption
<1>4. Put(c, q) = SubSeq(u, 1, n)
      BY DEF Put, u
<1> HIDE DEF n
<1>5. /\ SubSeq(u, 1, n) \in Seq(Intermediate)
      /\ Len(SubSeq(u, 1, n)) = n
      /\ \A i \in 1..n : SubSeq(u, 1, n)[i] = u[i]
      BY <1>2, <1>3, SubSeqProperties
<1>6. DOMAIN SubSeq(u, 1, n) = 1..n
      BY <1>5, LenProperties
<1>7. 1..n \subseteq 1..Len(u)
      BY <1>2, <1>3
<1>8. IsInjective(SubSeq(u, 1, n))
      BY <1>1, <1>2, <1>5, <1>6, <1>7 DEF IsInjective
<1>9. Range(SubSeq(u, 1, n)) \subseteq Range(u)
      BY <1>2, <1>5, <1>6, <1>7 DEF Range
<1> QED BY <1>1, <1>3, <1>4, <1>5, <1>8, <1>9

-----------------------------------------------------------------------------
(* The inductive invariant.                                                *)

\* The fields of a builder.
Fields ==
    [versions : {"default", "tls12", "unusable"}, roots : {"none", "good", "bad"},
     clientCert : {"none", "good", "badChain", "badKey"}, acceptCerts : BOOLEAN,
     acceptHostnames : BOOLEAN, useRpk : BOOLEAN, pins : {{}, Pin},
     crls : {"none", "good", "bad"},
     ocsp : {"unset", "Disabled", "SoftFail", "HardRequire"},
     sct : {"unset", "Disabled", "Permissive", "Strict"},
     cache : BOOLEAN, settings : SUBSET Setting]

\* The stacks of verifiers.
Stacks == [base : {"rpk", "noVerify", "noHostname", "pins", "crl", "plain"},
           pins : {{}, Pin}, cache : BOOLEAN, ocsp : {"off", "SoftFail", "HardRequire"},
           sct : {"off", "Permissive", "Strict"}]

\* What build() returns.
Configs == [stack : Stacks, tls12 : BOOLEAN, clientAuth : BOOLEAN, settings : SUBSET Setting]

\* The state of a handshake.
Shakes == [at : {"idle", "sct", "ocsp", "base", "cache", "done"},
           verdict : {"none", "accepted", "refused"}, chain : Chain,
           selfSigned : BOOLEAN, logged : BOOLEAN, logProof : BOOLEAN,
           staple : {"none", "revoked", "good", "goodOddly", "nothing"},
           facts : Facts, left : Chain]

\* The types of all variables.
Typed ==
    /\ api \in {"facade", "adapter"}
    /\ phase \in {"open", "built", "refused"}
    /\ b \in Fields
    /\ config \in Configs
    /\ hs \in Shakes
    /\ cache \in Seq(Intermediate) /\ Len(cache) <= Capacity

\* The type invariant, in terms of the sets above.
LEMMA Types == (TypeOK <=> Typed) /\ (TypeOK' <=> Typed')
BY DEF TypeOK, BuilderTypeOK, Typed, Fields, Configs, Stacks, Shakes

\* What the two builders make of their fields is a config.
LEMMA ConfigTypes ==
    ASSUME NEW x \in Fields
    PROVE  FacadeConfig(x) \in Configs /\ AdapterConfig(x) \in Configs
<1>1. AdapterStack(x) \in Stacks
      BY DEF AdapterStack, Fields, Stacks
<1>2. AdapterConfig(x) \in Configs
      BY <1>1 DEF AdapterConfig, Configs, Fields
<1>3. Path(x) \in {"rpk", "noVerify", "noHostname", "adapter", "plain"}
      BY DEF Path
<1>4. ASSUME Path(x) # "adapter"
      PROVE  FacadeConfig(x) \in Configs
  <2> DEFINE stack == [NoStack EXCEPT !.base = Path(x), !.pins = IF x.useRpk THEN Pin ELSE {}]
  <2>1. stack \in Stacks
        BY <1>3, <1>4 DEF NoStack, Stacks
  <2>2. x.settings \subseteq Setting
        BY DEF Fields
  <2>3. FacadeConfig(x) = [stack |-> stack, tls12 |-> x.versions = "tls12" /\ "ech" \notin x.settings,
                           clientAuth |-> x.clientCert # "none",
                           settings |-> x.settings \ (IF x.useRpk THEN {"compression"} ELSE {})]
        BY <1>4 DEF FacadeConfig
  <2> HIDE DEF stack
  <2> QED BY <2>1, <2>2, <2>3 DEF Configs
<1> QED BY <1>2, <1>4 DEF FacadeConfig

\* The first state satisfies the invariant.
LEMMA HandshakeInitInv == Init => HandshakeInv
<1> SUFFICES ASSUME Init PROVE HandshakeInv
      OBVIOUS
<1> USE DEF Init, BuilderInit
<1>1. b \in Fields
      BY DEF Fields, EmptyBuilder
<1>2. config \in Configs
      BY DEF Configs, Stacks, NoConfig, NoStack
<1>3. NoFacts \in Facts
  <2>1. (CHOOSE l \in Leaf : TRUE) \in Leaf
        BY ClientBuilderAssumption
  <2> QED BY <2>1 DEF NoFacts, Facts
<1>4. hs \in Shakes
      BY <1>3 DEF Idle, Shakes, Chain
<1>5. cache \in Seq(Intermediate) /\ Len(cache) <= Capacity
      BY ClientHandshakeAssumption
<1>6. TypeOK
      BY <1>1, <1>2, <1>4, <1>5, Types DEF Typed
<1>7. ConfigIsBuilt
      BY DEF ConfigIsBuilt, Careful, EmptyBuilder
<1>8. LayersWerePassed /\ GoodEvidencePasses
      BY DEF LayersWerePassed, GoodEvidencePasses, Idle
<1>9. CacheIsInOrder
      BY DEF CacheIsInOrder, IsInjective, Range, Idle
<1> QED BY <1>6, <1>7, <1>8, <1>9 DEF HandshakeInv

\* Calls of a builder do not touch handshakes, which start after build().
LEMMA ConfigureInv == HandshakeInv /\ Configure => HandshakeInv'
<1> SUFFICES ASSUME HandshakeInv, Configure PROVE HandshakeInv'
      OBVIOUS
<1>1. /\ api \in {"facade", "adapter"}
      /\ b \in Fields
      /\ config \in Configs
      /\ hs \in Shakes
      /\ cache \in Seq(Intermediate) /\ Len(cache) <= Capacity
      BY Types DEF HandshakeInv, Typed
<1>2. phase = "open" /\ api' = api /\ UNCHANGED <<hs, cache>>
      BY DEF Configure, BuilderNext, WithRoots, WithPins, WithCrl, WithIntermediateCache,
             WithCtLogs, WithOcspPolicy, WithSetting, WithProtocolVersions, WithClientCert,
             WithDangerAcceptInvalidCerts, WithDangerAcceptInvalidHostnames,
             WithServerRawPublicKeys, Build, Set
<1>3. hs.at = "idle"
      BY <1>2 DEF HandshakeInv, LayersWerePassed
<1>4. /\ b' \in Fields
      /\ config' \in Configs
      /\ phase' \in {"open", "built", "refused"}
      /\ ConfigIsBuilt'
  <2> USE <1>1, <1>2
  <2>0. ConfigIsBuilt
        BY DEF HandshakeInv
  <2>1. CASE Build
        BY <2>0, <2>1, ConfigTypes DEF Build, ConfigIsBuilt, Careful
  <2>2. ASSUME NEW fields, Set(fields), fields \in Fields,
               api = "adapter" => ~fields.acceptCerts /\ ~fields.acceptHostnames /\ ~fields.useRpk,
               api = "facade" => fields.ocsp = "unset"
        PROVE  b' \in Fields /\ config' \in Configs /\ phase' = "open" /\ ConfigIsBuilt'
        BY <2>2 DEF Set, ConfigIsBuilt, Careful
  <2> HIDE <1>2
  <2> USE DEF Fields
  <2>3. CASE WithRoots
        BY <2>0, <2>2, <2>3 DEF WithRoots, ConfigIsBuilt, Careful
  <2>4. CASE WithPins
        BY <2>0, <2>2, <2>4 DEF WithPins, ConfigIsBuilt, Careful
  <2>5. CASE WithCrl \/ WithIntermediateCache
        BY <2>0, <2>2, <2>5 DEF WithCrl, WithIntermediateCache, ConfigIsBuilt, Careful
  <2>6. CASE WithCtLogs \/ WithOcspPolicy
        BY <2>0, <2>2, <2>6 DEF WithCtLogs, WithOcspPolicy, ConfigIsBuilt, Careful
  <2>7. CASE WithSetting
    <3>1. PICK s \in Setting : \/ Set([b EXCEPT !.settings = @ \cup {s}])
                               \/ Set([b EXCEPT !.settings = @ \ {s}])
          BY <2>7 DEF WithSetting
    <3> QED BY <2>0, <2>2, <3>1 DEF ConfigIsBuilt, Careful
  <2>8. CASE WithProtocolVersions \/ WithClientCert
        BY <2>0, <2>2, <2>8 DEF WithProtocolVersions, WithClientCert, ConfigIsBuilt, Careful
  <2>9. CASE \/ WithDangerAcceptInvalidCerts \/ WithDangerAcceptInvalidHostnames
             \/ WithServerRawPublicKeys
        BY <2>0, <2>2, <2>9 DEF WithDangerAcceptInvalidCerts, WithDangerAcceptInvalidHostnames,
                                WithServerRawPublicKeys, ConfigIsBuilt, Careful
  <2> QED BY <2>1, <2>3, <2>4, <2>5, <2>6, <2>7, <2>8, <2>9 DEF Configure, BuilderNext
<1>5. TypeOK'
      BY <1>1, <1>2, <1>4, Types DEF Typed
<1>6. LayersWerePassed' /\ GoodEvidencePasses' /\ CacheIsInOrder'
      BY <1>2, <1>3 DEF HandshakeInv, LayersWerePassed, GoodEvidencePasses, CacheIsInOrder, IssuerKnown
<1> QED BY <1>4, <1>5, <1>6 DEF HandshakeInv

\* Begin: no layer is behind the handshake yet.
LEMMA BeginInv == HandshakeInv /\ Begin => HandshakeInv'
<1> SUFFICES ASSUME HandshakeInv, Begin PROVE HandshakeInv'
      OBVIOUS
<1>1. Typed
      BY Types DEF HandshakeInv
<1>2. PICK chain \in Chain, s \in BOOLEAN :
        hs' = [Idle EXCEPT !.at = Outermost, !.chain = chain, !.selfSigned = s, !.left = chain]
      BY DEF Begin
<1>3. UNCHANGED <<api, phase, b, config, cache>> /\ phase = "built"
      BY DEF Begin, builderVars
<1>4. NoFacts \in Facts
  <2>1. (CHOOSE l \in Leaf : TRUE) \in Leaf
        BY ClientBuilderAssumption
  <2> QED BY <2>1 DEF NoFacts, Facts
<1>5. Outermost \in {"sct", "ocsp", "base"}
      BY DEF Outermost
<1>6. hs' \in Shakes
      BY <1>2, <1>4, <1>5 DEF Idle, Shakes
<1>7. TypeOK'
      BY <1>1, <1>3, <1>6, Types DEF Typed
<1>8. ConfigIsBuilt'
      BY <1>3 DEF HandshakeInv, ConfigIsBuilt, Careful
<1>9. LayersWerePassed' /\ GoodEvidencePasses'
      BY <1>1, <1>2, <1>3 DEF LayersWerePassed, GoodEvidencePasses, Idle, Outermost, Typed, Configs, Stacks
<1>10. CacheIsInOrder'
      BY <1>2, <1>3 DEF HandshakeInv, CacheIsInOrder, Idle
<1> QED BY <1>7, <1>8, <1>9, <1>10 DEF HandshakeInv

\* What a verdict of a layer changes.
LEMMA Verdict ==
    ASSUME HandshakeInv, NEW found \in Shakes, NEW passes \in BOOLEAN, Decide(passes, found),
           hs.at \in {"sct", "ocsp", "base", "cache"},
           found.at = hs.at, found.chain = hs.chain, found.left = hs.left, found.verdict = "none"
    PROVE  /\ TypeOK' /\ ConfigIsBuilt' /\ CacheIsInOrder'
           /\ UNCHANGED <<phase, config>>
           /\ hs' = IF passes
                    THEN [found EXCEPT !.at = Inside(hs.at),
                                       !.verdict = IF Inside(hs.at) = "done" THEN "accepted" ELSE "none"]
                    ELSE [found EXCEPT !.verdict = "refused"]
<1>1. Typed
      BY Types DEF HandshakeInv
<1>2. UNCHANGED <<api, phase, b, config, cache>>
      BY DEF Decide, builderVars
<1>3. hs' = IF passes
            THEN [found EXCEPT !.at = Inside(hs.at),
                               !.verdict = IF Inside(hs.at) = "done" THEN "accepted" ELSE "none"]
            ELSE [found EXCEPT !.verdict = "refused"]
      BY DEF Decide
<1>4. Inside(hs.at) \in {"ocsp", "base", "cache", "done"}
      BY DEF Inside
<1>5. hs' \in Shakes /\ hs'.chain = hs.chain /\ hs'.left = hs.left
      BY <1>3, <1>4 DEF Shakes
<1>6. TypeOK'
      BY <1>1, <1>2, <1>5, Types DEF Typed
<1>7. ConfigIsBuilt'
      BY <1>2 DEF HandshakeInv, ConfigIsBuilt, Careful
<1>8. CacheIsInOrder'
      BY <1>2, <1>5 DEF HandshakeInv, CacheIsInOrder
<1> QED BY <1>2, <1>3, <1>6, <1>7, <1>8

\* CheckScts: under Strict the layer is left behind only with enough logs.
LEMMA CheckSctsInv == HandshakeInv /\ CheckScts => HandshakeInv'
<1> SUFFICES ASSUME HandshakeInv, CheckScts PROVE HandshakeInv'
      OBVIOUS
<1>1. Typed /\ hs.at = "sct" /\ hs.verdict = "none" /\ ~hs.logProof /\ phase = "built"
      BY Types DEF HandshakeInv, CheckScts, LayersWerePassed
<1>2. Inside("sct") = IF config.stack.ocsp # "off" THEN "ocsp" ELSE "base"
      BY DEF Inside
<1>3. config.stack.sct \in {"off", "Permissive", "Strict"} /\ config.stack.ocsp \in {"off", "SoftFail", "HardRequire"}
      BY <1>1 DEF Typed, Configs, Stacks
<1>4. ASSUME NEW found \in Shakes, NEW passes \in BOOLEAN, Decide(passes, found),
             found.at = hs.at, found.chain = hs.chain, found.left = hs.left, found.verdict = "none",
             passes /\ config.stack.sct = "Strict" => found.logged,
             found.logProof => passes
      PROVE  HandshakeInv'
  <2>1. /\ TypeOK' /\ ConfigIsBuilt' /\ CacheIsInOrder'
        /\ UNCHANGED <<phase, config>>
        /\ hs' = IF passes
                 THEN [found EXCEPT !.at = Inside(hs.at),
                                    !.verdict = IF Inside(hs.at) = "done" THEN "accepted" ELSE "none"]
                 ELSE [found EXCEPT !.verdict = "refused"]
        BY <1>1, <1>4, Verdict
  <2>2. LayersWerePassed' /\ GoodEvidencePasses'
    <3>1. CASE passes
      <4>1. hs' \in Shakes /\ hs'.at = Inside("sct") /\ hs'.verdict = "none" /\ hs'.logged = found.logged
            BY <1>1, <1>2, <1>4, <2>1, <3>1 DEF Shakes
      <4> QED BY <1>1, <1>2, <1>3, <1>4, <2>1, <3>1, <4>1 DEF LayersWerePassed, GoodEvidencePasses
    <3>2. CASE ~passes
      <4>1. hs'.at = "sct" /\ hs'.verdict = "refused" /\ hs'.logProof = found.logProof
            BY <1>1, <1>4, <2>1, <3>2 DEF Shakes
      <4>2. ~found.logProof
            BY <1>4, <3>2
      <4> QED BY <1>1, <2>1, <4>1, <4>2 DEF LayersWerePassed, GoodEvidencePasses
    <3> QED BY <3>1, <3>2
  <2> QED BY <2>1, <2>2 DEF HandshakeInv
<1>5. CASE Decide(config.stack.sct = "Permissive", hs)
      BY <1>1, <1>4, <1>5 DEF Typed
<1>6. ASSUME NEW scts \in SctList, NEW rebuilt \in BOOLEAN, rebuilt => hs.chain # <<>>,
             Decide(SctPasses([mode |-> config.stack.sct, min |-> MinLogs], scts, hs.chain # <<>>, rebuilt),
                    [hs EXCEPT !.logged = (Cardinality(Vouching(scts)) >= MinLogs),
                               !.logProof = (Cardinality(Vouching(scts)) >= MinLogs) /\ rebuilt])
      PROVE  HandshakeInv'
  <2> DEFINE known == hs.chain # <<>>
             logged == Cardinality(Vouching(scts)) >= MinLogs
             passes == SctPasses([mode |-> config.stack.sct, min |-> MinLogs], scts, known, rebuilt)
             found == [hs EXCEPT !.logged = logged, !.logProof = logged /\ rebuilt]
  <2>1. passes \in BOOLEAN /\ known \in BOOLEAN /\ logged \in BOOLEAN
        BY DEF SctPasses
  <2>2. /\ config.stack.sct = "Strict" /\ passes => logged
        /\ known /\ rebuilt /\ logged => passes
        BY <1>3, SctPassesForVouching
  <2>3. Decide(passes, found) /\ (rebuilt => known)
        BY <1>6
  <2> HIDE DEF known, logged, passes
  <2>4. /\ found \in Shakes /\ found.at = hs.at /\ found.chain = hs.chain /\ found.left = hs.left
        /\ found.verdict = "none" /\ found.logged = logged /\ found.logProof = (logged /\ rebuilt)
        BY <1>1, <2>1 DEF Typed, Shakes
  <2> HIDE DEF found
  <2> QED BY <1>4, <2>1, <2>2, <2>3, <2>4
<1> QED BY <1>5, <1>6 DEF CheckScts

\* CheckOcsp: the layer is left behind with a staple that its policy admits.
LEMMA CheckOcspInv == HandshakeInv /\ CheckOcsp => HandshakeInv'
<1> SUFFICES ASSUME HandshakeInv, CheckOcsp PROVE HandshakeInv'
      OBVIOUS
<1>1. /\ Typed /\ hs.at = "ocsp" /\ hs.verdict = "none" /\ phase = "built"
      /\ config.stack.sct = "Strict" => hs.logged
      BY Types DEF HandshakeInv, CheckOcsp, LayersWerePassed
<1>2. Inside("ocsp") = "base"
      BY DEF Inside
<1>3. config.stack.ocsp \in {"off", "SoftFail", "HardRequire"}
      BY <1>1 DEF Typed, Configs, Stacks
<1>4. PICK st \in Staple : Decide(OcspPasses(config.stack.ocsp, st, IssuerKnown(hs)),
                                  [hs EXCEPT !.staple = Shows(st)])
      BY DEF CheckOcsp
<1> DEFINE known == IssuerKnown(hs)
           passes == OcspPasses(config.stack.ocsp, st, known)
           found == [hs EXCEPT !.staple = Shows(st)]
<1>5. known \in BOOLEAN /\ passes \in BOOLEAN
      BY DEF IssuerKnown, OcspPasses
<1>6. /\ known /\ passes => Shows(st) # "revoked"
      /\ config.stack.ocsp = "HardRequire" /\ passes => Shows(st) \in {"good", "goodOddly"}
      /\ known /\ Shows(st) = "good" => passes
      BY <1>3, <1>5, OcspPassesForGood
<1>7. Decide(passes, found)
      BY <1>4
<1>8. Shows(st) \in {"revoked", "good", "goodOddly", "nothing"}
      BY DEF Shows
<1> HIDE DEF passes
<1>9. /\ found \in Shakes /\ found.at = "ocsp" /\ found.chain = hs.chain /\ found.left = hs.left
      /\ found.selfSigned = hs.selfSigned
      /\ found.verdict = "none" /\ found.logged = hs.logged /\ found.staple = Shows(st)
      BY <1>1, <1>8 DEF Typed, Shakes
<1> HIDE DEF found
<1>10. /\ TypeOK' /\ ConfigIsBuilt' /\ CacheIsInOrder'
       /\ UNCHANGED <<phase, config>>
       /\ hs' = IF passes
                THEN [found EXCEPT !.at = Inside(hs.at),
                                   !.verdict = IF Inside(hs.at) = "done" THEN "accepted" ELSE "none"]
                ELSE [found EXCEPT !.verdict = "refused"]
      BY <1>1, <1>5, <1>7, <1>9, Verdict
<1>11. IssuerKnown(hs') = known
      BY <1>9, <1>10 DEF IssuerKnown, Shakes
<1> HIDE DEF known
<1>12. LayersWerePassed' /\ GoodEvidencePasses'
  <2>1. CASE passes
    <3>1. /\ hs'.at = "base" /\ hs'.verdict = "none" /\ hs'.logged = hs.logged
          /\ hs'.staple = Shows(st)
          BY <1>1, <1>2, <1>9, <1>10, <2>1 DEF Shakes
    <3> QED BY <1>1, <1>3, <1>6, <1>10, <1>11, <2>1, <3>1 DEF LayersWerePassed, GoodEvidencePasses
  <2>2. CASE ~passes
    <3>1. /\ hs'.at = "ocsp" /\ hs'.verdict = "refused" /\ hs'.logged = hs.logged
          /\ hs'.staple = Shows(st)
          BY <1>1, <1>9, <1>10, <2>2 DEF Shakes
    <3> QED BY <1>1, <1>6, <1>10, <1>11, <2>2, <3>1 DEF LayersWerePassed, GoodEvidencePasses
  <2> QED BY <2>1, <2>2
<1> QED BY <1>10, <1>12 DEF HandshakeInv

\* CheckBase: the facts that are kept are those that passed.
LEMMA CheckBaseInv == HandshakeInv /\ CheckBase => HandshakeInv'
<1> SUFFICES ASSUME HandshakeInv, CheckBase PROVE HandshakeInv'
      OBVIOUS
<1>1. /\ Typed /\ hs.at = "base" /\ hs.verdict = "none" /\ phase = "built"
      /\ config.stack.sct = "Strict" => hs.logged
      /\ config.stack.ocsp # "off" /\ IssuerKnown(hs) => hs.staple # "revoked"
      /\ config.stack.ocsp = "HardRequire" => hs.staple \in {"good", "goodOddly"}
      BY Types DEF HandshakeInv, CheckBase, LayersWerePassed
<1>2. Inside("base") = IF config.stack.cache THEN "cache" ELSE "done"
      BY DEF Inside
<1>3. config.stack.base \in {"rpk", "noVerify", "noHostname", "pins", "crl", "plain"}
      BY <1>1 DEF Typed, Configs, Stacks
<1> DEFINE passes(f) == BasePasses(config.stack.base, config.stack.pins, f)
<1>4. PICK f \in Facts : Decide(passes(f), [hs EXCEPT !.facts = IF passes(f) THEN f ELSE NoFacts])
      BY DEF CheckBase
<1> DEFINE found == [hs EXCEPT !.facts = IF passes(f) THEN f ELSE NoFacts]
<1>5. passes(f) \in BOOLEAN
      BY <1>3 DEF BasePasses, RawKeyPasses, NoVerifyPasses, HostnameIgnorePasses, PinPasses,
                  CrlPasses, WebPki, Facts
<1>6. NoFacts \in Facts
  <2>1. (CHOOSE l \in Leaf : TRUE) \in Leaf
        BY ClientBuilderAssumption
  <2> QED BY <2>1 DEF NoFacts, Facts
<1>7. /\ found \in Shakes /\ found.at = "base" /\ found.chain = hs.chain /\ found.left = hs.left
      /\ found.selfSigned = hs.selfSigned /\ found.staple = hs.staple
      /\ found.verdict = "none" /\ found.logged = hs.logged /\ (passes(f) => found.facts = f)
  <2> DEFINE facts == IF passes(f) THEN f ELSE NoFacts
  <2>1. facts \in Facts /\ (passes(f) => facts = f)
        BY <1>6
  <2>2. found = [hs EXCEPT !.facts = facts]
        OBVIOUS
  <2> HIDE DEF facts, found, passes
  <2> QED BY <1>1, <2>1, <2>2 DEF Typed, Shakes
<1>8. Decide(passes(f), found)
      BY <1>4
<1> HIDE DEF found
<1>9. /\ TypeOK' /\ ConfigIsBuilt' /\ CacheIsInOrder'
      /\ UNCHANGED <<phase, config>>
      /\ hs' = IF passes(f)
               THEN [found EXCEPT !.at = Inside(hs.at),
                                  !.verdict = IF Inside(hs.at) = "done" THEN "accepted" ELSE "none"]
               ELSE [found EXCEPT !.verdict = "refused"]
  <2> HIDE DEF passes
  <2> QED BY <1>1, <1>5, <1>7, <1>8, Verdict
<1>10. /\ hs'.chain = hs.chain /\ hs'.selfSigned = hs.selfSigned /\ hs'.staple = hs.staple
       /\ hs'.logged = hs.logged /\ hs'.facts = found.facts
       /\ IF passes(f) THEN /\ hs'.at = Inside("base")
                            /\ hs'.verdict = IF Inside("base") = "done" THEN "accepted" ELSE "none"
                       ELSE hs'.at = "base" /\ hs'.verdict = "refused"
  <2> HIDE DEF passes
  <2> QED BY <1>1, <1>5, <1>7, <1>9 DEF Shakes
<1>11. passes(f) => BasePasses(config.stack.base, config.stack.pins, hs'.facts)
      BY <1>7, <1>10
<1>12. IssuerKnown(hs') = IssuerKnown(hs)
      BY <1>10 DEF IssuerKnown
<1> HIDE DEF passes
<1>13. LayersWerePassed' /\ GoodEvidencePasses'
      BY <1>1, <1>2, <1>5, <1>9, <1>10, <1>11, <1>12 DEF LayersWerePassed, GoodEvidencePasses
<1> QED BY <1>9, <1>13 DEF HandshakeInv

\* Record, with an intermediate left: it is one of the chain that was presented.
LEMMA RecordOne ==
    ASSUME HandshakeInv, Record, hs.left # <<>>
    PROVE  /\ HandshakeInv'
           /\ Range(cache') \subseteq Range(cache) \cup Range(hs.chain)
<1>1. /\ Typed /\ hs.at = "cache" /\ hs.verdict = "none"
      /\ IsInjective(cache) /\ Range(hs.left) \subseteq Range(hs.chain)
      BY Types DEF HandshakeInv, Record, CacheIsInOrder
<1>2. /\ cache' = Put(Head(hs.left), cache)
      /\ hs' = [hs EXCEPT !.left = Tail(hs.left)]
      /\ UNCHANGED <<api, phase, b, config>>
      BY DEF Record, builderVars
<1>3. PICK c \in Intermediate : \/ hs.left = <<c>>
                                \/ \E d \in Intermediate : hs.left = <<c, d>>
      BY <1>1 DEF Typed, Shakes, Chain
<1>4. /\ Head(hs.left) = c
      /\ Tail(hs.left) \in Chain
      /\ Range(Tail(hs.left)) \subseteq Range(hs.left)
      /\ c \in Range(hs.left)
  <2>1. CASE hs.left = <<c>>
        BY <2>1 DEF Chain, Range
  <2>2. ASSUME NEW d \in Intermediate, hs.left = <<c, d>>
        PROVE  <1>4!1 /\ <1>4!2 /\ <1>4!3 /\ <1>4!4
    <3>1. Tail(<<c, d>>) = <<d>>
          OBVIOUS
    <3>2. Range(<<d>>) = {d} /\ Range(<<c, d>>) = {c, d}
          BY DEF Range
    <3> QED BY <2>2, <3>1, <3>2 DEF Chain
  <2> QED BY <1>3, <2>1, <2>2
<1>5. /\ cache' \in Seq(Intermediate) /\ IsInjective(cache')
      /\ Range(cache') \subseteq Range(cache) \cup {c}
      /\ Len(cache') <= Capacity
      BY <1>1, <1>2, <1>4, PutIsBounded DEF Typed
<1>6. /\ hs' \in Shakes /\ hs'.left = Tail(hs.left) /\ hs'.chain = hs.chain /\ hs'.at = "cache"
      /\ hs'.verdict = "none" /\ hs'.logged = hs.logged /\ hs'.staple = hs.staple
      /\ hs'.facts = hs.facts /\ hs'.selfSigned = hs.selfSigned
      BY <1>1, <1>2, <1>4 DEF Typed, Shakes
<1>7. TypeOK'
      BY <1>1, <1>2, <1>5, <1>6, Types DEF Typed
<1>8. ConfigIsBuilt'
      BY <1>2 DEF HandshakeInv, ConfigIsBuilt, Careful
<1>9. LayersWerePassed' /\ GoodEvidencePasses'
      BY <1>1, <1>2, <1>6 DEF HandshakeInv, LayersWerePassed, GoodEvidencePasses, IssuerKnown
<1>10. CacheIsInOrder'
      BY <1>1, <1>4, <1>5, <1>6 DEF CacheIsInOrder
<1> QED BY <1>1, <1>4, <1>5, <1>7, <1>8, <1>9, <1>10 DEF HandshakeInv

\* Record: the last step accepts, and what the outer layers found still holds.
LEMMA RecordInv == HandshakeInv /\ Record => HandshakeInv'
<1> SUFFICES ASSUME HandshakeInv, Record, hs.left = <<>> PROVE HandshakeInv'
      BY RecordOne
<1>1. Typed /\ hs.at = "cache" /\ hs.verdict = "none" /\ Decide(TRUE, hs) /\ Inside("cache") = "done"
      BY Types DEF HandshakeInv, Record, Inside
<1>2. hs \in Shakes
      BY <1>1 DEF Typed
<1>3. /\ TypeOK' /\ ConfigIsBuilt' /\ CacheIsInOrder'
      /\ UNCHANGED <<phase, config>>
      /\ hs' = [hs EXCEPT !.at = "done", !.verdict = "accepted"]
      BY <1>1, <1>2, Verdict
<1>4. /\ hs'.at = "done" /\ hs'.verdict = "accepted" /\ hs'.logged = hs.logged
      /\ hs'.staple = hs.staple /\ hs'.facts = hs.facts /\ hs'.selfSigned = hs.selfSigned
      /\ hs'.chain = hs.chain
      BY <1>2, <1>3 DEF Shakes
<1>5. LayersWerePassed' /\ GoodEvidencePasses'
      BY <1>1, <1>3, <1>4 DEF HandshakeInv, LayersWerePassed, GoodEvidencePasses, IssuerKnown
<1> QED BY <1>3, <1>5 DEF HandshakeInv

\* The application's own use of the cache.
LEMMA CacheUseInv ==
    ASSUME HandshakeInv, Touch \/ Clear
    PROVE  HandshakeInv' /\ Range(cache') \subseteq Range(cache)
<1>1. Typed /\ IsInjective(cache)
      BY Types DEF HandshakeInv, CacheIsInOrder
<1>2. UNCHANGED <<api, phase, b, config, hs>>
      BY DEF Touch, Clear, builderVars
<1>3. /\ cache' \in Seq(Intermediate) /\ Len(cache') <= Capacity /\ IsInjective(cache')
      /\ Range(cache') \subseteq Range(cache)
  <2>1. CASE Clear
        BY <2>1, ClientHandshakeAssumption DEF Clear, IsInjective, Range
  <2>2. CASE Touch
    <3>1. PICK c \in Range(cache) : cache' = Use(c, cache)
          BY <2>2 DEF Touch
    <3>2. c \in Intermediate
          BY <1>1, RangeOfSeq DEF Typed
    <3>3. Len(cache) \in Nat
          BY <1>1, LenProperties DEF Typed
    <3> QED BY <1>1, <3>1, <3>2, <3>3, UseKeepsOrder DEF Typed
  <2> QED BY <2>1, <2>2
<1>4. TypeOK'
      BY <1>1, <1>2, <1>3, Types DEF Typed
<1>5. ConfigIsBuilt' /\ LayersWerePassed' /\ GoodEvidencePasses' /\ CacheIsInOrder'
      BY <1>2, <1>3 DEF HandshakeInv, ConfigIsBuilt, LayersWerePassed, GoodEvidencePasses,
                        CacheIsInOrder, Careful, IssuerKnown
<1> QED BY <1>3, <1>4, <1>5 DEF HandshakeInv

\* A step that changes nothing keeps the invariant.
LEMMA StutterInv == HandshakeInv /\ UNCHANGED vars => HandshakeInv'
BY DEF vars, builderVars, HandshakeInv, TypeOK, BuilderTypeOK, ConfigIsBuilt, LayersWerePassed,
       GoodEvidencePasses, CacheIsInOrder, Careful, IssuerKnown

(***************************************************************************)
(* The invariant holds in every reachable state: the config is that of the *)
(* builder's fields, and a handshake has passed every layer behind it with *)
(* the evidence that it carries.                                           *)
(***************************************************************************)
THEOREM HandshakeInvariant == Spec => []HandshakeInv
<1>1. Init => HandshakeInv
      BY HandshakeInitInv
<1>2. HandshakeInv /\ [Next]_vars => HandshakeInv'
      BY ConfigureInv, BeginInv, CheckSctsInv, CheckOcspInv, CheckBaseInv, RecordInv,
         CacheUseInv, StutterInv DEF Next
<1> QED BY <1>1, <1>2, PTL DEF Spec

\* The config of a careful application: which verifier of the certificate it has,
\* and which policies around it.
LEMMA CarefulConfig ==
    ASSUME HandshakeInv, phase = "built", Careful
    PROVE  /\ b.useRpk => config.stack.base = "rpk" /\ config.stack.pins = Pin
           /\ ~b.useRpk =>
                /\ config.stack.base \in {"pins", "crl", "plain"}
                /\ b.pins # {} => config.stack.base = "pins" /\ config.stack.pins = b.pins
                /\ b.pins = {} /\ b.crls # "none" => config.stack.base = "crl"
                /\ b.sct = "Strict" => config.stack.sct = "Strict"
           /\ b.ocsp \in {"SoftFail", "HardRequire"} => config.stack.ocsp = b.ocsp
<1>1. Typed /\ config = IF api = "facade" THEN FacadeConfig(b) ELSE AdapterConfig(b)
      BY Types DEF HandshakeInv, ConfigIsBuilt
<1>2. /\ api = "adapter" => ~b.useRpk
      /\ api = "facade" => b.ocsp = "unset"
      /\ ~b.acceptCerts /\ ~b.acceptHostnames
      BY DEF HandshakeInv, ConfigIsBuilt, Careful
<1>3. /\ b.useRpk \in BOOLEAN /\ b.acceptCerts \in BOOLEAN /\ b.acceptHostnames \in BOOLEAN
      /\ api \in {"facade", "adapter"}
      BY <1>1 DEF Typed, Fields
<1>4. config.stack = AdapterStack(b) \/ (Path(b) # "adapter" /\ api = "facade")
      BY <1>1, <1>3 DEF FacadeConfig, AdapterConfig
<1>5. CASE config.stack = AdapterStack(b) /\ ~b.useRpk
      BY <1>5 DEF AdapterStack
<1>6. CASE Path(b) # "adapter" /\ api = "facade"
  <2>1. /\ config.stack.base = Path(b)
        /\ config.stack.pins = IF b.useRpk THEN Pin ELSE {}
        BY <1>1, <1>6 DEF FacadeConfig, NoStack
  <2>2. /\ b.useRpk => Path(b) = "rpk"
        /\ ~b.useRpk => Path(b) = "plain" /\ b.pins = {} /\ b.crls = "none" /\ b.sct = "unset"
        BY <1>2, <1>3, <1>6 DEF Path
  <2> QED BY <1>2, <1>6, <2>1, <2>2
<1>7. CASE config.stack = AdapterStack(b) /\ b.useRpk
  <2>1. api = "facade" /\ Path(b) = "rpk"
        BY <1>2, <1>3, <1>7 DEF Path
  <2> QED BY <1>6, <2>1
<1> QED BY <1>4, <1>5, <1>6, <1>7

\* The facade reaches the OCSP layer by no setting, so that a policy is one of the
\* adapter, whose config has it whatever else is set.
LEMMA OcspConfig ==
    ASSUME HandshakeInv, phase = "built", b.ocsp \in {"SoftFail", "HardRequire"}
    PROVE  config.stack.ocsp = b.ocsp
<1>1. api = "adapter" /\ config = AdapterConfig(b)
      BY Types DEF HandshakeInv, ConfigIsBuilt, Typed
<1> QED BY <1>1 DEF AdapterConfig, AdapterStack

\* What the verifiers of the certificate of a careful application establish.
LEMMA BaseEstablishes ==
    ASSUME HandshakeInv, Careful, hs.at \in {"cache", "done"}
    PROVE  IF b.useRpk THEN hs.facts.raw /\ hs.facts.leaf \in Pin
           ELSE /\ hs.facts.trusted /\ hs.facts.named
                /\ b.pins # {} => hs.facts.leaf \in b.pins
                /\ b.crls # "none" /\ b.pins = {} => hs.facts.crl = "clear"
<1>1. phase = "built" /\ BasePasses(config.stack.base, config.stack.pins, hs.facts)
      BY DEF HandshakeInv, LayersWerePassed
<1>2. /\ b.useRpk => config.stack.base = "rpk" /\ config.stack.pins = Pin
      /\ ~b.useRpk =>
           /\ config.stack.base \in {"pins", "crl", "plain"}
           /\ b.pins # {} => config.stack.base = "pins" /\ config.stack.pins = b.pins
           /\ b.pins = {} /\ b.crls # "none" => config.stack.base = "crl"
      BY <1>1, CarefulConfig
<1> QED BY <1>1, <1>2 DEF BasePasses, RawKeyPasses, PinPasses, CrlPasses, WebPki

(***************************************************************************)
(* Without a danger flag no combination of settings leads to a config that *)
(* accepts a server which nobody vouches for.                              *)
(***************************************************************************)
THEOREM ServersAreVouchedFor == Spec => []OnlyVouchedServers
<1>1. HandshakeInv => OnlyVouchedServers
      BY BaseEstablishes DEF OnlyVouchedServers, Accepted, HandshakeInv, LayersWerePassed
<1> QED BY <1>1, HandshakeInvariant, PTL

(***************************************************************************)
(* A certificate that a configured CRL or an authentic staple shows to be  *)
(* revoked is refused.                                                     *)
(***************************************************************************)
THEOREM RevokedServersAreRefused == Spec => []RevokedIsRefused
<1>1. ASSUME HandshakeInv, Accepted, Careful, ~b.useRpk
      PROVE  /\ b.crls # "none" /\ b.pins = {} => hs.facts.crl = "clear"
             /\ b.ocsp \in {"SoftFail", "HardRequire"} /\ IssuerKnown(hs) => hs.staple # "revoked"
  <2>1. hs.at = "done" /\ phase = "built"
        BY <1>1 DEF Accepted, HandshakeInv, LayersWerePassed
  <2>2. config.stack.ocsp # "off" /\ IssuerKnown(hs) => hs.staple # "revoked"
        BY <1>1, <2>1 DEF HandshakeInv, LayersWerePassed
  <2> QED BY <1>1, <2>1, <2>2, BaseEstablishes, OcspConfig
<1>2. HandshakeInv => RevokedIsRefused
      BY <1>1 DEF RevokedIsRefused
<1> QED BY <1>2, HandshakeInvariant, PTL

(***************************************************************************)
(* Under HardRequire every accepted server presented a current, authentic  *)
(* and good staple.                                                        *)
(***************************************************************************)
THEOREM GoodStaplesAreRequired == Spec => []HardRequireNeedsGood
<1>1. ASSUME HandshakeInv, Accepted, b.ocsp = "HardRequire"
      PROVE  hs.staple \in {"good", "goodOddly"}
  <2>1. hs.at = "done" /\ phase = "built"
        BY <1>1 DEF Accepted, HandshakeInv, LayersWerePassed
  <2> QED BY <1>1, <2>1, OcspConfig DEF HandshakeInv, LayersWerePassed
<1>2. HandshakeInv => HardRequireNeedsGood
      BY <1>1 DEF HardRequireNeedsGood
<1> QED BY <1>2, HandshakeInvariant, PTL

(***************************************************************************)
(* Under Strict, an accepted certificate was signed for by MinLogs         *)
(* different logs of the list, for lists of SCTs of any length.            *)
(***************************************************************************)
THEOREM LogsAreDistinct == Spec => []StrictNeedsDistinctLogs
<1>1. ASSUME HandshakeInv, Accepted, Careful, ~b.useRpk, b.sct = "Strict"
      PROVE  hs.logged
  <2>1. hs.at = "done" /\ phase = "built"
        BY <1>1 DEF Accepted, HandshakeInv, LayersWerePassed
  <2>2. config.stack.sct = "Strict"
        BY <1>1, <2>1, CarefulConfig
  <2> QED BY <1>1, <2>1, <2>2 DEF HandshakeInv, LayersWerePassed
<1>2. HandshakeInv => StrictNeedsDistinctLogs
      BY <1>1 DEF StrictNeedsDistinctLogs
<1> QED BY <1>2, HandshakeInvariant, PTL

(***************************************************************************)
(* No server is refused by the CT or the OCSP layer in spite of evidence   *)
(* that is good.                                                           *)
(***************************************************************************)
THEOREM GoodEvidenceIsAccepted == Spec => []GoodEvidencePasses
<1>1. HandshakeInv => GoodEvidencePasses
      BY DEF HandshakeInv
<1> QED BY <1>1, HandshakeInvariant, PTL

(***************************************************************************)
(* A step that puts a certificate into the cache takes it from a chain     *)
(* that has passed every verifier of the config.                           *)
(***************************************************************************)
THEOREM CacheHoldsVerifiedChains == Spec => CacheIsFedByVerifiedChains
<1> DEFINE Fed == \A c \in Range(cache') \ Range(cache) :
                     /\ c \in Range(hs.chain)
                     /\ hs.facts.trusted /\ hs.facts.named
                     /\ b.pins # {} => hs.facts.leaf \in b.pins
                     /\ b.sct = "Strict" => hs.logged
                     /\ b.ocsp = "HardRequire" => hs.staple \in {"good", "goodOddly"}
<1>1. ASSUME HandshakeInv, Next
      PROVE  Fed
  <2>1. CASE Record /\ hs.left # <<>>
    <3>1. Range(cache') \subseteq Range(cache) \cup Range(hs.chain)
          BY <1>1, <2>1, RecordOne
    <3>2. hs.at = "cache" /\ phase = "built" /\ config.stack.cache
          BY <1>1, <2>1 DEF Record, HandshakeInv, LayersWerePassed
    <3>3. Careful /\ ~b.useRpk
      <4>1. /\ Typed
            /\ api = "adapter" => Careful /\ ~b.useRpk
            /\ config = IF api = "facade" THEN FacadeConfig(b) ELSE AdapterConfig(b)
            BY <1>1, <3>2, Types DEF HandshakeInv, ConfigIsBuilt
      <4>2. api = "facade" /\ Path(b) # "adapter" => ~config.stack.cache
            BY <4>1 DEF FacadeConfig, NoStack
      <4>3. /\ b.useRpk \in BOOLEAN /\ b.acceptCerts \in BOOLEAN /\ b.acceptHostnames \in BOOLEAN
            /\ api \in {"facade", "adapter"}
            BY <4>1 DEF Typed, Fields
      <4>4. Path(b) = "adapter" => ~b.useRpk /\ ~b.acceptCerts /\ ~b.acceptHostnames
            BY <4>3 DEF Path
      <4> QED BY <3>2, <4>1, <4>2, <4>3, <4>4 DEF Careful
    <3>4. /\ hs.facts.trusted /\ hs.facts.named
          /\ b.pins # {} => hs.facts.leaf \in b.pins
          BY <1>1, <3>2, <3>3, BaseEstablishes
    <3>5. /\ config.stack.sct = "Strict" => hs.logged
          /\ config.stack.ocsp = "HardRequire" => hs.staple \in {"good", "goodOddly"}
          BY <1>1, <3>2 DEF HandshakeInv, LayersWerePassed
    <3>6. b.sct = "Strict" => config.stack.sct = "Strict"
          BY <1>1, <3>2, <3>3, CarefulConfig
    <3>7. b.ocsp = "HardRequire" => config.stack.ocsp = "HardRequire"
          BY <1>1, <3>2, OcspConfig
    <3> QED BY <3>1, <3>4, <3>5, <3>6, <3>7
  <2>2. CASE Record /\ hs.left = <<>>
    <3>1. cache' = cache
          BY <2>2 DEF Record, Decide
    <3> QED BY <3>1
  <2>3. CASE Touch \/ Clear
    <3>1. Range(cache') \subseteq Range(cache)
          BY <1>1, <2>3, CacheUseInv
    <3> QED BY <3>1
  <2>4. CASE Configure \/ Begin \/ CheckScts \/ CheckOcsp \/ CheckBase
    <3>1. cache' = cache
          BY <2>4 DEF Configure, Begin, CheckScts, CheckOcsp, CheckBase, Decide
    <3> QED BY <3>1
  <2> QED BY <1>1, <2>1, <2>2, <2>3, <2>4 DEF Next
<1>2. UNCHANGED vars => Fed
  <2> SUFFICES ASSUME UNCHANGED vars PROVE Fed
        OBVIOUS
  <2>1. cache' = cache
        BY DEF vars
  <2> QED BY <2>1
<1>3. HandshakeInv /\ [Next]_vars => [Fed]_vars
      BY <1>1, <1>2
<1> QED BY <1>3, HandshakeInvariant, PTL DEF Spec, CacheIsFedByVerifiedChains
=============================================================================
