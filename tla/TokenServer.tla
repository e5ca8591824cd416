----------------------------- MODULE TokenServer -----------------------------
(***************************************************************************)
(* A TLS 1.3 server whose keys stay on a PKCS#11 token: provider.rs,       *)
(* resolver.rs, signer.rs and session.rs of oxitls-adapter-pkcs11/src.     *)
(* The certificate and the type of a key are read when the configuration   *)
(* is built; the key itself is looked up by its label for each signature.  *)
(* The token and its administrator are external.  The session pool is the  *)
(* subject of SessionPool.tla; here it either has a session or has none.   *)
(*                                                                         *)
(* Host names are sequences of characters, as the code matches substrings. *)
(* A raw ECDSA signature is r and s as sequences of bytes of equal length. *)
(***************************************************************************)
EXTENDS SignatureSchemes, FiniteSets, SequencesExt

CONSTANTS KeyLabel,     \* values of CKA_LABEL, for a key and its certificate
          TokenKey,     \* the keys the token may hold: [number, alg]
          Character,    \* what host names are made of
          HostPattern,  \* hosts of an SNI map
          HostName,     \* server names that clients send
          Offer,        \* sets of schemes that clients offer
          RawSignature, \* pairs <<r, s>> that the token computes
          NoKey         \* nothing is stored under the label

\* A client that sends no server name.
NoName == <<"no server name">>

\* The empty string as the host of an entry.
EmptyName == <<>>

Byte == 0..255

ASSUME TokenServerAssumption ==
    /\ \A k \in TokenKey : k.alg \in Algorithms
    /\ \A k, m \in TokenKey : k.number = m.number => k.alg = m.alg
    /\ NoKey \notin TokenKey
    /\ {"*", "."} \subseteq Character
    /\ HostPattern \cup HostName \subseteq Seq(Character)
    /\ NoName \notin HostPattern \cup HostName
    \* Halves are as long as a number of the curve, which P-384 makes 48 bytes.
    /\ RawSignature \subseteq Seq(Byte) \X Seq(Byte)
    /\ \A q \in RawSignature : Len(q[1]) = Len(q[2]) /\ Len(q[1]) > 0 /\ Len(q[1]) <= 48

VARIABLES tokenKeys,   \* tokenKeys[l]: the private key under label l
          tokenCerts,  \* tokenCerts[l]: the key that the certificate under l is for
          resolver,    \* Pkcs11ServerCertResolver, or NoResolver
          shake        \* one handshake

tokenVars == <<tokenKeys, tokenCerts, resolver, shake>>

NoResolver == [built |-> FALSE]
Waiting == [phase |-> "waiting"]

-----------------------------------------------------------------------------
(* Keys and configurations.                                                *)

\* key_type_to_algorithm, for the type that probe_key_type read.
KeyTypeToAlgorithm(alg) == CASE alg \in {"EcdsaP256", "EcdsaP384"} -> {"ECDSA"}
                             [] alg \in {"Rsa2048", "Rsa4096"} -> {"RSA"}
                             [] OTHER -> {}

\* cert_chain and signing_key for one entry: nothing if an object is missing or
\* the type of the key is not supported.
CertifiedKey(chain, label) ==
    {[cert |-> tokenCerts[chain], label |-> label, algorithm |-> a] :
        a \in IF NoKey \in {tokenKeys[label], tokenCerts[chain]} THEN {}
              ELSE KeyTypeToAlgorithm(tokenKeys[label].alg)}

-----------------------------------------------------------------------------
(* SNI dispatch.  Results are sets with at most one element.               *)

\* Faulty variant of WildcardMatches: the part in front may have several labels.
WildcardMatchesDeep(key, requested) ==
    LET suffix   == SubSeq(key, 3, Len(key))
        labelDot == SubSeq(requested, 1, Len(requested) - Len(suffix))
    IN  /\ IsPrefix(<<"*", ".">>, key)
        /\ IsSuffix(suffix, requested)
        /\ Len(labelDot) > 1
        /\ Last(labelDot) = "."

\* The wildcard rule inside match_sni.
WildcardMatches(key, requested) ==
    LET suffix   == SubSeq(key, 3, Len(key))
        labelDot == SubSeq(requested, 1, Len(requested) - Len(suffix))
    IN  /\ IsPrefix(<<"*", ".">>, key)
        /\ IsSuffix(suffix, requested)
        /\ Len(labelDot) > 1
        /\ Last(labelDot) = "."
        /\ ~Contains(Front(labelDot), ".")

MatchSni(map, requested, strict, default) ==
    LET wild == {key \in DOMAIN map : WildcardMatches(key, requested)}
    IN  CASE requested \in DOMAIN map -> {map[requested]}
          [] requested \notin DOMAIN map /\ wild # {} -> {map[key] : key \in wild}
          [] OTHER -> IF strict THEN {} ELSE default

\* Pkcs11ServerCertResolver::lookup.
Lookup(name) == IF name = NoName THEN IF resolver.strict THEN {} ELSE resolver.default
                ELSE MatchSni(resolver.map, name, resolver.strict, resolver.default)

-----------------------------------------------------------------------------
(* Signatures.                                                             *)

PreferredSchemes(algorithm) ==
    CASE algorithm = "ECDSA" -> <<"ECDSA_NISTP384_SHA384", "ECDSA_NISTP256_SHA256">>
      [] algorithm = "RSA" -> AllRsaSchemes

\* choose_scheme of Pkcs11SigningKey: the first preferred scheme that was offered.
ChooseTokenScheme(algorithm, offered) ==
    LET schemes == PreferredSchemes(algorithm)
        fits == {n \in 1..Len(schemes) : schemes[n] \in offered}
    IN  {schemes[n] : n \in {m \in fits : \A k \in fits : m <= k}}

\* scheme_to_mechanism.  The PSS mechanisms take a hash, not the message.
SchemeToMechanism(scheme) ==
    CASE scheme = "ECDSA_NISTP256_SHA256" -> [type |-> "ECDSA", form |-> "ecdsa-sha256", hashes |-> TRUE]
      [] scheme = "ECDSA_NISTP384_SHA384" -> [type |-> "ECDSA", form |-> "ecdsa-sha384", hashes |-> TRUE]
      [] scheme \in Pkcs1Schemes -> [type |-> "RSA", form |-> scheme, hashes |-> TRUE]
      [] OTHER -> [type |-> "RSA", form |-> scheme, hashes |-> FALSE]

\* The number that a byte string stands for, as the digits to base 256 that are not
\* zero, each with its place.
BytesValue(bytes) == {<<Len(bytes) - n, bytes[n]>> : n \in {m \in 1..Len(bytes) : bytes[m] # 0}}

\* Faulty variant of EncodeInt: no padding of a high bit.
EncodeIntUnpadded(bytes) ==
    LET zeros    == {n \in 0..Len(bytes) : \A i \in 1..n : bytes[i] = 0}
        trimmed  == SubSeq(bytes, 1 + CHOOSE n \in zeros : \A k \in zeros : k <= n, Len(bytes))
        stripped == IF trimmed = <<>> THEN <<0>> ELSE trimmed
    IN  <<2, Len(stripped) % 256>> \o stripped

\* encode_int of raw_ecdsa_to_der: leading zeros are stripped, and one is put back
\* if the high bit is set.
EncodeInt(bytes) ==
    LET zeros    == {n \in 0..Len(bytes) : \A i \in 1..n : bytes[i] = 0}
        trimmed  == SubSeq(bytes, 1 + CHOOSE n \in zeros : \A k \in zeros : k <= n, Len(bytes))
        stripped == IF trimmed = <<>> THEN <<0>> ELSE trimmed
        padded   == IF Head(stripped) >= 128 THEN <<0>> \o stripped ELSE stripped
    IN  <<2, Len(padded) % 256>> \o padded

\* raw_ecdsa_to_der, for an even length.
RawEcdsaToDer(raw) ==
    LET half == Len(raw) \div 2
        ints == EncodeInt(SubSeq(raw, 1, half)) \o EncodeInt(SubSeq(raw, half + 1, Len(raw)))
    IN  <<48, Len(ints) % 256>> \o ints

\* finalize_signature for the ECDSA schemes: 48 is taken for the tag of a SEQUENCE.
FinalizeSignature(bytes) == IF Head(bytes) = 48 THEN bytes ELSE RawEcdsaToDer(bytes)

\* What a verifier decodes (external): an unsigned integer without superfluous
\* zeros, and a pair of them.
IsInteger(c) == c # <<>> /\ c[1] < 128 /\ (Len(c) > 1 /\ c[1] = 0 => c[2] >= 128)

DecodeSignature(b) ==
    {<<BytesValue(SubSeq(b, 5, 4 + i)), BytesValue(SubSeq(b, 7 + i, Len(b)))>> :
        i \in {n \in 1..(Len(b) - 6) :
                 /\ b[1] = 48 /\ b[2] = Len(b) - 2 /\ Len(b) - 2 < 128
                 /\ b[3] = 2 /\ b[4] = n /\ IsInteger(SubSeq(b, 5, 4 + n))
                 /\ b[5 + n] = 2 /\ b[6 + n] = Len(b) - 6 - n /\ IsInteger(SubSeq(b, 7 + n, Len(b)))}}

-----------------------------------------------------------------------------
TokenInit ==
    /\ tokenKeys = [l \in KeyLabel |-> NoKey]
    /\ tokenCerts = [l \in KeyLabel |-> NoKey]
    /\ resolver = NoResolver
    /\ shake = Waiting

\* The administrator stores a key and its certificate, before the server is built.
Provision(l, k) ==
    /\ resolver = NoResolver
    /\ tokenKeys' = [tokenKeys EXCEPT ![l] = k]
    /\ tokenCerts' = [tokenCerts EXCEPT ![l] = k]
    /\ UNCHANGED <<resolver, shake>>

\* The administrator renews a key and its certificate while the server runs.
ReplaceKey(l, k) ==
    /\ resolver # NoResolver
    /\ tokenKeys' = [tokenKeys EXCEPT ![l] = k]
    /\ tokenCerts' = [tokenCerts EXCEPT ![l] = k]
    /\ UNCHANGED <<resolver, shake>>

\* The administrator destroys a key while the server runs.
DeleteKey(l) ==
    /\ resolver # NoResolver
    /\ tokenKeys' = [tokenKeys EXCEPT ![l] = NoKey]
    /\ UNCHANGED <<tokenCerts, resolver, shake>>

\* server_config: one certificate for everybody.  Nothing compares the labels.
TokenServerConfig(chain, label) ==
    /\ resolver = NoResolver
    /\ \E ck \in CertifiedKey(chain, label) :
         resolver' = [built |-> TRUE, map |-> [h \in {} |-> ck], default |-> {ck}, strict |-> FALSE]
    /\ UNCHANGED <<tokenKeys, tokenCerts, shake>>

\* server_config_sni: every entry must be found; there is no default.
TokenServerConfigSni(labels, strict) ==
    /\ resolver = NoResolver
    /\ \A h \in DOMAIN labels : CertifiedKey(labels[h][1], labels[h][2]) # {}
    /\ resolver' = [built |-> TRUE, default |-> {}, strict |-> strict,
                    map |-> [h \in DOMAIN labels |->
                                CHOOSE ck \in CertifiedKey(labels[h][1], labels[h][2]) : TRUE]]
    /\ UNCHANGED <<tokenKeys, tokenCerts, shake>>

\* resolve, for a ClientHello.
Resolve(name) ==
    /\ resolver # NoResolver
    /\ shake = Waiting
    /\ \/ \E ck \in Lookup(name) : shake' = [phase |-> "resolved", name |-> name, entry |-> ck]
       \/ Lookup(name) = {} /\ shake' = [phase |-> "unresolved", name |-> name]
    /\ UNCHANGED <<tokenKeys, tokenCerts, resolver>>

\* rustls asks the key for a signer, with what TLS 1.3 admits of the client's offer.
ChooseSigner(offered) ==
    LET schemes == ChooseTokenScheme(shake.entry.algorithm, offered \ Pkcs1Schemes)
    IN  /\ shake.phase = "resolved"
        /\ shake' = [phase |-> IF schemes = {} THEN "noScheme" ELSE "chosen", name |-> shake.name,
                     entry |-> shake.entry, schemes |-> schemes]
        /\ UNCHANGED <<tokenKeys, tokenCerts, resolver>>

\* The scheme of the signer, and whether the token can sign for it with the key that
\* has the label now: there must be one, of the right type, and PSS gets no hash.
ChosenScheme == CHOOSE s \in shake.schemes : TRUE

Signs(key, mechanism) ==
    /\ key # NoKey
    /\ mechanism.type \in KeyTypeToAlgorithm(key.alg)
    /\ mechanism.hashes

(***************************************************************************)
(* sign_via_pool and sign_with_pkcs11: a session, the key that has the     *)
(* label now, and the signature as the token returns it, raw or encoded.   *)
(***************************************************************************)
SignViaPool(q, encoded) ==
    LET key == tokenKeys[shake.entry.label]
        mechanism == SchemeToMechanism(ChosenScheme)
        bytes == IF encoded THEN RawEcdsaToDer(q[1] \o q[2]) ELSE q[1] \o q[2]
    IN  /\ shake.phase = "chosen"
        /\ Signs(key, mechanism)
        /\ shake' = [phase |-> "signed", name |-> shake.name, entry |-> shake.entry,
                     scheme |-> ChosenScheme, raw |-> q, encoded |-> encoded,
                     signature |-> [number |-> key.number, form |-> mechanism.form],
                     bytes |-> FinalizeSignature(bytes)]
        /\ UNCHANGED <<tokenKeys, tokenCerts, resolver>>

\* The same without a key under the label, or with one that the token refuses.
SignFails ==
    /\ shake.phase = "chosen"
    /\ ~Signs(tokenKeys[shake.entry.label], SchemeToMechanism(ChosenScheme))
    /\ shake' = [shake EXCEPT !.phase = "signFailed"]
    /\ UNCHANGED <<tokenKeys, tokenCerts, resolver>>

\* No session is available.
PoolExhausted ==
    /\ shake.phase = "chosen"
    /\ shake' = [shake EXCEPT !.phase = "exhausted"]
    /\ UNCHANGED <<tokenKeys, tokenCerts, resolver>>

\* The client decodes the signature and verifies it with the key of the certificate.
ClientVerifies ==
    LET cert == [number |-> shake.entry.cert.number, alg |-> shake.entry.cert.alg,
                 spki |-> Spki(shake.entry.cert.alg)]
    IN  /\ shake.phase = "signed"
        /\ shake' = [shake EXCEPT !.phase =
             IF /\ VerifyHandshakeSignature("TLSv1_3", shake.scheme, cert, shake.signature)
                /\ DecodeSignature(shake.bytes) = {<<BytesValue(shake.raw[1]), BytesValue(shake.raw[2])>>}
               THEN "connected" ELSE "refused"]
        /\ UNCHANGED <<tokenKeys, tokenCerts, resolver>>

\* The next client.
Finished ==
    /\ shake.phase \in {"unresolved", "noScheme", "signFailed", "exhausted", "connected", "refused"}
    /\ shake' = Waiting
    /\ UNCHANGED <<tokenKeys, tokenCerts, resolver>>

TokenNext ==
    \/ \E l \in KeyLabel, k \in TokenKey : Provision(l, k) \/ ReplaceKey(l, k)
    \/ \E l \in KeyLabel : DeleteKey(l)
    \/ \E chain, label \in KeyLabel : TokenServerConfig(chain, label)
    \/ \E hosts \in SUBSET HostPattern, strict \in BOOLEAN :
          \E labels \in [hosts -> KeyLabel \X KeyLabel] : TokenServerConfigSni(labels, strict)
    \/ \E name \in HostName \cup {NoName} : Resolve(name)
    \/ \E offered \in Offer : ChooseSigner(offered)
    \/ \E q \in RawSignature, encoded \in BOOLEAN : SignViaPool(q, encoded)
    \/ SignFails
    \/ PoolExhausted
    \/ ClientVerifies
    \/ Finished

TokenSpec == TokenInit /\ [][TokenNext]_tokenVars

-----------------------------------------------------------------------------
\* RFC 6125, 6.4.3: below a wildcard is what is left of a name after its first label.
Covers(pattern, name) ==
    \E n \in 2..Len(name) : /\ name[n] = "."
                            /\ \A i \in 1..(n - 1) : name[i] # "."
                            /\ pattern = <<"*", ".">> \o SubSeq(name, n + 1, Len(name))

(***************************************************************************)
(* Tenants are kept apart: a client is given the certificate of the entry  *)
(* for its name, of the one wildcard that covers the name if there is no   *)
(* such entry, or else the fallback, and nothing exactly when there is     *)
(* none.  The fallback is the only certificate of the server or, in a map, *)
(* the entry under the empty name, of which EmptyEntryIsDefault says that  *)
(* it is served: here it only must not be served to anybody else.          *)
(***************************************************************************)
TenantsAreSeparated ==
    LET own == {h \in DOMAIN resolver.map : h = shake.name}
        wild == {h \in DOMAIN resolver.map : Covers(h, shake.name)}
        fallback == IF EmptyName \in DOMAIN resolver.map THEN {resolver.map[EmptyName]}
                    ELSE resolver.default
        expected == IF shake.name # NoName /\ own # {} THEN {resolver.map[h] : h \in own}
                    ELSE IF shake.name # NoName /\ wild # {} THEN {resolver.map[h] : h \in wild}
                    ELSE fallback
    IN  /\ shake.phase = "resolved" => expected = {shake.entry}
        /\ shake.phase = "unresolved" => \/ expected = {}
                                         \/ resolver.strict
                                         \/ EmptyName \in DOMAIN resolver.map /\ expected = fallback

(***************************************************************************)
(* "To add a default fallback certificate, insert an entry under the empty *)
(* string" (resolver.rs, lines 120-121): a server with such an entry that  *)
(* is not strict leaves no client without a certificate.                   *)
(***************************************************************************)
EmptyEntryIsDefault ==
    shake.phase = "unresolved" => resolver.strict \/ EmptyName \notin DOMAIN resolver.map

\* The curve whose keys can sign for an ECDSA scheme.
CurveOf(scheme) == IF scheme = "ECDSA_NISTP384_SHA384" THEN "EcdsaP384" ELSE "EcdsaP256"

(***************************************************************************)
(* Clients connect only with a key that their certificate names, whatever  *)
(* labels were combined and however keys are renewed or deleted between    *)
(* the build, the choice and the signature; and the signature of such a    *)
(* key, raw or encoded by the token, with leading zeros or high bits, is   *)
(* refused only if it is raw and its first byte is 48, or if the curve is  *)
(* not that of the scheme.                                                 *)
(***************************************************************************)
SignaturesArriveIntact ==
    LET cert == shake.entry.cert
    IN  /\ shake.phase = "connected" => shake.signature.number = cert.number
        /\ (shake.phase = "refused" /\ shake.signature.number = cert.number) =>
             \/ ~shake.encoded /\ shake.raw[1][1] = 48
             \/ cert.alg # CurveOf(shake.scheme)

(***************************************************************************)
(* "Supported key types are RSA, ECDSA P-256/P-384, and Ed25519": once a   *)
(* scheme of the client was chosen, the handshake of a server whose key    *)
(* was neither renewed nor deleted never fails because of the key.         *)
(***************************************************************************)
SupportedKeysServe ==
    shake.phase \in {"signFailed", "refused"} =>
        tokenKeys[shake.entry.label] # shake.entry.cert

-----------------------------------------------------------------------------
\* The inductive invariant behind TenantsAreSeparated: nobody is served before the
\* server is built, and what was built stays.
TokenInv ==
    /\ "phase" \in DOMAIN shake
    /\ resolver = NoResolver => shake = Waiting
    /\ resolver # NoResolver =>
         /\ DOMAIN resolver.map \subseteq HostPattern
         /\ \A ck, dk \in resolver.default : ck = dk
         /\ DOMAIN resolver.map # {} => resolver.default = {}
    /\ TenantsAreSeparated

\* An entry of the resolver.
Serves(entry) == entry \in [cert : TokenKey, label : KeyLabel, algorithm : {"ECDSA", "RSA"}]

TokenIsTyped == {tokenKeys, tokenCerts} \subseteq [KeyLabel -> TokenKey \cup {NoKey}]

ResolverServes ==
    resolver # NoResolver =>
        /\ \A h \in DOMAIN resolver.map : Serves(resolver.map[h])
        /\ \A entry \in resolver.default : Serves(entry)

EcdsaSchemes == {"ECDSA_NISTP384_SHA384", "ECDSA_NISTP256_SHA256"}
PssSchemes   == {"RSA_PSS_SHA512", "RSA_PSS_SHA384", "RSA_PSS_SHA256"}

\* The entry of a handshake that is under way, and the schemes that were chosen for it.
EntryServes ==
    /\ shake.phase \in {"resolved", "chosen", "signed"} => Serves(shake.entry)
    /\ shake.phase = "chosen" =>
         /\ shake.schemes # {}
         /\ shake.schemes \subseteq IF shake.entry.algorithm = "ECDSA" THEN EcdsaSchemes ELSE PssSchemes

\* Only ECDSA keys get as far as a signature.
SignedAsChosen ==
    LET q == shake.raw
    IN  shake.phase = "signed" =>
          /\ q \in RawSignature
          /\ shake.scheme \in EcdsaSchemes
          /\ shake.signature.form = SchemeToMechanism(shake.scheme).form
          /\ \E key \in TokenKey : /\ key.number = shake.signature.number
                                   /\ key.alg \in {"EcdsaP256", "EcdsaP384"}
          /\ shake.bytes = FinalizeSignature(IF shake.encoded THEN RawEcdsaToDer(q[1] \o q[2])
                                             ELSE q[1] \o q[2])

\* The inductive invariant behind SignaturesArriveIntact.
SigningInv ==
    TokenInv /\ TokenIsTyped /\ ResolverServes /\ EntryServes /\ SignedAsChosen /\ SignaturesArriveIntact
=============================================================================
