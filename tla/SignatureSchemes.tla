--------------------------- MODULE SignatureSchemes ---------------------------
(***************************************************************************)
(* Keys and signatures: the key types of oxitls-rcgen/src/keypair.rs, and  *)
(* how the RustCrypto provider (sign.rs, verify.rs and the modules below   *)
(* them in oxitls-rustcrypto-provider/src) loads keys, chooses schemes and *)
(* verifies.  A key is a number; a signature names the key that made it    *)
(* and its form, which is all that a verifier can tell.                    *)
(***************************************************************************)
EXTENDS Integers, Sequences

Algorithms == {"Ed25519", "EcdsaP256", "EcdsaP384", "Rsa2048", "Rsa4096"}

\* For each type of key, the algorithm that its SPKI names and the object
\* identifier of the signatures that it makes.
OxiEd25519Key   == [spki |-> "ed25519", oid |-> "ed25519"]
OxiEcdsaP256Key == [spki |-> "p256", oid |-> "ecdsa-with-SHA256"]
OxiEcdsaP384Key == [spki |-> "p384", oid |-> "ecdsa-with-SHA384"]
OxiRsa2048Key   == [spki |-> "rsa", oid |-> "sha256WithRSA"]
OxiRsa4096Key   == [spki |-> "rsa", oid |-> "sha256WithRSA"]

KeyType(alg) == CASE alg = "Ed25519" -> OxiEd25519Key
                  [] alg = "EcdsaP256" -> OxiEcdsaP256Key
                  [] alg = "EcdsaP384" -> OxiEcdsaP384Key
                  [] alg = "Rsa2048" -> OxiRsa2048Key
                  [] alg = "Rsa4096" -> OxiRsa4096Key

Spki(alg) == KeyType(alg).spki

-----------------------------------------------------------------------------
(* Private keys in a file.                                                 *)

KeyFormat == {"pkcs8", "pkcs1", "sec1"}

\* What the try_from of RsaSigningKey, EcdsaSigningKeyP256 and P384 and
\* Ed25519SigningKey accept.
RsaFormats   == {"pkcs8", "pkcs1"}
EcdsaFormats == {"pkcs8", "sec1"}
EddsaFormats == {"pkcs8"}

Decodes(kind, alg, format) ==
    /\ kind = Spki(alg)
    /\ format \in CASE kind = "rsa" -> RsaFormats
                    [] kind \in {"p256", "p384"} -> EcdsaFormats
                    [] kind = "ed25519" -> EddsaFormats

\* any_supported_type: the kinds are tried in turn, and at most one fits.
AnySupportedType(alg, format) ==
    {kind \in {"rsa", "p256", "p384", "ed25519"} : Decodes(kind, alg, format)}

-----------------------------------------------------------------------------
(* Signature schemes.                                                      *)

Pkcs1Schemes == {"RSA_PKCS1_SHA256", "RSA_PKCS1_SHA384", "RSA_PKCS1_SHA512"}

\* ALL_RSA_SCHEMES, in the order of preference.
AllRsaSchemes == <<"RSA_PSS_SHA512", "RSA_PSS_SHA384", "RSA_PSS_SHA256",
                   "RSA_PKCS1_SHA512", "RSA_PKCS1_SHA384", "RSA_PKCS1_SHA256">>

\* The `sign' of the cipher suites of TLS 1.2 that fit the kind of key.
Tls12Schemes(kind) ==
    IF kind = "rsa"
      THEN {AllRsaSchemes[n] : n \in 1..Len(AllRsaSchemes)}
      ELSE {"ECDSA_NISTP256_SHA256", "ECDSA_NISTP384_SHA384", "ECDSA_NISTP521_SHA512", "ED25519"}

\* rustls narrows what the client offered to what the version or the suite admits.
Admitted(version, kind, offered) ==
    IF version = "TLSv1_3" THEN offered \ Pkcs1Schemes ELSE offered \cap Tls12Schemes(kind)

\* Faulty variant of ChooseScheme: a scheme of the key's family is enough.
ChooseSchemeOfFamily(kind, offered) ==
    IF kind \in {"p256", "p384"}
      THEN offered \cap {"ECDSA_NISTP256_SHA256", "ECDSA_NISTP384_SHA384"}
      ELSE offered \cap {"ED25519"}

\* The one scheme of a curve.
EcdsaScheme(kind) == IF kind = "p256" THEN "ECDSA_NISTP256_SHA256" ELSE "ECDSA_NISTP384_SHA384"
EddsaScheme == "ED25519"

\* choose_scheme: the first of the key's schemes that was offered, if any.
ChooseScheme(kind, offered) ==
    CASE kind \in {"p256", "p384"} -> offered \cap {EcdsaScheme(kind)}
      [] kind = "ed25519" -> offered \cap {EddsaScheme}
      [] kind = "rsa" ->
           LET fits == {n \in 1..Len(AllRsaSchemes) : AllRsaSchemes[n] \in offered}
           IN  {AllRsaSchemes[n] : n \in {m \in fits : \A k \in fits : m <= k}}

\* What the signers of choose_scheme put into a signature: an ECDSA key always
\* uses the hash of its own curve.
Signature(key, kind, scheme) ==
    [number |-> key, form |-> CASE kind = "p256" -> "ecdsa-sha256"
                                [] kind = "p384" -> "ecdsa-sha384"
                                [] OTHER -> scheme]

\* The verifiers, as pairs of key algorithm and form of signature.
EcdsaVerifier(curve, hash) == <<curve, IF hash = 256 THEN "ecdsa-sha256" ELSE "ecdsa-sha384">>
EddsaVerifier == <<"ed25519", "ED25519">>
RsaVerifier(scheme) == <<"rsa", scheme>>

\* ALGORITHMS.mapping: for each scheme, the verifiers that are tried.
Mapping(scheme) ==
    CASE scheme = "ECDSA_NISTP384_SHA384" -> <<EcdsaVerifier("p384", 384), EcdsaVerifier("p256", 384)>>
      [] scheme = "ECDSA_NISTP256_SHA256" -> <<EcdsaVerifier("p256", 256), EcdsaVerifier("p384", 256)>>
      [] scheme = "ED25519" -> <<EddsaVerifier>>
      [] scheme \in {AllRsaSchemes[n] : n \in 1..Len(AllRsaSchemes)} -> <<RsaVerifier(scheme)>>
      [] OTHER -> <<>>

\* Faulty variant of VerifySignature: the algorithm in the SPKI is not looked at.
VerifySignatureOfAnyKey(a, cert, sig) ==
    /\ a[2] = sig.form
    /\ sig.number = cert.number

\* verify_signature of one algorithm: the key bits must parse as its algorithm.
VerifySignature(a, cert, sig) ==
    /\ a[1] = cert.spki
    /\ cert.spki = Spki(cert.alg)
    /\ a[2] = sig.form
    /\ sig.number = cert.number

\* webpki tries the whole mapping for TLS 1.2 and its first entry for TLS 1.3.
VerifyHandshakeSignature(version, scheme, cert, sig) ==
    \E n \in 1..Len(Mapping(scheme)) :
        /\ version = "TLSv1_3" => n = 1
        /\ VerifySignature(Mapping(scheme)[n], cert, sig)

\* The schemes that a client of this crate offers: those of ALGORITHMS.mapping.
SupportedSchemes == {"ECDSA_NISTP384_SHA384", "ECDSA_NISTP256_SHA256", "ED25519"}
                    \cup {AllRsaSchemes[n] : n \in 1..Len(AllRsaSchemes)}
=============================================================================
