---------------------------- MODULE CertVerifiers ----------------------------
(***************************************************************************)
(* The verdicts of the server certificate verifiers that a client stacks:  *)
(* Certificate Transparency (verifier/sct.rs), OCSP staples                *)
(* (verifier/ocsp_client.rs, ocsp_crypto.rs) and, under them, pinning,     *)
(* CRLs, raw public keys, the two "danger" verifiers or plain webpki.      *)
(*                                                                         *)
(* Certificates, signatures and digests are represented by what the code   *)
(* finds out about them: whose key made a signature, which certificate a   *)
(* response is bound to, whether it is current.  What webpki establishes   *)
(* (path to a root, name, CRL lookup) is external and is given as facts.   *)
(***************************************************************************)
EXTENDS Naturals, Sequences, SequencesExt, FiniteSets, FiniteSetsExt

CONSTANTS Leaf,         \* leaf certificates, or the raw keys presented instead
          Log,          \* CT logs in the application's log list
          ForeignLog,   \* a CT log that is not in it
          MaxResponses, \* bound: responses in one staple
          MaxScts       \* bound: entries of one SCT list

ASSUME CertVerifiersAssumption ==
    /\ ForeignLog \notin Log
    /\ MaxResponses \in Nat
    /\ MaxScts \in Nat

-----------------------------------------------------------------------------
(***************************************************************************)
(* OCSP.  A SingleResponse is bound to the leaf when serial number, issuer *)
(* name hash and issuer key hash match under a known hash algorithm.  The  *)
(* issuer here is whom the code takes for it: the certificate that the     *)
(* server presents right after the leaf, or a self-signed leaf; nothing    *)
(* compares it with the path that webpki finds.                            *)
(***************************************************************************)
Response == [bound : BOOLEAN, status : {"good", "revoked", "unknown"}, current : BOOLEAN]

\* byName: the responder id is the issuer's name; a key hash never matches.
\* delegate: the first certificate in certs[], if there is one, may lack the
\* OCSP signing EKU or the issuer's signature.  signer: whose key really signed.
Basic ==
    [form : {"basic"}, byName : BOOLEAN, delegate : {"none", "noEku", "foreign", "issued"},
     signer : {"issuer", "delegate", "other"},
     responses : UNION {kSubset(n, Response) : n \in 0..MaxResponses}]

\* No staple, a response whose status is not Successful, bytes that do not decode.
Blank ==
    [form : {"empty", "unsuccessful", "undecodable"}, byName : {FALSE}, delegate : {"none"},
     signer : {"other"}, responses : {{}}]

Staple == Basic \cup Blank

\* Faulty variant: the issuer's signature on the delegated signer is not checked.
SignerKeyUnchecked(st, issuerKnown) ==
    LET direct == issuerKnown /\ st.byName
    IN  CASE direct -> "issuer"
          [] ~direct /\ st.delegate = "noEku" -> "refused"
          [] ~direct /\ st.delegate \in {"foreign", "issued"} -> "delegate"
          [] ~direct /\ st.delegate = "none" ->
                IF issuerKnown THEN "issuer" ELSE "unresolved"

\* determine_signer_spki: the key that must have signed the response.
SignerKey(st, issuerKnown) ==
    LET direct == issuerKnown /\ st.byName
    IN  CASE direct -> "issuer"
          [] ~direct /\ st.delegate = "noEku" -> "refused"
          [] ~direct /\ st.delegate = "foreign" -> IF issuerKnown THEN "refused" ELSE "delegate"
          [] ~direct /\ st.delegate = "issued" -> "delegate"
          [] ~direct /\ st.delegate = "none" ->
                IF issuerKnown THEN "issuer" ELSE "unresolved"

\* Faulty variant: a revoked response counts only inside its validity window.
EvaluateCurrentOnly(responses) ==
    LET has(status) == \E r \in responses : r.bound /\ r.current /\ r.status = status
    IN  CASE has("revoked") -> "revoked"
          [] ~has("revoked") /\ has("good") -> "good"
          [] ~has("revoked") /\ ~has("good") /\ has("unknown") -> "unknown"
          [] OTHER -> "unparseable"

\* evaluate_responses: revoked is final even when stale, good outranks unknown,
\* and only responses bound to the leaf count.
Evaluate(responses) ==
    LET matched == {r \in responses : r.bound}
        has(status) == \E r \in matched : r.current /\ r.status = status
    IN  CASE \E r \in matched : r.status = "revoked" -> "revoked"
          [] (\A r \in matched : r.status # "revoked") /\ has("good") -> "good"
          [] (\A r \in matched : r.status # "revoked") /\ ~has("good") /\ has("unknown") ->
                "unknown"
          [] OTHER -> "unparseable"

\* check_ocsp_staple.
CheckStaple(st, issuerKnown) ==
    LET key == SignerKey(st, issuerKnown)
    IN  CASE st.form \in {"empty", "unsuccessful"} -> "absent"
          [] st.form = "undecodable" -> "unparseable"
          [] st.form = "basic" /\ key = "unresolved" -> "unparseable"
          [] st.form = "basic" /\ key # "unresolved" /\ key # st.signer -> "badSignature"
          [] st.form = "basic" /\ key # "unresolved" /\ key = st.signer ->
                IF issuerKnown THEN Evaluate(st.responses) ELSE "unparseable"

\* OcspClientVerifier::verify_server_cert: the staple lets the handshake go on.
OcspPasses(policy, st, issuerKnown) ==
    LET verdict == CheckStaple(st, issuerKnown)
    IN  \/ verdict = "good"
        \/ policy = "SoftFail" /\ verdict \in {"absent", "unparseable", "unknown"}

\* What a staple is worth, whatever the code makes of it: signed by the issuer
\* or by a signer that the issuer delegated to.
Authentic(st) ==
    /\ st.form = "basic"
    /\ st.signer = "issuer" \/ (st.signer = "delegate" /\ st.delegate = "issued")

ShowsRevoked(st) ==
    Authentic(st) /\ \E r \in st.responses : r.bound /\ r.status = "revoked"

ShowsGood(st) ==
    /\ Authentic(st)
    /\ \E r \in st.responses : r.bound /\ r.current /\ r.status = "good"
    /\ ~ShowsRevoked(st)

\* The responder identifies itself and its signer the way RFC 6960 asks.
WellFormed(st) ==
    CASE st.byName                            -> st.signer = "issuer"
      [] ~st.byName /\ st.delegate = "none"   -> st.signer = "issuer"
      [] ~st.byName /\ st.delegate # "none"   -> st.delegate = "issued" /\ st.signer = "delegate"

-----------------------------------------------------------------------------
(***************************************************************************)
(* Certificate Transparency.  over: what the log signed, the precert_entry *)
(* or the x509_entry of this leaf, or something else.  No embedded SCT can *)
(* sign the x509_entry of the certificate it is embedded in.               *)
(***************************************************************************)
Sct == [log : Log \cup {ForeignLog}, over : {"precert", "other"}]

SctList == UNION {[1..n -> Sct] : n \in 0..MaxScts}

\* verify_sct_signature over what the entry says was signed.
Verifies(sct, entry) == sct.log \in Log /\ sct.over = entry

\* build_sct_signed_data_precert; without an issuer, or when the precertificate
\* cannot be rebuilt from the leaf, build_sct_signed_data.
SignedEntry(issuerKnown, rebuilt) == IF issuerKnown /\ rebuilt THEN "precert" ELSE "x509"

\* Faulty variant: a log counts as seen before its signature was checked.
CountSeenFirst(scts, entry) ==
    LET step(acc, sct) ==
            IF sct.log \in acc.seen \cup {ForeignLog} THEN acc
            ELSE [seen |-> acc.seen \cup {sct.log},
                  count |-> acc.count + IF Verifies(sct, entry) THEN 1 ELSE 0]
    IN  FoldLeft(step, [seen |-> {}, count |-> 0], scts).count

\* Faulty variant: every verified SCT counts, not every log.
CountScts(scts, entry) == Cardinality({i \in DOMAIN scts : Verifies(scts[i], entry)})

\* count_trusted_verified: a log that was counted is skipped from then on; one
\* that is not in the list, or whose signature does not verify, is not counted.
CountTrustedVerified(scts, entry) ==
    LET counted[n \in 0..Len(scts)] ==
            IF n = 0 THEN {}
            ELSE IF scts[n].log \notin counted[n - 1] /\ Verifies(scts[n], entry)
                 THEN counted[n - 1] \cup {scts[n].log} ELSE counted[n - 1]
    IN  Cardinality(counted[Len(scts)])

\* SctVerifier::verify_server_cert for a leaf with a list that parses.
SctPasses(policy, scts, issuerKnown, rebuilt) ==
    \/ policy.mode = "Permissive"
    \/ CountTrustedVerified(scts, SignedEntry(issuerKnown, rebuilt)) >= policy.min

\* The logs of the list that really recorded this certificate.
Vouching(scts) ==
    {g \in Log : \E i \in DOMAIN scts : scts[i].log = g /\ scts[i].over = "precert"}

-----------------------------------------------------------------------------
(***************************************************************************)
(* The verifiers that decide about the certificate itself.  trusted: webpki*)
(* finds a valid path to a root; named: the leaf is valid for the server   *)
(* name; crl: what the CRLs say (rustls refuses an unknown status).  raw:  *)
(* the server presents a raw public key, which rustls lets it do exactly   *)
(* when the verifier requires raw public keys.                             *)
(***************************************************************************)
Facts ==
    [leaf : Leaf, raw : BOOLEAN, trusted : BOOLEAN, named : BOOLEAN,
     crl : {"clear", "revoked", "unknown"}]

\* WebPkiServerVerifier: the name is checked last.
WebPki(f) == ~f.raw /\ f.trusted /\ f.named

\* RawPublicKeyServerVerifier: byte for byte one of the trusted keys.
RawKeyPasses(keys, f) == f.raw /\ f.leaf \in keys

\* DangerousNoCertVerifier.
NoVerifyPasses(f) == ~f.raw

\* DangerHostnameIgnoreVerifier: a wrong name is the one error it swallows.
HostnameIgnorePasses(f) == ~f.raw /\ f.trusted

\* Faulty variant: a pinned leaf needs no valid path.
PinOnlyPasses(pins, f) == ~f.raw /\ f.leaf \in pins

\* CertPinVerifier: the fingerprint first, then the inner verifier.
PinPasses(pins, f) == f.leaf \in pins /\ WebPki(f)

\* CrlAwareServerVerifier.
CrlPasses(f) == WebPki(f) /\ f.crl = "clear"

BasePasses(base, pins, f) ==
    CASE base = "rpk"        -> RawKeyPasses(pins, f)
      [] base = "noVerify"   -> NoVerifyPasses(f)
      [] base = "noHostname" -> HostnameIgnorePasses(f)
      [] base = "pins"       -> PinPasses(pins, f)
      [] base = "crl"        -> CrlPasses(f)
      [] base = "plain"      -> WebPki(f)
=============================================================================
