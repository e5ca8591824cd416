---------------------------- MODULE ClientBuilder ----------------------------
(***************************************************************************)
(* The two ways to a ClientConfig: ClientBuilder of the facade             *)
(* (oxitls/src/tls13/client.rs) and RustcryptoClientConfigBuilder of the   *)
(* adapter (client_builder.rs), which the facade uses for pinning, CRLs    *)
(* and CT.  The facade ranks five ways to verify a server, and each copies *)
(* only some of the other settings into the config.                        *)
(*                                                                         *)
(* Roots, CRLs and client certificates are represented by whether rustls   *)
(* accepts them, and the settings that build() only copies by their names: *)
(* "alpn" stands for ALPN, key log, resumption and early data, and         *)
(* "compression" for certificate compression and the QUIC preview.         *)
(***************************************************************************)
EXTENDS CertVerifiers

CONSTANTS Pin,      \* the leaves (or raw keys) that an application pins
          MinLogs,  \* the distinct logs that a CT policy asks for
          Setting   \* a subset of {"ech", "provider", "compression", "alpn"}

ASSUME ClientBuilderAssumption ==
    /\ Pin # {} /\ Pin \subseteq Leaf
    /\ MinLogs \in Nat \ {0}
    /\ Setting \subseteq {"ech", "provider", "compression", "alpn"}

VARIABLES api,     \* the builder in use, "facade" or "adapter"
          phase,   \* "open": with_* calls go on; then "built" or "refused"
          b,       \* the builder's fields
          config   \* the ClientConfig

builderVars == <<api, phase, b, config>>

\* ClientBuilder::new and RustcryptoClientConfigBuilder::new.
EmptyBuilder ==
    [versions |-> "default", roots |-> "none", clientCert |-> "none",
     acceptCerts |-> FALSE, acceptHostnames |-> FALSE, useRpk |-> FALSE,
     pins |-> {}, crls |-> "none", ocsp |-> "unset", sct |-> "unset",
     cache |-> FALSE, settings |-> {}]

NoStack == [base |-> "noVerify", pins |-> {}, cache |-> FALSE, ocsp |-> "off", sct |-> "off"]

NoConfig == [stack |-> NoStack, tls12 |-> FALSE, clientAuth |-> FALSE, settings |-> {}]

BuilderInit ==
    /\ api \in {"facade", "adapter"}
    /\ phase = "open"
    /\ b = EmptyBuilder
    /\ config = NoConfig

-----------------------------------------------------------------------------
Set(fields) ==
    /\ phase = "open"
    /\ b' = fields
    /\ UNCHANGED <<api, phase, config>>

\* with_trusted_cert_der (which takes any bytes), with_webpki_roots and
\* with_root_store_builder; the adapter's with_roots takes a finished store.
WithRoots ==
    \/ Set([b EXCEPT !.roots = IF @ = "bad" THEN "bad" ELSE "good"])
    \/ api = "facade" /\ Set([b EXCEPT !.roots = "bad"])
    \/ api = "adapter" /\ Set([b EXCEPT !.roots = "none"])

\* with_cert_pinning, with_pinned_certs: an empty list switches pinning off.
WithPins == \E pins \in {{}, Pin} : Set([b EXCEPT !.pins = pins])

WithCrl == \E c \in {"none", "good", "bad"} : Set([b EXCEPT !.crls = c])

WithIntermediateCache == Set([b EXCEPT !.cache = TRUE])

\* with_ct_logs, with_sct_policy.
WithCtLogs == \E p \in {"Disabled", "Permissive", "Strict"} : Set([b EXCEPT !.sct = p])

\* The facade has no such call.
WithOcspPolicy ==
    /\ api = "adapter"
    /\ \E p \in {"Disabled", "SoftFail", "HardRequire"} : Set([b EXCEPT !.ocsp = p])

\* with_alpn_protocols, with_key_log_file, with_resumption_capacity, with_ech_grease
\* and so on; the adapter has ALPN, key log and resumption.  An empty list clears.
WithSetting ==
    /\ \E s \in Setting :
          /\ api = "adapter" => s = "alpn"
          /\ \/ Set([b EXCEPT !.settings = @ \cup {s}])
             \/ s = "alpn" /\ Set([b EXCEPT !.settings = @ \ {s}])

\* with_tls12_fallback, with_protocol_versions.
WithProtocolVersions ==
    /\ api = "facade"
    /\ \E v \in {"tls12", "unusable"} : Set([b EXCEPT !.versions = v])

WithClientCert ==
    /\ api = "facade"
    /\ \E c \in {"good", "badChain", "badKey"} : Set([b EXCEPT !.clientCert = c])

WithDangerAcceptInvalidCerts == api = "facade" /\ Set([b EXCEPT !.acceptCerts = TRUE])

WithDangerAcceptInvalidHostnames == api = "facade" /\ Set([b EXCEPT !.acceptHostnames = TRUE])

WithServerRawPublicKeys == api = "facade" /\ Set([b EXCEPT !.useRpk = TRUE])

-----------------------------------------------------------------------------
\* The verifiers that the adapter's build() stacks: pinning, else CRLs, else
\* plain webpki; around it the cache, then OCSP, then CT.
AdapterStack(x) ==
    [base  |-> CASE x.pins # {}                      -> "pins"
                 [] x.pins = {} /\ x.crls # "none"   -> "crl"
                 [] OTHER                            -> "plain",
     pins  |-> x.pins,
     cache |-> x.cache,
     ocsp  |-> IF x.ocsp \in {"unset", "Disabled"} THEN "off" ELSE x.ocsp,
     sct   |-> IF x.sct \in {"unset", "Disabled"} THEN "off" ELSE x.sct]

\* A webpki verifier needs a root, and the CRL verifier CRLs that parse.
AdapterBuilds(x) ==
    /\ x.roots = "good"
    /\ AdapterStack(x).base = "crl" => x.crls = "good"

\* with_safe_default_protocol_versions and with_no_client_auth.
AdapterConfig(x) ==
    [stack |-> AdapterStack(x), tls12 |-> TRUE, clientAuth |-> FALSE,
     settings |-> x.settings \cap {"alpn"}]

\* How the facade's build() will verify servers.
Path(x) ==
    CASE x.useRpk -> "rpk"
      [] ~x.useRpk /\ x.acceptCerts -> "noVerify"
      [] ~x.useRpk /\ ~x.acceptCerts /\ x.acceptHostnames -> "noHostname"
      [] OTHER -> IF x.pins # {} \/ x.crls # "none" \/ x.sct # "unset"
                  THEN "adapter" ELSE "plain"

\* The facade's build() returns Ok.  A list of versions is looked at even when
\* the adapter ignores it, unless ECH replaces it; the adapter ignores the client's
\* certificate too, and without verification only the client's key must load.
FacadeBuilds(x) ==
    /\ x.roots # "none" \/ x.pins # {} \/ x.useRpk \/ x.acceptCerts \/ x.acceptHostnames
    /\ x.versions = "unusable" => "ech" \in x.settings
    /\ Path(x) = "adapter" => AdapterBuilds(x)
    /\ Path(x) \in {"noHostname", "plain"} => x.roots = "good"
    /\ Path(x) # "adapter" => x.clientCert # "badKey"
    /\ Path(x) \notin {"adapter", "noVerify"} => x.clientCert # "badChain"

\* The ClientConfig of the facade's build().
FacadeConfig(x) ==
    IF Path(x) = "adapter"
    THEN AdapterConfig(x)
    ELSE [stack      |-> [NoStack EXCEPT !.base = Path(x),
                                         !.pins = IF x.useRpk THEN Pin ELSE {}],
          tls12      |-> x.versions = "tls12" /\ "ech" \notin x.settings,
          clientAuth |-> x.clientCert # "none",
          settings   |-> x.settings \ (IF x.useRpk THEN {"compression"} ELSE {})]

Build ==
    /\ phase = "open"
    /\ IF IF api = "facade" THEN FacadeBuilds(b) ELSE AdapterBuilds(b)
       THEN /\ phase' = "built"
            /\ config' = IF api = "facade" THEN FacadeConfig(b) ELSE AdapterConfig(b)
       ELSE /\ phase' = "refused"
            /\ UNCHANGED config
    /\ UNCHANGED <<api, b>>

BuilderNext ==
    \/ WithRoots \/ WithPins \/ WithCrl \/ WithIntermediateCache \/ WithCtLogs
    \/ WithOcspPolicy \/ WithSetting \/ WithProtocolVersions \/ WithClientCert
    \/ WithDangerAcceptInvalidCerts \/ WithDangerAcceptInvalidHostnames
    \/ WithServerRawPublicKeys \/ Build

BuilderSpec == BuilderInit /\ [][BuilderNext]_builderVars

-----------------------------------------------------------------------------
BuilderTypeOK ==
    /\ api \in {"facade", "adapter"}
    /\ phase \in {"open", "built", "refused"}
    /\ b \in [versions : {"default", "tls12", "unusable"}, roots : {"none", "good", "bad"},
              clientCert : {"none", "good", "badChain", "badKey"}, acceptCerts : BOOLEAN,
              acceptHostnames : BOOLEAN, useRpk : BOOLEAN, pins : {{}, Pin},
              crls : {"none", "good", "bad"},
              ocsp : {"unset", "Disabled", "SoftFail", "HardRequire"},
              sct : {"unset", "Disabled", "Permissive", "Strict"},
              cache : BOOLEAN, settings : SUBSET Setting]
    /\ config \in [stack : [base : {"rpk", "noVerify", "noHostname", "pins", "crl", "plain"},
                            pins : {{}, Pin}, cache : BOOLEAN,
                            ocsp : {"off", "SoftFail", "HardRequire"},
                            sct : {"off", "Permissive", "Strict"}],
                   tls12 : BOOLEAN, clientAuth : BOOLEAN, settings : SUBSET Setting]

(***************************************************************************)
(* TLS 1.2 is negotiated only by an application that asked for it          *)
(* (client.rs, line 58: "`None` means TLS 1.3 only (the safe default)",    *)
(* and line 141: "Create a new builder with TLS 1.3 only").                *)
(***************************************************************************)
Tls13OnlyByDefault ==
    phase = "built" /\ api = "facade" /\ b.versions = "default" => ~config.tls12
=============================================================================
