---------------------------- MODULE ServerBuilder ----------------------------
(***************************************************************************)
(* ServerBuilder of oxitls/src/tls13/server.rs, the facade, and            *)
(* RustcryptoServerConfigBuilder of oxitls-adapter-rustls-rustcrypto/src/  *)
(* server_builder.rs, the adapter's own builder: the sequence of with_*    *)
(* calls an application makes, and the ServerConfig that build() derives   *)
(* from them.  Later calls overwrite, clear or shadow what earlier ones    *)
(* set, build() ranks alternatives, and GenericTlsAcceptor::accept builds  *)
(* one config per connection from a clone of the builder; what the         *)
(* application asked for is kept beside the builder in `wanted'.           *)
(*                                                                         *)
(* Certificates, keys and roots are represented by whether rustls accepts  *)
(* them; a ticketer by the identity of its keys and the identities of the  *)
(* replay guards around it (0 and {} when there is none); a stapled OCSP   *)
(* response by whether there is one.                                       *)
(***************************************************************************)
EXTENDS Naturals, FiniteSets

CONSTANTS Provider,     \* crypto providers the application can inject
          Default,      \* pure_provider() or pure_provider_with_pq()
          Name,         \* SNI names whose certificate is valid for them
          BadName,      \* an SNI name that the resolver refuses
          Option,       \* settings that build() only copies: ALPN, key log, ...
          MaxTicketers  \* bound: ticketers and guards that are created

ASSUME ServerBuilderAssumption ==
    /\ Default \notin Provider
    /\ BadName \notin Name
    /\ MaxTicketers \in Nat

VARIABLES phase,     \* "open": with_* calls go on; then "built", "refused" or "lost"
          b,         \* the builder's fields
          made,      \* number of ticketers and guards created so far
          config,    \* the ServerConfig of build()
          cloned,    \* the ServerConfig of clone().build()
          wanted     \* what the application's calls asked for

vars == <<phase, b, made, config, cloned, wanted>>

NoTicketer == [key |-> 0, guards |-> {}]

\* new() of either builder; fields that the adapter does not have stay as they are.
EmptyBuilder(api) ==
    [api |-> api, cert |-> "none", roots |-> "none", optional |-> FALSE,
     clientRpk |-> FALSE, serverRpk |-> FALSE, sni |-> {}, versions |-> "default", provider |-> Default,
     ticketer |-> NoTicketer, rotation |-> NoTicketer, ocsp |-> FALSE, options |-> {}]

NoConfig ==
    [auth |-> "none", provider |-> Default, identity |-> "none", staple |-> FALSE,
     ticketer |-> NoTicketer, rotates |-> FALSE, options |-> {}]

Init ==
    /\ phase = "open"
    /\ \E api \in {"facade", "adapter"} : b = EmptyBuilder(api)
    /\ made = 0
    /\ config = NoConfig
    /\ cloned = NoConfig
    /\ wanted = [replay |-> FALSE, auth |-> "none"]

-----------------------------------------------------------------------------
\* A call that only changes the builder's fields.
Set(fields) ==
    /\ phase = "open"
    /\ b' = fields
    /\ UNCHANGED <<phase, made, config, cloned>>

\* A call that only the facade has.
SetFacade(fields) == b.api = "facade" /\ Set(fields)

\* A call that returns Err: self was moved into it and is gone.
Lose ==
    /\ phase = "open"
    /\ b.api = "facade"
    /\ phase' = "lost"
    /\ UNCHANGED <<b, made, config, cloned, wanted>>

\* with_pem_cert_and_key (and its alias), with_der_cert_and_key; with_cert_and_key.
WithCertAndKey ==
    \/ /\ \E c \in {"good", "mismatched"} : Set([b EXCEPT !.cert = c])
       /\ UNCHANGED wanted
    \/ Lose

WithClientCertVerifier ==
    /\ \E r \in {"good", "empty"} : SetFacade([b EXCEPT !.roots = r])
    /\ wanted' = [wanted EXCEPT !.auth = "required"]

\* with_client_auth of the adapter.
WithClientAuth ==
    /\ b.api = "adapter"
    /\ \E r \in {"good", "empty"}, required \in BOOLEAN :
          /\ Set([b EXCEPT !.roots = r, !.optional = ~required])
          /\ wanted' = [wanted EXCEPT !.auth = IF required THEN "required" ELSE "optional"]

WithClientRawPublicKeys ==
    /\ SetFacade([b EXCEPT !.clientRpk = TRUE])
    /\ wanted' = [wanted EXCEPT !.auth = "required"]

WithServerRawPublicKey ==
    /\ SetFacade([b EXCEPT !.serverRpk = TRUE])
    /\ UNCHANGED wanted

WithSniCert ==
    /\ \E n \in Name \cup {BadName} : SetFacade([b EXCEPT !.sni = @ \cup {n}])
    /\ UNCHANGED wanted

WithProtocolVersions ==
    /\ \E v \in {"usable", "unusable"} : SetFacade([b EXCEPT !.versions = v])
    /\ UNCHANGED wanted

WithProvider ==
    /\ \E p \in Provider : SetFacade([b EXCEPT !.provider = p])
    /\ UNCHANGED wanted

\* with_alpn_protocols, with_max_fragment_size, with_max_early_data_size,
\* with_key_log_file, with_key_log_custom, with_cert_compression.  An empty
\* list or a None clears a setting.
WithOption ==
    /\ \E o \in Option : \/ Set([b EXCEPT !.options = @ \cup {o}])
                         \/ Set([b EXCEPT !.options = @ \ {o}])
    /\ UNCHANGED wanted

-----------------------------------------------------------------------------
\* The application makes a ticketer and installs it.
WithTicketer ==
    /\ phase = "open"
    /\ made < MaxTicketers
    /\ made' = made + 1
    /\ b' = [b EXCEPT !.ticketer = [key |-> made', guards |-> {}],
                      !.rotation = NoTicketer]
    /\ wanted' = [wanted EXCEPT !.replay = FALSE]
    /\ UNCHANGED <<phase, config, cloned>>

\* Faulty variant: a ticketer that the application chose is left as it is.
WrapDefaultOnly ==
    /\ phase = "open"
    /\ b.ticketer = NoTicketer => made + 2 <= MaxTicketers
    /\ IF b.ticketer = NoTicketer
       THEN /\ made' = made + 2
            /\ b' = [b EXCEPT !.ticketer = [key |-> made + 1, guards |-> {made + 2}]]
       ELSE UNCHANGED <<made, b>>
    /\ wanted' = [wanted EXCEPT !.replay = TRUE]
    /\ UNCHANGED <<phase, config, cloned>>

\* with_anti_replay: wrap the ticketer, or a new OxiTicketer when the field is
\* None, in a new guard; the rotation field is not looked at.
Wrap ==
    /\ phase = "open"
    /\ IF b.ticketer = NoTicketer
       THEN /\ made + 2 <= MaxTicketers
            /\ made' = made + 2
            /\ b' = [b EXCEPT !.ticketer = [key |-> made + 1, guards |-> {made + 2}]]
       ELSE /\ made < MaxTicketers
            /\ made' = made + 1
            /\ b' = [b EXCEPT !.ticketer.guards = @ \cup {made'}]
    /\ wanted' = [wanted EXCEPT !.replay = TRUE]
    /\ UNCHANGED <<phase, config, cloned>>

WithAntiReplay == b.api = "facade" /\ (Wrap \/ (b.ticketer = NoTicketer /\ Lose))

\* with_ticketer_rotation_interval: when the OS RNG fails the call does nothing.
WithTicketerRotationInterval ==
    \/ /\ phase = "open"
       /\ b.api = "facade"
       /\ made < MaxTicketers
       /\ made' = made + 1
       /\ b' = [b EXCEPT !.rotation = [key |-> made', guards |-> {}],
                         !.ticketer = NoTicketer]
       /\ wanted' = [wanted EXCEPT !.replay = FALSE]
       /\ UNCHANGED <<phase, config, cloned>>
    \/ SetFacade(b) /\ UNCHANGED wanted

-----------------------------------------------------------------------------
\* with_ocsp_response, and with_ocsp_response_resolver, which asks the resolver
\* here and now and leaves the field as it is when there is no response; in the
\* adapter an empty response is none.
WithOcspResponse ==
    /\ \/ Set([b EXCEPT !.ocsp = TRUE])
       \/ SetFacade(b)
       \/ b.api = "adapter" /\ Set([b EXCEPT !.ocsp = FALSE])
    /\ UNCHANGED wanted

-----------------------------------------------------------------------------
\* Which certificate resolver build() installs.
Identity(x) ==
    CASE x.serverRpk              -> "rpk"
      [] ~x.serverRpk /\ x.sni # {} -> "sni"
      [] OTHER                    -> "single"

\* Faulty variant: the order of the two client verifiers is swapped.
ClientAuthRootsFirst(x) ==
    CASE x.roots = "good"                  -> "webpki"
      [] x.roots # "good" /\ x.clientRpk   -> "rpk"
      [] OTHER                             -> "none"

\* Which client verifier build() installs.
ClientAuth(x) ==
    CASE x.clientRpk                        -> "rpk"
      [] ~x.clientRpk /\ x.roots # "none"   -> "webpki"
      [] OTHER                              -> "none"

\* The same in build() of the adapter.
AdapterAuth(x) ==
    IF x.roots = "none" THEN "none" ELSE IF x.optional THEN "webpkiOptional" ELSE "webpki"

AuthOf(x) == IF x.api = "facade" THEN ClientAuth(x) ELSE AdapterAuth(x)

\* build() returns Ok: rustls takes the versions, the roots and the certificate.
Builds(x) ==
    /\ x.versions # "unusable"
    /\ AuthOf(x) \in {"webpki", "webpkiOptional"} => x.roots = "good"
    /\ Identity(x) = "sni" => BadName \notin x.sni
    /\ Identity(x) = "single" => x.cert = "good"

\* The ServerConfig that build() returns.
Config(x) ==
    [auth |-> AuthOf(x),
     provider |-> x.provider,
     identity |-> Identity(x),
     staple   |-> Identity(x) = "single" /\ x.ocsp,
     ticketer |-> IF x.rotation # NoTicketer THEN x.rotation ELSE x.ticketer,
     rotates  |-> x.rotation # NoTicketer,
     options  |-> x.options]

\* Faulty variant: a clone starts without the rotation ticketer.
CloneWithoutRotation(x) ==
    [api |-> x.api, cert |-> x.cert, roots |-> x.roots, optional |-> x.optional,
     clientRpk |-> x.clientRpk, serverRpk |-> x.serverRpk, sni |-> x.sni, versions |-> x.versions,
     provider |-> x.provider, ticketer |-> x.ticketer, rotation |-> NoTicketer,
     ocsp |-> x.ocsp, options |-> x.options]

\* impl Clone: field by field; the ticketers are shared, not copied.
Clone(x) ==
    [api |-> x.api, cert |-> x.cert, roots |-> x.roots, optional |-> x.optional,
     clientRpk |-> x.clientRpk, serverRpk |-> x.serverRpk, sni |-> x.sni, versions |-> x.versions,
     provider |-> x.provider, ticketer |-> x.ticketer, rotation |-> x.rotation,
     ocsp |-> x.ocsp, options |-> x.options]

\* build(), and accept() on the same builder, which builds a clone.  The builder of
\* the adapter cannot be cloned.
Build ==
    /\ phase = "open"
    /\ IF Builds(b)
       THEN /\ phase' = "built"
            /\ config' = Config(b)
            /\ cloned' = IF b.api = "facade" THEN Config(Clone(b)) ELSE NoConfig
       ELSE /\ phase' = "refused"
            /\ UNCHANGED <<config, cloned>>
    /\ UNCHANGED <<b, made, wanted>>

Next ==
    \/ WithCertAndKey \/ WithClientCertVerifier \/ WithClientAuth \/ WithClientRawPublicKeys
    \/ WithServerRawPublicKey \/ WithSniCert \/ WithProtocolVersions \/ WithProvider
    \/ WithOption \/ WithTicketer \/ WithAntiReplay \/ WithTicketerRotationInterval
    \/ WithOcspResponse \/ Build

Spec == Init /\ [][Next]_vars

-----------------------------------------------------------------------------
Ticketer == [key : 0..MaxTicketers, guards : SUBSET (1..MaxTicketers)]

TypeOK ==
    /\ phase \in {"open", "built", "refused", "lost"}
    /\ b \in [api : {"facade", "adapter"}, cert : {"none", "good", "mismatched"},
              roots : {"none", "good", "empty"}, optional : BOOLEAN,
              clientRpk : BOOLEAN, serverRpk : BOOLEAN, sni : SUBSET (Name \cup {BadName}),
              versions : {"default", "usable", "unusable"}, provider : Provider \cup {Default},
              ticketer : Ticketer, rotation : Ticketer, ocsp : BOOLEAN,
              options : SUBSET Option]
    /\ made \in 0..MaxTicketers
    /\ wanted \in [replay : BOOLEAN, auth : {"none", "optional", "required"}]

(***************************************************************************)
(* A server that was told to authenticate clients never ends up accepting  *)
(* anonymous ones, whatever else was configured in whatever order; it asks *)
(* without insisting only if that was the last word; and raw public keys   *)
(* override roots (server.rs, lines 126-128 and 395-396).                  *)
(***************************************************************************)
ClientsAreAuthenticated ==
    phase = "built" =>
        /\ wanted.auth = CASE config.auth = "none" -> "none"
                            [] config.auth = "webpkiOptional" -> "optional"
                            [] OTHER -> "required"
        /\ b.clientRpk => config.auth = "rpk"

(***************************************************************************)
(* The connections that accept() serves from clones of a builder are       *)
(* configured like the ones of its own build(); they share the ticket keys *)
(* and the replay guards, so that a ticket of one resumes on another and   *)
(* is single-use across all of them.                                       *)
(***************************************************************************)
ClonesBuildTheSame == phase = "built" /\ b.api = "facade" => cloned = config

(***************************************************************************)
(* In a config that does not rotate its keys by itself, the tickets pass a *)
(* replay guard if and only if with_anti_replay was called after the last  *)
(* call that chose a ticketer.                                             *)
(***************************************************************************)
FixedTicketersAreGuarded ==
    phase = "built" /\ ~config.rotates => (wanted.replay <=> config.ticketer.guards # {})

(***************************************************************************)
(* with_anti_replay protects the config: unless a later call replaced the  *)
(* ticketer, the config's tickets pass a replay guard (server.rs, lines    *)
(* 313-314: "Wrap the configured ticketer"; lines 609-610: of the two      *)
(* ticketer fields "at most one is Some").                                 *)
(***************************************************************************)
ReplayProtectionIsInstalled ==
    phase = "built" /\ wanted.replay => config.ticketer.guards # {}

-----------------------------------------------------------------------------
\* The client authentication that a builder's fields stand for.
AskedFor(x) ==
    IF x.roots = "none" /\ ~x.clientRpk
    THEN "none"
    ELSE IF x.optional THEN "optional" ELSE "required"

\* No call loses the client authentication, and each builder has its own fields.
AuthIsTracked ==
    /\ wanted.auth = AskedFor(b)
    /\ b.api = "facade" => ~b.optional
    /\ b.api = "adapter" => ~b.clientRpk

\* The guards around the fixed ticketer follow the application's last word.
GuardsAreTracked == b.rotation = NoTicketer => (wanted.replay <=> b.ticketer.guards # {})

\* The configs are the ones of the builder as it was last configured.
ConfigIsOfBuilder ==
    phase = "built" => /\ Builds(b)
                       /\ config = Config(b)
                       /\ b.api = "facade" => cloned = Config(Clone(b))

\* The inductive invariant behind the three properties that the code keeps.
BuilderInv == TypeOK /\ AuthIsTracked /\ GuardsAreTracked /\ ConfigIsOfBuilder
=============================================================================
