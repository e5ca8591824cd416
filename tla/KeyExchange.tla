----------------------------- MODULE KeyExchange -----------------------------
(***************************************************************************)
(* The key exchange of the RustCrypto provider (oxitls-rustcrypto-         *)
(* provider/src/kx.rs) and the hybrid group that its adapter adds          *)
(* (oxitls-adapter-rustls-rustcrypto/src/kx.rs), up to the end of          *)
(* accept_with_timeout.  Both ends run the plain provider or the one with  *)
(* the hybrid group; rustls (external) selects the group and compares the  *)
(* secrets with the Finished messages.  A share arrives "intact", "short"  *)
(* (of another length) or "altered" (other bytes of the same length).      *)
(***************************************************************************)
EXTENDS Integers, Sequences

VARIABLES kxClient,  \* the client's exchange
          kxServer   \* the server's exchange

kxVars == <<kxClient, kxServer>>

Idle == [phase |-> "idle"]
Version == {"TLSv1_2", "TLSv1_3"}
Provider == {"pure", "pq"}
Share == {"intact", "short", "altered"}

Hybrid == "X25519MLKEM768"

\* The kx_groups of pure_provider and of pure_provider_with_pq.
KxGroups(provider) ==
    (IF provider = "pq" THEN <<Hybrid>> ELSE <<>>) \o <<"X25519", "secp256r1", "secp384r1">>

UsableForVersion(group, version) == group = Hybrid => version = "TLSv1_3"

\* rustls takes the server's first group that the client supports as well.
SelectGroup(version, mine, theirs) ==
    LET fits == {n \in 1..Len(mine) : /\ UsableForVersion(mine[n], version)
                                      /\ \E k \in 1..Len(theirs) : theirs[k] = mine[n]}
    IN  mine[CHOOSE n \in fits : \A k \in fits : n <= k]

\* Whether a share is accepted.  Any 32 bytes are an X25519 key, and any bytes of
\* the right length an ML-KEM ciphertext; points and encapsulation keys are checked.
Parses(group, role, share) ==
    CASE share = "intact" -> {TRUE}
      [] share = "short" -> {FALSE}
      [] share = "altered" -> IF group = "X25519" \/ (group = Hybrid /\ role = "client")
                                THEN {TRUE} ELSE BOOLEAN

\* The two ends' public keys, as seen from one end.
Seen(role, share) == IF share = "altered" THEN "other"
                     ELSE IF role = "client" THEN "server" ELSE "client"

DiffieHellman(role, share) == <<"dh", {role, Seen(role, share)}>>

\* ML-KEM: the server encapsulates to the key it saw, the client opens what it saw.
MlKem(role, share) == IF role = "server" THEN <<"kem", Seen(role, share), "server">>
                                       ELSE <<"kem", "client", Seen(role, share)>>

\* Faulty variant of KxSecret: the client puts the classical secret first.
KxSecretSwapped(group, role, share) ==
    IF group = Hybrid
      THEN IF role = "client" THEN <<DiffieHellman(role, share), MlKem(role, share)>>
                              ELSE <<MlKem(role, share), DiffieHellman(role, share)>>
      ELSE <<DiffieHellman(role, share)>>

\* complete and start_and_complete; a client that sent a hybrid share to a server
\* that chose X25519 completes its classical component only.
KxSecret(group, role, share) ==
    IF group = Hybrid THEN <<MlKem(role, share), DiffieHellman(role, share)>>
                      ELSE <<DiffieHellman(role, share)>>

-----------------------------------------------------------------------------
KxInit == kxClient = Idle /\ kxServer = Idle

\* start: a share of the first group and, for the hybrid, its classical component.
Start(version, provider) ==
    /\ kxClient = Idle
    /\ kxClient' = [phase |-> "started", version |-> version, groups |-> KxGroups(provider)]
    /\ UNCHANGED kxServer

\* start_and_complete, with the share that arrived from the client.
StartAndComplete(provider, share) ==
    LET group == SelectGroup(kxClient.version, KxGroups(provider), kxClient.groups)
    IN  /\ kxClient.phase = "started"
        /\ kxServer = Idle
        /\ \E parsed \in Parses(group, "server", share) :
             kxServer' = [phase |-> IF parsed THEN "answered" ELSE "failed", provider |-> provider,
                          group |-> group, share |-> share,
                          secret |-> KxSecret(group, "server", share)]
        /\ UNCHANGED kxClient

\* complete, or complete_hybrid_component when the server chose plain X25519.
Complete(share) ==
    /\ kxClient.phase = "started"
    /\ kxServer.phase = "answered"
    /\ \E parsed \in Parses(kxServer.group, "client", share) :
         kxClient' = [phase |-> IF parsed THEN "completed" ELSE "failed",
                      version |-> kxClient.version, groups |-> kxClient.groups,
                      share |-> share, secret |-> KxSecret(kxServer.group, "client", share)]
    /\ UNCHANGED kxServer

\* accept_tcp returns when the client's Finished arrived and verified.
Accept ==
    /\ kxServer.phase = "answered"
    /\ kxClient.phase \in {"completed", "failed"}
    /\ kxServer' = [kxServer EXCEPT !.phase =
                      IF kxClient.phase = "completed" /\ kxClient.secret = kxServer.secret
                        THEN "accepted" ELSE "failed"]
    /\ UNCHANGED kxClient

\* accept_with_timeout gives up, whatever the client has concluded by then.
AcceptTimesOut ==
    /\ kxServer.phase \in {"idle", "answered"}
    /\ kxServer' = [kxServer EXCEPT !.phase = "timedOut"]
    /\ UNCHANGED kxClient

KxNext ==
    \/ \E version \in Version, provider \in Provider : Start(version, provider)
    \/ \E provider \in Provider, share \in Share : StartAndComplete(provider, share)
    \/ \E share \in Share : Complete(share)
    \/ Accept
    \/ AcceptTimesOut

KxSpec == KxInit /\ [][KxNext]_kxVars

-----------------------------------------------------------------------------
(***************************************************************************)
(* Whatever providers the two ends run, undamaged shares lead to the same  *)
(* secret and to an accepted connection, and with a damaged share the      *)
(* server never accepts.  Two ends with the hybrid group use it if, and    *)
(* only if, the version allows it.                                         *)
(***************************************************************************)
SecretsAgree ==
    kxServer.phase \in {"accepted", "failed"} =>
        /\ kxServer.phase = "failed" <=>
             \/ kxServer.share # "intact"
             \/ kxClient.phase # "started" /\ kxClient.share # "intact"
        /\ kxServer.group = Hybrid <=>
             /\ kxServer.provider = "pq"
             /\ kxClient.groups = KxGroups("pq")
             /\ kxClient.version = "TLSv1_3"

-----------------------------------------------------------------------------
Group == {Hybrid, "X25519", "secp256r1", "secp384r1"}

\* The states of an end that has seen the other's share.
Answers == {[phase |-> p, provider |-> v, group |-> g, share |-> s, secret |-> KxSecret(g, "server", s)] :
              p \in {"answered", "accepted", "failed", "timedOut"}, v \in Provider, g \in Group, s \in Share}
Completions == {[phase |-> p, version |-> v, groups |-> KxGroups(q), share |-> s,
                 secret |-> KxSecret(g, "client", s)] :
                  p \in {"completed", "failed"}, v \in Version, q \in Provider, s \in Share, g \in Group}

KxTypeOK ==
    /\ kxClient \in {Idle} \cup Completions
         \cup {[phase |-> "started", version |-> v, groups |-> KxGroups(q)] : v \in Version, q \in Provider}
    /\ kxServer \in {Idle, [phase |-> "timedOut"]} \cup Answers

\* Who has concluded anything has parsed the other's share, for the group in use.
SharesWereParsed ==
    kxServer.phase \in {"answered", "accepted", "failed"} =>
        /\ kxClient # Idle
        /\ kxServer.group = SelectGroup(kxClient.version, KxGroups(kxServer.provider), kxClient.groups)
        /\ kxServer.phase = "answered" => kxServer.share # "short"
        /\ kxClient.phase = "completed" => /\ kxClient.share # "short"
                                           /\ kxClient.secret = KxSecret(kxServer.group, "client", kxClient.share)
        /\ kxClient.phase = "failed" => kxClient.share # "intact"

\* The inductive invariant behind SecretsAgree.
KxInv == KxTypeOK /\ SharesWereParsed /\ SecretsAgree
=============================================================================
