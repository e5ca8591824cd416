------------------------------- MODULE MCCrypto -------------------------------
(***************************************************************************)
(* Model-checking instance of the modules about cryptography in pure Rust. *)
(* Each behaviour is about one of them, chosen at the start: HPKE and ECH, *)
(* the issue of certificates and the handshakes with them, key exchange,   *)
(* TLS records, or QUIC packets.                                           *)
(***************************************************************************)
EXTENDS Hpke, ProviderHandshake, KeyExchange, TlsRecords, MCQuicPackets, TLC

CONSTANTS HandshakeCerts  \* bound on the certificates issued before a handshake

VARIABLE scene  \* "hpke", "auth", "kx", "records" or "quic"

\* Every scheme of this crate's clients; an older client that also offers P-521,
\* which the suites of TLS 1.2 list and no key of the provider can sign with.
MCOffered == {SupportedSchemes,
              {"RSA_PKCS1_SHA256", "ECDSA_NISTP256_SHA256", "ECDSA_NISTP521_SHA512"}}

\* Authorities with and without names, and leaves for every purpose, for none of
\* TLS, and without a name.
MCBuilders == {WithCommonName(WithCa(NewBuilder, 0), "ca"),
               WithPurpose(WithNames(WithCa(NewBuilder, Unlimited), San), "ServerAuth"),
               WithNames(NewBuilder, San),
               WithExtendedKeyUsages(WithPurpose(WithNames(NewBuilder, San), "ServerAuth"), {"CodeSigning"}),
               WithPurpose(NewBuilder, "ServerAuth")}

\* An empty message, and messages that end in zeros, like the padding of TLS 1.3.
MCMessage == {[typ |-> 22, data |-> <<0>>], [typ |-> 23, data |-> <<>>],
              [typ |-> 23, data |-> <<1, 0>>], [typ |-> 23, data |-> <<1, 0, 2, 0>>]}

MCInit ==
    /\ scene \in {"hpke", "auth", "kx", "records", "quic"}
    /\ Init
    /\ AuthInit
    /\ KxInit
    /\ RecordInit
    /\ scene # "records" => suite = CHOOSE s \in CipherSuite : TRUE
    /\ QuicInit
    /\ scene # "quic" => /\ hpKey = [cipher |-> "ChaCha20", len |-> 32]
                         /\ header.first = {}
                         /\ mask.first = {}
                         /\ mask.pn = CHOOSE m \in PnMask : TRUE

\* Handshakes use the certificate issued last, and a request only for its own
\* certificate: those issued meanwhile make no difference.
AuthBounds ==
    identity' # identity =>
        /\ Len(certs) <= HandshakeCerts
        /\ identity'.chain[1] = Len(certs)
        /\ csrs = {} \/ certs[Len(certs)].handle = "SignedCertificate"

MCNext ==
    \/ scene = "hpke" /\ Next
         /\ UNCHANGED <<scene, authVars, kxVars, recordVars, quicVars>>
    \/ scene = "auth" /\ AuthNext /\ AuthBounds
         /\ UNCHANGED <<scene, vars, kxVars, recordVars, quicVars>>
    \/ scene = "kx" /\ KxNext
         /\ UNCHANGED <<scene, vars, authVars, recordVars, quicVars>>
    \/ scene = "records" /\ RecordNext
         /\ UNCHANGED <<scene, vars, authVars, kxVars, quicVars>>
    \/ scene = "quic" /\ QuicNext
         /\ UNCHANGED <<scene, vars, authVars, kxVars, recordVars>>

MCSpec == MCInit /\ [][MCNext]_<<scene, vars, authVars, kxVars, recordVars, quicVars>>

Symmetry == Permutations(Session) \cup Permutations(Aad)
=============================================================================
