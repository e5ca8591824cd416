--------------------------- MODULE ProviderHandshake ---------------------------
(***************************************************************************)
(* How the RustCrypto provider authenticates a server: keys are loaded, a  *)
(* signature scheme is chosen, and the client checks chain and signature.  *)
(* The identities are those that CertGeneration issued; keys, schemes and  *)
(* verifiers are those of SignatureSchemes.                                *)
(***************************************************************************)
EXTENDS CertGeneration

CONSTANTS Offered   \* the sets of signature schemes that clients offer

VARIABLES identity,  \* the server's chain and private key, or NoIdentity
          hello,     \* what the client sent, and how its handshake ended
          answer     \* the scheme and the signature that the server answered with

handshakeVars == <<identity, hello, answer>>

NoIdentity == [chain |-> <<>>]
NoHello == [phase |-> "idle"]
NoAnswer == [phase |-> "idle"]

-----------------------------------------------------------------------------
(* Private keys.                                                           *)

\* A key that somebody holds: with its certificate, or as the maker of a request.
\* Other tools convert it to PKCS#1 (RSA) or SEC1 (curves).
HeldKeys ==
    {[number |-> certs[i].number, alg |-> certs[i].alg] :
        i \in {j \in 1..Len(certs) : certs[j].handle # "SignedCertificate"}}
    \cup {[number |-> r.number, alg |-> r.alg] : r \in csrs}

-----------------------------------------------------------------------------
AuthInit ==
    /\ CertInit
    /\ identity = NoIdentity
    /\ hello = NoHello
    /\ answer = NoAnswer

\* CertChainBuilder: the leaf, then the intermediates in the order they were added.
Chain(leaf, intermediates) == <<leaf>> \o intermediates

\* server_config: any chain with any key that the provider can load, as loaded keys
\* do not tell their public half.
ServerConfig(leaf, intermediates, key, format) ==
    /\ identity = NoIdentity
    /\ \E kind \in AnySupportedType(key.alg, format) :
         identity' = [chain |-> Chain(leaf, intermediates), number |-> key.number, kind |-> kind]
    /\ UNCHANGED <<certVars, hello, answer>>

\* client_config and the connection: the client trusts one anchor.
Connect(version, offered, anchor) ==
    /\ identity # NoIdentity
    /\ hello = NoHello
    /\ hello' = [phase |-> "sent", version |-> version, offered |-> offered, anchor |-> anchor]
    /\ UNCHANGED <<certVars, identity, answer>>

\* The server signs, or has no scheme in common with the client.
Answer ==
    LET schemes == ChooseScheme(identity.kind, Admitted(hello.version, identity.kind, hello.offered))
    IN  /\ hello.phase = "sent"
        /\ answer = NoAnswer
        /\ answer' = IF schemes = {} THEN [phase |-> "failed"]
                     ELSE LET scheme == CHOOSE s \in schemes : TRUE
                          IN  [phase |-> "signed", scheme |-> scheme,
                               signature |-> Signature(identity.number, identity.kind, scheme)]
        /\ UNCHANGED <<certVars, identity, hello>>

\* The client checks chain and signature.
Verify ==
    LET leaf == identity.chain[1]
        presented == {identity.chain[n] : n \in 2..Len(identity.chain)}
    IN  /\ hello.phase = "sent"
        /\ answer.phase = "signed"
        /\ hello' = [hello EXCEPT !.phase =
             IF /\ Verifies(leaf, presented, hello.anchor, "ServerAuth")
                /\ VerifyHandshakeSignature(hello.version, answer.scheme, certs[leaf], answer.signature)
               THEN "connected" ELSE "failed"]
        /\ UNCHANGED <<certVars, identity, answer>>

\* Sequences of authorities without repetition, in any order.
Intermediates == UNION {{q \in [1..n -> Authorities] : \A j, k \in 1..n : q[j] = q[k] => j = k} :
                          n \in 0..Cardinality(Authorities)}

AuthNext ==
    \/ identity = NoIdentity /\ CertNext /\ UNCHANGED handshakeVars
    \/ \E leaf \in 1..Len(certs), q \in Intermediates, key \in HeldKeys, format \in KeyFormat :
          ServerConfig(leaf, q, key, format)
    \/ \E version \in {"TLSv1_2", "TLSv1_3"}, offered \in Offered, anchor \in 1..Len(certs) :
          Connect(version, offered, anchor)
    \/ Answer
    \/ Verify

authVars == <<certVars, handshakeVars>>
AuthSpec == AuthInit /\ [][AuthNext]_authVars

-----------------------------------------------------------------------------
(***************************************************************************)
(* A client that connected has the server it asked for: the key that       *)
(* signed is the one the leaf names, by its right algorithm, and the leaf  *)
(* was issued below the client's anchor for servers - however chain, key   *)
(* and anchor were put together, since loading checks none of it.          *)
(***************************************************************************)
ConnectedServersHoldTheKey ==
    hello.phase = "connected" =>
        LET leaf == identity.chain[1]
        IN  /\ identity.number = certs[leaf].number
            /\ certs[leaf].spki = Spki(certs[leaf].alg)
            /\ Promised(leaf, hello.anchor, "ServerAuth")

\* All that is needed of a server: its own key, a certificate with the right
\* algorithm below the client's anchor, and the issuer if that is not the anchor.
WellConfigured ==
    LET leaf == identity.chain[1]
    IN  /\ identity.number = certs[leaf].number
        /\ certs[leaf].spki = Spki(certs[leaf].alg)
        /\ Promised(leaf, hello.anchor, "ServerAuth")
        /\ \/ certs[leaf].parent = hello.anchor
           \/ \E n \in 2..Len(identity.chain) : identity.chain[n] = certs[leaf].parent

(***************************************************************************)
(* Between two ends of this crate a well configured server is never        *)
(* refused: for both versions, every kind of key and every issuer, a       *)
(* scheme is found and the signature verifies.                             *)
(***************************************************************************)
GoodServersConnect ==
    (hello # NoHello /\ SupportedSchemes \subseteq hello.offered /\ WellConfigured)
        => "failed" \notin {answer.phase, hello.phase}

-----------------------------------------------------------------------------
\* The verdict of a client, of the certificates and of the signature.
ChainVerifies ==
    Verifies(identity.chain[1], {identity.chain[n] : n \in 2..Len(identity.chain)},
             hello.anchor, "ServerAuth")

SignatureVerifies ==
    VerifyHandshakeSignature(hello.version, answer.scheme, certs[identity.chain[1]], answer.signature)

\* The server's chain is made of its leaf and of authorities, its key of one that
\* somebody holds.
IdentityIsHeld ==
    identity # NoIdentity =>
        /\ identity.chain \in Seq(1..Len(certs)) /\ identity.chain # <<>>
        /\ \A n \in 2..Len(identity.chain) : identity.chain[n] \in Authorities
        /\ \E key \in HeldKeys : key.number = identity.number /\ Spki(key.alg) = identity.kind

HelloIsSent ==
    hello # NoHello =>
        /\ identity # NoIdentity
        /\ hello \in [phase : {"sent", "connected", "failed"}, version : {"TLSv1_2", "TLSv1_3"},
                      offered : Offered, anchor : 1..Len(certs)]

\* An answer is what the server chose for this client.
AnswerIsChosen ==
    LET schemes == ChooseScheme(identity.kind, Admitted(hello.version, identity.kind, hello.offered))
    IN  answer # NoAnswer =>
          /\ hello # NoHello
          /\ \/ answer.phase = "failed" /\ schemes = {}
             \/ /\ answer.phase = "signed"
                /\ answer.scheme \in schemes
                /\ answer.signature = Signature(identity.number, identity.kind, answer.scheme)

\* The handshake ended as the client judged it.
VerdictIsKept ==
    hello.phase \in {"connected", "failed"} =>
        /\ answer.phase = "signed"
        /\ hello.phase = "connected" <=> ChainVerifies /\ SignatureVerifies

\* The inductive invariant, on top of that of the certificates.
AuthInv == CertInv /\ IdentityIsHeld /\ HelloIsSent /\ AnswerIsChosen /\ VerdictIsKept
=============================================================================
