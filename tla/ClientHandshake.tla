--------------------------- MODULE ClientHandshake ---------------------------
(***************************************************************************)
(* Handshakes over the config of ClientBuilder.  rustls calls              *)
(* verify_server_cert of the outermost verifier; each verifier first       *)
(* decides for itself and then asks the one inside it: CT, OCSP, and the   *)
(* verifier of the certificate, after whose success CustomServerVerifier   *)
(* puts the intermediates into the IntermediateCertCache.  The application *)
(* uses the same cache meanwhile.                                          *)
(*                                                                         *)
(* What the server presents is chosen by the layer that looks at it; hs    *)
(* keeps what it was worth, so that verdicts and facts can be compared.    *)
(***************************************************************************)
EXTENDS ClientBuilder

CONSTANTS Intermediate,  \* intermediate certificates
          Capacity       \* of the IntermediateCertCache

ASSUME ClientHandshakeAssumption == Capacity \in Nat \ {0}

VARIABLES hs,       \* the handshake: next layer, verdict and the facts so far
          cache     \* IntermediateCertCache, most recently used first

vars == <<builderVars, hs, cache>>

Chain == {<<>>} \cup {<<c>> : c \in Intermediate}
              \cup {<<c, d>> : c, d \in Intermediate}

NoFacts == [leaf |-> CHOOSE l \in Leaf : TRUE, raw |-> FALSE, trusted |-> FALSE,
            named |-> FALSE, crl |-> "unknown"]

Idle == [at |-> "idle", verdict |-> "none", chain |-> <<>>, selfSigned |-> FALSE,
         logged |-> FALSE, logProof |-> FALSE, staple |-> "none", facts |-> NoFacts,
         left |-> <<>>]

Init ==
    /\ BuilderInit
    /\ hs = Idle
    /\ cache = <<>>

-----------------------------------------------------------------------------
\* The layers of the stack from the outermost in.
Outermost ==
    IF config.stack.sct # "off" THEN "sct"
    ELSE IF config.stack.ocsp # "off" THEN "ocsp" ELSE "base"

\* Faulty variant: the cache is filled before the certificate was verified.
InsideCacheFirst(layer) ==
    LET inmost == IF config.stack.cache THEN "cache" ELSE "base"
    IN  CASE layer = "sct"   -> IF config.stack.ocsp # "off" THEN "ocsp" ELSE inmost
          [] layer = "ocsp"  -> inmost
          [] layer = "cache" -> "base"
          [] layer = "base"  -> "done"

\* What a layer delegates to.
Inside(layer) ==
    CASE layer = "sct"   -> IF config.stack.ocsp # "off" THEN "ocsp" ELSE "base"
      [] layer = "ocsp"  -> "base"
      [] layer = "base"  -> IF config.stack.cache THEN "cache" ELSE "done"
      [] layer = "cache" -> "done"

\* A verdict of the layer at hand, with what it found out about the server.
Decide(passes, found) ==
    /\ hs' = IF passes
             THEN [found EXCEPT !.at = Inside(hs.at),
                                !.verdict = IF Inside(hs.at) = "done" THEN "accepted" ELSE "none"]
             ELSE [found EXCEPT !.verdict = "refused"]
    /\ UNCHANGED <<builderVars, cache>>

\* rustls starts a handshake and passes on the chain that the server presents;
\* a lone verifier of the certificate learns from it only what Facts says.
Begin ==
    /\ phase = "built"
    /\ hs.at = "idle" \/ hs.verdict # "none"
    /\ \E chain \in Chain, s \in BOOLEAN :
          /\ chain # <<>> => ~s
          /\ Outermost = "base" /\ ~config.stack.cache => chain = <<>> /\ ~s
          /\ hs' = [Idle EXCEPT !.at = Outermost, !.chain = chain,
                                !.selfSigned = s, !.left = chain]
    /\ UNCHANGED <<builderVars, cache>>

\* SctVerifier: no extension, a list that does not parse, or a list.
CheckScts ==
    /\ hs.at = "sct" /\ hs.verdict = "none"
    /\ \/ Decide(config.stack.sct = "Permissive", hs)
       \/ \E scts \in SctList, rebuilt \in BOOLEAN :
             LET logged == Cardinality(Vouching(scts)) >= MinLogs
                 known  == hs.chain # <<>>
             IN  /\ rebuilt => known
                 /\ Decide(SctPasses([mode |-> config.stack.sct, min |-> MinLogs], scts, known, rebuilt),
                           [hs EXCEPT !.logged = logged, !.logProof = logged /\ rebuilt])

\* The issuer for OCSP: the first intermediate, or a self-signed leaf itself.
IssuerKnown(h) == h.chain # <<>> \/ h.selfSigned

\* What the staple shows for somebody who can tell who signed it.
Shows(st) ==
    CASE ShowsRevoked(st)                  -> "revoked"
      [] ShowsGood(st) /\ WellFormed(st)   -> "good"
      [] ShowsGood(st) /\ ~WellFormed(st)  -> "goodOddly"
      [] OTHER                             -> "nothing"

\* OcspClientVerifier.
CheckOcsp ==
    /\ hs.at = "ocsp" /\ hs.verdict = "none"
    /\ \E st \in Staple :
          Decide(OcspPasses(config.stack.ocsp, st, IssuerKnown(hs)),
                 [hs EXCEPT !.staple = Shows(st)])

\* The verifier of the certificate; the kind of certificate is negotiated.
CheckBase ==
    /\ hs.at = "base" /\ hs.verdict = "none"
    /\ \E f \in Facts :
          /\ f.raw = (config.stack.base = "rpk")
          /\ LET passes == BasePasses(config.stack.base, config.stack.pins, f)
             IN  Decide(passes, [hs EXCEPT !.facts = IF passes THEN f ELSE NoFacts])

-----------------------------------------------------------------------------
\* LruCache::put and LruCache::get of a present key: c comes to the front, and
\* the entries that were in front of it move back by one place.
Use(c, q) ==
    LET places == {i \in DOMAIN q : q[i] = c}
        place  == IF places = {} THEN Len(q) + 1 ELSE CHOOSE i \in places : TRUE
    IN  [i \in 1..Len(q) + (IF places = {} THEN 1 ELSE 0) |->
            IF i = 1 THEN c ELSE IF i <= place THEN q[i - 1] ELSE q[i]]

\* IntermediateCertCache::insert.
Put(c, q) == SubSeq(Use(c, q), 1, IF Len(Use(c, q)) < Capacity THEN Len(Use(c, q)) ELSE Capacity)

\* The predicate of CustomServerVerifier: one insert, and one lock, at a time.
Record ==
    /\ hs.at = "cache" /\ hs.verdict = "none"
    /\ IF hs.left # <<>>
       THEN /\ cache' = Put(Head(hs.left), cache)
            /\ hs' = [hs EXCEPT !.left = Tail(@)]
            /\ UNCHANGED builderVars
       ELSE Decide(TRUE, hs)

Touch ==
    /\ \E c \in Range(cache) : cache' = Use(c, cache)
    /\ UNCHANGED <<builderVars, hs>>

Clear ==
    /\ phase = "built"
    /\ cache' = <<>>
    /\ UNCHANGED <<builderVars, hs>>

Configure == BuilderNext /\ UNCHANGED <<hs, cache>>

Next ==
    \/ Configure \/ Begin \/ CheckScts \/ CheckOcsp \/ CheckBase \/ Record \/ Touch \/ Clear

Spec == Init /\ [][Next]_vars

-----------------------------------------------------------------------------
TypeOK ==
    /\ BuilderTypeOK
    /\ hs \in [at : {"idle", "sct", "ocsp", "base", "cache", "done"},
               verdict : {"none", "accepted", "refused"}, chain : Chain,
               selfSigned : BOOLEAN, logged : BOOLEAN, logProof : BOOLEAN,
               staple : {"none", "revoked", "good", "goodOddly", "nothing"},
               facts : Facts, left : Chain]
    /\ cache \in Seq(Intermediate) /\ Len(cache) <= Capacity

\* The application did not switch verification off.
Careful == ~b.acceptCerts /\ ~b.acceptHostnames

Accepted == hs.verdict = "accepted"

(***************************************************************************)
(* Without a danger flag, every combination of settings leads to a config  *)
(* that accepts only servers somebody vouches for: the owner of a pinned   *)
(* raw key, if raw keys were configured, and otherwise the holder of a     *)
(* certificate with a valid path and the right name, pinned if there are   *)
(* pins (client.rs, lines 293-297; verifier/pin.rs).                       *)
(***************************************************************************)
OnlyVouchedServers ==
    Accepted /\ Careful =>
        IF b.useRpk THEN hs.facts.raw /\ hs.facts.leaf \in Pin
        ELSE /\ hs.facts.trusted /\ hs.facts.named
             /\ b.pins # {} => hs.facts.leaf \in b.pins

(***************************************************************************)
(* A certificate that a configured CRL lists is not accepted unless pins   *)
(* replace the CRLs, and one that an authentic staple shows to be revoked  *)
(* is accepted under no policy but Disabled, however old the response is,  *)
(* as long as the issuer is known (client_builder.rs, lines 88-91;         *)
(* ocsp_client.rs, lines 387-393).                                         *)
(***************************************************************************)
RevokedIsRefused ==
    Accepted /\ Careful /\ ~b.useRpk =>
        /\ b.crls # "none" /\ b.pins = {} => hs.facts.crl = "clear"
        /\ b.ocsp \in {"SoftFail", "HardRequire"} /\ IssuerKnown(hs) => hs.staple # "revoked"

(***************************************************************************)
(* Under HardRequire a server is accepted only with a current and good     *)
(* staple for this certificate, made by the certificate presented as its   *)
(* issuer or by a signer that one delegated to: no delegate without the    *)
(* EKU or without the issuer's signature, no response about another        *)
(* certificate (ocsp_client.rs, lines 92-94 and 321-327).                  *)
(***************************************************************************)
HardRequireNeedsGood ==
    Accepted /\ b.ocsp = "HardRequire" => hs.staple \in {"good", "goodOddly"}

(***************************************************************************)
(* Under a Strict policy a server is accepted only when at least MinLogs   *)
(* different trusted logs signed for the certificate; repeated entries of  *)
(* one log and forged ones do not add up (sct.rs, lines 562-569).          *)
(***************************************************************************)
StrictNeedsDistinctLogs ==
    Accepted /\ Careful /\ ~b.useRpk /\ b.sct = "Strict" => hs.logged

(***************************************************************************)
(* Good evidence is never held against a server: one whose SCTs come from  *)
(* enough logs, in whatever order and between whatever other entries, is   *)
(* not refused by the CT layer, and one with a well-formed good staple and *)
(* its issuer's certificate is not refused by the OCSP layer, under any    *)
(* policy (sct.rs, lines 570-640; ocsp_client.rs, lines 394-459, 574-583). *)
(***************************************************************************)
GoodEvidencePasses ==
    hs.verdict = "refused" =>
        /\ hs.at = "sct" => ~hs.logProof
        /\ hs.at = "ocsp" /\ IssuerKnown(hs) => hs.staple # "good"

-----------------------------------------------------------------------------
(* The parts of the inductive invariant that are not properties above.     *)

\* The config is the one of the builder's fields, of which each builder sets some.
ConfigIsBuilt ==
    /\ phase = "built" => config = IF api = "facade" THEN FacadeConfig(b) ELSE AdapterConfig(b)
    /\ api = "adapter" => Careful /\ ~b.useRpk
    /\ api = "facade" => b.ocsp = "unset"

\* The layers that a handshake has left behind were passed with the facts at hand.
LayersWerePassed ==
    /\ hs.at # "idle" => phase = "built"
    /\ hs.verdict = "accepted" => hs.at = "done"
    /\ hs.at = "sct" /\ hs.verdict = "none" => ~hs.logProof
    /\ hs.at \in {"ocsp", "base", "cache", "done"} /\ config.stack.sct = "Strict" => hs.logged
    /\ hs.at \in {"base", "cache", "done"} =>
         /\ config.stack.ocsp # "off" /\ IssuerKnown(hs) => hs.staple # "revoked"
         /\ config.stack.ocsp = "HardRequire" => hs.staple \in {"good", "goodOddly"}
    /\ hs.at \in {"cache", "done"} =>
         BasePasses(config.stack.base, config.stack.pins, hs.facts)
    /\ hs.at = "cache" => config.stack.cache

CacheIsInOrder ==
    /\ IsInjective(cache)
    /\ Range(hs.left) \subseteq Range(hs.chain)

HandshakeInv ==
    TypeOK /\ ConfigIsBuilt /\ LayersWerePassed /\ GoodEvidencePasses /\ CacheIsInOrder

(***************************************************************************)
(* What enters the intermediate cache was presented in a chain that had    *)
(* passed every check of the config, the outer ones included               *)
(* (client_builder.rs, lines 187-219: "after each successful handshake").  *)
(***************************************************************************)
CacheIsFedByVerifiedChains ==
    [][\A c \in Range(cache') \ Range(cache) :
          /\ c \in Range(hs.chain)
          /\ hs.facts.trusted /\ hs.facts.named
          /\ b.pins # {} => hs.facts.leaf \in b.pins
          /\ b.sct = "Strict" => hs.logged
          /\ b.ocsp = "HardRequire" => hs.staple \in {"good", "goodOddly"}]_vars
=============================================================================
