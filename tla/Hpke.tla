--------------------------------- MODULE Hpke ---------------------------------
(***************************************************************************)
(* The HPKE contexts of oxitls-adapter-rustls-rustcrypto/src/hpke (mod.rs, *)
(* kem.rs, kdf.rs, aead.rs) and the ECH configurations of ech_config.rs    *)
(* that carry their public keys.  A server mints configurations, clients   *)
(* set up sealing contexts from them, the network loses, repeats and       *)
(* reorders what they seal, and opening contexts are set up with any       *)
(* combination of suite, encapsulated key, private key and info.           *)
(*                                                                         *)
(* Cryptography is symbolic: a derived value is the term of what it was    *)
(* derived from, so that two values agree exactly if every input agrees.   *)
(* A key pair is the number of the configuration it was generated for; an  *)
(* ephemeral key is the identity of the session that drew it.              *)
(***************************************************************************)
EXTENDS Integers, Sequences, FiniteSets

CONSTANTS Session,     \* runs of encap: each draws its own ephemeral key
          Opener,      \* opening contexts
          Aad,         \* associated data
          MaxConfigs,  \* bound on the configurations minted
          MaxNameLen,  \* u8::MAX, the longest public_name of a configuration
          NameLen,     \* lengths of the public names that are asked for
          MaxSeq       \* u64::MAX, the largest value of the counter seq

ASSUME HpkeAssumption ==
    /\ MaxConfigs \in Nat
    /\ MaxNameLen \in Nat
    /\ NameLen \subseteq Nat
    /\ MaxSeq \in Nat

VARIABLES published,  \* the configurations minted so far
          sealer,     \* sealer[s]: HpkeSealerCtx of s, or NoContext
          opener,     \* opener[o]: HpkeOpenerCtx of o, or NoContext
          wire,       \* ciphertexts that left a sealer; none is ever removed
          sent,       \* history: sent[s]: associated data of the messages s released
          got,        \* history: got[o]: <<session, message number>> of what o returned
          verdict     \* verdict[o]: what the last open of o returned

vars == <<published, sealer, opener, wire, sent, got, verdict>>

Kem == {"x25519", "p256"}
\* ALL_SUITES: both KEMs with both AEADs; HKDF-SHA256 is the only KDF.
Suite == [kem : Kem, aead : {"aes128gcm", "chacha20"}]

NoContext == [seq |-> -1]

-----------------------------------------------------------------------------
(* Key derivation.                                                         *)

LabeledExtract(suiteId, salt, label, ikm) == <<"extract", suiteId, salt, label, ikm>>
LabeledExpand(suiteId, prk, label, info)  == <<"expand", suiteId, prk, label, info>>

\* extract_and_expand: KemSuite is its kem_suite_id.
KemSuite(k) == [kem |-> k, aead |-> "none"]
ExtractAndExpand(k, dh, kemContext) ==
    LabeledExpand(KemSuite(k), LabeledExtract(KemSuite(k), "empty", "eae_prk", dh),
                  "shared_secret", kemContext)

\* A KEM parses public keys of its own kind only (length, curve equation); the
\* generated X25519 keys are contributory.
Accepts(k, kemOfKey) == kemOfKey = k

(***************************************************************************)
(* Encap and decap compute the same group element and the same context,    *)
(* one from the ephemeral private key and the recipient's public key, the  *)
(* other from the recipient's private key and the encapsulated key.        *)
(***************************************************************************)
SharedSecret(k, eph, r) == ExtractAndExpand(k, <<eph, r>>, <<eph, r>>)

\* Faulty variant of KeyScheduleBase: the info is not part of the context.
KeyScheduleWithoutInfo(suite, secret, info) ==
    LET prk == LabeledExtract(suite, secret, "secret", "empty")
    IN  [key       |-> LabeledExpand(suite, prk, "key", "mode_base"),
         baseNonce |-> LabeledExpand(suite, prk, "base_nonce", "mode_base"),
         exporter  |-> LabeledExpand(suite, prk, "exp", "mode_base")]

\* key_schedule_base: the suite is its suite_id, `empty' the default psk.
KeyScheduleBase(suite, secret, info) ==
    LET prk     == LabeledExtract(suite, secret, "secret", "empty")
        context == <<"mode_base", LabeledExtract(suite, "empty", "psk_id_hash", "empty"),
                     LabeledExtract(suite, "empty", "info_hash", info)>>
    IN  [key       |-> LabeledExpand(suite, prk, "key", context),
         baseNonce |-> LabeledExpand(suite, prk, "base_nonce", context),
         exporter  |-> LabeledExpand(suite, prk, "exp", context)]

\* The key material of a context that was set up from suite, enc, key and info.
Material(c) == KeyScheduleBase(c.suite, SharedSecret(c.suite.kem, c.eph, c.key), c.info)

\* XOR with the fixed base nonce is injective in seq.
ComputeNonce(baseNonce, seq) == <<baseNonce, seq>>

\* A::open returns the plaintext that A::seal was given for the same key, nonce
\* and associated data, and an error otherwise.
AeadOpens(c, o, aad) ==
    /\ Material(c).key = Material(o).key
    /\ ComputeNonce(Material(c).baseNonce, c.seq) = ComputeNonce(Material(o).baseNonce, o.seq)
    /\ c.aad = aad

\* Faulty variant of NextSeq: the addition wraps around.
NextSeqWrapping(seq) == {(seq + 1) % (MaxSeq + 1)}

\* checked_add(1): no value, and therefore an error, at the limit.
NextSeq(seq) == {n \in {seq + 1} : n <= MaxSeq}

\* Context.Export, for lengths up to 255 * 32.
Export(c, exporterContext) ==
    LabeledExpand(c.suite, Material(c).exporter, "sec", exporterContext)

-----------------------------------------------------------------------------
Init ==
    /\ published = <<>>
    /\ sealer = [s \in Session |-> NoContext]
    /\ opener = [o \in Opener |-> NoContext]
    /\ wire = {}
    /\ sent = [s \in Session |-> <<>>]
    /\ got = [o \in Opener |-> <<>>]
    /\ verdict = [o \in Opener |-> "none"]

\* encode_contents: the ids of the suite and the public name, whose length must
\* fit into one byte.
EncodeContents(suite, n) == {[suite |-> suite, nameLen |-> l] : l \in {n} \cap 0..MaxNameLen}

\* generate_ech_config_list: a fresh key pair, published with its suite.
GenerateEchConfigList(suite, n) ==
    /\ Len(published) < MaxConfigs
    /\ \E config \in EncodeContents(suite, n) : published' = Append(published, config)
    /\ UNCHANGED <<sealer, opener, wire, sent, got, verdict>>

\* The inputs of setup_sender with which encap succeeds: the public key is of the
\* suite's KEM.  The info is the configuration that the key was taken from.
Senders(s) == {[suite |-> suite, eph |-> s, key |-> i, info |-> i, seq |-> 0] :
                 suite \in Suite, i \in 1..Len(published)}
Encap(s) == {c \in Senders(s) : Accepts(c.suite.kem, published[c.key].suite.kem)}

\* What leaves a sealer whose context is c when it seals its n-th message.
Ciphertext(c, aad, n) ==
    [suite |-> c.suite, eph |-> c.eph, key |-> c.key, info |-> c.info, seq |-> c.seq,
     aad |-> aad, message |-> <<c.eph, n>>]

\* setup_sender, setup_sealer.
SetupSender(s) ==
    /\ sealer[s] = NoContext
    /\ \E c \in Encap(s) : sealer' = [sealer EXCEPT ![s] = c]
    /\ UNCHANGED <<published, opener, wire, sent, got, verdict>>

\* The one-shot seal: setup and a message with sequence number 0.  The context is
\* gone afterwards, which is to say that it seals nothing more.
SealOnce(s, aad) ==
    /\ sealer[s] = NoContext
    /\ \E c \in Encap(s) :
         /\ sealer' = [sealer EXCEPT ![s] = [c EXCEPT !.seq = MaxSeq]]
         /\ wire' = wire \cup {Ciphertext(c, aad, 1)}
    /\ sent' = [sent EXCEPT ![s] = <<aad>>]
    /\ UNCHANGED <<published, opener, got, verdict>>

\* decap refuses an encapsulated key of another KEM; any other combination of
\* suite, private key and info yields a context.
Receivers == {[suite |-> suite, eph |-> s, key |-> key, info |-> info, seq |-> 0] :
                suite \in Suite, s \in {t \in Session : sealer[t] # NoContext},
                key \in 1..Len(published), info \in 1..Len(published)}
Decap == {c \in Receivers : Accepts(c.suite.kem, sealer[c.eph].suite.kem)}

\* setup_receiver, setup_opener.
SetupReceiver(o) ==
    /\ opener[o] = NoContext
    /\ \E c \in Decap : opener' = [opener EXCEPT ![o] = c]
    /\ UNCHANGED <<published, sealer, wire, sent, got, verdict>>

\* The one-shot open: setup and the message with sequence number 0, or an error.
OpenOnce(o, c, aad) ==
    /\ opener[o] = NoContext
    /\ \E r \in Decap : /\ AeadOpens(c, r, aad)
                        /\ opener' = [opener EXCEPT ![o] = [r EXCEPT !.seq = MaxSeq]]
    /\ got' = [got EXCEPT ![o] = <<c.message>>]
    /\ verdict' = [verdict EXCEPT ![o] = "opened"]
    /\ UNCHANGED <<published, sealer, wire, sent>>

(***************************************************************************)
(* HpkeSealerCtx::seal.  The message is sealed before the counter is       *)
(* advanced; at the limit the error is returned instead of the ciphertext, *)
(* which nobody sees, and the context stays as it is.                      *)
(***************************************************************************)
Seal(s, aad) ==
    /\ sealer[s] # NoContext
    /\ \E n \in NextSeq(sealer[s].seq) : sealer' = [sealer EXCEPT ![s].seq = n]
    /\ wire' = wire \cup {Ciphertext(sealer[s], aad, Len(sent[s]) + 1)}
    /\ sent' = [sent EXCEPT ![s] = Append(@, aad)]
    /\ UNCHANGED <<published, opener, got, verdict>>

\* HpkeOpenerCtx::open of a ciphertext that was sealed for this context and is next.
Open(o, c, aad) ==
    /\ opener[o] # NoContext
    /\ AeadOpens(c, opener[o], aad)
    /\ \E n \in NextSeq(opener[o].seq) : opener' = [opener EXCEPT ![o].seq = n]
    /\ got' = [got EXCEPT ![o] = Append(@, c.message)]
    /\ verdict' = [verdict EXCEPT ![o] = "opened"]
    /\ UNCHANGED <<published, sealer, wire, sent>>

\* Faulty variant of Reject: the counter advances although nothing was opened.
RejectAdvancing(o, c, aad) ==
    /\ opener[o] # NoContext
    /\ ~AeadOpens(c, opener[o], aad)
    /\ \E n \in NextSeq(opener[o].seq) : opener' = [opener EXCEPT ![o].seq = n]
    /\ verdict' = [verdict EXCEPT ![o] = "rejected"]
    /\ UNCHANGED <<published, sealer, wire, sent, got>>

\* HpkeOpenerCtx::open of any other ciphertext: the error leaves the counter alone.
Reject(o, c, aad) ==
    /\ opener[o] # NoContext
    /\ ~AeadOpens(c, opener[o], aad)
    /\ verdict' = [verdict EXCEPT ![o] = "rejected"]
    /\ UNCHANGED <<published, sealer, opener, wire, sent, got>>

Next ==
    \/ \E suite \in Suite, n \in NameLen : GenerateEchConfigList(suite, n)
    \/ \E s \in Session : SetupSender(s)
    \/ \E s \in Session, aad \in Aad : SealOnce(s, aad) \/ Seal(s, aad)
    \/ \E o \in Opener : SetupReceiver(o)
    \/ \E o \in Opener, c \in wire, aad \in Aad :
          OpenOnce(o, c, aad) \/ Open(o, c, aad) \/ Reject(o, c, aad)

Spec == Init /\ [][Next]_vars

-----------------------------------------------------------------------------
Context == [suite : Suite, eph : Session, key : 1..Len(published),
            info : 1..Len(published), seq : 0..MaxSeq]

TypeOK ==
    /\ published \in Seq([suite : Suite, nameLen : 0..MaxNameLen])
    /\ sealer \in [Session -> Context \cup {NoContext}]
    /\ opener \in [Opener -> Context \cup {NoContext}]
    /\ \A c \in wire : c.eph \in Session /\ c.seq \in 0..MaxSeq
    /\ sent \in [Session -> Seq(Aad)]
    /\ got \in [Opener -> Seq(Session \X Nat)]
    /\ verdict \in [Opener -> {"none", "opened", "rejected"}]

(***************************************************************************)
(* No two messages leave a context under one nonce, up to the very end of  *)
(* the counter's range: each released message has a ciphertext of its own, *)
(* and ciphertexts of one key differ in their nonce.                       *)
(***************************************************************************)
NoncesAreUnique ==
    /\ \A c, d \in wire : Material(c).key = Material(d).key /\ c # d => c.seq # d.seq
    /\ \A s \in Session : Cardinality({c \in wire : c.eph = s}) = Len(sent[s])

(***************************************************************************)
(* However the network loses, repeats or reorders ciphertexts, and however *)
(* the opener was set up, it returns the messages of one session only, in  *)
(* order, from the first, each once; a context that returned anything also *)
(* exports the same secrets as that session's sealer.                      *)
(***************************************************************************)
OpenedInOrder ==
    \A o \in Opener : got[o] # <<>> =>
        \E s \in Session :
            /\ Len(got[o]) <= Len(sent[s])
            /\ got[o] = [n \in 1..Len(got[o]) |-> <<s, n>>]
            /\ opener[o].info = sealer[s].info
            /\ Export(opener[o], "context") = Export(sealer[s], "context")

(***************************************************************************)
(* A context set up with what the sealer used is never stuck: as long as   *)
(* the sealer has released more than the opener returned, the ciphertext   *)
(* it accepts next is among those released, whatever it was fed before.    *)
(***************************************************************************)
ReleasedIsOpenable ==
    \A o \in Opener, s \in Session :
        /\ opener[o] # NoContext
        /\ sealer[s] # NoContext
        /\ [opener[o] EXCEPT !.seq = 0] = [sealer[s] EXCEPT !.seq = 0]
        /\ opener[o].seq < MaxSeq
        /\ Len(got[o]) < Len(sent[s])
        => \E c \in wire : /\ AeadOpens(c, opener[o], c.aad)
                           /\ c.message = <<s, Len(got[o]) + 1>>

-----------------------------------------------------------------------------
\* The n-th ciphertext that session s released.
Released(s, n) ==
    [suite |-> sealer[s].suite, eph |-> s, key |-> sealer[s].key, info |-> sealer[s].info,
     seq |-> n - 1, aad |-> sent[s][n], message |-> <<s, n>>]

\* A counter counts the messages, except that a one-shot context is at the limit.
Counts(ctx, messages) ==
    \/ ctx.seq = Len(messages)
    \/ ctx.seq = MaxSeq /\ Len(messages) = 1

SealersCount ==
    \A s \in Session : /\ sealer[s] # NoContext => sealer[s].eph = s /\ Counts(sealer[s], sent[s])
                       /\ sealer[s] = NoContext => sent[s] = <<>>

\* What left the sealers is what they released, each message once.
WireIsReleased ==
    /\ \A c \in wire : \E s \in Session : \E n \in 1..Len(sent[s]) : c = Released(s, n)
    /\ \A s \in Session : \A n \in 1..Len(sent[s]) : Released(s, n) \in wire

(***************************************************************************)
(* An opener that returned anything was set up like the sealer of the      *)
(* session that its encapsulated key names, and has followed it.           *)
(***************************************************************************)
OpenersFollow ==
    \A o \in Opener :
        /\ opener[o] = NoContext => got[o] = <<>>
        /\ opener[o] # NoContext => Counts(opener[o], got[o])
        /\ got[o] # <<>> =>
             LET s == opener[o].eph
             IN  /\ Len(got[o]) <= Len(sent[s])
                 /\ \A n \in 1..Len(got[o]) : got[o][n] = <<s, n>>
                 /\ opener[o].suite = sealer[s].suite
                 /\ opener[o].key = sealer[s].key
                 /\ opener[o].info = sealer[s].info

\* The inductive invariant behind the three properties.
HpkeInv == TypeOK /\ SealersCount /\ WireIsReleased /\ OpenersFollow
=============================================================================
