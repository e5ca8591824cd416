----------------------------- MODULE CryptoProofs -----------------------------
(***************************************************************************)
(* Proofs about the cryptography in pure Rust: the HPKE contexts           *)
(* (Hpke.tla), the key exchange (KeyExchange.tla) and the protection of    *)
(* QUIC headers (QuicPackets.tla), for any number of sessions, openers,    *)
(* configurations and messages, any range of the sequence counter and      *)
(* every header and mask.                                                  *)
(***************************************************************************)
EXTENDS Hpke, KeyExchange, QuicPackets, FiniteSetTheorems, SequenceTheorems, TLAPS

-----------------------------------------------------------------------------
(***************************************************************************)
(* HPKE.  Two contexts have the same key only if everything that went into *)
(* the key schedule is the same, the info included.                        *)
(***************************************************************************)
LEMMA KeysBindEverything ==
    ASSUME NEW c, NEW d, Material(c).key = Material(d).key
    PROVE  /\ c.suite = d.suite
           /\ c.eph = d.eph
           /\ c.key = d.key
           /\ c.info = d.info
<1>1. /\ c.suite = d.suite
      /\ SharedSecret(c.suite.kem, c.eph, c.key) = SharedSecret(d.suite.kem, d.eph, d.key)
      /\ c.info = d.info
    BY DEF Material, KeyScheduleBase, LabeledExpand, LabeledExtract
<1>2. <<c.eph, c.key>> = <<d.eph, d.key>>
    BY <1>1 DEF SharedSecret, ExtractAndExpand, LabeledExpand, LabeledExtract
<1> QED
    BY <1>1, <1>2

\* What opens was sealed under the same key, for the next number.
LEMMA OpensOnlyItsOwn ==
    ASSUME NEW c, NEW o, NEW aad, AeadOpens(c, o, aad)
    PROVE  /\ c.suite = o.suite /\ c.eph = o.eph /\ c.key = o.key /\ c.info = o.info
           /\ c.seq = o.seq
<1>1. Material(c).key = Material(o).key /\ c.seq = o.seq
    BY DEF AeadOpens, ComputeNonce
<1> QED
    BY <1>1, KeysBindEverything

\* And what was sealed under the same key for the next number opens.
LEMMA OwnOpens ==
    ASSUME NEW c, NEW o, c.suite = o.suite, c.eph = o.eph, c.key = o.key, c.info = o.info,
           c.seq = o.seq
    PROVE  AeadOpens(c, o, c.aad)
  BY DEF AeadOpens, Material

\* The first state satisfies the invariant.
LEMMA HpkeInitInv == Init => HpkeInv
  BY HpkeAssumption
     DEF Init, HpkeInv, TypeOK, SealersCount, WireIsReleased, OpenersFollow, NoContext

\* Contexts have a counter of zero or more, and NoContext has not.
LEMMA ContextsAreContexts ==
    /\ \A c \in Context : c # NoContext
    /\ NoContext \notin Context
<1>1. ASSUME NEW c \in Context PROVE c.seq # NoContext.seq
    BY HpkeAssumption DEF Context, NoContext
<1> QED
    BY <1>1

\* A new sender starts at sequence number 0, under its own ephemeral key.
LEMMA Encapsulated ==
    ASSUME TypeOK, NEW s \in Session, NEW c \in Encap(s)
    PROVE  c \in Context /\ c.eph = s /\ c.seq = 0
  BY HpkeAssumption DEF TypeOK, Encap, Senders, Context

\* So does a receiver, under the ephemeral key of a sender.
LEMMA Decapsulated ==
    ASSUME TypeOK, NEW c \in Decap
    PROVE  c \in Context /\ c.seq = 0 /\ sealer[c.eph] # NoContext
  BY HpkeAssumption DEF TypeOK, Decap, Receivers, Context

\* Advancing or exhausting a counter leaves a context of the same keys.
LEMMA CounterChanges ==
    ASSUME NEW c \in Context, NEW n \in 0..MaxSeq
    PROVE  LET d == [c EXCEPT !.seq = n]
           IN  /\ d \in Context /\ d.seq = n
               /\ d.suite = c.suite /\ d.eph = c.eph /\ d.key = c.key /\ d.info = c.info
  BY DEF Context

\* The counter goes up by one and never beyond its limit.
LEMMA NextSeqAdvances ==
    ASSUME NEW k \in 0..MaxSeq, NEW n \in NextSeq(k)
    PROVE  n = k + 1 /\ n \in 0..MaxSeq /\ k < MaxSeq
  BY HpkeAssumption DEF NextSeq

\* Steps that touch neither sealers, openers nor what was sent and returned.
LEMMA HpkeStutter ==
    ASSUME HpkeInv, TypeOK', UNCHANGED <<sealer, opener, wire, sent, got>>
    PROVE  HpkeInv'
  BY DEF HpkeInv, SealersCount, WireIsReleased, OpenersFollow, Released, Counts

\* Making a configuration touches no context.
LEMMA GenerateInv ==
    ASSUME HpkeInv, NEW suite \in Suite, NEW n \in NameLen, GenerateEchConfigList(suite, n)
    PROVE  HpkeInv'
<1> DEFINE Config == [suite : Suite, nameLen : 0..MaxNameLen]
<1>1. PICK c \in Config : published' = Append(published, c)
    BY HpkeAssumption DEF GenerateEchConfigList, EncodeContents
<1>2. published \in Seq(Config)
    BY DEF HpkeInv, TypeOK
<1>3. published' \in Seq(Config) /\ Len(published') = Len(published) + 1 /\ Len(published) \in Nat
    BY <1>1, <1>2
<1>4. Context \subseteq Context'
    BY <1>3 DEF Context
<1>5. TypeOK'
    BY <1>3, <1>4 DEF HpkeInv, TypeOK, GenerateEchConfigList
<1> QED
    BY <1>5, HpkeStutter DEF GenerateEchConfigList

\* A new sender has released nothing yet.
LEMMA SetupSenderInv ==
    ASSUME HpkeInv, NEW s \in Session, SetupSender(s)
    PROVE  HpkeInv'
<1> USE DEF HpkeInv
<1>1. PICK c \in Encap(s) : sealer' = [sealer EXCEPT ![s] = c]
    BY DEF SetupSender
<1>2. c \in Context /\ c.eph = s /\ c.seq = 0 /\ c # NoContext /\ sealer[s] = NoContext
    BY Encapsulated, ContextsAreContexts DEF SetupSender
<1>3. UNCHANGED <<published, opener, wire, sent, got, verdict>>
    BY DEF SetupSender
<1>4. TypeOK'
    BY <1>1, <1>2, <1>3 DEF TypeOK, Context
<1>5. sent[s] = <<>> /\ sealer'[s] = c /\ \A t \in Session : t # s => sealer'[t] = sealer[t]
    BY <1>1, <1>2 DEF SealersCount, TypeOK
<1>6. SealersCount'
    BY <1>2, <1>3, <1>5 DEF SealersCount, Counts
<1>7. ASSUME NEW t \in Session, NEW n \in 1..Len(sent[t])
      PROVE  Released(t, n)' = Released(t, n) /\ t # s
    BY <1>3, <1>5 DEF Released
<1>8. WireIsReleased'
    BY <1>3, <1>7 DEF WireIsReleased
<1>9. ASSUME NEW o \in Opener, got[o] # <<>>
      PROVE  opener[o].eph \in Session /\ opener[o].eph # s
    BY <1>5, <1>9 DEF OpenersFollow, TypeOK, Context
<1>10. OpenersFollow'
    BY <1>3, <1>5, <1>9 DEF OpenersFollow, Counts
<1> QED
    BY <1>4, <1>6, <1>8, <1>10

(***************************************************************************)
(* A session releases its next message, and its context becomes d, of the  *)
(* same keys as before: what both seal and the one-shot seal do.           *)
(***************************************************************************)
LEMMA ReleaseInv ==
    ASSUME HpkeInv, NEW s \in Session, NEW d \in Context, NEW aad \in Aad,
           sealer' = [sealer EXCEPT ![s] = d],
           sent' = [sent EXCEPT ![s] = Append(sent[s], aad)],
           wire' = wire \cup
             {[suite |-> d.suite, eph |-> s, key |-> d.key, info |-> d.info,
               seq |-> Len(sent[s]), aad |-> aad, message |-> <<s, Len(sent[s]) + 1>>]},
           d.eph = s, Counts(d, Append(sent[s], aad)), Len(sent[s]) <= MaxSeq,
           sent[s] # <<>> => /\ d.suite = sealer[s].suite
                             /\ d.key = sealer[s].key
                             /\ d.info = sealer[s].info,
           UNCHANGED <<published, opener, got, verdict>>
    PROVE  HpkeInv'
<1> USE HpkeAssumption DEF HpkeInv
<1>0. PICK N : N = Len(sent[s]) + 1
    OBVIOUS
<1> DEFINE last == [suite |-> d.suite, eph |-> s, key |-> d.key, info |-> d.info,
                   seq |-> Len(sent[s]), aad |-> aad, message |-> <<s, Len(sent[s]) + 1>>]
<1>1. /\ sent \in [Session -> Seq(Aad)] /\ sent' \in [Session -> Seq(Aad)]
      /\ sealer \in [Session -> Context \cup {NoContext}]
    BY DEF TypeOK
<1>2. /\ sent[s] \in Seq(Aad) /\ Len(sent[s]) \in Nat /\ sealer'[s] = d
      /\ sent'[s] = Append(sent[s], aad) /\ Len(sent'[s]) = N /\ sent'[s][N] = aad
      /\ \A n \in 1..Len(sent[s]) : sent'[s][n] = sent[s][n]
    BY <1>0, <1>1
<1>3. \A t \in Session : t # s => sealer'[t] = sealer[t] /\ sent'[t] = sent[t]
    BY <1>1
<1>4. TypeOK'
  <2>1. Context' = Context
    BY DEF Context
  <2>2. \A c \in wire' : c.eph \in Session /\ c.seq \in 0..MaxSeq
    BY <1>2 DEF TypeOK
  <2> QED
    BY <1>1, <2>1, <2>2 DEF TypeOK
<1>5. SealersCount'
    BY <1>2, <1>3, ContextsAreContexts DEF SealersCount, Counts
<1>6. Released(s, N)' = last
    BY <1>0, <1>2 DEF Released
<1>7. ASSUME NEW t \in Session, NEW n \in 1..Len(sent[t])
      PROVE  Released(t, n)' = Released(t, n)
  <2>1. CASE t = s
    BY <1>2, <2>1 DEF Released
  <2>2. CASE t # s
    BY <1>3, <2>2 DEF Released
  <2> QED
    BY <2>1, <2>2
<1>8. /\ 1..Len(sent'[s]) = 1..Len(sent[s]) \cup {N}
      /\ \A t \in Session : t # s => 1..Len(sent'[t]) = 1..Len(sent[t])
    BY <1>0, <1>2, <1>3
<1>9. WireIsReleased'
  <2>1. ASSUME NEW c \in wire'
        PROVE  \E t \in Session : \E n \in 1..Len(sent'[t]) : c = Released(t, n)'
    <3>1. CASE c = last
      BY <1>6, <1>8, <3>1
    <3>2. CASE c \in wire
      <4>1. PICK t \in Session : \E n \in 1..Len(sent[t]) : c = Released(t, n)
        BY <3>2 DEF WireIsReleased
      <4>2. PICK n \in 1..Len(sent[t]) : c = Released(t, n)
        BY <4>1
      <4> QED
        BY <1>7, <1>8, <4>2
    <3> QED
      BY <3>1, <3>2
  <2>2. ASSUME NEW t \in Session, NEW n \in 1..Len(sent'[t])
        PROVE  Released(t, n)' \in wire'
    <3>1. CASE n \in 1..Len(sent[t])
      BY <1>7, <3>1 DEF WireIsReleased
    <3>2. CASE n \notin 1..Len(sent[t])
      BY <1>6, <1>8, <3>2
    <3> QED
      BY <3>1, <3>2
  <2> QED
    BY <2>1, <2>2 DEF WireIsReleased
<1>10. OpenersFollow'
  <2> SUFFICES ASSUME NEW o \in Opener, got[o] # <<>>
               PROVE  LET t == opener[o].eph
                      IN  /\ Len(got[o]) <= Len(sent'[t])
                          /\ \A n \in 1..Len(got[o]) : got[o][n] = <<t, n>>
                          /\ opener[o].suite = sealer'[t].suite
                          /\ opener[o].key = sealer'[t].key
                          /\ opener[o].info = sealer'[t].info
    BY DEF OpenersFollow, Counts
  <2>1. got[o] \in Seq(Session \X Nat) /\ Len(got[o]) \in Nat \ {0}
    BY DEF TypeOK
  <2>2. opener[o].eph \in Session
    BY DEF TypeOK, Context, OpenersFollow
  <2>3. CASE opener[o].eph = s
    <3>1. Len(got[o]) <= Len(sent[s]) /\ sent[s] # <<>>
      BY <2>1, <2>3 DEF OpenersFollow
    <3> QED
      BY <1>2, <2>1, <2>3, <3>1 DEF OpenersFollow
  <2>4. CASE opener[o].eph # s
    BY <1>3, <2>2, <2>4 DEF OpenersFollow
  <2> QED
    BY <2>3, <2>4
<1> QED
    BY <1>4, <1>5, <1>9, <1>10

\* A single-shot seal uses a context of its own.
LEMMA SealOnceInv ==
    ASSUME HpkeInv, NEW s \in Session, NEW aad \in Aad, SealOnce(s, aad)
    PROVE  HpkeInv'
<1> USE HpkeAssumption DEF HpkeInv
<1>1. PICK c \in Encap(s) : /\ sealer' = [sealer EXCEPT ![s] = [c EXCEPT !.seq = MaxSeq]]
                            /\ wire' = wire \cup {Ciphertext(c, aad, 1)}
    BY DEF SealOnce
<1> DEFINE d == [c EXCEPT !.seq = MaxSeq]
<1>2. c \in Context /\ c.eph = s /\ c.seq = 0
    BY Encapsulated
<1>3. /\ d \in Context /\ d.seq = MaxSeq
      /\ d.suite = c.suite /\ d.eph = c.eph /\ d.key = c.key /\ d.info = c.info
    BY <1>2, CounterChanges
<1>4. sent[s] = <<>> /\ Append(sent[s], aad) = <<aad>> /\ Len(sent[s]) = 0
  <2>1. sent[s] = <<>>
    BY DEF SealOnce, SealersCount
  <2>2. Append(<<>>, aad) = <<aad>> /\ Len(<<>>) = 0
    OBVIOUS
  <2> QED
    BY <2>1, <2>2
<1>5. Ciphertext(c, aad, 1) =
        [suite |-> d.suite, eph |-> s, key |-> d.key, info |-> d.info,
         seq |-> Len(sent[s]), aad |-> aad, message |-> <<s, Len(sent[s]) + 1>>]
    BY <1>2, <1>3, <1>4 DEF Ciphertext
<1>6. Counts(d, Append(sent[s], aad))
    BY <1>3, <1>4 DEF Counts
<1>7. sent' = [sent EXCEPT ![s] = Append(sent[s], aad)]
    BY <1>4 DEF SealOnce
<1> HIDE DEF d
<1>8. sealer' = [sealer EXCEPT ![s] = d]
    BY <1>1 DEF d
<1>9. /\ wire' = wire \cup
             {[suite |-> d.suite, eph |-> s, key |-> d.key, info |-> d.info,
               seq |-> Len(sent[s]), aad |-> aad, message |-> <<s, Len(sent[s]) + 1>>]}
      /\ Len(sent[s]) <= MaxSeq
      /\ UNCHANGED <<published, opener, got, verdict>>
    BY <1>1, <1>4, <1>5 DEF SealOnce
<1>10. d \in Context /\ d.eph = s /\ sent[s] = <<>>
    BY <1>2, <1>3, <1>4
<1> QED
    BY <1>6, <1>7, <1>8, <1>9, <1>10, ReleaseInv

\* A seal releases its message under the next sequence number.
LEMMA SealInv ==
    ASSUME HpkeInv, NEW s \in Session, NEW aad \in Aad, Seal(s, aad)
    PROVE  HpkeInv'
<1> USE HpkeAssumption DEF HpkeInv
<1> DEFINE c == sealer[s]
<1>1. c \in Context /\ c.eph = s /\ c.seq \in 0..MaxSeq /\ Counts(c, sent[s])
    BY DEF Seal, TypeOK, SealersCount, Context
<1>2. PICK n \in NextSeq(c.seq) : sealer' = [sealer EXCEPT ![s].seq = n]
    BY DEF Seal
<1>3. n = c.seq + 1 /\ n \in 0..MaxSeq /\ c.seq < MaxSeq
    BY <1>1, <1>2, NextSeqAdvances
<1> DEFINE d == [c EXCEPT !.seq = n]
<1>4. /\ d \in Context /\ d.seq = n
      /\ d.suite = c.suite /\ d.eph = c.eph /\ d.key = c.key /\ d.info = c.info
    BY <1>1, <1>3, CounterChanges
<1>5. sealer' = [sealer EXCEPT ![s] = d]
    BY <1>2 DEF TypeOK
<1>6. c.seq = Len(sent[s]) /\ sent[s] \in Seq(Aad)
    BY <1>1, <1>3 DEF Counts, TypeOK
<1>7. Counts(d, Append(sent[s], aad)) /\ Len(sent[s]) <= MaxSeq
    BY <1>3, <1>4, <1>6 DEF Counts
<1>8. Ciphertext(c, aad, Len(sent[s]) + 1) =
        [suite |-> d.suite, eph |-> s, key |-> d.key, info |-> d.info,
         seq |-> Len(sent[s]), aad |-> aad, message |-> <<s, Len(sent[s]) + 1>>]
    BY <1>1, <1>4, <1>6 DEF Ciphertext
<1>9. /\ sent' = [sent EXCEPT ![s] = Append(sent[s], aad)]
      /\ wire' = wire \cup {Ciphertext(c, aad, Len(sent[s]) + 1)}
      /\ UNCHANGED <<published, opener, got, verdict>>
    BY DEF Seal
<1> HIDE DEF d
<1> QED
    BY <1>1, <1>4, <1>5, <1>7, <1>8, <1>9, ReleaseInv

(***************************************************************************)
(* A ciphertext is the release of the session that its encapsulated key    *)
(* names, under that session's suite, key and info.                        *)
(***************************************************************************)
LEMMA OnTheWire ==
    ASSUME HpkeInv, NEW c \in wire
    PROVE  /\ c.eph \in Session
           /\ c.seq + 1 \in 1..Len(sent[c.eph])
           /\ c = Released(c.eph, c.seq + 1)
           /\ c.message = <<c.eph, c.seq + 1>>
           /\ c.suite = sealer[c.eph].suite
           /\ c.key = sealer[c.eph].key
           /\ c.info = sealer[c.eph].info
<1>1. PICK s \in Session : \E n \in 1..Len(sent[s]) : c = Released(s, n)
    BY DEF HpkeInv, WireIsReleased
<1>2. PICK n \in 1..Len(sent[s]) : c = Released(s, n)
    BY <1>1
<1>3. c.eph = s /\ c.seq = n - 1 /\ c.message = <<s, n>>
    BY <1>2 DEF Released
<1>4. n \in Int /\ c.seq + 1 = n
    BY <1>3
<1> QED
    BY <1>2, <1>3, <1>4 DEF Released

(***************************************************************************)
(* An opener returns the message of a ciphertext, and its context becomes  *)
(* d, of the same keys as before: what open and the one-shot open do.      *)
(***************************************************************************)
LEMMA ReturnInv ==
    ASSUME HpkeInv, NEW o \in Opener, NEW d \in Context, NEW c \in wire,
           opener' = [opener EXCEPT ![o] = d],
           got' = [got EXCEPT ![o] = Append(got[o], c.message)],
           verdict' = [verdict EXCEPT ![o] = "opened"],
           Counts(d, Append(got[o], c.message)),
           got[o] # <<>> => d.eph = opener[o].eph,
           c.suite = d.suite, c.eph = d.eph, c.key = d.key, c.info = d.info,
           c.seq = Len(got[o]),
           UNCHANGED <<published, sealer, wire, sent>>
    PROVE  HpkeInv'
<1> USE DEF HpkeInv
<1>1. /\ c.eph \in Session /\ c.message = <<c.eph, Len(got[o]) + 1>>
      /\ Len(got[o]) + 1 \in 1..Len(sent[c.eph])
      /\ c.suite = sealer[c.eph].suite /\ c.key = sealer[c.eph].key /\ c.info = sealer[c.eph].info
    BY OnTheWire
<1>2. /\ got \in [Opener -> Seq(Session \X Nat)] /\ opener \in [Opener -> Context \cup {NoContext}]
      /\ got[o] \in Seq(Session \X Nat) /\ Len(got[o]) \in Nat
    BY DEF TypeOK
<1>3. c.message \in Session \X Nat
    BY <1>1, <1>2
<1>4. /\ got'[o] = Append(got[o], c.message) /\ Len(got'[o]) = Len(got[o]) + 1
      /\ got'[o][Len(got[o]) + 1] = c.message
      /\ \A n \in 1..Len(got[o]) : got'[o][n] = got[o][n]
      /\ opener'[o] = d
    BY <1>2, <1>3
<1>5. \A p \in Opener : p # o => got'[p] = got[p] /\ opener'[p] = opener[p]
    BY <1>2
<1>6. TypeOK'
  <2>1. Context' = Context
    BY DEF Context
  <2>2. got' \in [Opener -> Seq(Session \X Nat)]
    BY <1>2, <1>3
  <2> QED
    BY <2>1, <2>2 DEF TypeOK
<1>7. SealersCount' /\ WireIsReleased'
    BY DEF SealersCount, WireIsReleased, Released, Counts
<1>8. ASSUME NEW n \in 1..(Len(got[o]) + 1)
      PROVE  got'[o][n] = <<d.eph, n>>
  <2>1. CASE n = Len(got[o]) + 1
    BY <1>1, <1>4, <2>1
  <2>2. CASE n \in 1..Len(got[o])
    <3>1. got[o] # <<>>
      BY <1>2, <2>2
    <3>2. got[o][n] = <<opener[o].eph, n>>
      BY <2>2, <3>1 DEF OpenersFollow
    <3> QED
      BY <1>4, <2>2, <3>1, <3>2
  <2> QED
    BY <1>2, <2>1, <2>2
<1>9. OpenersFollow'
  <2> SUFFICES ASSUME NEW p \in Opener
               PROVE  /\ opener'[p] = NoContext => got'[p] = <<>>
                      /\ opener'[p] # NoContext => Counts(opener'[p], got'[p])
                      /\ got'[p] # <<>> =>
                           LET s == opener'[p].eph
                           IN  /\ Len(got'[p]) <= Len(sent[s])
                               /\ \A n \in 1..Len(got'[p]) : got'[p][n] = <<s, n>>
                               /\ opener'[p].suite = sealer[s].suite
                               /\ opener'[p].key = sealer[s].key
                               /\ opener'[p].info = sealer[s].info
    BY DEF OpenersFollow, Counts
  <2>1. CASE p = o
    <3>1. opener'[p] # NoContext /\ Counts(opener'[p], got'[p])
      BY <1>4, <2>1, ContextsAreContexts
    <3>2. Len(got'[p]) <= Len(sent[d.eph])
      BY <1>1, <1>2, <1>4, <2>1
    <3>3. \A n \in 1..Len(got'[p]) : got'[p][n] = <<d.eph, n>>
      BY <1>4, <1>8, <2>1
    <3>4. d.suite = sealer[d.eph].suite /\ d.key = sealer[d.eph].key /\ d.info = sealer[d.eph].info
      BY <1>1
    <3> QED
      BY <1>4, <2>1, <3>1, <3>2, <3>3, <3>4
  <2>2. CASE p # o
    BY <1>5, <2>2 DEF OpenersFollow
  <2> QED
    BY <2>1, <2>2
<1> QED
    BY <1>6, <1>7, <1>9

\* A new receiver has opened nothing yet.
LEMMA SetupReceiverInv ==
    ASSUME HpkeInv, NEW o \in Opener, SetupReceiver(o)
    PROVE  HpkeInv'
<1> USE DEF HpkeInv
<1>1. PICK c \in Decap : opener' = [opener EXCEPT ![o] = c]
    BY DEF SetupReceiver
<1>2. c \in Context /\ c.seq = 0 /\ c # NoContext /\ got[o] = <<>>
    BY Decapsulated, ContextsAreContexts DEF SetupReceiver, OpenersFollow
<1>3. UNCHANGED <<published, sealer, wire, sent, got, verdict>>
    BY DEF SetupReceiver
<1>4. TypeOK'
    BY <1>1, <1>2, <1>3 DEF TypeOK, Context
<1>5. SealersCount' /\ WireIsReleased'
    BY <1>3 DEF SealersCount, WireIsReleased, Released, Counts
<1>6. OpenersFollow'
    BY <1>1, <1>2, <1>3 DEF OpenersFollow, Counts, TypeOK
<1> QED
    BY <1>4, <1>5, <1>6

\* A single-shot open accepts the first message of a sender only.
LEMMA OpenOnceInv ==
    ASSUME HpkeInv, NEW o \in Opener, NEW c \in wire, NEW aad \in Aad, OpenOnce(o, c, aad)
    PROVE  HpkeInv'
<1> USE HpkeAssumption DEF HpkeInv
<1>1. PICK r \in Decap : /\ AeadOpens(c, r, aad)
                         /\ opener' = [opener EXCEPT ![o] = [r EXCEPT !.seq = MaxSeq]]
    BY DEF OpenOnce
<1>2. r \in Context /\ r.seq = 0
    BY Decapsulated
<1>3. PICK d : d = [r EXCEPT !.seq = MaxSeq]
    OBVIOUS
<1>4. /\ d \in Context /\ d.seq = MaxSeq
      /\ d.suite = r.suite /\ d.eph = r.eph /\ d.key = r.key /\ d.info = r.info
    BY <1>2, <1>3, CounterChanges
<1>5. /\ c.suite = d.suite /\ c.eph = d.eph /\ c.key = d.key /\ c.info = d.info /\ c.seq = 0
    BY <1>1, <1>2, <1>4, OpensOnlyItsOwn
<1>6. got[o] = <<>>
    BY DEF OpenOnce, OpenersFollow
<1>7. Append(got[o], c.message) = <<c.message>> /\ Len(<<c.message>>) = 1 /\ Len(got[o]) = 0
  <2>1. Append(<<>>, c.message) = <<c.message>> /\ Len(<<>>) = 0 /\ Len(<<c.message>>) = 1
    OBVIOUS
  <2> QED
    BY <1>6, <2>1
<1>8. Counts(d, Append(got[o], c.message))
    BY <1>4, <1>7 DEF Counts
<1>9. /\ opener' = [opener EXCEPT ![o] = d]
      /\ got' = [got EXCEPT ![o] = Append(got[o], c.message)]
      /\ verdict' = [verdict EXCEPT ![o] = "opened"]
      /\ UNCHANGED <<published, sealer, wire, sent>>
    BY <1>1, <1>3, <1>7 DEF OpenOnce
<1> QED
    BY <1>4, <1>5, <1>6, <1>7, <1>8, <1>9, ReturnInv

\* An open accepts the next message of the sender only.
LEMMA OpenInv ==
    ASSUME HpkeInv, NEW o \in Opener, NEW c \in wire, NEW aad \in Aad, Open(o, c, aad)
    PROVE  HpkeInv'
<1> USE HpkeAssumption DEF HpkeInv
<1> DEFINE r == opener[o]
<1>1. r \in Context /\ r.seq \in 0..MaxSeq /\ Counts(r, got[o])
    BY DEF Open, TypeOK, OpenersFollow, Context
<1>2. PICK n \in NextSeq(r.seq) : opener' = [opener EXCEPT ![o].seq = n]
    BY DEF Open
<1>3. n = r.seq + 1 /\ n \in 0..MaxSeq /\ r.seq < MaxSeq
    BY <1>1, <1>2, NextSeqAdvances
<1>4. PICK d : d = [r EXCEPT !.seq = n]
    OBVIOUS
<1>5. /\ d \in Context /\ d.seq = n
      /\ d.suite = r.suite /\ d.eph = r.eph /\ d.key = r.key /\ d.info = r.info
    BY <1>1, <1>3, <1>4, CounterChanges
<1>6. /\ c.suite = d.suite /\ c.eph = d.eph /\ c.key = d.key /\ c.info = d.info
      /\ c.seq = r.seq
    BY <1>5, OpensOnlyItsOwn DEF Open
<1>7. r.seq = Len(got[o]) /\ got[o] \in Seq(Session \X Nat)
    BY <1>1, <1>3 DEF Counts, TypeOK
<1>8. Counts(d, Append(got[o], c.message))
  <2>1. c.message \in Session \X Nat
    <3>1. c.eph \in Session /\ c.message = <<c.eph, c.seq + 1>> /\ c.seq \in Nat
      BY <1>1, <1>6, OnTheWire
    <3> QED
      BY <3>1
  <2> QED
    BY <1>3, <1>5, <1>7, <2>1 DEF Counts
<1>9. /\ opener' = [opener EXCEPT ![o] = d]
      /\ got' = [got EXCEPT ![o] = Append(got[o], c.message)]
      /\ verdict' = [verdict EXCEPT ![o] = "opened"]
      /\ UNCHANGED <<published, sealer, wire, sent>>
    BY <1>2, <1>4 DEF Open, TypeOK
<1> QED
    BY <1>5, <1>6, <1>7, <1>8, <1>9, ReturnInv

\* A failed open leaves the receiver where it was.
LEMMA RejectInv ==
    ASSUME HpkeInv, NEW o \in Opener, NEW c \in wire, NEW aad \in Aad, Reject(o, c, aad)
    PROVE  HpkeInv'
<1>1. TypeOK'
    BY DEF HpkeInv, TypeOK, Context, Reject
<1> QED
    BY <1>1, HpkeStutter DEF Reject

\* HpkeInv is inductive: one lemma per operation.
THEOREM HpkeInvariant == Spec => []HpkeInv
<1>1. HpkeInv /\ [Next]_vars => HpkeInv'
  <2> SUFFICES ASSUME HpkeInv, [Next]_vars
               PROVE  HpkeInv'
    OBVIOUS
  <2>1. CASE UNCHANGED vars
    <3>1. TypeOK'
      BY <2>1 DEF vars, HpkeInv, TypeOK, Context
    <3> QED
      BY <2>1, <3>1, HpkeStutter DEF vars
  <2> QED
    BY <2>1, GenerateInv, SetupSenderInv, SealOnceInv, SealInv, SetupReceiverInv, OpenOnceInv,
       OpenInv, RejectInv DEF Next
<1> QED
    BY <1>1, HpkeInitInv, PTL DEF Spec

\* A session has as many ciphertexts as it released messages.
LEMMA OneCiphertextEach ==
    ASSUME HpkeInv, NEW s \in Session
    PROVE  Cardinality({c \in wire : c.eph = s}) = Len(sent[s])
<1> DEFINE S == 1..Len(sent[s])
           T == {c \in wire : c.eph = s}
           f == [n \in S |-> Released(s, n)]
<1>1. Len(sent[s]) \in Nat
    BY DEF HpkeInv, TypeOK
<1>2. \A n \in S : f[n] \in T
    BY DEF HpkeInv, WireIsReleased, Released
<1>3. \A n, m \in S : f[n] = f[m] => n = m
  <2> TAKE n, m \in S
  <2>1. Released(s, n).seq = n - 1 /\ Released(s, m).seq = m - 1
    BY DEF Released
  <2>2. f[n] = f[m] => n - 1 = m - 1
    BY <2>1
  <2> QED
    BY <2>2
<1>4. \A c \in T : \E n \in S : f[n] = c
    BY OnTheWire
<1>5. f \in Bijection(S, T)
    BY <1>2, <1>3, <1>4 DEF Bijection, Injection, Surjection, IsInjective
<1>6. IsFiniteSet(S) /\ Cardinality(S) = Len(sent[s])
    BY <1>1, FS_Interval
<1> HIDE DEF S, T, f
<1>7. Cardinality(T) = Cardinality(S)
    BY <1>5, <1>6, FS_Bijection DEF ExistsBijection
<1> QED
    BY <1>6, <1>7 DEF T

(***************************************************************************)
(* No nonce is used twice under one key, by any number of contexts and for *)
(* any width of the counter, its last value included.                      *)
(***************************************************************************)
THEOREM NoNonceTwice == Spec => []NoncesAreUnique
<1>1. HpkeInv => NoncesAreUnique
  <2> SUFFICES ASSUME HpkeInv
               PROVE  NoncesAreUnique
    OBVIOUS
  <2>1. ASSUME NEW c \in wire, NEW d \in wire, Material(c).key = Material(d).key, c.seq = d.seq
        PROVE  c = d
    <3>1. c.eph = d.eph
      BY <2>1, KeysBindEverything
    <3> QED
      BY <2>1, <3>1, OnTheWire
  <2> QED
    BY <2>1, OneCiphertextEach DEF NoncesAreUnique
<1> QED
    BY <1>1, HpkeInvariant, PTL

(***************************************************************************)
(* Openers return the messages of one session, in order and each once,     *)
(* and export what that session's sealer exports.                          *)
(***************************************************************************)
THEOREM MessagesOpenInOrder == Spec => []OpenedInOrder
<1>1. HpkeInv => OpenedInOrder
  <2> SUFFICES ASSUME HpkeInv, NEW o \in Opener, got[o] # <<>>
               PROVE  \E s \in Session :
                        /\ Len(got[o]) <= Len(sent[s])
                        /\ got[o] = [n \in 1..Len(got[o]) |-> <<s, n>>]
                        /\ opener[o].info = sealer[s].info
                        /\ Export(opener[o], "context") = Export(sealer[s], "context")
    BY DEF OpenedInOrder
  <2> DEFINE s == opener[o].eph
  <2>1. /\ Len(got[o]) <= Len(sent[s])
        /\ \A n \in 1..Len(got[o]) : got[o][n] = <<s, n>>
        /\ opener[o].suite = sealer[s].suite
        /\ opener[o].key = sealer[s].key
        /\ opener[o].info = sealer[s].info
    BY DEF HpkeInv, OpenersFollow
  <2>2. opener[o] \in Context /\ s \in Session
    BY DEF HpkeInv, OpenersFollow, TypeOK, Context
  <2>3. sealer[s] # NoContext
    <3>1. Len(got[o]) \in Nat \ {0} /\ Len(sent[s]) \in Nat
      BY <2>2 DEF HpkeInv, TypeOK
    <3> QED
      BY <2>1, <2>2, <3>1 DEF HpkeInv, SealersCount
  <2>4. sealer[s].eph = s
    BY <2>2, <2>3 DEF HpkeInv, SealersCount
  <2>5. got[o] = [n \in 1..Len(got[o]) |-> <<s, n>>]
    <3>1. got[o] \in Seq(Session \X Nat)
      BY DEF HpkeInv, TypeOK
    <3>2. got[o] \in [1..Len(got[o]) -> Session \X Nat]
      BY <3>1, LenProperties
    <3>3. got[o] = [n \in 1..Len(got[o]) |-> got[o][n]]
      BY <3>2, Zenon
    <3> QED
      BY <2>1, <3>3, Zenon
  <2>6. Export(opener[o], "context") = Export(sealer[s], "context")
    BY <2>1, <2>4 DEF Export, Material
  <2> QED
    BY <2>1, <2>2, <2>5, <2>6
<1> QED
    BY <1>1, HpkeInvariant, PTL

(***************************************************************************)
(* No opener that was set up like a sealer is ever stuck: its next message *)
(* is among the released ciphertexts, whatever it was fed before.          *)
(***************************************************************************)
THEOREM OpenersAreNeverStuck == Spec => []ReleasedIsOpenable
<1>1. HpkeInv => ReleasedIsOpenable
  <2> SUFFICES ASSUME HpkeInv, NEW o \in Opener, NEW s \in Session,
                      opener[o] # NoContext, sealer[s] # NoContext,
                      [opener[o] EXCEPT !.seq = 0] = [sealer[s] EXCEPT !.seq = 0],
                      opener[o].seq < MaxSeq, Len(got[o]) < Len(sent[s])
               PROVE  \E c \in wire : /\ AeadOpens(c, opener[o], c.aad)
                                      /\ c.message = <<s, Len(got[o]) + 1>>
    BY DEF ReleasedIsOpenable
  <2> USE HpkeAssumption
  <2>1. opener[o] \in Context /\ sealer[s] \in Context /\ sealer[s].eph = s
    BY DEF HpkeInv, TypeOK, SealersCount
  <2>2. /\ opener[o].suite = sealer[s].suite /\ opener[o].eph = s
        /\ opener[o].key = sealer[s].key /\ opener[o].info = sealer[s].info
    <3>1. /\ [opener[o] EXCEPT !.seq = 0].suite = opener[o].suite
          /\ [opener[o] EXCEPT !.seq = 0].eph = opener[o].eph
          /\ [opener[o] EXCEPT !.seq = 0].key = opener[o].key
          /\ [opener[o] EXCEPT !.seq = 0].info = opener[o].info
      BY <2>1 DEF Context
    <3>2. /\ [sealer[s] EXCEPT !.seq = 0].suite = sealer[s].suite
          /\ [sealer[s] EXCEPT !.seq = 0].eph = sealer[s].eph
          /\ [sealer[s] EXCEPT !.seq = 0].key = sealer[s].key
          /\ [sealer[s] EXCEPT !.seq = 0].info = sealer[s].info
      BY <2>1 DEF Context
    <3> QED
      BY <2>1, <3>1, <3>2, Zenon
  <2>3. Len(got[o]) \in Nat /\ Len(sent[s]) \in Nat
    BY DEF HpkeInv, TypeOK
  <2>4. opener[o].seq = Len(got[o])
    BY DEF HpkeInv, OpenersFollow, Counts
  <2> DEFINE n == Len(got[o]) + 1
             c == Released(s, n)
  <2>5. n \in 1..Len(sent[s]) /\ n - 1 = Len(got[o])
    BY <2>3
  <2>6. c \in wire /\ c.message = <<s, n>>
    BY <2>5 DEF HpkeInv, WireIsReleased, Released
  <2>7. /\ c.suite = opener[o].suite /\ c.eph = opener[o].eph /\ c.key = opener[o].key
        /\ c.info = opener[o].info /\ c.seq = opener[o].seq
    BY <2>2, <2>4, <2>5 DEF Released
  <2> HIDE DEF c
  <2>8. AeadOpens(c, opener[o], c.aad)
    BY <2>7, OwnOpens
  <2> QED
    BY <2>6, <2>8
<1> QED
    BY <1>1, HpkeInvariant, PTL

-----------------------------------------------------------------------------
(***************************************************************************)
(* Key exchange.  The groups of the two providers, in their order.         *)
(***************************************************************************)
LEMMA PureGroups ==
    LET q == KxGroups("pure")
    IN  /\ Len(q) = 3 /\ q[1] = "X25519" /\ q[2] = "secp256r1" /\ q[3] = "secp384r1"
  BY DEF KxGroups

\* The groups of the provider with the hybrid.
LEMMA PqGroups ==
    LET q == KxGroups("pq")
    IN  /\ Len(q) = 4 /\ q[1] = Hybrid /\ q[2] = "X25519" /\ q[3] = "secp256r1"
        /\ q[4] = "secp384r1"
  BY DEF KxGroups

\* The two providers can be told apart by their groups.
LEMMA ProvidersDiffer == KxGroups("pure") # KxGroups("pq")
  BY PureGroups, PqGroups

\* The first group that fits is the one that is selected.
LEMMA SelectsTheFirst ==
    ASSUME NEW version, NEW mine, NEW theirs, NEW m \in 1..Len(mine), Len(mine) \in Nat,
           UsableForVersion(mine[m], version),
           \E k \in 1..Len(theirs) : theirs[k] = mine[m],
           \A n \in 1..Len(mine) :
             n < m => ~(/\ UsableForVersion(mine[n], version)
                        /\ \E k \in 1..Len(theirs) : theirs[k] = mine[n])
    PROVE  SelectGroup(version, mine, theirs) = mine[m]
<1> DEFINE fits == {n \in 1..Len(mine) : /\ UsableForVersion(mine[n], version)
                                         /\ \E k \in 1..Len(theirs) : theirs[k] = mine[n]}
           first == CHOOSE n \in fits : \A k \in fits : n <= k
<1>1. m \in fits /\ fits \subseteq Int
    OBVIOUS
<1>2. \A k \in fits : ~(k < m)
    OBVIOUS
<1>3. \A k \in fits : m <= k
    BY <1>1, <1>2
<1>4. first \in fits /\ \A k \in fits : first <= k
    BY <1>1, <1>3
<1> HIDE DEF fits, first
<1>5. m <= first /\ first <= m /\ m \in Int /\ first \in Int
    BY <1>1, <1>3, <1>4
<1>6. first = m
    BY <1>5
<1> QED
    BY <1>6 DEF SelectGroup, fits, first

(***************************************************************************)
(* The hybrid group is selected if and only if both ends have it and the   *)
(* version is TLS 1.3; otherwise X25519 is.                                *)
(***************************************************************************)
LEMMA HybridIffBoth ==
    ASSUME NEW version \in Version, NEW server \in Provider, NEW client \in Provider
    PROVE  SelectGroup(version, KxGroups(server), KxGroups(client)) =
             IF server = "pq" /\ client = "pq" /\ version = "TLSv1_3" THEN Hybrid ELSE "X25519"
<1> DEFINE mine == KxGroups(server)
           theirs == KxGroups(client)
<1>1. CASE server = "pure"
  <2>1. mine[1] = "X25519" /\ Len(mine) = 3
    BY <1>1, PureGroups
  <2>2. \E k \in 1..Len(theirs) : theirs[k] = "X25519"
    BY PureGroups, PqGroups DEF Provider
  <2>3. UsableForVersion(mine[1], version)
    BY <2>1 DEF UsableForVersion, Hybrid
  <2> HIDE DEF mine, theirs
  <2>4. SelectGroup(version, mine, theirs) = mine[1]
    BY <2>1, <2>2, <2>3, SelectsTheFirst
  <2> QED
    BY <1>1, <2>1, <2>4 DEF mine, theirs
<1>2. CASE server = "pq" /\ client = "pq" /\ version = "TLSv1_3"
  <2>1. mine[1] = Hybrid /\ Len(mine) = 4 /\ theirs[1] = Hybrid /\ Len(theirs) = 4
    BY <1>2, PqGroups
  <2>2. UsableForVersion(mine[1], version)
    BY <1>2 DEF UsableForVersion
  <2> HIDE DEF mine, theirs
  <2>3. SelectGroup(version, mine, theirs) = mine[1]
    BY <2>1, <2>2, SelectsTheFirst
  <2> QED
    BY <1>2, <2>1, <2>3 DEF mine, theirs
<1>3. CASE server = "pq" /\ ~(client = "pq" /\ version = "TLSv1_3")
  <2>1. mine[1] = Hybrid /\ mine[2] = "X25519" /\ Len(mine) = 4
    BY <1>3, PqGroups
  <2>2. \E k \in 1..Len(theirs) : theirs[k] = "X25519"
    BY PureGroups, PqGroups DEF Provider
  <2>3. UsableForVersion(mine[2], version)
    BY <2>1 DEF UsableForVersion, Hybrid
  <2>4. ~(/\ UsableForVersion(mine[1], version)
          /\ \E k \in 1..Len(theirs) : theirs[k] = mine[1])
    <3>1. CASE version # "TLSv1_3"
      BY <2>1, <3>1 DEF UsableForVersion
    <3>2. CASE client = "pure"
      BY <2>1, <3>2, PureGroups DEF Hybrid
    <3> QED
      BY <1>3, <3>1, <3>2 DEF Provider
  <2> HIDE DEF mine, theirs
  <2>5. SelectGroup(version, mine, theirs) = mine[2]
    BY <2>1, <2>2, <2>3, <2>4, SelectsTheFirst
  <2> QED
    BY <1>3, <2>1, <2>5 DEF mine, theirs
<1> QED
    BY <1>1, <1>2, <1>3 DEF Provider

(***************************************************************************)
(* The two ends compute the same secret exactly when neither share was     *)
(* altered, in every group.                                                *)
(***************************************************************************)
LEMMA SameSecretIffIntact ==
    ASSUME NEW g, NEW s \in {"intact", "altered"}, NEW c \in {"intact", "altered"}
    PROVE  KxSecret(g, "client", c) = KxSecret(g, "server", s) <=> s = "intact" /\ c = "intact"
<1> DEFINE A == {"client", Seen("client", c)}
           B == {"server", Seen("server", s)}
<1>1. A = B <=> s = "intact" /\ c = "intact"
    BY DEF Seen
<1>2. DiffieHellman("client", c) = DiffieHellman("server", s) <=> A = B
    BY DEF DiffieHellman
<1>3. s = "intact" /\ c = "intact" => MlKem("client", c) = MlKem("server", s)
    BY DEF MlKem, Seen
<1>4. CASE g = Hybrid
    BY <1>1, <1>2, <1>3, <1>4 DEF KxSecret
<1>5. CASE g # Hybrid
    BY <1>1, <1>2, <1>5 DEF KxSecret
<1> QED
    BY <1>4, <1>5

\* The first state satisfies the invariant.
LEMMA KxInitInv == KxInit => KxInv
  BY DEF KxInit, KxInv, KxTypeOK, SharesWereParsed, SecretsAgree, Idle

\* What the server answers with, for any share of the client.
LEMMA ServerAnswers ==
    ASSUME KxInv, NEW provider \in Provider, NEW share \in Share, StartAndComplete(provider, share)
    PROVE  KxInv'
<1> USE DEF KxInv
<1> DEFINE g == SelectGroup(kxClient.version, KxGroups(provider), kxClient.groups)
<1>1. PICK version \in Version, q \in Provider :
        kxClient = [phase |-> "started", version |-> version, groups |-> KxGroups(q)]
    BY DEF StartAndComplete, KxTypeOK, Idle, Completions
<1>2. PICK parsed \in Parses(g, "server", share) :
        kxServer' = [phase |-> IF parsed THEN "answered" ELSE "failed", provider |-> provider,
                     group |-> g, share |-> share, secret |-> KxSecret(g, "server", share)]
    BY DEF StartAndComplete
<1>3. /\ (parsed = TRUE /\ share # "short") \/ (parsed = FALSE /\ share # "intact")
      /\ kxClient' = kxClient
    BY DEF Parses, Share, StartAndComplete
<1>4. g = IF provider = "pq" /\ q = "pq" /\ version = "TLSv1_3" THEN Hybrid ELSE "X25519"
    BY <1>1, HybridIffBoth
<1> HIDE DEF g
<1>5. g \in Group /\ (g = Hybrid <=> provider = "pq" /\ q = "pq" /\ version = "TLSv1_3")
    BY <1>4 DEF Group, Hybrid
<1>6. KxTypeOK'
  <2>1. PICK p \in {"answered", "failed"} :
          kxServer' = [phase |-> p, provider |-> provider, group |-> g, share |-> share,
                       secret |-> KxSecret(g, "server", share)]
    BY <1>2, <1>3
  <2>2. kxServer' \in Answers
    BY <1>5, <2>1 DEF Answers
  <2> QED
    BY <1>3, <2>2 DEF KxTypeOK, Answers, Completions
<1>7. SharesWereParsed'
    BY <1>1, <1>2, <1>3 DEF SharesWereParsed, g, Idle
<1>8. KxGroups(q) = KxGroups("pq") <=> q = "pq"
    BY ProvidersDiffer DEF Provider
<1>9. SecretsAgree'
    BY <1>1, <1>2, <1>3, <1>5, <1>8 DEF SecretsAgree
<1> QED
    BY <1>6, <1>7, <1>9

\* How the client completes, for any share of the server.
LEMMA ClientCompletes ==
    ASSUME KxInv, NEW share \in Share, Complete(share)
    PROVE  KxInv'
<1> USE DEF KxInv
<1>1. PICK version \in Version, q \in Provider :
        kxClient = [phase |-> "started", version |-> version, groups |-> KxGroups(q)]
    BY DEF Complete, KxTypeOK, Idle, Completions
<1>2. PICK parsed \in Parses(kxServer.group, "client", share) :
        kxClient' = [phase |-> IF parsed THEN "completed" ELSE "failed",
                     version |-> kxClient.version, groups |-> kxClient.groups,
                     share |-> share, secret |-> KxSecret(kxServer.group, "client", share)]
    BY DEF Complete
<1>3. /\ (parsed = TRUE /\ share # "short") \/ (parsed = FALSE /\ share # "intact")
      /\ kxServer' = kxServer /\ kxServer.phase = "answered"
    BY DEF Parses, Share, Complete
<1>4. PICK p \in {"completed", "failed"} :
        /\ kxClient' = [phase |-> p, version |-> version, groups |-> KxGroups(q),
                        share |-> share, secret |-> KxSecret(kxServer.group, "client", share)]
        /\ p = "completed" => share # "short"
        /\ p = "failed" => share # "intact"
    BY <1>1, <1>2, <1>3
<1>5. kxServer.group \in Group
    BY <1>3 DEF KxTypeOK, Answers, Idle
<1>6. kxClient' \in Completions
    BY <1>4, <1>5 DEF Completions
<1>7. KxTypeOK'
    BY <1>3, <1>6 DEF KxTypeOK, Answers, Completions
<1>8. SharesWereParsed'
    BY <1>1, <1>3, <1>4 DEF SharesWereParsed, Idle
<1>9. SecretsAgree'
    BY <1>3 DEF SecretsAgree
<1> QED
    BY <1>7, <1>8, <1>9

\* The server concludes on the client's Finished.
LEMMA ServerConcludes ==
    ASSUME KxInv, Accept
    PROVE  KxInv'
<1> USE DEF KxInv
<1>1. PICK provider \in Provider, g \in Group, s \in Share :
        kxServer = [phase |-> "answered", provider |-> provider, group |-> g, share |-> s,
                    secret |-> KxSecret(g, "server", s)]
    BY DEF Accept, KxTypeOK, Answers, Idle
<1>2. PICK p \in {"completed", "failed"}, version \in Version, q \in Provider, c \in Share, h \in Group :
        kxClient = [phase |-> p, version |-> version, groups |-> KxGroups(q), share |-> c,
                    secret |-> KxSecret(h, "client", c)]
    BY DEF Accept, KxTypeOK, Completions, Idle
<1> DEFINE good == p = "completed" /\ kxClient.secret = kxServer.secret
<1>3. /\ kxServer' = [phase |-> IF good THEN "accepted" ELSE "failed", provider |-> provider,
                      group |-> g, share |-> s, secret |-> KxSecret(g, "server", s)]
      /\ kxClient' = kxClient
    BY <1>1, <1>2 DEF Accept
<1>4. /\ g = SelectGroup(version, KxGroups(provider), KxGroups(q))
      /\ s # "short"
      /\ p = "completed" => c # "short" /\ kxClient.secret = KxSecret(g, "client", c)
      /\ p = "failed" => c # "intact"
    BY <1>1, <1>2 DEF SharesWereParsed
<1>5. good <=> s = "intact" /\ c = "intact"
  <2>1. CASE p = "failed"
    BY <1>4, <2>1
  <2>2. CASE p = "completed"
    <3>1. s \in {"intact", "altered"} /\ c \in {"intact", "altered"}
      BY <1>4, <2>2 DEF Share
    <3>2. KxSecret(g, "client", c) = KxSecret(g, "server", s) <=> s = "intact" /\ c = "intact"
      BY <3>1, SameSecretIffIntact
    <3>3. kxServer.secret = KxSecret(g, "server", s)
      BY <1>1
    <3> QED
      BY <1>4, <2>2, <3>2, <3>3
  <2> QED
    BY <2>1, <2>2
<1>6. g = Hybrid <=> provider = "pq" /\ KxGroups(q) = KxGroups("pq") /\ version = "TLSv1_3"
  <2>1. KxGroups(q) = KxGroups("pq") <=> q = "pq"
    BY ProvidersDiffer DEF Provider
  <2>2. g = IF provider = "pq" /\ q = "pq" /\ version = "TLSv1_3" THEN Hybrid ELSE "X25519"
    BY <1>4, HybridIffBoth
  <2> QED
    BY <2>1, <2>2 DEF Hybrid
<1> HIDE DEF good
<1>7. PICK o \in {"accepted", "failed"} :
        /\ kxServer' = [phase |-> o, provider |-> provider, group |-> g, share |-> s,
                        secret |-> KxSecret(g, "server", s)]
        /\ o = "failed" <=> s # "intact" \/ c # "intact"
    BY <1>3, <1>5
<1>8. KxTypeOK'
  <2>1. kxServer' \in Answers
    BY <1>7 DEF Answers
  <2> QED
    BY <1>3, <2>1 DEF KxTypeOK, Answers, Completions
<1>9. SharesWereParsed'
    BY <1>1, <1>2, <1>3, <1>4, <1>7 DEF SharesWereParsed, Idle
<1>10. SecretsAgree'
    BY <1>2, <1>3, <1>6, <1>7 DEF SecretsAgree
<1> QED
    BY <1>8, <1>9, <1>10

\* A timeout leaves the client as it is and claims nothing about the secret.
LEMMA ServerTimesOut ==
    ASSUME KxInv, AcceptTimesOut
    PROVE  KxInv'
<1> USE DEF KxInv
<1>1. kxServer' \in {[phase |-> "timedOut"]} \cup Answers /\ kxServer'.phase = "timedOut"
  <2>1. CASE kxServer = Idle
    BY <2>1 DEF AcceptTimesOut, Idle
  <2>2. CASE kxServer \in Answers
    <3>1. PICK v \in Provider, g \in Group, s \in Share :
            kxServer = [phase |-> "answered", provider |-> v, group |-> g, share |-> s,
                        secret |-> KxSecret(g, "server", s)]
      BY <2>2 DEF AcceptTimesOut, Answers
    <3>2. kxServer' = [phase |-> "timedOut", provider |-> v, group |-> g, share |-> s,
                       secret |-> KxSecret(g, "server", s)]
      BY <3>1 DEF AcceptTimesOut
    <3> QED
      BY <3>2 DEF Answers
  <2> QED
    BY <2>1, <2>2 DEF AcceptTimesOut, KxTypeOK
<1>2. KxTypeOK'
    BY <1>1 DEF KxTypeOK, AcceptTimesOut, Answers, Completions
<1> QED
    BY <1>1, <1>2 DEF SharesWereParsed, SecretsAgree

(***************************************************************************)
(* For every pair of providers, version and damage on the way, the server  *)
(* accepts if and only if both shares arrived intact, and the hybrid group *)
(* is used if and only if both ends have it and TLS 1.3 is spoken.         *)
(***************************************************************************)
THEOREM KeyExchangeAgrees == KxSpec => []SecretsAgree
<1>1. KxInv /\ [KxNext]_kxVars => KxInv'
  <2> SUFFICES ASSUME KxInv, [KxNext]_kxVars
               PROVE  KxInv'
    OBVIOUS
  <2>1. ASSUME NEW version \in Version, NEW provider \in Provider, Start(version, provider)
        PROVE  KxInv'
    <3>1. kxServer.phase \in {"idle", "timedOut"} /\ kxServer' = kxServer
      BY <2>1 DEF Start, KxInv, KxTypeOK, SharesWereParsed, Answers, Idle
    <3>2. KxTypeOK'
      BY <2>1 DEF Start, KxInv, KxTypeOK, Answers, Completions
    <3> QED
      BY <3>1, <3>2 DEF KxInv, SharesWereParsed, SecretsAgree
  <2>2. CASE UNCHANGED kxVars
    BY <2>2 DEF kxVars, KxInv, KxTypeOK, SharesWereParsed, SecretsAgree, Answers, Completions
  <2> QED
    BY <2>1, <2>2, ServerAnswers, ClientCompletes, ServerConcludes, ServerTimesOut DEF KxNext
<1> QED
    BY <1>1, KxInitInv, PTL DEF KxSpec, KxInv

-----------------------------------------------------------------------------
(***************************************************************************)
(* QUIC headers.  Exclusive or with the same bits twice changes nothing.   *)
(***************************************************************************)
LEMMA XorTwice ==
    ASSUME NEW a, NEW b
    PROVE  Xor(Xor(a, b), b) = a
  BY DEF Xor

\* A packet number has between one and four bytes.
LEMMA PnLenRange == ASSUME NEW f PROVE PnLen(f) \in 1..4
<1>1. ASSUME NEW x
      PROVE  Cardinality(f \cap {x}) \in {0, 1}
  <2>1. CASE x \in f
    <3>1. f \cap {x} = {x}
      BY <2>1
    <3> QED
      BY <3>1, FS_Singleton
  <2>2. CASE x \notin f
    <3>1. f \cap {x} = {}
      BY <2>2
    <3> QED
      BY <3>1, FS_EmptySet
  <2> QED
    BY <2>1, <2>2
<1>2. Cardinality(f \cap {0}) \in {0, 1} /\ Cardinality(f \cap {1}) \in {0, 1}
    BY <1>1
<1> QED
    BY <1>2 DEF PnLen

(***************************************************************************)
(* The bit that tells the form of the header is not masked, so that the    *)
(* receiver masks the same bits of the first byte as the sender, and gets  *)
(* it back.                                                                *)
(***************************************************************************)
LEMMA FirstByteComesBack ==
    ASSUME NEW f, NEW m
    PROVE  LET g == Xor(f, m \cap MaskedBits(f))
           IN  /\ MaskedBits(g) = MaskedBits(f)
               /\ Xor(g, m \cap MaskedBits(g)) = f
               /\ g \ MaskedBits(f) = f \ MaskedBits(f)
<1> DEFINE g == Xor(f, m \cap MaskedBits(f))
<1>1. 7 \notin MaskedBits(f)
    BY DEF MaskedBits
<1>2. 7 \in g <=> 7 \in f
    BY <1>1 DEF Xor
<1>3. MaskedBits(g) = MaskedBits(f)
    BY <1>2 DEF MaskedBits
<1>4. Xor(g, m \cap MaskedBits(g)) = f
    BY <1>3, XorTwice
<1>5. g \ MaskedBits(f) = f \ MaskedBits(f)
    BY DEF Xor
<1> QED
    BY <1>3, <1>4, <1>5

\* New bytes in front of what is left of four.
LEMMA FrontAndBack ==
    ASSUME NEW S, NEW pn \in Seq(S), Len(pn) = 4, NEW n \in 1..4, NEW front \in Seq(S), Len(front) = n
    PROVE  front \o SubSeq(pn, n + 1, 4) = [i \in 1..4 |-> IF i <= n THEN front[i] ELSE pn[i]]
<1>1. PICK back : back = SubSeq(pn, n + 1, 4)
    OBVIOUS
<1>2. \A i \in (n + 1)..4 : pn[i] \in S
    BY ElementOfSeq
<1>3. /\ back \in Seq(S) /\ Len(back) = IF n + 1 <= 4 THEN 4 - (n + 1) + 1 ELSE 0
      /\ \A i \in 1..(4 - (n + 1) + 1) : back[i] = pn[n + 1 + i - 1]
    BY <1>1, <1>2, SubSeqProperties
<1>4. Len(back) = 4 - n /\ \A i \in 1..(4 - n) : back[i] = pn[n + i]
    BY <1>3
<1>5. PICK whole : whole = front \o back
    OBVIOUS
<1>6. /\ whole \in Seq(S) /\ Len(whole) = Len(front) + Len(back)
      /\ \A i \in 1..(Len(front) + Len(back)) :
            whole[i] = IF i <= Len(front) THEN front[i] ELSE back[i - Len(front)]
    BY <1>3, <1>5, ConcatProperties
<1>7. Len(whole) = 4 /\ \A i \in 1..4 : whole[i] = IF i <= n THEN front[i] ELSE back[i - n]
    BY <1>4, <1>6
<1>8. ASSUME NEW i \in 1..4
      PROVE  whole[i] = IF i <= n THEN front[i] ELSE pn[i]
  <2>1. i > n => i - n \in 1..(4 - n) /\ n + (i - n) = i
    OBVIOUS
  <2>2. i > n => back[i - n] = pn[i]
    BY <1>4, <2>1
  <2> QED
    BY <1>7, <2>2
<1>9. whole = [i \in 1..4 |-> whole[i]]
    BY <1>6, <1>7, LenProperties
<1> QED
    BY <1>1, <1>5, <1>8, <1>9, Zenon

(***************************************************************************)
(* The sender masks the packet number only, and puts the bytes behind it   *)
(* back: the four bytes are those of Masked.                               *)
(***************************************************************************)
LEMMA SenderMasks ==
    ASSUME QuicInv, NEW n, n = PnLen(header.first)
    PROVE  LET h == XorInPlace(mask, [header EXCEPT !.pn = SubSeq(header.pn, 1, n)], FALSE)
           IN  [h EXCEPT !.pn = h.pn \o SubSeq(header.pn, n + 1, 4)] = Masked(header)
<1> USE QuicPacketsAssumption
<1>1. /\ header.pn \in Seq(SUBSET Bits) /\ Len(header.pn) = 4
      /\ mask.pn \in Seq(SUBSET Bits) /\ Len(mask.pn) = 4
      /\ n \in 1..4
    BY PnLenRange DEF QuicInv
<1>2. PICK short : short = [header EXCEPT !.pn = SubSeq(header.pn, 1, n)]
    OBVIOUS
<1>3. PICK pn : pn = SubSeq(header.pn, 1, n)
    OBVIOUS
<1>4. short.first = header.first /\ short.pn = pn
    BY <1>2, <1>3 DEF QuicInv
<1>5. Len(pn) = n /\ \A i \in 1..n : pn[i] = header.pn[i]
  <2>1. \A i \in 1..n : header.pn[i] \in SUBSET Bits
    BY <1>1, ElementOfSeq
  <2>2. Len(pn) = (IF 1 <= n THEN n - 1 + 1 ELSE 0) /\ \A i \in 1..(n - 1 + 1) : pn[i] = header.pn[1 + i - 1]
    BY <1>1, <1>3, <2>1, SubSeqProperties
  <2> QED
    BY <1>1, <2>2
<1>6. PICK front : front = [i \in 1..n |-> Xor(header.pn[i], mask.pn[i])]
    OBVIOUS
<1>7. PICK h : h = XorInPlace(mask, short, FALSE)
    OBVIOUS
<1>8. h = [first |-> Xor(header.first, mask.first \cap MaskedBits(header.first)), pn |-> front]
  <2>1. h = [first |-> Xor(header.first, mask.first \cap MaskedBits(header.first)),
             pn |-> [i \in 1..n |-> IF i <= n THEN Xor(pn[i], mask.pn[i]) ELSE pn[i]]]
    BY <1>4, <1>5, <1>7 DEF XorInPlace
  <2>2. \A i \in 1..n : (IF i <= n THEN Xor(pn[i], mask.pn[i]) ELSE pn[i]) = Xor(header.pn[i], mask.pn[i])
    BY <1>1, <1>5
  <2> QED
    BY <1>6, <2>1, <2>2, Zenon
<1>9. front \in Seq(SUBSET Bits) /\ Len(front) = n
  <2>1. \A i \in 1..n : Xor(header.pn[i], mask.pn[i]) \in SUBSET Bits
    BY <1>1 DEF Xor
  <2> QED
    BY <1>1, <1>6, <2>1
<1>10. front \o SubSeq(header.pn, n + 1, 4) = Masked(header).pn
  <2>1. front \o SubSeq(header.pn, n + 1, 4) =
          [i \in 1..4 |-> IF i <= n THEN front[i] ELSE header.pn[i]]
    <3>1. PICK T : T = SUBSET Bits
      OBVIOUS
    <3>2. header.pn \in Seq(T) /\ front \in Seq(T)
      BY <1>1, <1>9, <3>1
    <3> QED
      BY ONLY <1>1, <1>9, <3>2, FrontAndBack
  <2>2. Masked(header).pn =
          [i \in 1..4 |-> IF i <= n THEN Xor(header.pn[i], mask.pn[i]) ELSE header.pn[i]]
    BY DEF Masked
  <2>3. \A i \in 1..4 : (IF i <= n THEN front[i] ELSE header.pn[i])
                         = (IF i <= n THEN Xor(header.pn[i], mask.pn[i]) ELSE header.pn[i])
    BY <1>1, <1>6
  <2> QED
    BY <2>1, <2>2, <2>3, Zenon
<1>11. PICK pn4 : pn4 = front \o SubSeq(header.pn, n + 1, 4)
    OBVIOUS
<1>12. [h EXCEPT !.pn = pn4] =
         [first |-> Xor(header.first, mask.first \cap MaskedBits(header.first)), pn |-> pn4]
  <2>1. PICK f : f = Xor(header.first, mask.first \cap MaskedBits(header.first))
    OBVIOUS
  <2>2. h = [first |-> f, pn |-> front]
    BY <1>8, <2>1
  <2>3. [h EXCEPT !.pn = pn4] = [first |-> f, pn |-> pn4]
    BY ONLY <2>2
  <2> QED
    BY <2>1, <2>3
<1>13. [h EXCEPT !.pn = pn4] = Masked(header)
    BY <1>10, <1>11, <1>12 DEF Masked
<1>14. h.pn \o SubSeq(header.pn, n + 1, 4) = pn4
    BY <1>8, <1>11
<1> QED
    BY <1>2, <1>7, <1>13, <1>14, Zenon

(***************************************************************************)
(* The receiver passes four bytes, learns the length of the packet number  *)
(* from the first byte that it has unmasked, and restores the header.      *)
(***************************************************************************)
LEMMA ReceiverRestores ==
    ASSUME QuicInv
    PROVE  XorInPlace(mask, Masked(header), TRUE) = header
<1> USE QuicPacketsAssumption
<1> DEFINE p == Masked(header)
           r == XorInPlace(mask, p, TRUE)
           n == PnLen(header.first)
<1>1. header.pn \in Seq(SUBSET Bits) /\ Len(header.pn) = 4 /\ n \in 1..4
    BY PnLenRange DEF QuicInv
<1>2. /\ p.first = Xor(header.first, mask.first \cap MaskedBits(header.first))
      /\ p.pn = [i \in 1..4 |-> IF i <= n THEN Xor(header.pn[i], mask.pn[i]) ELSE header.pn[i]]
    BY DEF Masked
<1>3. Xor(p.first, mask.first \cap MaskedBits(p.first)) = header.first
    BY <1>2, FirstByteComesBack
<1>4. Len(p.pn) = 4
    BY <1>2
<1> HIDE DEF p
<1>5. r = [first |-> header.first,
           pn |-> [i \in 1..4 |-> IF i <= n THEN Xor(p.pn[i], mask.pn[i]) ELSE p.pn[i]]]
    BY <1>3, <1>4 DEF XorInPlace
<1>6. ASSUME NEW i \in 1..4
      PROVE  (IF i <= n THEN Xor(p.pn[i], mask.pn[i]) ELSE p.pn[i]) = header.pn[i]
    BY <1>2, XorTwice
<1>7. header.pn = [i \in 1..4 |-> header.pn[i]]
    BY <1>1
<1>8. r = [first |-> header.first, pn |-> header.pn]
    BY <1>5, <1>6, <1>7, Zenon
<1>9. header = [first |-> header.first, pn |-> header.pn]
    BY DEF QuicInv
<1> QED
    BY <1>8, <1>9 DEF p

(***************************************************************************)
(* Protection is undone for every first byte, every mask and every length  *)
(* of the packet number, and never hides the form of the header.           *)
(***************************************************************************)
THEOREM HeadersSurvive == QuicSpec => []HeadersSurviveProtection
<1>1. QuicInit => QuicInv
    BY DEF QuicInit, QuicInv
<1>2. QuicInv /\ [QuicNext]_quicVars => QuicInv'
  <2> SUFFICES ASSUME QuicInv, [QuicNext]_quicVars
               PROVE  QuicInv'
    OBVIOUS
  <2>1. CASE EncryptPacket
    BY <2>1 DEF EncryptPacket, QuicInv, Masked
  <2>2. ASSUME NEW sampleLen, ProtectHeader(sampleLen)
        PROVE  QuicInv'
    <3>1. packet = header /\ UNCHANGED <<hpKey, header, mask>>
      BY <2>2 DEF ProtectHeader, QuicInv
    <3>2. CASE stage' = "error" /\ UNCHANGED packet
      BY <3>1, <3>2 DEF QuicInv, Masked
    <3>3. CASE ~(stage' = "error" /\ UNCHANGED packet)
      <4>1. PICK n : n = PnLen(header.first)
        OBVIOUS
      <4>2. PICK m \in DeriveMask(sampleLen) :
              LET h == XorInPlace(m, [header EXCEPT !.pn = SubSeq(header.pn, 1, n)], FALSE)
              IN  packet' = [h EXCEPT !.pn = h.pn \o SubSeq(header.pn, n + 1, 4)] /\ stage' = "protected"
        BY <2>2, <3>1, <3>3, <4>1 DEF ProtectHeader
      <4>3. m = mask
        BY DEF DeriveMask
      <4>4. packet' = Masked(header) /\ stage' = "protected"
        BY <4>1, <4>2, <4>3, SenderMasks
      <4> QED
        BY <3>1, <4>4 DEF QuicInv, Masked
    <3> QED
      BY <3>2, <3>3
  <2>3. CASE UnprotectHeader
    <3>1. packet = Masked(header) /\ stage' = "unprotected" /\ UNCHANGED <<hpKey, header, mask>>
      BY <2>3 DEF UnprotectHeader, QuicInv
    <3>2. packet' = XorInPlace(mask, packet, TRUE)
      BY <2>3 DEF UnprotectHeader, DeriveMask
    <3>3. packet' = header
      BY <3>1, <3>2, ReceiverRestores
    <3> QED
      BY <3>1, <3>3 DEF QuicInv
  <2>4. CASE DecryptPacket
    BY <2>4 DEF DecryptPacket, QuicInv, Masked
  <2>5. CASE UNCHANGED quicVars
    BY <2>5 DEF quicVars, QuicInv, Masked
  <2> QED
    BY <2>1, <2>2, <2>3, <2>4, <2>5 DEF QuicNext
<1>3. QuicInv => HeadersSurviveProtection
  <2> SUFFICES ASSUME QuicInv, stage = "protected"
               PROVE  packet.first \ MaskedBits(header.first) = header.first \ MaskedBits(header.first)
    BY DEF QuicInv, HeadersSurviveProtection, MaskedBits
  <2>1. packet.first = Xor(header.first, mask.first \cap MaskedBits(header.first))
    BY DEF QuicInv, Masked
  <2> QED
    BY <2>1, FirstByteComesBack
<1> QED
    BY <1>1, <1>2, <1>3, PTL DEF QuicSpec
=============================================================================
