---------------------------- MODULE RecordProofs ----------------------------
(***************************************************************************)
(* Proofs about TLS records (TlsRecords.tla), for all cipher suites, any   *)
(* number of messages of any length, and every way to cut them off.        *)
(* Buffers are lists of bytes; a sealed buffer is opened exactly when the  *)
(* nonce, the additional data and all its bytes are those it was sealed    *)
(* with, so that what matters is where encryption puts which byte.         *)
(***************************************************************************)
EXTENDS TlsRecords, SequenceTheorems, TLAPS

\* f is a list of n entries.
Listed(f, n) == n \in Nat /\ f = [i \in 1..n |-> f[i]]

\* A list is a sequence, over any set that has its entries.
LEMMA ListedIsSeq ==
    ASSUME NEW f, NEW n \in Nat, Listed(f, n)
    PROVE  Len(f) = n /\ \A S : (\A i \in 1..n : f[i] \in S) => f \in Seq(S)
<1>1. \A S : (\A i \in 1..n : f[i] \in S) => f \in Seq(S)
  <2> SUFFICES ASSUME NEW S, \A i \in 1..n : f[i] \in S PROVE f \in Seq(S)
    OBVIOUS
  <2>1. f \in [1..n -> S]
    BY Zenon DEF Listed
  <2> QED
    BY <2>1, IsASeq, SeqDef DEF Listed
<1>2. f \in Seq({f[i] : i \in 1..n})
  BY <1>1
<1>3. DOMAIN f = 1..n
  BY Zenon DEF Listed
<1>4. Len(f) = n
  BY <1>2, <1>3, LenProperties DEF Listed
<1> QED
  BY <1>1, <1>4

\* h is the list f with the list g after it.
Joined(h, f, m, g, n) ==
    /\ Listed(h, m + n)
    /\ \A i \in 1..m : h[i] = f[i]
    /\ \A i \in m + 1..m + n : h[i] = g[i - m]

\* Concatenation joins lists.
LEMMA ConcatListed ==
    ASSUME NEW f, NEW m \in Nat, Listed(f, m), NEW g, NEW n \in Nat, Listed(g, n),
           NEW h, h = f \o g
    PROVE  Joined(h, f, m, g, n)
<1> DEFINE S == {f[i] : i \in 1..m} \cup {g[i] : i \in 1..n}
<1>1. f \in Seq(S) /\ g \in Seq(S) /\ Len(f) = m /\ Len(g) = n
  BY ListedIsSeq
<1> HIDE DEF S
<1>2. /\ h \in Seq(S) /\ Len(h) = m + n
      /\ \A i \in 1..m + n : h[i] = IF i <= m THEN f[i] ELSE g[i - m]
  BY <1>1, ConcatProperties
<1>3. h \in [1..m + n -> S]
  BY <1>2, LenProperties
<1>4. m + n \in Nat
  OBVIOUS
<1>5. Listed(h, m + n)
  BY <1>3, <1>4, Zenon DEF Listed
<1>6. \A i \in 1..m : h[i] = f[i]
  BY <1>2
<1>7. \A i \in m + 1..m + n : h[i] = g[i - m]
  BY <1>2
<1> QED
  BY <1>5, <1>6, <1>7 DEF Joined

\* A part of a list is a list.
LEMMA SubListed ==
    ASSUME NEW f, NEW n \in Nat, Listed(f, n), NEW a \in Nat \ {0}, NEW b \in Nat, b <= n, a <= b + 1
    PROVE  /\ Listed(SubSeq(f, a, b), b - a + 1)
           /\ \A i \in 1..(b - a + 1) : SubSeq(f, a, b)[i] = f[a + i - 1]
<1> DEFINE S == {f[i] : i \in 1..n}
<1>1. \A i \in a..b : f[i] \in S
  BY DEF Listed
<1> HIDE DEF S
<1>2. /\ SubSeq(f, a, b) \in Seq(S)
      /\ Len(SubSeq(f, a, b)) = b - a + 1
      /\ \A i \in 1..(b - a + 1) : SubSeq(f, a, b)[i] = f[a + i - 1]
  BY <1>1, SubSeqProperties
<1>3. SubSeq(f, a, b) \in [1..(b - a + 1) -> S]
  BY <1>2, LenProperties
<1>4. b - a + 1 \in Nat
  OBVIOUS
<1>5. Listed(SubSeq(f, a, b), b - a + 1)
  BY <1>3, <1>4, Zenon DEF Listed
<1> QED
  BY <1>2, <1>5

\* h is the list f with e behind it.
Extended(h, f, n, e) ==
    /\ Listed(h, n + 1)
    /\ \A i \in 1..n : h[i] = f[i]
    /\ h[n + 1] = e

\* Append adds one entry.
LEMMA AppendListed ==
    ASSUME NEW f, NEW n \in Nat, Listed(f, n), NEW e
    PROVE  Extended(Append(f, e), f, n, e)
<1> DEFINE S == {f[i] : i \in 1..n} \cup {e}
<1>1. f \in Seq(S) /\ Len(f) = n /\ e \in S
  BY ListedIsSeq
<1> HIDE DEF S
<1>2. /\ Append(f, e) \in Seq(S) /\ Len(Append(f, e)) = n + 1
      /\ \A i \in 1..n : Append(f, e)[i] = f[i]
      /\ Append(f, e)[n + 1] = e
  BY <1>1, AppendProperties
<1>3. Append(f, e) \in [1..n + 1 -> S]
  BY <1>2, LenProperties
<1>4. n + 1 \in Nat
  OBVIOUS
<1>5. Listed(Append(f, e), n + 1)
  BY <1>3, <1>4, Zenon DEF Listed
<1> QED
  BY <1>2, <1>5 DEF Extended

\* Lists with equal entries are equal.
LEMMA SameLists ==
    ASSUME NEW f, NEW g, NEW n \in Nat, Listed(f, n), Listed(g, n), \A i \in 1..n : f[i] = g[i]
    PROVE  f = g
  BY Zenon DEF Listed

-----------------------------------------------------------------------------
(* TLS records.                                                            *)

\* What is in a sealed buffer: a byte for each of the plaintext, then the tag.
LEMMA SealedBytes ==
    ASSUME NEW n, NEW aad, NEW p, NEW len \in Nat, Listed(p, len)
    PROVE  /\ Listed(Sealed(n, aad, p), len + TagLen)
           /\ \A i \in 1..len : Sealed(n, aad, p)[i] = <<"byte", n, i, p[i]>>
           /\ \A i \in len + 1..len + TagLen : Sealed(n, aad, p)[i] = <<"tag", n, aad, p, i - len>>
<1>1. Len(p) = len /\ len \in Nat /\ TagLen \in Nat
  BY ListedIsSeq, TlsRecordsAssumption DEF Listed
<1>2. /\ Listed(CipherBytes(n, p), len)
      /\ \A i \in 1..len : CipherBytes(n, p)[i] = <<"byte", n, i, p[i]>>
  BY <1>1, Zenon DEF CipherBytes, Listed
<1>3. /\ Listed(Tag(n, aad, p), TagLen)
      /\ \A i \in 1..TagLen : Tag(n, aad, p)[i] = <<"tag", n, aad, p, i>>
  BY <1>1, Zenon DEF Tag, Listed
<1>4. /\ Listed(Sealed(n, aad, p), len + TagLen)
      /\ \A i \in 1..len : Sealed(n, aad, p)[i] = CipherBytes(n, p)[i]
      /\ \A i \in len + 1..len + TagLen : Sealed(n, aad, p)[i] = Tag(n, aad, p)[i - len]
  <2> DEFINE c == CipherBytes(n, p)
             t == Tag(n, aad, p)
             h == Sealed(n, aad, p)
  <2>1. h = c \o t
    BY DEF Sealed
  <2>2. Listed(c, len) /\ Listed(t, TagLen)
    BY <1>2, <1>3
  <2> HIDE DEF c, t, h
  <2>3. Joined(h, c, len, t, TagLen)
    BY <1>1, <2>1, <2>2, ConcatListed
  <2> QED
    BY <2>3 DEF Joined, c, t, h
<1>5. \A i \in len + 1..len + TagLen : i - len \in 1..TagLen
  BY <1>1
<1> QED
  BY <1>2, <1>3, <1>4, <1>5

(***************************************************************************)
(* The beginning of a sealed buffer opens only if it is all of it, under   *)
(* the nonce and the associated data it was sealed with, to what was       *)
(* sealed.                                                                 *)
(***************************************************************************)
LEMMA OpenedSealed ==
    ASSUME NEW n, NEW aad, NEW p, NEW len \in Nat, Listed(p, len),
           NEW m, NEW add, NEW cut \in 0..(len + TagLen)
    PROVE  Opened(m, add, SubSeq(Sealed(n, aad, p), 1, cut)) =
             IF cut = len + TagLen /\ m = n /\ add = aad THEN {p} ELSE {}
<1> DEFINE full == Sealed(n, aad, p)
           buf == SubSeq(full, 1, cut)
           rest == Len(buf) - TagLen
           q == [i \in 1..rest |-> buf[i][4]]
<1> SUFFICES Opened(m, add, buf) = IF cut = len + TagLen /\ m = n /\ add = aad THEN {p} ELSE {}
  OBVIOUS
<1>1. len \in Nat /\ TagLen \in Nat \ {0} /\ cut \in Nat /\ cut <= len + TagLen
  BY TlsRecordsAssumption DEF Listed
<1>2. /\ Listed(full, len + TagLen)
      /\ \A i \in 1..len : full[i] = <<"byte", n, i, p[i]>>
      /\ \A i \in len + 1..len + TagLen : full[i] = <<"tag", n, aad, p, i - len>>
  BY SealedBytes
<1> HIDE DEF full
<1>3. /\ Listed(buf, cut) /\ Len(buf) = cut
      /\ \A i \in 1..cut : buf[i] = full[i]
  <2>1. /\ Listed(buf, cut - 1 + 1)
        /\ \A i \in 1..(cut - 1 + 1) : buf[i] = full[1 + i - 1]
    BY <1>1, <1>2, SubListed
  <2> QED
    BY <1>1, <2>1, ListedIsSeq
<1> HIDE DEF buf
<1>4. Opened(m, add, buf) =
        IF rest >= 0 /\ (\A i \in 1..rest : buf[i][1] = "byte") /\ buf = Sealed(m, add, q) THEN {q} ELSE {}
  BY DEF Opened
<1>5. rest \in Int /\ rest = cut - TagLen
  BY <1>1, <1>3
<1>6. CASE cut = len + TagLen
  <2>1. rest = len
    BY <1>1, <1>5, <1>6
  <2>2. buf = full
    BY <1>2, <1>3, <1>6, SameLists
  <2>3. \A i \in 1..len : buf[i] = <<"byte", n, i, p[i]>> /\ i \in 1..(len + TagLen)
    BY <1>1, <1>2, <1>3, <1>6
  <2>4. \A i \in 1..len : buf[i][4] = p[i] /\ buf[i][1] = "byte"
    BY <2>3
  <2>5. q = p
    BY <2>1, <2>4, Zenon DEF Listed
  <2>6. CASE m = n /\ add = aad
    <3>1. buf = Sealed(m, add, q)
      BY <2>2, <2>5, <2>6 DEF full
    <3> QED
      BY <1>1, <1>4, <1>6, <2>1, <2>4, <2>5, <2>6, <3>1
  <2>7. CASE ~(m = n /\ add = aad)
    <3>1. buf # Sealed(m, add, q)
      <4> SUFFICES ASSUME full = Sealed(m, add, p) PROVE FALSE
        BY <2>2, <2>5
      <4>1. Sealed(m, add, p)[len + 1] = <<"tag", m, add, p, 1>>
        <5>1. \A i \in len + 1..len + TagLen : Sealed(m, add, p)[i] = <<"tag", m, add, p, i - len>>
          BY SealedBytes
        <5> QED
          BY <1>1, <5>1
      <4>2. full[len + 1] = <<"tag", n, aad, p, 1>>
        BY <1>1, <1>2
      <4> QED
        BY <2>7, <4>1, <4>2
    <3> QED
      BY <1>4, <2>7, <3>1
  <2> QED
    BY <2>6, <2>7
<1>7. CASE cut # len + TagLen
  <2> SUFFICES ASSUME rest >= 0, buf = Sealed(m, add, q) PROVE FALSE
    BY <1>4, <1>7
  <2>1. rest \in Nat /\ Listed(q, rest)
    <3>1. rest \in Nat
      BY <1>5
    <3> QED
      BY <3>1, Zenon DEF Listed
  <2>2. rest + TagLen = cut /\ cut \in rest + 1..rest + TagLen /\ cut \in 1..cut
    BY <1>1, <1>5
  <2>3. buf[cut] = <<"tag", m, add, q, cut - rest>>
    BY <2>1, <2>2, SealedBytes
  <2>4. buf[cut] = full[cut]
    BY <1>3, <2>2
  <2>5. CASE cut <= len
    <3>1. buf[cut] = <<"byte", n, cut, p[cut]>>
      BY <1>1, <1>2, <2>2, <2>4, <2>5
    <3> QED
      BY <2>3, <3>1
  <2>6. CASE cut > len
    <3>1. buf[cut] = <<"tag", n, aad, p, cut - len>>
      BY <1>1, <1>2, <2>2, <2>4, <2>6
    <3>2. cut - len = cut - rest
      BY <2>3, <3>1
    <3> QED
      BY <1>1, <1>5, <1>7, <3>2
  <2> QED
    BY <1>1, <2>5, <2>6
<1> QED
  BY <1>6, <1>7

\* A message is its type and its bytes.
LEMMA MessageBytes ==
    ASSUME NEW m \in Message
    PROVE  /\ m = [typ |-> m.typ, data |-> m.data]
           /\ m.typ \in Nat \ {0} /\ m.data \in Seq(Nat)
           /\ Len(m.data) \in Nat /\ Listed(m.data, Len(m.data))
<1>1. m \in [typ : Nat \ {0}, data : Seq(Nat)]
  BY TlsRecordsAssumption
<1>2. m.data \in Seq(Nat) /\ m.typ \in Nat \ {0} /\ m = [typ |-> m.typ, data |-> m.data]
  BY <1>1
<1>3. Len(m.data) \in Nat /\ m.data \in [1..Len(m.data) -> Nat]
  BY <1>2, LenProperties
<1>4. Listed(m.data, Len(m.data))
  BY <1>3, Zenon DEF Listed
<1> QED
  BY <1>2, <1>3, <1>4

\* The type is found behind the padding, also if the message ends in zeros.
LEMMA UnpaddedMessage ==
    ASSUME NEW m \in Message
    PROVE  Unpadded(Append(m.data, m.typ)) = m
<1> DEFINE p == Append(m.data, m.typ)
           k == CHOOSE j \in 1..Len(p) : p[j] # 0 /\ \A i \in j + 1..Len(p) : p[i] = 0
           len == Len(m.data)
<1>1. /\ m.data \in Seq(Nat) /\ m.typ \in Nat \ {0} /\ len \in Nat
      /\ m = [typ |-> m.typ, data |-> m.data]
  BY MessageBytes
<1>2. Len(p) = len + 1 /\ p[len + 1] = m.typ /\ \A i \in 1..len : p[i] = m.data[i]
  BY <1>1, AppendProperties
<1> HIDE DEF p
<1>3. len + 1 \in 1..Len(p) /\ p[len + 1] # 0 /\ \A i \in len + 1 + 1..Len(p) : p[i] = 0
  BY <1>1, <1>2
<1>4. k \in 1..Len(p) /\ p[k] # 0 /\ \A i \in k + 1..Len(p) : p[i] = 0
  BY <1>3
<1> HIDE DEF k
<1>5. k = len + 1
  BY <1>1, <1>2, <1>4
<1>6. SubSeq(p, 1, k - 1) = m.data
  <2>1. SubSeq(p, 1, len) \in Seq(Nat) /\ Len(SubSeq(p, 1, len)) = len
        /\ \A i \in 1..len : SubSeq(p, 1, len)[i] = m.data[i]
    BY <1>1, <1>2
  <2>2. SubSeq(p, 1, len) = m.data
    BY <1>1, <2>1, SeqEqual
  <2> QED
    BY <1>1, <1>5, <2>2
<1>7. Unpadded(p) = [typ |-> p[k], data |-> SubSeq(p, 1, k - 1)]
  BY DEF Unpadded, k
<1> QED
  BY <1>1, <1>2, <1>5, <1>6, <1>7 DEF p

\* TLS 1.3: the associated data are the length of the record itself.
LEMMA DecryptOfTls13 ==
    ASSUME NEW s \in CipherSuite, s.version = "TLSv1_3", NEW m \in Message, NEW k, NEW n,
           NEW cut \in 0..EncryptedPayloadLen(s, Len(m.data))
    PROVE  /\ Listed(Encrypt(s, m, k).payload, EncryptedPayloadLen(s, Len(m.data)))
           /\ Decrypt(s, Cut(Encrypt(s, m, k), cut), n) =
                IF cut = EncryptedPayloadLen(s, Len(m.data)) /\ n = k THEN {m} ELSE {}
<1> DEFINE p == Append(m.data, m.typ)
           len == Len(m.data)
           all == len + 1 + TagLen
           buf == Sealed(k, Tls13Aad(all), p)
<1>1. len \in Nat /\ TagLen \in Nat /\ EncryptedPayloadLen(s, len) = all /\ cut \in 0..all
  BY MessageBytes, TlsRecordsAssumption DEF EncryptedPayloadLen
<1>2. Listed(p, len + 1)
  <2>1. Extended(p, m.data, len, m.typ)
    BY MessageBytes, AppendListed
  <2> QED
    BY <2>1 DEF Extended
<1>3. Encrypt(s, m, k) = [typ |-> ApplicationData, payload |-> buf]
  BY <1>1 DEF Encrypt
<1>4. Listed(buf, all) /\ Len(buf) = all
  <2>1. len + 1 \in Nat /\ all \in Nat
    BY <1>1
  <2> HIDE DEF p
  <2>2. Listed(buf, len + 1 + TagLen)
    BY <1>2, <2>1, SealedBytes
  <2> HIDE DEF buf
  <2> QED
    BY <2>1, <2>2, ListedIsSeq
<1>5. Len(SubSeq(buf, 1, cut)) = cut
  BY <1>1, <1>4, SubListed, ListedIsSeq
<1> HIDE DEF p
<1>6. Opened(n, Tls13Aad(cut), SubSeq(buf, 1, cut)) =
        IF cut = all /\ n = k /\ Tls13Aad(cut) = Tls13Aad(all) THEN {p} ELSE {}
  <2> DEFINE aad == Tls13Aad(all)
             add == Tls13Aad(cut)
  <2> HIDE DEF aad, add
  <2>1. len + 1 \in Nat /\ cut \in 0..(len + 1 + TagLen)
    BY <1>1
  <2>2. Opened(n, add, SubSeq(Sealed(k, aad, p), 1, cut)) =
          IF cut = len + 1 + TagLen /\ n = k /\ add = aad THEN {p} ELSE {}
    BY <1>2, <2>1, OpenedSealed
  <2> QED
    BY <2>2 DEF aad, add
<1>7. Opened(n, Tls13Aad(cut), SubSeq(buf, 1, cut)) = IF cut = all /\ n = k THEN {p} ELSE {}
  BY <1>6
<1>8. Unpadded(p) = m
  BY UnpaddedMessage DEF p
<1> HIDE DEF buf
<1>9. Cut(Encrypt(s, m, k), cut) = [typ |-> ApplicationData, payload |-> SubSeq(buf, 1, cut)]
  BY <1>3 DEF Cut
<1>10. Decrypt(s, Cut(Encrypt(s, m, k), cut), n) =
         {Unpadded(q) : q \in Opened(n, Tls13Aad(cut), SubSeq(buf, 1, cut))}
  BY <1>5, <1>9 DEF Decrypt, DecryptTls13
<1>11. Listed(Encrypt(s, m, k).payload, all)
  BY <1>3, <1>4
<1>12. Decrypt(s, Cut(Encrypt(s, m, k), cut), n) = IF cut = all /\ n = k THEN {m} ELSE {}
  BY <1>7, <1>8, <1>10
<1> QED
  BY <1>1, <1>11, <1>12

\* TLS 1.2 with ChaCha20-Poly1305: the length of the tag is subtracted again.
LEMMA DecryptOfTls12Chacha ==
    ASSUME NEW s \in CipherSuite, s = [version |-> "TLSv1_2", aead |-> "chacha20"],
           NEW m \in Message, NEW k, NEW n,
           NEW cut \in 0..EncryptedPayloadLen(s, Len(m.data))
    PROVE  /\ Listed(Encrypt(s, m, k).payload, EncryptedPayloadLen(s, Len(m.data)))
           /\ Decrypt(s, Cut(Encrypt(s, m, k), cut), n) =
                IF cut = EncryptedPayloadLen(s, Len(m.data)) /\ n = k THEN {m} ELSE {}
<1> DEFINE p == m.data
           len == Len(m.data)
           aad == Tls12Aad(k, m.typ, len)
           add == Tls12Aad(n, m.typ, cut - TagLen)
           buf == Sealed(k, aad, p)
<1>0. s.version # "TLSv1_3" /\ s # [version |-> "TLSv1_2", aead |-> "gcm"]
  <2>1. s.version = "TLSv1_2" /\ s.aead = "chacha20"
    OBVIOUS
  <2> QED
    BY <2>1
<1>1. len \in Nat /\ TagLen \in Nat /\ EncryptedPayloadLen(s, len) = len + TagLen /\ cut \in 0..(len + TagLen)
  <2>1. len \in Nat /\ TagLen \in Nat
    BY MessageBytes, TlsRecordsAssumption
  <2>2. EncryptedPayloadLen(s, len) = ExplicitNonce(s) + len + TagLen /\ ExplicitNonce(s) = 0
    BY <1>0 DEF EncryptedPayloadLen, ExplicitNonce
  <2> QED
    BY <2>1, <2>2
<1>2. Listed(p, len) /\ m = [typ |-> m.typ, data |-> p]
  BY MessageBytes
<1>3. cut = len + TagLen /\ n = k => add = aad
  BY <1>1
<1> HIDE DEF p, aad, add
<1>4. Listed(buf, len + TagLen) /\ Len(buf) = len + TagLen
  <2>1. Listed(buf, len + TagLen)
    BY <1>1, <1>2, SealedBytes
  <2>2. len + TagLen \in Nat
    BY <1>1
  <2> HIDE DEF buf
  <2> QED
    BY <2>1, <2>2, ListedIsSeq
<1>5. Encrypt(s, m, k) = [typ |-> m.typ, payload |-> buf]
  <2>1. Encrypt(s, m, k) = [typ |-> m.typ, payload |-> <<>> \o Sealed(k, Tls12Aad(k, m.typ, len), m.data)]
    BY DEF Encrypt
  <2>2. buf \in Seq({buf[i] : i \in 1..(len + TagLen)})
    BY <1>1, <1>4, ListedIsSeq
  <2>3. <<>> \o buf = buf
    BY <2>2, ConcatEmptySeq
  <2> QED
    BY <2>1, <2>3 DEF aad, p
<1>6. Opened(n, add, SubSeq(buf, 1, cut)) =
        IF cut = len + TagLen /\ n = k /\ add = aad THEN {p} ELSE {}
  BY <1>1, <1>2, OpenedSealed
<1>7. Len(SubSeq(buf, 1, cut)) = cut
  BY <1>1, <1>4, SubListed, ListedIsSeq
<1> HIDE DEF buf
<1>8. Cut(Encrypt(s, m, k), cut) = [typ |-> m.typ, payload |-> SubSeq(buf, 1, cut)]
  BY <1>5 DEF Cut
<1>9. Decrypt(s, Cut(Encrypt(s, m, k), cut), n) =
        {[typ |-> m.typ, data |-> q] : q \in Opened(n, add, SubSeq(buf, 1, cut))}
  <2>1. Decrypt(s, Cut(Encrypt(s, m, k), cut), n) = DecryptTls12Chacha(Cut(Encrypt(s, m, k), cut), n)
    BY <1>0 DEF Decrypt
  <2> DEFINE r == Cut(Encrypt(s, m, k), cut)
  <2>2. r.typ = m.typ /\ r.payload = SubSeq(buf, 1, cut)
    BY <1>8
  <2> HIDE DEF r
  <2>3. DecryptTls12Chacha(r, n) = {[typ |-> m.typ, data |-> q] : q \in Opened(n, add, SubSeq(buf, 1, cut))}
    BY <1>7, <2>2 DEF DecryptTls12Chacha, add
  <2> QED
    BY <2>1, <2>3 DEF r
<1>10. Decrypt(s, Cut(Encrypt(s, m, k), cut), n) = IF cut = len + TagLen /\ n = k THEN {m} ELSE {}
  BY <1>2, <1>3, <1>6, <1>9
<1>11. Listed(Encrypt(s, m, k).payload, len + TagLen)
  BY <1>4, <1>5
<1> QED
  BY <1>1, <1>10, <1>11

\* The explicit part of the nonce says which record it belongs to.
LEMMA NoncesDiffer ==
    ASSUME NEW k, NEW buf, NEW len \in Nat, Listed(buf, len), ExplicitLen <= len,
           \A i \in 1..ExplicitLen : buf[i] = <<"nonce", k, i>>
    PROVE  \A j : IsPrefix(Explicit(j), buf) <=> j = k
<1> SUFFICES ASSUME NEW j PROVE IsPrefix(Explicit(j), buf) <=> j = k
  OBVIOUS
<1> DEFINE e == Explicit(j)
<1>1. ExplicitLen \in Nat \ {0}
  BY TlsRecordsAssumption
<1>2. Listed(e, ExplicitLen) /\ \A i \in 1..ExplicitLen : e[i] = <<"nonce", j, i>>
  BY <1>1, Zenon DEF Explicit, Listed
<1> HIDE DEF e
<1>3. Len(buf) = len /\ Len(e) = ExplicitLen
  BY <1>1, <1>2, ListedIsSeq
<1>4. /\ Listed(SubSeq(e, 1, ExplicitLen), ExplicitLen)
      /\ \A i \in 1..ExplicitLen : SubSeq(e, 1, ExplicitLen)[i] = e[i]
  <2>1. /\ Listed(SubSeq(e, 1, ExplicitLen), ExplicitLen - 1 + 1)
        /\ \A i \in 1..(ExplicitLen - 1 + 1) : SubSeq(e, 1, ExplicitLen)[i] = e[1 + i - 1]
    BY <1>1, <1>2, SubListed
  <2> QED
    BY <1>1, <2>1
<1>5. /\ Listed(SubSeq(buf, 1, ExplicitLen), ExplicitLen)
      /\ \A i \in 1..ExplicitLen : SubSeq(buf, 1, ExplicitLen)[i] = buf[i]
  <2>1. /\ Listed(SubSeq(buf, 1, ExplicitLen), ExplicitLen - 1 + 1)
        /\ \A i \in 1..(ExplicitLen - 1 + 1) : SubSeq(buf, 1, ExplicitLen)[i] = buf[1 + i - 1]
    BY <1>1, SubListed
  <2> QED
    BY <1>1, <2>1
<1>6. IsPrefix(e, buf) <=> SubSeq(e, 1, ExplicitLen) = SubSeq(buf, 1, ExplicitLen)
  BY <1>3 DEF IsPrefix
<1>7. ASSUME j = k PROVE SubSeq(e, 1, ExplicitLen) = SubSeq(buf, 1, ExplicitLen)
  <2>1. \A i \in 1..ExplicitLen : SubSeq(e, 1, ExplicitLen)[i] = SubSeq(buf, 1, ExplicitLen)[i]
    BY <1>2, <1>4, <1>5, <1>7
  <2> HIDE DEF e
  <2> QED
    BY <1>1, <1>4, <1>5, <2>1, SameLists
<1>8. ASSUME SubSeq(e, 1, ExplicitLen) = SubSeq(buf, 1, ExplicitLen) PROVE j = k
  <2>1. 1 \in 1..ExplicitLen
    BY <1>1
  <2>2. e[1] = buf[1]
    <3>1. SubSeq(e, 1, ExplicitLen)[1] = e[1]
      BY <1>4, <2>1, Zenon
    <3>2. SubSeq(buf, 1, ExplicitLen)[1] = buf[1]
      BY <1>5, <2>1, Zenon
    <3> QED
      BY <1>8, <3>1, <3>2, Zenon
  <2>3. e[1] = <<"nonce", j, 1>> /\ buf[1] = <<"nonce", k, 1>>
    BY <1>2, <2>1
  <2>4. <<"nonce", j, 1>> = <<"nonce", k, 1>>
    BY <2>2, <2>3, Zenon
  <2> QED
    BY <2>4
<1> QED
  BY <1>6, <1>7, <1>8 DEF e

\* The plaintext behind an explicit nonce is moved to the front, whatever follows it.
LEMMA ShiftedPlaintext ==
    ASSUME NEW e, Listed(e, ExplicitLen), NEW p, NEW len \in Nat, Listed(p, len),
           NEW t, NEW rest \in Nat, Listed(t, rest)
    PROVE  Shift(e \o p \o t, len) = p
<1> DEFINE ep == e \o p
           buf == ep \o t
           all == ExplicitLen + len + rest
           front == SubSeq(buf, ExplicitLen + 1, all)
           back == SubSeq(buf, 1, ExplicitLen)
           turned == front \o back
<1>1. ExplicitLen \in Nat \ {0}
  BY TlsRecordsAssumption
<1>2. Joined(ep, e, ExplicitLen, p, len)
  BY <1>1, ConcatListed
<1>3. Listed(ep, ExplicitLen + len)
  BY <1>2 DEF Joined
<1> HIDE DEF ep
<1>4. ExplicitLen + len \in Nat
  BY <1>1
<1>5. Joined(buf, ep, ExplicitLen + len, t, rest)
  BY <1>3, <1>4, ConcatListed
<1>6. Listed(buf, all) /\ all \in Nat /\ Len(buf) = all
  <2>1. all \in Nat
    BY <1>1
  <2>2. Listed(buf, all)
    BY <1>5 DEF Joined
  <2> HIDE DEF buf, all
  <2> QED
    BY <2>1, <2>2, ListedIsSeq
<1>7. \A i \in 1..len : buf[ExplicitLen + i] = p[i]
  <2> SUFFICES ASSUME NEW i \in 1..len PROVE buf[ExplicitLen + i] = p[i]
    OBVIOUS
  <2>1. ExplicitLen + i \in ExplicitLen + 1..ExplicitLen + len /\ ExplicitLen + i \in 1..ExplicitLen + len
        /\ (ExplicitLen + i) - ExplicitLen = i
    BY <1>1
  <2>2. buf[ExplicitLen + i] = ep[ExplicitLen + i]
    BY <1>5, <2>1 DEF Joined
  <2>3. ep[ExplicitLen + i] = p[i]
    BY <1>2, <2>1 DEF Joined
  <2> QED
    BY <2>2, <2>3
<1> HIDE DEF buf
<1>8. /\ Listed(front, all - (ExplicitLen + 1) + 1)
      /\ \A i \in 1..(all - (ExplicitLen + 1) + 1) : front[i] = buf[ExplicitLen + 1 + i - 1]
  <2>1. ExplicitLen + 1 \in Nat \ {0} /\ all \in Nat /\ ExplicitLen + 1 <= all + 1
    BY <1>1, <1>6
  <2> DEFINE c == ExplicitLen + 1
  <2>2. c \in Nat \ {0} /\ c <= all + 1
    BY <2>1
  <2> HIDE DEF all, c
  <2>3. /\ Listed(SubSeq(buf, c, all), all - c + 1)
        /\ \A i \in 1..(all - c + 1) : SubSeq(buf, c, all)[i] = buf[c + i - 1]
    BY <1>6, <2>2, SubListed
  <2> QED
    BY <2>3 DEF c
<1>9. Listed(front, len + rest) /\ \A i \in 1..(len + rest) : front[i] = buf[ExplicitLen + i]
  BY <1>1, <1>8
<1>10. Listed(back, ExplicitLen)
  <2>1. ExplicitLen <= all /\ ExplicitLen - 1 + 1 = ExplicitLen
    BY <1>1
  <2> HIDE DEF all
  <2>2. Listed(back, ExplicitLen - 1 + 1)
    BY <1>1, <1>6, <2>1, SubListed
  <2> QED
    BY <2>1, <2>2
<1> HIDE DEF front, back
<1>11. Joined(turned, front, len + rest, back, ExplicitLen)
  <2>1. len + rest \in Nat /\ ExplicitLen \in Nat
    BY <1>1
  <2> QED
    BY <1>9, <1>10, <2>1, ConcatListed
<1>12. /\ Listed(turned, len + rest + ExplicitLen)
       /\ \A i \in 1..(len + rest) : turned[i] = front[i]
  BY <1>11 DEF Joined
<1> HIDE DEF turned
<1>13. /\ Listed(SubSeq(turned, 1, len), len)
       /\ \A i \in 1..len : SubSeq(turned, 1, len)[i] = turned[i]
  <2>1. len + rest + ExplicitLen \in Nat /\ len <= len + rest + ExplicitLen
    BY <1>1
  <2>2. /\ Listed(SubSeq(turned, 1, len), len - 1 + 1)
        /\ \A i \in 1..(len - 1 + 1) : SubSeq(turned, 1, len)[i] = turned[1 + i - 1]
    BY <1>12, <2>1, SubListed
  <2> QED
    BY <2>2
<1>14. \A i \in 1..len : i \in 1..(len + rest) /\ turned[i] = p[i]
  BY <1>7, <1>9, <1>12
<1>15. SubSeq(turned, 1, len) = p
  <2>1. \A i \in 1..len : SubSeq(turned, 1, len)[i] = p[i]
    BY <1>13, <1>14, Zenon
  <2> QED
    BY <1>13, <2>1, SameLists
<1>16. Shift(buf, len) = SubSeq(turned, 1, len)
  BY <1>6 DEF Shift, RotateLeft, turned, front, back
<1> QED
  BY <1>15, <1>16 DEF buf, ep

\* TLS 1.2 with GCM: the nonce is read from the record, and only the associated
\* data tell which record was due.
LEMMA DecryptOfTls12Gcm ==
    ASSUME NEW s \in CipherSuite, s = [version |-> "TLSv1_2", aead |-> "gcm"],
           NEW m \in Message, NEW k \in 0..MaxRecords, NEW n,
           NEW cut \in 0..EncryptedPayloadLen(s, Len(m.data))
    PROVE  /\ Listed(Encrypt(s, m, k).payload, EncryptedPayloadLen(s, Len(m.data)))
           /\ Decrypt(s, Cut(Encrypt(s, m, k), cut), n) =
                IF cut = EncryptedPayloadLen(s, Len(m.data)) /\ n = k THEN {m} ELSE {}
<1> DEFINE p == m.data
           len == Len(m.data)
           all == ExplicitLen + len + TagLen
           aad == Tls12Aad(k, m.typ, len)
           inner == Sealed(k, aad, p)
           e == Explicit(k)
           buf == e \o inner
           pay == SubSeq(buf, 1, cut)
           r == Cut(Encrypt(s, m, k), cut)
           tagPos == cut - ExplicitLen - TagLen
           add == Tls12Aad(n, m.typ, tagPos)
<1>1. s.version # "TLSv1_3" /\ s.aead = "gcm"
  OBVIOUS
<1>2. /\ len \in Nat /\ TagLen \in Nat \ {0} /\ ExplicitLen \in Nat \ {0}
      /\ all \in Nat /\ EncryptedPayloadLen(s, len) = all /\ cut \in 0..all
  <2>1. len \in Nat /\ TagLen \in Nat \ {0} /\ ExplicitLen \in Nat \ {0}
    BY MessageBytes, TlsRecordsAssumption
  <2>2. EncryptedPayloadLen(s, len) = ExplicitNonce(s) + len + TagLen /\ ExplicitNonce(s) = ExplicitLen
    BY <1>1 DEF EncryptedPayloadLen, ExplicitNonce
  <2> QED
    BY <2>1, <2>2
<1>3. Listed(p, len) /\ m = [typ |-> m.typ, data |-> p]
  BY MessageBytes
<1>4. Encrypt(s, m, k) = [typ |-> m.typ, payload |-> buf]
  BY <1>1 DEF Encrypt
<1> HIDE DEF p, aad
<1>5. Listed(inner, len + TagLen)
  BY <1>2, <1>3, SealedBytes
<1>6. Listed(e, ExplicitLen) /\ \A i \in 1..ExplicitLen : e[i] = <<"nonce", k, i>>
  BY <1>2, Zenon DEF Explicit, Listed
<1> HIDE DEF inner, e
<1>7. Joined(buf, e, ExplicitLen, inner, len + TagLen)
  <2>1. ExplicitLen \in Nat /\ len + TagLen \in Nat
    BY <1>2
  <2> QED
    BY <1>5, <1>6, <2>1, ConcatListed
<1>8. Listed(buf, all)
  <2>1. ExplicitLen + (len + TagLen) = all
    BY <1>2
  <2> QED
    BY <1>7, <2>1 DEF Joined
<1> HIDE DEF buf
<1>10. /\ Listed(pay, cut) /\ Len(pay) = cut
       /\ \A i \in 1..cut : pay[i] = buf[i]
  <2>1. cut \in Nat /\ cut <= all
    BY <1>2
  <2> HIDE DEF all
  <2>2. /\ Listed(pay, cut - 1 + 1)
        /\ \A i \in 1..(cut - 1 + 1) : pay[i] = buf[1 + i - 1]
    BY <1>2, <1>8, <2>1, SubListed
  <2> QED
    BY <2>1, <2>2, ListedIsSeq
<1> HIDE DEF pay
<1>11. r = [typ |-> m.typ, payload |-> pay]
  BY <1>4 DEF Cut, pay
<1>12. Decrypt(s, r, n) = DecryptTls12Gcm(r, n)
  BY <1>1 DEF Decrypt
<1> HIDE DEF r
<1>13. Listed(Encrypt(s, m, k).payload, all)
  BY <1>4, <1>8
<1> SUFFICES DecryptTls12Gcm(r, n) = IF cut = all /\ n = k THEN {m} ELSE {}
  BY <1>2, <1>12, <1>13 DEF r
<1>14. CASE tagPos < 0
  <2>1. cut # all
    BY <1>2, <1>14
  <2> QED
    BY <1>10, <1>11, <1>14, <2>1 DEF DecryptTls12Gcm
<1>15. CASE tagPos >= 0
  <2> DEFINE tail == SubSeq(pay, ExplicitLen + 1, cut)
             rest == SubSeq(pay, ExplicitLen + tagPos + 1, cut)
             nonces == {j \in 0..MaxRecords : IsPrefix(Explicit(j), pay)}
             opened(j) == Opened(j, add, tail)
             shifted(q) == Shift(SubSeq(pay, 1, ExplicitLen) \o q \o rest, tagPos)
  <2>1. cut \in Nat /\ tagPos \in 0..len /\ cut = ExplicitLen + tagPos + TagLen /\ ExplicitLen <= cut
    BY <1>2, <1>15
  <2>2. nonces = {k}
    <3>1. \A i \in 1..ExplicitLen : pay[i] = <<"nonce", k, i>>
      <4>1. \A i \in 1..ExplicitLen : i \in 1..cut
        BY <1>2, <2>1
      <4>2. \A i \in 1..ExplicitLen : buf[i] = e[i]
        BY <1>7 DEF Joined
      <4> QED
        BY <1>6, <1>10, <4>1, <4>2
    <3>2. \A j : IsPrefix(Explicit(j), pay) <=> j = k
      BY <1>10, <2>1, <3>1, NoncesDiffer
    <3> QED
      BY <3>2
  <2>3. DecryptTls12Gcm(r, n) =
          {[typ |-> m.typ, data |-> shifted(q)] : q \in UNION {opened(j) : j \in nonces}}
    <3> DEFINE G(l) ==
          {[typ |-> m.typ,
            data |-> Shift(SubSeq(pay, 1, ExplicitLen) \o q
                           \o SubSeq(pay, ExplicitLen + (l - ExplicitLen - TagLen) + 1, l),
                           l - ExplicitLen - TagLen)] :
             q \in UNION {Opened(j, Tls12Aad(n, m.typ, l - ExplicitLen - TagLen),
                                 SubSeq(pay, ExplicitLen + 1, l)) : j \in nonces}}
    <3>1. Len(pay) - ExplicitLen - TagLen < 0 <=> FALSE
      BY <1>2, <1>10, <1>15
    <3>2. DecryptTls12Gcm([typ |-> m.typ, payload |-> pay], n) = G(Len(pay))
      BY <3>1 DEF DecryptTls12Gcm
    <3> HIDE DEF G
    <3>3. DecryptTls12Gcm(r, n) = G(cut)
      BY <1>10, <1>11, <3>2
    <3> QED
      BY <3>3 DEF G
  <2>4. UNION {opened(j) : j \in nonces} = opened(k)
    <3> HIDE DEF opened, nonces
    <3> QED
      BY <2>2
  <2>5. tail = SubSeq(inner, 1, cut - ExplicitLen)
    <3>1. /\ Listed(tail, cut - ExplicitLen)
          /\ \A i \in 1..(cut - ExplicitLen) : tail[i] = pay[ExplicitLen + i]
      <4> DEFINE c == ExplicitLen + 1
      <4>1. c \in Nat \ {0} /\ c <= cut + 1
        BY <1>2, <2>1
      <4> HIDE DEF c
      <4>2. /\ Listed(SubSeq(pay, c, cut), cut - c + 1)
            /\ \A i \in 1..(cut - c + 1) : SubSeq(pay, c, cut)[i] = pay[c + i - 1]
        BY <1>10, <2>1, <4>1, SubListed
      <4> QED
        BY <1>2, <2>1, <4>2 DEF c
    <3>2. /\ Listed(SubSeq(inner, 1, cut - ExplicitLen), cut - ExplicitLen)
          /\ \A i \in 1..(cut - ExplicitLen) : SubSeq(inner, 1, cut - ExplicitLen)[i] = inner[i]
      <4> DEFINE c == cut - ExplicitLen
                 l == len + TagLen
      <4>1. c \in Nat /\ l \in Nat /\ c <= l
        BY <1>2, <2>1
      <4>2. Listed(inner, l)
        BY <1>5
      <4> HIDE DEF c, l
      <4>3. /\ Listed(SubSeq(inner, 1, c), c - 1 + 1)
            /\ \A i \in 1..(c - 1 + 1) : SubSeq(inner, 1, c)[i] = inner[1 + i - 1]
        BY <4>1, <4>2, SubListed
      <4>4. /\ Listed(SubSeq(inner, 1, c), c)
            /\ \A i \in 1..c : SubSeq(inner, 1, c)[i] = inner[i]
        BY <4>1, <4>3
      <4> QED
        BY <4>4 DEF c
    <3>3. \A i \in 1..(cut - ExplicitLen) : pay[ExplicitLen + i] = inner[i]
      <4> SUFFICES ASSUME NEW i \in 1..(cut - ExplicitLen) PROVE pay[ExplicitLen + i] = inner[i]
        OBVIOUS
      <4>1. /\ ExplicitLen + i \in 1..cut
            /\ ExplicitLen + i \in ExplicitLen + 1..ExplicitLen + (len + TagLen)
            /\ (ExplicitLen + i) - ExplicitLen = i
        BY <1>2, <2>1
      <4>2. buf[ExplicitLen + i] = inner[i]
        BY <1>7, <4>1 DEF Joined
      <4> QED
        BY <1>10, <4>1, <4>2
    <3>4. cut - ExplicitLen \in Nat
      BY <1>2, <2>1
    <3> HIDE DEF tail
    <3>5. \A i \in 1..(cut - ExplicitLen) : tail[i] = SubSeq(inner, 1, cut - ExplicitLen)[i]
      BY <3>1, <3>2, <3>3
    <3> QED
      BY <3>1, <3>2, <3>4, <3>5, SameLists
  <2>6. opened(k) = IF cut = all /\ n = k THEN {p} ELSE {}
    <3>1. cut - ExplicitLen \in 0..(len + TagLen)
      BY <1>2, <2>1
    <3> DEFINE c == cut - ExplicitLen
    <3> HIDE DEF c, add
    <3>2. Opened(k, add, SubSeq(Sealed(k, aad, p), 1, c)) =
            IF c = len + TagLen /\ k = k /\ add = aad THEN {p} ELSE {}
      BY <1>2, <1>3, <3>1, OpenedSealed DEF c
    <3>3. c = len + TagLen <=> cut = all
      BY <1>2, <2>1 DEF c
    <3>4. cut = all => (add = aad <=> n = k)
      <4>1. cut = all => tagPos = len
        BY <1>2
      <4> QED
        BY <4>1 DEF add, aad, Tls12Aad
    <3> QED
      BY <2>5, <3>2, <3>3, <3>4 DEF c, inner
  <2>7. cut = all => shifted(p) = p
    <3> SUFFICES ASSUME cut = all PROVE shifted(p) = p
      OBVIOUS
    <3>1. tagPos = len
      BY <1>2
    <3>2. Listed(SubSeq(pay, 1, ExplicitLen), ExplicitLen)
      <4>1. Listed(SubSeq(pay, 1, ExplicitLen), ExplicitLen - 1 + 1)
        BY <1>2, <1>10, <2>1, SubListed
      <4> QED
        BY <1>2, <4>1
    <3>3. Listed(rest, TagLen)
      <4> DEFINE c == ExplicitLen + tagPos + 1
      <4>1. c \in Nat \ {0} /\ c <= cut + 1 /\ cut - c + 1 = TagLen
        BY <1>2, <2>1
      <4> HIDE DEF c
      <4>2. Listed(SubSeq(pay, c, cut), cut - c + 1)
        BY <1>10, <2>1, <4>1, SubListed
      <4> QED
        BY <4>1, <4>2 DEF c
    <3> DEFINE h == SubSeq(pay, 1, ExplicitLen)
    <3> HIDE DEF h, rest
    <3>4. Shift(h \o p \o rest, len) = p
      BY <1>2, <1>3, <3>2, <3>3, ShiftedPlaintext DEF h
    <3> QED
      BY <3>1, <3>4 DEF h
  <2> HIDE DEF shifted, opened
  <2>8. DecryptTls12Gcm(r, n) = {[typ |-> m.typ, data |-> shifted(q)] : q \in opened(k)}
    BY <2>3, <2>4
  <2> QED
    BY <1>3, <2>6, <2>7, <2>8
<1> QED
  BY <1>2, <1>14, <1>15

(***************************************************************************)
(* Record k, of which the first bytes arrive when record n is due, is      *)
(* decrypted to its message if it is complete and due, and refused         *)
(* otherwise; and it has the length that was announced.                    *)
(***************************************************************************)
LEMMA DecryptOfEncrypt ==
    ASSUME NEW s \in CipherSuite, NEW m \in Message, NEW k \in 0..MaxRecords, NEW n,
           NEW cut \in 0..EncryptedPayloadLen(s, Len(m.data))
    PROVE  /\ Listed(Encrypt(s, m, k).payload, EncryptedPayloadLen(s, Len(m.data)))
           /\ Decrypt(s, Cut(Encrypt(s, m, k), cut), n) =
                IF cut = EncryptedPayloadLen(s, Len(m.data)) /\ n = k THEN {m} ELSE {}
<1>1. \/ s.version = "TLSv1_3"
      \/ s = [version |-> "TLSv1_2", aead |-> "gcm"]
      \/ s = [version |-> "TLSv1_2", aead |-> "chacha20"]
  BY DEF CipherSuite
<1>2. CASE s.version = "TLSv1_3"
  BY <1>2, DecryptOfTls13
<1>3. CASE s = [version |-> "TLSv1_2", aead |-> "gcm"]
  BY <1>3, DecryptOfTls12Gcm
<1>4. CASE s = [version |-> "TLSv1_2", aead |-> "chacha20"]
  BY <1>4, DecryptOfTls12Chacha
<1> QED
  BY <1>1, <1>2, <1>3, <1>4

\* A record that is not cut off is itself.
LEMMA CutNothing ==
    ASSUME NEW s \in CipherSuite, NEW m \in Message, NEW k \in 0..MaxRecords
    PROVE  LET len == EncryptedPayloadLen(s, Len(m.data))
           IN  /\ len \in Nat /\ Len(Encrypt(s, m, k).payload) = len
               /\ Cut(Encrypt(s, m, k), len) = Encrypt(s, m, k)
<1> DEFINE len == EncryptedPayloadLen(s, Len(m.data))
           r == Encrypt(s, m, k)
           buf == r.payload
<1>1. len \in Nat
  <2>1. Len(m.data) \in Nat /\ TagLen \in Nat /\ ExplicitLen \in Nat
    BY MessageBytes, TlsRecordsAssumption
  <2>2. ExplicitNonce(s) \in Nat
    BY <2>1 DEF ExplicitNonce
  <2> HIDE DEF len
  <2>3. len = Len(m.data) + 1 + TagLen \/ len = ExplicitNonce(s) + Len(m.data) + TagLen
    BY DEF EncryptedPayloadLen, len
  <2> QED
    BY <2>1, <2>2, <2>3
<1> HIDE DEF len
<1>2. len \in 0..len
  BY <1>1
<1>3. Listed(buf, len)
  BY <1>2, DecryptOfEncrypt DEF len
<1>4. r = [typ |-> r.typ, payload |-> buf]
  BY DEF Encrypt
<1> HIDE DEF r, buf
<1>5. Len(buf) = len
  BY <1>1, <1>3, ListedIsSeq
<1>6. /\ Listed(SubSeq(buf, 1, len), len)
      /\ \A i \in 1..len : SubSeq(buf, 1, len)[i] = buf[i]
  <2>1. /\ Listed(SubSeq(buf, 1, len), len - 1 + 1)
        /\ \A i \in 1..(len - 1 + 1) : SubSeq(buf, 1, len)[i] = buf[1 + i - 1]
    BY <1>1, <1>3, SubListed
  <2> QED
    BY <1>1, <2>1
<1>7. SubSeq(buf, 1, len) = buf
  BY <1>1, <1>3, <1>6, SameLists
<1>8. Cut(r, len) = r
  BY <1>4, <1>7 DEF Cut, buf
<1> QED
  BY <1>1, <1>5, <1>8 DEF r, buf, len

\* One more of a prefix that is not all.
LEMMA PrefixGrows ==
    ASSUME NEW q \in Seq(Message), NEW out \in Seq(Message), IsPrefix(q, out), Len(q) < Len(out)
    PROVE  /\ Append(q, out[Len(q) + 1]) \in Seq(Message)
           /\ IsPrefix(Append(q, out[Len(q) + 1]), out)
<1> DEFINE n == Len(q)
           r == Append(q, out[n + 1])
<1>1. n \in Nat /\ Len(out) \in Nat /\ n + 1 <= Len(out) /\ out[n + 1] \in Message
  OBVIOUS
<1>2. r \in Seq(Message) /\ Len(r) = n + 1 /\ r[n + 1] = out[n + 1] /\ \A i \in 1..n : r[i] = q[i]
  BY <1>1, AppendProperties
<1>3. SubSeq(q, 1, n) = SubSeq(out, 1, n)
  BY DEF IsPrefix
<1>4. \A i \in 1..n : q[i] = out[i]
  <2>1. \A i \in 1..n : SubSeq(q, 1, n)[i] = q[i] /\ SubSeq(out, 1, n)[i] = out[i]
    BY <1>1
  <2> QED
    BY <1>3, <2>1
<1> HIDE DEF r
<1>5. \A i \in 1..n + 1 : r[i] = out[i]
  BY <1>1, <1>2, <1>4
<1>6. /\ SubSeq(r, 1, n + 1) \in Seq(Message) /\ SubSeq(out, 1, n + 1) \in Seq(Message)
      /\ Len(SubSeq(r, 1, n + 1)) = n + 1 /\ Len(SubSeq(out, 1, n + 1)) = n + 1
      /\ \A i \in 1..n + 1 : SubSeq(r, 1, n + 1)[i] = r[i] /\ SubSeq(out, 1, n + 1)[i] = out[i]
  BY <1>1, <1>2
<1>7. SubSeq(r, 1, n + 1) = SubSeq(out, 1, n + 1)
  <2>1. \A i \in 1..n + 1 : SubSeq(r, 1, n + 1)[i] = SubSeq(out, 1, n + 1)[i]
    BY <1>5, <1>6
  <2> QED
    BY <1>6, <2>1, SeqEqual
<1>8. IsPrefix(r, out)
  BY <1>1, <1>2, <1>7 DEF IsPrefix
<1> QED
  BY <1>2, <1>8 DEF r

\* A prefix stays one when messages are added behind.
LEMMA PrefixStays ==
    ASSUME NEW q \in Seq(Message), NEW out \in Seq(Message), IsPrefix(q, out), NEW m \in Message
    PROVE  IsPrefix(q, Append(out, m))
<1>1. Len(q) \in Nat /\ Len(out) \in Nat /\ Len(q) <= Len(out) /\ SubSeq(q, 1, Len(q)) = SubSeq(out, 1, Len(q))
  BY DEF IsPrefix
<1> DEFINE a == SubSeq(out, 1, Len(q))
           b == SubSeq(Append(out, m), 1, Len(q))
<1>2. /\ a \in Seq(Message) /\ b \in Seq(Message) /\ Len(a) = Len(b)
      /\ \A i \in 1..Len(a) : a[i] = b[i]
  BY <1>1
<1> HIDE DEF a, b
<1>3. a = b
  BY <1>2, SeqEqual
<1> QED
  BY <1>1, <1>3 DEF IsPrefix, a, b

\* What RecordInv says of one record.
LEMMA RecordOfMessage ==
    ASSUME RecordInv, NEW i \in 1..Len(outgoing)
    PROVE  /\ outgoing[i] \in Message /\ i - 1 \in 0..MaxRecords
           /\ records[i] = Encrypt(suite, outgoing[i], i - 1)
<1>1. outgoing \in Seq(Message) /\ Len(outgoing) \in Nat /\ Len(outgoing) <= MaxRecords
  BY DEF RecordInv
<1>2. records[i] = Encrypt(suite, outgoing[i], i - 1)
  BY DEF RecordInv
<1> QED
  BY <1>1, <1>2, TlsRecordsAssumption

\* As many records as messages.
LEMMA RecordCount == RecordInv => Len(records) = Len(outgoing)
<1> SUFFICES ASSUME RecordInv PROVE Len(records) = Len(outgoing)
  OBVIOUS
<1>1. Len(outgoing) \in Nat
  BY DEF RecordInv
<1>2. Listed(records, Len(outgoing))
  BY <1>1, Zenon DEF RecordInv, Listed
<1> QED
  BY <1>1, <1>2, ListedIsSeq

\* The first state satisfies the invariant.
LEMMA RecordInitInv == RecordInit => RecordInv
<1> SUFFICES ASSUME RecordInit PROVE RecordInv
  OBVIOUS
<1>1. records = [i \in 1..Len(outgoing) |-> Encrypt(suite, outgoing[i], i - 1)]
  BY DEF RecordInit
<1>2. IsPrefix(received, outgoing)
  BY DEF RecordInit, IsPrefix
<1> QED
  BY <1>1, <1>2, TlsRecordsAssumption DEF RecordInit, RecordInv

\* Send: the next record is encrypted under the next number.
LEMMA SendInv ==
    ASSUME RecordInv, NEW m \in Message, Send(m)
    PROVE  RecordInv'
<1> DEFINE n == Len(outgoing)
<1>1. /\ outgoing \in Seq(Message) /\ n \in Nat /\ n < MaxRecords
      /\ outgoing' = Append(outgoing, m) /\ records' = Append(records, Encrypt(suite, m, n))
      /\ UNCHANGED <<suite, received, status>>
  BY DEF RecordInv, Send
<1>2. /\ outgoing' \in Seq(Message) /\ Len(outgoing') = n + 1
      /\ outgoing'[n + 1] = m /\ \A i \in 1..n : outgoing'[i] = outgoing[i]
  BY <1>1, AppendProperties
<1>3. records' = [i \in 1..n + 1 |-> Encrypt(suite, outgoing'[i], i - 1)]
  <2> DEFINE new == [i \in 1..n + 1 |-> Encrypt(suite, outgoing'[i], i - 1)]
             e == Encrypt(suite, m, n)
  <2>1. Listed(records, n)
    BY <1>1, Zenon DEF RecordInv, Listed
  <2> HIDE DEF e
  <2>2. /\ Listed(records', n + 1)
        /\ \A i \in 1..n : records'[i] = records[i]
        /\ records'[n + 1] = e
    <3>1. Extended(Append(records, e), records, n, e)
      BY <1>1, <2>1, AppendListed
    <3>2. records' = Append(records, e)
      BY <1>1 DEF e
    <3>3. Extended(records', records, n, e)
      BY <3>1, <3>2
    <3> QED
      BY <3>3 DEF Extended
  <2>3. n + 1 \in Nat
    BY <1>1
  <2>4. Listed(new, n + 1) /\ \A i \in 1..n + 1 : new[i] = Encrypt(suite, outgoing'[i], i - 1)
    BY <2>3, Zenon DEF Listed
  <2> HIDE DEF new
  <2>5. \A i \in 1..n + 1 : records'[i] = new[i]
    <3> SUFFICES ASSUME NEW i \in 1..n + 1 PROVE records'[i] = Encrypt(suite, outgoing'[i], i - 1)
      BY <2>4
    <3>1. CASE i = n + 1
      <4>1. i - 1 = n
        BY <1>1, <3>1
      <4> QED
        BY <1>2, <2>2, <3>1, <4>1 DEF e
    <3>2. CASE i # n + 1
      <4>1. i \in 1..n
        BY <1>1, <3>2
      <4>2. records[i] = Encrypt(suite, outgoing[i], i - 1)
        BY <4>1 DEF RecordInv
      <4> QED
        BY <1>2, <2>2, <4>1, <4>2
    <3> QED
      BY <3>1, <3>2
  <2>6. records' = new
    BY <2>2, <2>3, <2>4, <2>5, SameLists
  <2> QED
    BY <2>6 DEF new
<1>4. received' \in Seq(Message) /\ IsPrefix(received', outgoing')
  BY <1>1, PrefixStays DEF RecordInv
<1>5. suite' \in CipherSuite /\ Len(outgoing') <= MaxRecords
  BY <1>1, <1>2, TlsRecordsAssumption DEF RecordInv
<1> QED
  BY <1>1, <1>2, <1>3, <1>4, <1>5 DEF RecordInv

\* Receive: whatever arrives, only the message that is due is returned.
LEMMA ReceiveInv ==
    ASSUME RecordInv, NEW i \in 1..Len(records), NEW len \in 0..Len(records[i].payload), Receive(i, len)
    PROVE  RecordInv'
<1> DEFINE n == Len(received)
           out == outgoing[i]
           r == Cut(records[i], len)
<1>1. i \in 1..Len(outgoing)
  BY RecordCount
<1>2. /\ out \in Message /\ i - 1 \in 0..MaxRecords /\ records[i] = Encrypt(suite, out, i - 1)
  BY <1>1, RecordOfMessage
<1>3. suite \in CipherSuite /\ received \in Seq(Message) /\ outgoing \in Seq(Message) /\ IsPrefix(received, outgoing)
  BY DEF RecordInv
<1>4. len \in 0..EncryptedPayloadLen(suite, Len(out.data))
  BY <1>2, <1>3, CutNothing
<1>5. Decrypt(suite, r, n) =
        IF len = EncryptedPayloadLen(suite, Len(out.data)) /\ n = i - 1 THEN {out} ELSE {}
  <2> DEFINE k == i - 1
  <2>1. k \in 0..MaxRecords
    BY <1>2
  <2> HIDE DEF k, out
  <2>2. Decrypt(suite, Cut(Encrypt(suite, out, k), len), n) =
          IF len = EncryptedPayloadLen(suite, Len(out.data)) /\ n = k THEN {out} ELSE {}
    BY <1>2, <1>3, <1>4, <2>1, DecryptOfEncrypt
  <2> QED
    BY <1>2, <2>2 DEF k
<1>6. UNCHANGED <<suite, outgoing, records>>
  BY DEF Receive
<1> HIDE DEF r
<1>7. ASSUME NEW m \in Decrypt(suite, r, n), received' = Append(received, m), status' = "open"
      PROVE  RecordInv'
  <2>1. m = out /\ n = i - 1
    BY <1>5, <1>7
  <2>2. i = n + 1 /\ n < Len(outgoing)
    BY <1>1, <1>3, <2>1
  <2>3. received' = Append(received, outgoing[n + 1])
    BY <1>7, <2>1, <2>2
  <2>4. received' \in Seq(Message) /\ IsPrefix(received', outgoing)
    BY <1>3, <2>2, <2>3, PrefixGrows
  <2> QED
    BY <1>6, <1>7, <2>4 DEF RecordInv
<1>8. ASSUME UNCHANGED received,
             status' \in {"closed"} \cup (IF Underflows(suite, r) THEN {"aborted"} ELSE {})
      PROVE  RecordInv'
  <2>1. status' = "aborted" => suite = [version |-> "TLSv1_2", aead |-> "chacha20"]
    BY <1>8 DEF Underflows
  <2> QED
    BY <1>6, <1>8, <2>1 DEF RecordInv
<1> QED
  BY <1>7, <1>8 DEF Receive, r

\* Every step keeps the invariant.
LEMMA RecordNextInv == RecordInv /\ [RecordNext]_recordVars => RecordInv'
<1>1. RecordInv /\ UNCHANGED recordVars => RecordInv'
  BY DEF RecordInv, recordVars
<1> QED
  BY <1>1, SendInv, ReceiveInv DEF RecordNext

\* Each record is the encryption of its message under its own number, and what was
\* received are the first messages that were sent.
THEOREM RecordInvariant == RecordSpec => []RecordInv
BY RecordInitInv, RecordNextInv, PTL DEF RecordSpec

(***************************************************************************)
(* For every cipher suite, any messages and any number of records, and     *)
(* whatever is cut off, repeated or reordered, the receiver gets the       *)
(* messages that were sent, in order and byte for byte, or closes; and the *)
(* record that is due is never refused.                                    *)
(***************************************************************************)
THEOREM RecordsSurvive == RecordSpec => []RecordsArriveAsSent
<1>1. RecordInv => RecordsArriveAsSent
  <2> SUFFICES ASSUME RecordInv PROVE RecordsArriveAsSent
    OBVIOUS
  <2>1. suite \in CipherSuite /\ Len(received) \in Nat /\ Len(outgoing) \in Nat
    BY DEF RecordInv
  <2>2. ASSUME NEW i \in 1..Len(outgoing)
        PROVE  /\ Len(records[i].payload) = EncryptedPayloadLen(suite, Len(outgoing[i].data))
               /\ Decrypt(suite, records[i], i - 1) # {}
    <3> DEFINE m == outgoing[i]
               k == i - 1
               len == EncryptedPayloadLen(suite, Len(m.data))
    <3>1. m \in Message /\ k \in 0..MaxRecords /\ records[i] = Encrypt(suite, m, k)
      BY RecordOfMessage
    <3> HIDE DEF m, k
    <3>2. /\ len \in Nat /\ Len(Encrypt(suite, m, k).payload) = len
          /\ Cut(Encrypt(suite, m, k), len) = Encrypt(suite, m, k)
      BY <2>1, <3>1, CutNothing
    <3>3. len \in 0..len
      BY <3>2
    <3>4. Decrypt(suite, Cut(Encrypt(suite, m, k), len), k) = IF len = len /\ k = k THEN {m} ELSE {}
      BY <2>1, <3>1, <3>3, DecryptOfEncrypt
    <3>5. Decrypt(suite, records[i], k) = {m}
      BY <3>1, <3>2, <3>4
    <3> QED
      BY <3>1, <3>2, <3>5 DEF m, k
  <2>3. Len(records) = Len(outgoing)
    BY RecordCount
  <2>4. ASSUME Len(received) < Len(outgoing)
        PROVE  Decrypt(suite, records[Len(received) + 1], Len(received)) # {}
    <3>1. Len(received) + 1 \in 1..Len(outgoing) /\ (Len(received) + 1) - 1 = Len(received)
      BY <2>1, <2>4
    <3> QED
      BY <2>2, <3>1
  <2> QED
    BY <2>2, <2>3, <2>4 DEF RecordInv, RecordsArriveAsSent
<1> QED
  BY <1>1, RecordInvariant, PTL
=============================================================================
