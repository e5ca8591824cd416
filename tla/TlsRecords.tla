------------------------------ MODULE TlsRecords ------------------------------
(***************************************************************************)
(* The record protection of the RustCrypto provider's cipher suites        *)
(* (oxitls-rustcrypto-provider/src/lib.rs, aead.rs, aead/gcm.rs,           *)
(* aead/chacha20.rs), one direction of one connection.  rustls (external)  *)
(* counts the records of each side and closes at the first error.  Sent    *)
(* records reach the decrypter intact or cut off, again, or out of order.  *)
(*                                                                         *)
(* A payload is a sequence of tokens, one for each byte: what the position *)
(* of bytes decides is kept, and what they are is symbolic.                *)
(***************************************************************************)
EXTENDS Integers, Sequences, SequencesExt

CONSTANTS ExplicitLen,  \* TLS12_GCM_EXPLICIT_NONCE_LEN
          TagLen,       \* length of an authentication tag
          Message,      \* the messages sent: [typ, data], data a sequence of bytes
          MaxRecords    \* bound on the records sent

ASSUME TlsRecordsAssumption ==
    /\ ExplicitLen \in Nat \ {0}
    /\ TagLen \in Nat \ {0}
    /\ Message \subseteq [typ : Nat \ {0}, data : Seq(Nat)]
    /\ MaxRecords \in Nat

VARIABLES suite,     \* the negotiated cipher suite
          outgoing,  \* the messages given to encrypt, in order
          records,   \* the records that encrypt returned, in order
          received,  \* the messages that decrypt returned, in order
          status     \* of the receiver: "open", "closed" after an error, "aborted"

recordVars == <<suite, outgoing, records, received, status>>

\* ALL_CIPHER_SUITES, as far as their record protection differs.
CipherSuite == [version : {"TLSv1_2", "TLSv1_3"}, aead : {"gcm", "chacha20"}]
ExplicitNonce(s) == IF s = [version |-> "TLSv1_2", aead |-> "gcm"] THEN ExplicitLen ELSE 0

ApplicationData == 23

-----------------------------------------------------------------------------
(* The AEADs, with the nonce of sequence number n.                         *)

CipherBytes(n, p) == [i \in 1..Len(p) |-> <<"byte", n, i, p[i]>>]
Tag(n, aad, p) == [i \in 1..TagLen |-> <<"tag", n, aad, p, i>>]

Sealed(n, aad, p) == CipherBytes(n, p) \o Tag(n, aad, p)

\* The plaintext of a buffer, or nothing if it was not sealed like this.
Opened(n, aad, buf) ==
    LET len == Len(buf) - TagLen
        p == [i \in 1..len |-> buf[i][4]]
    IN  IF len >= 0 /\ (\A i \in 1..len : buf[i][1] = "byte") /\ buf = Sealed(n, aad, p)
          THEN {p} ELSE {}

-----------------------------------------------------------------------------
(* Encryption.                                                             *)

\* encrypted_payload_len of each suite.
EncryptedPayloadLen(s, len) ==
    IF s.version = "TLSv1_3" THEN len + 1 + TagLen ELSE ExplicitNonce(s) + len + TagLen

Tls12Aad(n, typ, len) == <<n, typ, len>>
Tls13Aad(len) == <<len>>

\* The explicit part of the nonce is iv XOR seq: another one for each record.
Explicit(n) == [i \in 1..ExplicitLen |-> <<"nonce", n, i>>]

\* Faulty variant of Encrypt: TLS 1.3 authenticates the length of the plaintext.
EncryptWithPlainLength(s, m, n) ==
    IF s.version = "TLSv1_3"
      THEN [typ |-> ApplicationData, payload |-> Sealed(n, Tls13Aad(Len(m.data)), Append(m.data, m.typ))]
      ELSE [typ |-> m.typ, payload |-> Sealed(n, Tls12Aad(n, m.typ, Len(m.data)), m.data)]

\* encrypt of the four ciphers: the type is inside the record for TLS 1.3 only.
Encrypt(s, m, n) ==
    IF s.version = "TLSv1_3"
      THEN [typ |-> ApplicationData,
            payload |-> Sealed(n, Tls13Aad(EncryptedPayloadLen(s, Len(m.data))), Append(m.data, m.typ))]
      ELSE [typ |-> m.typ,
            payload |-> (IF s.aead = "gcm" THEN Explicit(n) ELSE <<>>)
                        \o Sealed(n, Tls12Aad(n, m.typ, Len(m.data)), m.data)]

-----------------------------------------------------------------------------
(* Decryption of record r with sequence number n: the messages it may      *)
(* return (none is an error), and whether it may abort instead.            *)

\* into_tls13_unpadded_message: the last byte that is not zero is the type.
Unpadded(p) ==
    LET n == CHOOSE k \in 1..Len(p) : p[k] # 0 /\ \A j \in k + 1..Len(p) : p[j] = 0
    IN  [typ |-> p[n], data |-> SubSeq(p, 1, n - 1)]

DecryptTls13(r, n) == {Unpadded(p) : p \in Opened(n, Tls13Aad(Len(r.payload)), r.payload)}

RotateLeft(q, k) == SubSeq(q, k + 1, Len(q)) \o SubSeq(q, 1, k)

\* The plaintext is moved to the front of the buffer, which is then truncated.
Shift(buf, tagPos) == SubSeq(RotateLeft(buf, ExplicitLen), 1, tagPos)

(***************************************************************************)
(* TLS 1.2 with GCM.  The nonce is the one that the record carries; only   *)
(* the associated data know which record was due.  Decryption is in place, *)
(* behind the explicit nonce.                                              *)
(***************************************************************************)
DecryptTls12Gcm(r, n) ==
    LET len    == Len(r.payload)
        tagPos == len - ExplicitLen - TagLen
        nonces == {k \in 0..MaxRecords : IsPrefix(Explicit(k), r.payload)}
        opened(k) == Opened(k, Tls12Aad(n, r.typ, tagPos), SubSeq(r.payload, ExplicitLen + 1, len))
    IN  IF tagPos < 0 THEN {}
        ELSE {[typ |-> r.typ,
               data |-> Shift(SubSeq(r.payload, 1, ExplicitLen) \o p
                              \o SubSeq(r.payload, ExplicitLen + tagPos + 1, len), tagPos)] :
                p \in UNION {opened(k) : k \in nonces}}

\* TLS 1.2 with ChaCha20-Poly1305.
DecryptTls12Chacha(r, n) ==
    {[typ |-> r.typ, data |-> p] :
        p \in Opened(n, Tls12Aad(n, r.typ, Len(r.payload) - TagLen), r.payload)}

Decrypt(s, r, n) == CASE s.version = "TLSv1_3" -> DecryptTls13(r, n)
                      [] s = [version |-> "TLSv1_2", aead |-> "gcm"] -> DecryptTls12Gcm(r, n)
                      [] s = [version |-> "TLSv1_2", aead |-> "chacha20"] -> DecryptTls12Chacha(r, n)

\* The subtraction of the tag's length from that of the payload is not checked:
\* a build with overflow checks panics, any other goes on to a decryption error.
Underflows(s, r) == s = [version |-> "TLSv1_2", aead |-> "chacha20"] /\ Len(r.payload) < TagLen

-----------------------------------------------------------------------------
RecordInit ==
    /\ suite \in CipherSuite
    /\ outgoing = <<>>
    /\ records = <<>>
    /\ received = <<>>
    /\ status = "open"

Send(m) ==
    /\ Len(outgoing) < MaxRecords
    /\ outgoing' = Append(outgoing, m)
    /\ records' = Append(records, Encrypt(suite, m, Len(outgoing)))
    /\ UNCHANGED <<suite, received, status>>

\* What arrives of a record that is cut off.
Cut(r, len) == [typ |-> r.typ, payload |-> SubSeq(r.payload, 1, len)]

\* Record i arrives with the first `len' bytes of its payload.
Receive(i, len) ==
    LET r == Cut(records[i], len)
        n == Len(received)
    IN  /\ status = "open"
        /\ \/ \E m \in Decrypt(suite, r, n) :
                received' = Append(received, m) /\ status' = "open"
           \/ /\ Decrypt(suite, r, n) = {}
              /\ status' \in {"closed"} \cup (IF Underflows(suite, r) THEN {"aborted"} ELSE {})
              /\ UNCHANGED received
        /\ UNCHANGED <<suite, outgoing, records>>

RecordNext ==
    \/ \E m \in Message : Send(m)
    \/ \E i \in 1..Len(records) : \E len \in 0..Len(records[i].payload) : Receive(i, len)

RecordSpec == RecordInit /\ [][RecordNext]_recordVars

-----------------------------------------------------------------------------
(***************************************************************************)
(* Whatever is cut off, repeated or reordered, the receiver gets the       *)
(* messages that were sent, in order and byte for byte, or closes; a       *)
(* record that arrives when it is due is never refused; every record has   *)
(* the announced length; and only a record of TLS 1.2 with ChaCha20 that   *)
(* is too short for its tag may abort the program.                         *)
(***************************************************************************)
RecordsArriveAsSent ==
    /\ IsPrefix(received, outgoing)
    /\ \A i \in 1..Len(records) :
         Len(records[i].payload) = EncryptedPayloadLen(suite, Len(outgoing[i].data))
    /\ Len(received) < Len(outgoing) => Decrypt(suite, records[Len(received) + 1], Len(received)) # {}
    /\ status = "aborted" => suite = [version |-> "TLSv1_2", aead |-> "chacha20"]

-----------------------------------------------------------------------------
\* The inductive invariant: each record is the encryption of its message, under
\* its own sequence number.
RecordInv ==
    /\ suite \in CipherSuite
    /\ outgoing \in Seq(Message) /\ Len(outgoing) <= MaxRecords
    /\ records = [i \in 1..Len(outgoing) |-> Encrypt(suite, outgoing[i], i - 1)]
    /\ received \in Seq(Message) /\ IsPrefix(received, outgoing)
    /\ status = "aborted" => suite = [version |-> "TLSv1_2", aead |-> "chacha20"]
=============================================================================
