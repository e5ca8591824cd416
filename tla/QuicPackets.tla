------------------------------ MODULE QuicPackets ------------------------------
(***************************************************************************)
(* QUIC packet protection, oxitls-rustcrypto-provider/src/quic.rs: a       *)
(* packet is sealed, its header is masked, the mask is removed and the     *)
(* packet is opened.  Both masks come from a sample of the ciphertext, and *)
(* the receiver knows the length of the packet number only after it has    *)
(* unmasked the first byte, so that it passes four bytes, some of which    *)
(* may belong to the payload.                                              *)
(*                                                                         *)
(* A byte is the set of its bits that are one: exclusive or is the         *)
(* symmetric difference, and masking with a constant the intersection.     *)
(***************************************************************************)
EXTENDS Integers, Sequences, FiniteSets

CONSTANTS Bits,       \* the bits of the first byte that vary, among them 7, 1 and 0
          PnBytes,    \* four bytes from the packet number on
          PnMask,     \* values of the four mask bytes for them
          SampleLen,  \* SAMPLE_LEN
          PayloadLen, \* length of a sealed payload
          PacketTag   \* length of its tag

ASSUME QuicPacketsAssumption ==
    /\ {0, 1, 7} \subseteq Bits /\ Bits \subseteq 0..7
    /\ PnBytes \in Seq(SUBSET Bits) /\ Len(PnBytes) = 4
    /\ \A m \in PnMask : m \in Seq(SUBSET Bits) /\ Len(m) = 4
    /\ SampleLen \in Nat \ {0}
    /\ PacketTag \in 1..PayloadLen

VARIABLES hpKey,   \* the header protection key: its cipher and its length
          packet,  \* the packet as it is now
          header,  \* history: its header before protection
          mask,    \* the mask that key and sample of this packet lead to
          stage    \* "plain", "sealed", "protected", "unprotected", then an outcome

quicVars == <<hpKey, packet, header, mask, stage>>

Xor(a, b) == (a \ b) \cup (b \ a)

\* The low two bits, plus one.
PnLen(first) == 1 + Cardinality(first \cap {0}) + 2 * Cardinality(first \cap {1})

\* 0x0f for a long header, 0x1f for a short one.
MaskedBits(first) == IF 7 \in first THEN 0..3 ELSE 0..4

\* Faulty variant of XorInPlace: the length is always read from the byte as it came.
XorInPlaceUnaware(m, h, masked) ==
    [first |-> Xor(h.first, m.first \cap MaskedBits(h.first)),
     pn |-> [i \in 1..Len(h.pn) |-> IF i <= PnLen(h.first) THEN Xor(h.pn[i], m.pn[i]) ELSE h.pn[i]]]

\* xor_in_place, for at most MAX_PN_LEN bytes of packet number: `masked' says whether
\* the first byte must be unmasked to read it.
XorInPlace(m, h, masked) ==
    LET firstMask  == m.first \cap MaskedBits(h.first)
        firstPlain == IF masked THEN Xor(h.first, firstMask) ELSE h.first
    IN  [first |-> Xor(h.first, firstMask),
         pn |-> [i \in 1..Len(h.pn) |->
                   IF i <= PnLen(firstPlain) THEN Xor(h.pn[i], m.pn[i]) ELSE h.pn[i]]]

\* HeaderProtectionKey::new takes any key; KeyBuilder's have 32 bytes.
HpKey == [cipher : {"Aes128", "Aes256", "ChaCha20"}, len : {16, 32}]

\* derive_mask: the mask that key and sample lead to, or an error if either is of
\* the wrong length.
DeriveMask(sampleLen) ==
    {m \in {mask} : /\ sampleLen = SampleLen
                    /\ hpKey.len >= IF hpKey.cipher = "Aes128" THEN 16 ELSE 32}

-----------------------------------------------------------------------------
QuicInit ==
    /\ hpKey \in HpKey
    /\ header \in [first : SUBSET Bits, pn : {PnBytes}]
    /\ packet = header
    /\ mask \in [first : SUBSET Bits, pn : PnMask]
    /\ stage = "plain"

\* PacketKey::encrypt_in_place.
EncryptPacket ==
    /\ stage = "plain"
    /\ stage' = "sealed"
    /\ UNCHANGED <<hpKey, packet, header, mask>>

\* HeaderProtectionKey::encrypt_in_place; the sender passes the packet number
\* only, the bytes behind it stay as they are.
ProtectHeader(sampleLen) ==
    /\ stage = "sealed"
    /\ LET n == PnLen(packet.first)
       IN  \/ \E m \in DeriveMask(sampleLen) :
                LET h == XorInPlace(m, [packet EXCEPT !.pn = SubSeq(@, 1, n)], FALSE)
                IN  packet' = [h EXCEPT !.pn = @ \o SubSeq(packet.pn, n + 1, 4)] /\ stage' = "protected"
           \/ /\ DeriveMask(sampleLen) = {}
              /\ stage' = "error"
              /\ UNCHANGED packet
    /\ UNCHANGED <<hpKey, header, mask>>

\* HeaderProtectionKey::decrypt_in_place, with four bytes for the packet number.
UnprotectHeader ==
    /\ stage = "protected"
    /\ \E m \in DeriveMask(SampleLen) : packet' = XorInPlace(m, packet, TRUE)
    /\ stage' = "unprotected"
    /\ UNCHANGED <<hpKey, header, mask>>

(***************************************************************************)
(* PacketKey::decrypt_in_place.  The header is the associated data.  The   *)
(* copy that was opened has lost its tag when it is copied back over the   *)
(* payload, and copy_from_slice aborts for slices of different lengths.    *)
(***************************************************************************)
DecryptPacket ==
    /\ stage = "unprotected"
    /\ stage' = IF packet # header THEN "rejected"
                ELSE IF PayloadLen - PacketTag # PayloadLen THEN "aborted" ELSE "returned"
    /\ UNCHANGED <<hpKey, packet, header, mask>>

QuicNext ==
    \/ EncryptPacket
    \/ \E sampleLen \in {SampleLen - 1, SampleLen} : ProtectHeader(sampleLen)
    \/ UnprotectHeader
    \/ DecryptPacket

QuicSpec == QuicInit /\ [][QuicNext]_quicVars

-----------------------------------------------------------------------------
(***************************************************************************)
(* Masking and unmasking give the header back, for every first byte, mask  *)
(* and length of the packet number, and leave the payload bytes that the   *)
(* receiver passed with it alone; a header form is never hidden, nor are   *)
(* the upper bits of a long header.                                        *)
(***************************************************************************)
HeadersSurviveProtection ==
    /\ stage \in {"unprotected", "aborted", "returned", "rejected"} => packet = header
    /\ stage = "protected" =>
         LET hidden == IF 7 \in header.first THEN 0..3 ELSE 0..4
         IN  packet.first \ hidden = header.first \ hidden

(***************************************************************************)
(* "If the return value is `Ok`, the decrypted payload can be found in     *)
(* `payload`": a packet that was sealed and arrived untouched is returned. *)
(***************************************************************************)
OpenedPacketsAreReturned == stage # "aborted"

-----------------------------------------------------------------------------
\* The header as it looks while it is masked.
Masked(h) ==
    [first |-> Xor(h.first, mask.first \cap MaskedBits(h.first)),
     pn |-> [i \in 1..4 |-> IF i <= PnLen(h.first) THEN Xor(h.pn[i], mask.pn[i]) ELSE h.pn[i]]]

\* The inductive invariant behind HeadersSurviveProtection.
QuicInv ==
    /\ header \in [first : SUBSET Bits, pn : {PnBytes}]
    /\ mask \in [first : SUBSET Bits, pn : PnMask]
    /\ packet = IF stage = "protected" THEN Masked(header) ELSE header
=============================================================================
