---------------------------- MODULE TicketEpochs ----------------------------
(***************************************************************************)
(* What a rotating session-ticket encryptor promises: time is divided into *)
(* epochs by successful rotations, and a ticket can be decrypted in the    *)
(* epoch in which it was sealed and in the next one ("kept as `previous'   *)
(* for one cycle", ticketer.rs lines 122-123), and in no other.  A         *)
(* decryption takes effect at one instant of its call.                     *)
(***************************************************************************)
EXTENDS Integers

CONSTANTS Worker,   \* threads that decrypt
          Ticket,   \* ticket identities
          NoAnswer  \* answer of a worker that has none

VARIABLES epoch,     \* number of successful rotations
          sealedAt,  \* sealedAt[t]: epoch in which t was sealed, or Unsealed
          answer     \* answer[w]: [ticket, ok], not yet delivered, or NoAnswer

vars == <<epoch, sealedAt, answer>>

Unsealed == -1

Live(t) == sealedAt[t] # Unsealed /\ epoch - sealedAt[t] <= 1

Init ==
    /\ epoch = 0
    /\ sealedAt = [t \in Ticket |-> Unsealed]
    /\ answer = [w \in Worker |-> NoAnswer]

Seal(t) ==
    /\ sealedAt[t] = Unsealed
    /\ sealedAt' = [sealedAt EXCEPT ![t] = epoch]
    /\ UNCHANGED <<epoch, answer>>

Rotate ==
    /\ epoch' = epoch + 1
    /\ UNCHANGED <<sealedAt, answer>>

Decrypt(w, t) ==
    /\ answer[w] = NoAnswer
    /\ answer' = [answer EXCEPT ![w] = [ticket |-> t, ok |-> Live(t)]]
    /\ UNCHANGED <<epoch, sealedAt>>

Deliver(w) ==
    /\ answer[w] # NoAnswer
    /\ answer' = [answer EXCEPT ![w] = NoAnswer]
    /\ UNCHANGED <<epoch, sealedAt>>

Next ==
    \/ \E t \in Ticket : Seal(t)
    \/ Rotate
    \/ \E w \in Worker, t \in Ticket : Decrypt(w, t)
    \/ \E w \in Worker : Deliver(w)

Spec == Init /\ [][Next]_vars
=============================================================================
