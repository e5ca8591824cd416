----------------------------- MODULE OxiTicketer -----------------------------
(***************************************************************************)
(* OxiTicketer of oxitls/src/ticketer.rs: two key slots behind an RwLock,  *)
(* used by any number of threads that seal, decrypt and rotate.  rotate()  *)
(* generates its key BEFORE it takes the write lock, so several rotations  *)
(* may hold generated keys at once and install them in any order.          *)
(* decrypt() holds the read lock while it tries the current key and then   *)
(* the previous one; the two attempts are two steps, during which the      *)
(* write lock is not available.                                            *)
(*                                                                         *)
(* Abstractions: a key is a number, never generated twice (32 bytes of OS  *)
(* entropy); a ticket is an identity together with the key that sealed it, *)
(* and AES-256-GCM opens it under that key and no other; a ticket that     *)
(* nobody sealed stands for malformed or forged bytes.  An OS RNG failure  *)
(* makes encrypt return None and rotate return Err without a change of     *)
(* state.  Nothing panics while the lock is held, so it is never poisoned. *)
(***************************************************************************)
EXTENDS Integers, TicketConstants

NoKey == 0
Key   == Nat \ {NoKey}

VARIABLES current,    \* TicketerState::current
          previous,   \* TicketerState::previous, NoKey for None
          generated,  \* number of keys drawn from the OS RNG so far
          pending,    \* pending[r]: new_current of r's rotate() before the write lock
          subject,    \* subject[w]: ticket of w's decrypt between its two attempts
          answer,     \* answer[w]: result of w's decrypt, not yet delivered
          sealedBy,   \* sealedBy[t]: key that sealed t, NoKey if nobody sealed it
          sealedAt,   \* history: epoch in which t was sealed
          epoch       \* history: number of rotations that have returned Ok

ticketerVars == <<current, previous, generated, pending, subject, answer, sealedBy, sealedAt, epoch>>

Unsealed == -1

\* Threads that hold the read lock between two steps.
Readers == {w \in Worker : subject[w] # NoTicket}

\* Faulty variant: the authentication tag is not checked.
OpensUnchecked(k, t) == k # NoKey /\ sealedBy[t] # NoKey

\* decrypt_with_key on an authentic ticket: only the sealing key opens it.
Opens(k, t) == k # NoKey /\ sealedBy[t] = k

\* new_with_lifetime: one key, no previous.
TicketerInit ==
    /\ current = 1
    /\ previous = NoKey
    /\ generated = 1
    /\ pending = [r \in Rotator |-> NoKey]
    /\ subject = [w \in Worker |-> NoTicket]
    /\ answer = [w \in Worker |-> NoAnswer]
    /\ sealedBy = [t \in Ticket |-> NoKey]
    /\ sealedAt = [t \in Ticket |-> Unsealed]
    /\ epoch = 0

\* encrypt_with_key: the nonce is random, so the new ticket differs from the
\* bytes that any call is busy with.
EncryptWithKey(k, t) ==
    /\ sealedBy[t] = NoKey
    /\ \A w \in Worker : subject[w] # t
    /\ sealedBy' = [sealedBy EXCEPT ![t] = k]
    /\ sealedAt' = [sealedAt EXCEPT ![t] = epoch]

\* encrypt: one critical section under the read lock.
Encrypt(t) ==
    /\ EncryptWithKey(current, t)
    /\ UNCHANGED <<current, previous, generated, pending, subject, answer, epoch>>

\* Faulty variant: no fallback to the previous key.
DecryptCurrentOnly(w, t) ==
    /\ subject[w] = NoTicket
    /\ answer[w] = NoAnswer
    /\ answer' = [answer EXCEPT ![w] = [ticket |-> t, ok |-> Opens(current, t)]]
    /\ UNCHANGED <<current, previous, generated, pending, subject, sealedBy, sealedAt, epoch>>

\* decrypt: take the read lock and try the current key.
DecryptCurrent(w, t) ==
    /\ subject[w] = NoTicket
    /\ answer[w] = NoAnswer
    /\ IF Opens(current, t) \/ previous = NoKey
       THEN /\ answer' = [answer EXCEPT ![w] = [ticket |-> t, ok |-> Opens(current, t)]]
            /\ UNCHANGED subject
       ELSE /\ subject' = [subject EXCEPT ![w] = t]
            /\ UNCHANGED answer
    /\ UNCHANGED <<current, previous, generated, pending, sealedBy, sealedAt, epoch>>

\* decrypt: fall back to the previous key and release the lock.
DecryptPrevious(w) ==
    /\ subject[w] # NoTicket
    /\ answer' = [answer EXCEPT ![w] = [ticket |-> subject[w],
                                        ok |-> Opens(previous, subject[w])]]
    /\ subject' = [subject EXCEPT ![w] = NoTicket]
    /\ UNCHANGED <<current, previous, generated, pending, sealedBy, sealedAt, epoch>>

\* The caller (rustls) takes the result of decrypt.
Deliver(w) ==
    /\ answer[w] # NoAnswer
    /\ answer' = [answer EXCEPT ![w] = NoAnswer]
    /\ UNCHANGED <<current, previous, generated, pending, subject, sealedBy, sealedAt, epoch>>

\* rotate: TicketKey::generate, outside the lock.
Generate(r) ==
    /\ pending[r] = NoKey
    /\ generated < MaxKeys
    /\ generated' = generated + 1
    /\ pending' = [pending EXCEPT ![r] = generated + 1]
    /\ UNCHANGED <<current, previous, subject, answer, sealedBy, sealedAt, epoch>>

\* Faulty variant: the old previous key is kept when there is one.
InstallKeepsPrevious(r) ==
    /\ pending[r] # NoKey
    /\ Readers = {}
    /\ previous' = IF previous = NoKey THEN current ELSE previous
    /\ current' = pending[r]
    /\ pending' = [pending EXCEPT ![r] = NoKey]
    /\ epoch' = epoch + 1
    /\ UNCHANGED <<generated, subject, answer, sealedBy, sealedAt>>

\* rotate: the write lock, current becomes previous and the new key current.
Install(r) ==
    /\ pending[r] # NoKey
    /\ Readers = {}
    /\ previous' = current
    /\ current' = pending[r]
    /\ pending' = [pending EXCEPT ![r] = NoKey]
    /\ epoch' = epoch + 1
    /\ UNCHANGED <<generated, subject, answer, sealedBy, sealedAt>>

TicketerNext ==
    \/ \E t \in Ticket : Encrypt(t)
    \/ \E w \in Worker, t \in Ticket : DecryptCurrent(w, t)
    \/ \E w \in Worker : DecryptPrevious(w) \/ Deliver(w)
    \/ \E r \in Rotator : Generate(r) \/ Install(r)

TicketerSpec == TicketerInit /\ [][TicketerNext]_ticketerVars

-----------------------------------------------------------------------------
Answer == [ticket : Ticket, ok : BOOLEAN]

TicketerTypeOK ==
    /\ current \in Key
    /\ previous \in Nat
    /\ generated \in Nat
    /\ pending \in [Rotator -> Nat]
    /\ subject \in [Worker -> Ticket \cup {NoTicket}]
    /\ answer \in [Worker -> Answer \cup {NoAnswer}]
    /\ sealedBy \in [Ticket -> Nat]
    /\ sealedAt \in [Ticket -> Nat \cup {Unsealed}]
    /\ epoch \in Nat

\* Part of the inductive invariant: since no key is generated twice, the keys that
\* wait for the write lock are in no slot and have sealed nothing.
KeysAreFresh ==
    /\ current # previous
    /\ current <= generated /\ previous <= generated
    /\ \A t \in Ticket : sealedBy[t] <= generated
    /\ \A r \in Rotator : pending[r] # NoKey =>
         /\ pending[r] <= generated
         /\ pending[r] \notin {current, previous}
         /\ \A t \in Ticket : sealedBy[t] # pending[r]
         /\ \A q \in Rotator \ {r} : pending[q] # pending[r]

(***************************************************************************)
(* The two slots hold exactly the keys of this epoch and of the last one:  *)
(* a ticket opens under `current' iff it was sealed in this epoch, under   *)
(* `previous' iff in the one before, and under neither ever after, in      *)
(* whatever order concurrent rotations install their keys.                 *)
(***************************************************************************)
SlotsMatchEpochs ==
    \A t \in Ticket :
        /\ sealedBy[t] = NoKey <=> sealedAt[t] = Unsealed
        /\ sealedAt[t] <= epoch
        /\ sealedBy[t] # NoKey =>
             /\ sealedBy[t] = current <=> sealedAt[t] = epoch
             /\ sealedBy[t] = previous <=> sealedAt[t] = epoch - 1

\* A thread between its two attempts holds the read lock: the current key does
\* not open its ticket, and there is a previous key to try.
FallbackIsNeeded ==
    \A w \in Worker : subject[w] # NoTicket =>
        /\ ~Opens(current, subject[w])
        /\ previous # NoKey
        /\ answer[w] = NoAnswer

TicketerInv == TicketerTypeOK /\ KeysAreFresh /\ SlotsMatchEpochs /\ FallbackIsNeeded

TE == INSTANCE TicketEpochs

(***************************************************************************)
(* OxiTicketer implements TicketEpochs: every decrypt is answered as if it *)
(* had happened at one instant, Some exactly for the tickets of this epoch *)
(* and of the one before.  A ticket is neither lost because a rotation     *)
(* races with the two attempts, nor does it outlive two rotations.         *)
(***************************************************************************)
ImplementsTicketEpochs == TE!Spec
=============================================================================
