-------------------------- MODULE AntiReplayTicketer --------------------------
(***************************************************************************)
(* AntiReplayTicketer of oxitls/src/anti_replay.rs around an OxiTicketer,  *)
(* as ServerBuilder::with_anti_replay builds it: decrypt first asks the    *)
(* inner ticketer (its own read lock, released again) and only for an      *)
(* authentic ticket consults the replay guard (its own mutex).  Handshake  *)
(* threads, rotations of the inner keys and the clock interleave freely    *)
(* between those steps.  Composes OxiTicketer.tla and ReplayGuard.tla.     *)
(***************************************************************************)
EXTENDS OxiTicketer, ReplayGuard

VARIABLE openedIn  \* history: openedIn[w]: epoch in which w's inner decrypt succeeded

vars == <<ticketerVars, guardVars, openedIn>>

NotOpened == -1

Init ==
    /\ TicketerInit
    /\ GuardInit
    /\ openedIn = [w \in Worker |-> NotOpened]

\* encrypt is passed through to the inner ticketer.
EncryptGuarded(t) ==
    /\ Encrypt(t)
    /\ UNCHANGED <<guardVars, openedIn>>

\* decrypt: self.inner.decrypt(ticket), first and second attempt.  The epoch of
\* the attempt that succeeds is remembered.
DecryptInner(w) ==
    /\ pc[w] = "idle"
    /\ \/ \E t \in Ticket : DecryptCurrent(w, t)
       \/ DecryptPrevious(w)
    /\ openedIn' = [openedIn EXCEPT ![w] = IF answer'[w] # NoAnswer /\ answer'[w].ok
                                           THEN epoch ELSE NotOpened]
    /\ UNCHANGED guardVars

\* decrypt: the `?' returns None for a ticket that the inner ticketer rejects.
RejectUnopened(w) ==
    /\ answer[w] # NoAnswer
    /\ ~answer[w].ok
    /\ Deliver(w)
    /\ UNCHANGED <<guardVars, openedIn>>

\* Faulty variant: the fingerprint is recorded whatever the inner ticketer says.
ConsultGuardAlways(w) ==
    /\ answer[w] # NoAnswer
    /\ Deliver(w)
    /\ BeginCheck(w, answer[w].ticket)
    /\ UNCHANGED openedIn

\* decrypt: the call of check_and_record, up to its clock reading.
ConsultGuard(w) ==
    /\ answer[w] # NoAnswer
    /\ answer[w].ok
    /\ Deliver(w)
    /\ BeginCheck(w, answer[w].ticket)
    /\ UNCHANGED openedIn

\* The critical section of check_and_record.
CheckGuarded(w) ==
    /\ CheckFresh(w) \/ CheckReplayed(w)
    /\ UNCHANGED <<ticketerVars, openedIn>>

\* Some(plaintext) for Fresh, None for Replayed.
ReturnGuarded(w) ==
    /\ Return(w)
    /\ openedIn' = [openedIn EXCEPT ![w] = NotOpened]
    /\ UNCHANGED ticketerVars

\* Somebody who kept the Arc of the inner ticketer rotates its keys.
Rotate(r) ==
    /\ Generate(r) \/ Install(r)
    /\ UNCHANGED <<guardVars, openedIn>>

TickGuarded ==
    /\ Tick
    /\ UNCHANGED <<ticketerVars, openedIn>>

Next ==
    \/ \E t \in Ticket : EncryptGuarded(t)
    \/ \E w \in Worker : \/ DecryptInner(w) \/ RejectUnopened(w) \/ ConsultGuard(w)
                         \/ CheckGuarded(w) \/ ReturnGuarded(w)
    \/ \E r \in Rotator : Rotate(r)
    \/ TickGuarded

Spec == Init /\ [][Next]_vars

-----------------------------------------------------------------------------
(***************************************************************************)
(* "The replay table cannot be poisoned" (anti_replay.rs, lines 233-236):  *)
(* a ticket that this server did not seal never gets an entry, whatever    *)
(* is presented concurrently.                                              *)
(***************************************************************************)
OnlySealedTicketsAreRecorded ==
    \A t \in Ticket : seen[t] # NotSeen => sealedBy[t] # NoKey

(***************************************************************************)
(* A session is resumed only from a ticket whose key was in one of the two *)
(* slots when this call opened it, although the key may have been rotated  *)
(* out before the guard was asked; and a key that is rotated out cannot be *)
(* used to open a ticket again.                                            *)
(***************************************************************************)
ResumedFromLiveKey ==
    \A w \in Worker : pc[w] = "fresh" =>
        /\ openedIn[w] # NotOpened
        /\ sealedAt[arg[w]] \in {openedIn[w], openedIn[w] - 1}

-----------------------------------------------------------------------------
\* What a call knows of a ticket that its inner decrypt has opened.
Backed(w, t) ==
    /\ sealedBy[t] # NoKey
    /\ openedIn[w] # NotOpened
    /\ sealedAt[t] \in {openedIn[w], openedIn[w] - 1}

\* From the inner decrypt to the verdict of the guard, a call is about a ticket
\* that the inner ticketer opened for it.
CallsAreBacked ==
    \A w \in Worker :
        /\ pc[w] # "idle" => answer[w] = NoAnswer /\ Backed(w, arg[w])
        /\ answer[w] # NoAnswer /\ answer[w].ok => Backed(w, answer[w].ticket)

\* The inductive invariant, on top of those of the two parts.
AntiReplayInv ==
    /\ GuardInv /\ TicketerInv
    /\ openedIn \in [Worker -> Nat \cup {NotOpened}]
    /\ CallsAreBacked
    /\ OnlySealedTicketsAreRecorded
=============================================================================
