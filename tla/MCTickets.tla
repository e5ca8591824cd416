------------------------------ MODULE MCTickets ------------------------------
(***************************************************************************)
(* Model-checking instance of the modules about session tickets.  A server *)
(* runs one of three deployments, chosen at the start: an application that *)
(* calls ReplayGuard itself, an OxiTicketer without replay protection, or  *)
(* the OxiTicketer inside an AntiReplayTicketer.  The first two have the   *)
(* larger bounds; in the third the rotating threads, the keys and the      *)
(* clock are bounded by GuardedRotator, GuardedKeys and GuardedTime.  The  *)
(* properties of ticketer and guard are those of their modules and are     *)
(* checked in all three: rotations between the inner decryption and the    *)
(* guard do not let a ticket be resumed twice either.                      *)
(***************************************************************************)
EXTENDS AntiReplayTicketer, TLC

CONSTANTS GuardedRotator,  \* threads that rotate in the guarded deployment
          GuardedKeys,     \* bound on the keys generated in the guarded deployment
          GuardedTime      \* bound on the clock in the guarded deployment

VARIABLE deployment  \* "guard", "ticketer" or "guarded"

MCInit ==
    /\ Init
    /\ deployment \in {"guard", "ticketer", "guarded"}

GuardAlone ==
    /\ deployment = "guard"
    /\ GuardNext
    /\ UNCHANGED <<ticketerVars, openedIn>>

TicketerAlone ==
    /\ deployment = "ticketer"
    /\ TicketerNext
    /\ UNCHANGED <<guardVars, openedIn>>

Guarded ==
    /\ deployment = "guarded"
    /\ Next
    /\ \A r \in Rotator \ GuardedRotator : pending'[r] = pending[r]
    /\ generated' <= GuardedKeys
    /\ now' <= GuardedTime

MCNext == (GuardAlone \/ TicketerAlone \/ Guarded) /\ UNCHANGED deployment

MCSpec == MCInit /\ [][MCNext]_<<vars, deployment>>

Symmetry == Permutations(Worker) \cup Permutations(Ticket)

-----------------------------------------------------------------------------
\* Behind the decorator, only tickets that this server sealed get an entry.
GuardedTicketsWereSealed == deployment = "guarded" => OnlySealedTicketsAreRecorded

\* Behind the decorator, a session is resumed only from a ticket whose key was
\* in one of the two slots when this call opened it.
GuardedTicketsWereLive == deployment = "guarded" => ResumedFromLiveKey
=============================================================================
