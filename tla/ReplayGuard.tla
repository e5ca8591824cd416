----------------------------- MODULE ReplayGuard -----------------------------
(***************************************************************************)
(* ReplayGuard::check_and_record of oxitls/src/anti_replay.rs, called by   *)
(* any number of handshake threads at once.  The clock is read BEFORE the  *)
(* mutex is taken, so a call has two steps with arbitrary interleaving in  *)
(* between: BeginCheck (digest and clock reading) and Check (the critical  *)
(* section: prune, look up, insert).  The SHA-256 digest is abstracted to  *)
(* the ticket itself: distinct tickets have distinct digests.              *)
(*                                                                         *)
(* Two assumptions are parameters.  MaxLag bounds how long a thread may be *)
(* descheduled between its clock reading and its critical section.         *)
(* ClockSkew bounds how far the wall clock behind SystemClock is off real  *)
(* time at any reading: SystemTime is stepped by NTP or an administrator   *)
(* in both directions, so it is not the monotonic source that the Clock    *)
(* trait asks for.                                                         *)
(***************************************************************************)
EXTENDS Integers, TicketConstants

VARIABLES now,       \* real time
          seen,      \* seen[t]: recorded_at of t in the table, or NotSeen
          pc,        \* pc[w]: "idle", "clocked", "fresh", "replayed"
          arg,       \* arg[w]: the ticket of w's call
          stamp,     \* stamp[w]: the local variable `now' of w's call
          readAt,    \* readAt[w]: real time at which w read the clock
          lastUse,   \* history: real time of the last Fresh verdict for a ticket
          uses       \* history: number of Fresh verdicts for a ticket

guardVars == <<now, seen, pc, arg, stamp, readAt, lastUse, uses>>

NotSeen == -1
Never   == -1

(***************************************************************************)
(* SystemClock::unix_seconds: seconds since the epoch, 0 when the wall     *)
(* clock stands before it (unwrap_or(Duration::ZERO)).                     *)
(***************************************************************************)
ClockReadings == {IF n < 0 THEN 0 ELSE n : n \in (now - ClockSkew)..(now + ClockSkew)}

SaturatingSub(a, b) == IF a < b THEN 0 ELSE a - b

\* Faulty variant of Prune: an entry is dropped one second too early.
PruneTooEarly(n) ==
    [t \in Ticket |-> IF seen[t] # NotSeen /\ SaturatingSub(n, seen[t]) < Window
                      THEN seen[t] ELSE NotSeen]

\* The table after `guard.retain(...)' in a call whose clock reading is n.
Prune(n) ==
    [t \in Ticket |-> IF /\ seen[t] # NotSeen
                         /\ SaturatingSub(n, seen[t]) <= Window
                      THEN seen[t]
                      ELSE NotSeen]

GuardInit ==
    /\ now = 0
    /\ seen = [t \in Ticket |-> NotSeen]
    /\ pc = [w \in Worker |-> "idle"]
    /\ arg = [w \in Worker |-> NoTicket]
    /\ stamp = [w \in Worker |-> 0]
    /\ readAt = [w \in Worker |-> 0]
    /\ lastUse = [t \in Ticket |-> Never]
    /\ uses = [t \in Ticket |-> 0]

\* check_and_record up to, and not including, `self.seen.lock()'.
BeginCheck(w, t) ==
    /\ pc[w] = "idle"
    /\ pc' = [pc EXCEPT ![w] = "clocked"]
    /\ arg' = [arg EXCEPT ![w] = t]
    /\ \E n \in ClockReadings : stamp' = [stamp EXCEPT ![w] = n]
    /\ readAt' = [readAt EXCEPT ![w] = now]
    /\ UNCHANGED <<now, seen, lastUse, uses>>

\* The critical section, Entry::Vacant: record the clock reading, Fresh.
CheckFresh(w) ==
    LET pruned == Prune(stamp[w])
    IN  /\ pc[w] = "clocked"
        /\ pruned[arg[w]] = NotSeen
        /\ seen' = [pruned EXCEPT ![arg[w]] = stamp[w]]
        /\ pc' = [pc EXCEPT ![w] = "fresh"]
        /\ lastUse' = [lastUse EXCEPT ![arg[w]] = now]
        /\ uses' = [uses EXCEPT ![arg[w]] = @ + 1]
        /\ UNCHANGED <<now, arg, stamp, readAt>>

\* Faulty variant: a replayed ticket's timestamp is refreshed.
CheckReplayedRefreshing(w) ==
    /\ pc[w] = "clocked"
    /\ Prune(stamp[w])[arg[w]] # NotSeen
    /\ seen' = [Prune(stamp[w]) EXCEPT ![arg[w]] = stamp[w]]
    /\ pc' = [pc EXCEPT ![w] = "replayed"]
    /\ UNCHANGED <<now, arg, stamp, readAt, lastUse, uses>>

\* The critical section, Entry::Occupied: the first timestamp is preserved.
CheckReplayed(w) ==
    LET pruned == Prune(stamp[w])
    IN  /\ pc[w] = "clocked"
        /\ pruned[arg[w]] # NotSeen
        /\ seen' = pruned
        /\ pc' = [pc EXCEPT ![w] = "replayed"]
        /\ UNCHANGED <<now, arg, stamp, readAt, lastUse, uses>>

\* The verdict is returned to the caller and the call's locals are gone.
Return(w) ==
    /\ pc[w] \in {"fresh", "replayed"}
    /\ pc' = [pc EXCEPT ![w] = "idle"]
    /\ arg' = [arg EXCEPT ![w] = NoTicket]
    /\ stamp' = [stamp EXCEPT ![w] = 0]
    /\ readAt' = [readAt EXCEPT ![w] = 0]
    /\ UNCHANGED <<now, seen, lastUse, uses>>

\* Time passes; no thread stays between its two steps longer than MaxLag.
Tick ==
    /\ now < MaxTime
    /\ \A w \in Worker : pc[w] = "clocked" => now + 1 - readAt[w] <= MaxLag
    /\ now' = now + 1
    /\ UNCHANGED <<seen, pc, arg, stamp, readAt, lastUse, uses>>

GuardNext ==
    \/ \E w \in Worker, t \in Ticket : BeginCheck(w, t)
    \/ \E w \in Worker : CheckFresh(w) \/ CheckReplayed(w) \/ Return(w)
    \/ Tick

GuardSpec == GuardInit /\ [][GuardNext]_guardVars

-----------------------------------------------------------------------------
GuardTypeOK ==
    /\ now \in Nat
    /\ seen \in [Ticket -> Nat \cup {NotSeen}]
    /\ pc \in [Worker -> {"idle", "clocked", "fresh", "replayed"}]
    /\ arg \in [Worker -> Ticket \cup {NoTicket}]
    /\ \A w \in Worker : pc[w] # "idle" => arg[w] \in Ticket
    /\ stamp \in [Worker -> Nat]
    /\ readAt \in [Worker -> Nat]
    /\ lastUse \in [Ticket -> Nat \cup {Never}]
    /\ uses \in [Ticket -> Nat]

-----------------------------------------------------------------------------
(***************************************************************************)
(* The distances that the code guarantees under the two bounds.            *)
(***************************************************************************)
Lower == Window - MaxLag - 2 * ClockSkew
Upper == Window + MaxLag + 2 * ClockSkew

(***************************************************************************)
(* Between its two steps a thread holds a clock reading that is at most    *)
(* MaxLag seconds old and was at most ClockSkew off when it was taken.     *)
(***************************************************************************)
StampsAreRecent ==
    \A w \in Worker : pc[w] = "clocked" =>
        /\ readAt[w] <= now
        /\ now <= readAt[w] + MaxLag
        /\ readAt[w] - ClockSkew <= stamp[w]
        /\ stamp[w] <= readAt[w] + ClockSkew

(***************************************************************************)
(* An entry of the table belongs to the last use of its ticket: entries    *)
(* are created by a Fresh verdict only, and threads that prune or insert   *)
(* with old clock readings do not replace one entry by an older one.       *)
(***************************************************************************)
EntriesMatchLastUse ==
    \A t \in Ticket : seen[t] # NotSeen =>
        /\ lastUse[t] # Never
        /\ lastUse[t] - MaxLag - ClockSkew <= seen[t]
        /\ seen[t] <= lastUse[t] + ClockSkew

(***************************************************************************)
(* A ticket that was used less than Lower seconds ago is still in the      *)
(* table, whatever the threads that prune it have read from the clock.     *)
(***************************************************************************)
RecentUsesAreRemembered ==
    \A t \in Ticket :
        (lastUse[t] # Never /\ now - lastUse[t] <= Lower) => seen[t] # NotSeen

\* The inductive invariant: what the other parts need to be preserved by a step.
GuardInv ==
    /\ GuardTypeOK
    /\ StampsAreRecent
    /\ EntriesMatchLastUse
    /\ RecentUsesAreRemembered

SU == INSTANCE SingleUse WITH
          call   <- [w \in Worker |-> IF pc[w] = "clocked" THEN "busy" ELSE pc[w]],
          ticket <- arg

(***************************************************************************)
(* check_and_record implements SingleUse: threads racing on the table can  *)
(* never both get Fresh for one ticket within Lower seconds, and a         *)
(* Replayed verdict is only given for a ticket that was used within Upper  *)
(* seconds (no ticket is refused that was never used).                     *)
(***************************************************************************)
ImplementsSingleUse == SU!Spec
=============================================================================
