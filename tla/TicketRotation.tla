---------------------------- MODULE TicketRotation ----------------------------
(***************************************************************************)
(* The background key rotation of ServerBuilder (oxitls/src/tls13/         *)
(* server.rs): with_ticketer_rotation_interval puts one shared OxiTicketer *)
(* into the builder, and every build() installs it in the new ServerConfig *)
(* and spawns a tokio task that rotates it on each tick of an interval     *)
(* timer for as long as a Weak reference can be upgraded.  A builder may   *)
(* be consumed by build() or kept and built from clones, which is what     *)
(* GenericTlsAcceptor::accept (oxitls/src/lib.rs) does per connection.     *)
(*                                                                         *)
(* Rotations are the atomic steps of TicketEpochs.tla, which OxiTicketer   *)
(* is proved to implement; a ticket is represented by the number of        *)
(* rotations since it was sealed, and it opens while that is at most 1.    *)
(* Time is relative: a task carries the seconds left until its next tick,  *)
(* a ticket the seconds since it was sealed, so that behaviours need no    *)
(* bound on the clock.                                                     *)
(***************************************************************************)
EXTENDS Integers

CONSTANTS Instance,     \* one element per build(): its ServerConfig and its task
          Ticket,       \* ticket identities
          Interval,     \* effective_interval in seconds, after the clamp to >= 1
          MaxDelay,     \* bound: how late the runtime polls a due timer, in seconds
          MaxFailures,  \* bound: number of OS RNG failures
          MaxAge        \* ages of tickets are counted up to here

ASSUME TicketRotationAssumption ==
    /\ Interval \in Nat \ {0}
    /\ MaxDelay \in Nat
    /\ MaxFailures \in Nat
    /\ MaxAge \in Nat
    \* Ages are counted beyond what the properties tell apart.
    /\ MaxAge > (2 + MaxFailures) * Interval + 2 * MaxDelay

VARIABLES builder,   \* TRUE while somebody holds the ServerBuilder
          configs,   \* configs[c]: "unbuilt", "live", "dropped"
          task,      \* task[c]: "unspawned", "waiting", "exited"
          due,       \* due[c]: seconds until the next tick of c's timer, negative when late
          age,       \* age[t]: seconds since t was sealed
          swaps,     \* swaps[t]: rotations since t was sealed, up to 2; Unsealed before
          failures   \* number of rotations that failed

rotationVars == <<builder, configs, task, due, age, swaps, failures>>

Unsealed == -1

\* Faulty variant: the task keeps a strong reference to the ticketer.
HeldByTask == builder \/ (\E c \in Instance : configs[c] = "live" \/ task[c] = "waiting")

\* weak.upgrade() succeeds: the builder or a config owns a strong reference.
TicketerAlive == builder \/ (\E c \in Instance : configs[c] = "live")

RotationInit ==
    /\ builder = TRUE
    /\ configs = [c \in Instance |-> "unbuilt"]
    /\ task = [c \in Instance |-> "unspawned"]
    /\ due = [c \in Instance |-> 0]
    /\ age = [t \in Ticket |-> 0]
    /\ swaps = [t \in Ticket |-> Unsealed]
    /\ failures = 0

\* build(): install the ticketer and spawn the task.  The timer starts when
\* the task is first polled; its first, immediate tick is skipped.
SpawnRotation(c) ==
    /\ builder
    /\ configs[c] = "unbuilt"
    /\ configs' = [configs EXCEPT ![c] = "live"]
    /\ task' = [task EXCEPT ![c] = "waiting"]
    /\ \E late \in 0..MaxDelay : due' = [due EXCEPT ![c] = Interval + late]
    /\ UNCHANGED <<age, swaps, failures>>

\* builder.build(): the builder is consumed.
BuildConsuming(c) ==
    /\ SpawnRotation(c)
    /\ builder' = FALSE

\* builder.clone().build(), or GenericTlsAcceptor::accept(&builder, ...).
BuildFromClone(c) ==
    /\ SpawnRotation(c)
    /\ UNCHANGED builder

DropBuilder ==
    /\ builder
    /\ builder' = FALSE
    /\ UNCHANGED <<configs, task, due, age, swaps, failures>>

\* The server, or the last connection that uses c's config, is closed.
DropConfig(c) ==
    /\ configs[c] = "live"
    /\ configs' = [configs EXCEPT ![c] = "dropped"]
    /\ UNCHANGED <<builder, task, due, age, swaps, failures>>

\* A connection on a live config is sent a ticket.
Seal(t) ==
    /\ \E c \in Instance : configs[c] = "live"
    /\ swaps[t] = Unsealed
    /\ swaps' = [swaps EXCEPT ![t] = 0]
    /\ age' = [age EXCEPT ![t] = 0]
    /\ UNCHANGED <<builder, configs, task, due, failures>>

\* A timer fires: a missed tick does not move the later ones
\* (MissedTickBehavior::Burst, the default of tokio::time::interval).
Fires(c) ==
    /\ task[c] = "waiting"
    /\ due[c] <= 0
    /\ due' = [due EXCEPT ![c] = @ + Interval]

\* Faulty variant: a failed rotation ends the task.
GiveUp(c) ==
    /\ Fires(c)
    /\ TicketerAlive
    /\ failures < MaxFailures
    /\ failures' = failures + 1
    /\ task' = [task EXCEPT ![c] = "exited"]
    /\ UNCHANGED <<builder, configs, age, swaps>>

\* strong.rotate() returns Err: a warning is logged and the loop goes on.
RotateFails(c) ==
    /\ Fires(c)
    /\ TicketerAlive
    /\ failures < MaxFailures
    /\ failures' = failures + 1
    /\ UNCHANGED <<builder, configs, task, age, swaps>>

\* Faulty variant: one tick rotates twice (the skipped first tick rotates too).
RotateTwice(c) ==
    /\ Fires(c)
    /\ TicketerAlive
    /\ swaps' = [t \in Ticket |-> IF swaps[t] = Unsealed THEN Unsealed ELSE 2]
    /\ UNCHANGED <<builder, configs, task, age, failures>>

\* strong.rotate() returns Ok.
Rotate(c) ==
    /\ Fires(c)
    /\ TicketerAlive
    /\ swaps' = [t \in Ticket |-> IF swaps[t] \in {0, 1} THEN swaps[t] + 1 ELSE swaps[t]]
    /\ UNCHANGED <<builder, configs, task, age, failures>>

\* The upgrade fails: break out of the loop.
Exit(c) ==
    /\ Fires(c)
    /\ ~TicketerAlive
    /\ task' = [task EXCEPT ![c] = "exited"]
    /\ UNCHANGED <<builder, configs, age, swaps, failures>>

\* A second passes; no due timer waits longer than MaxDelay for its task.
Tick ==
    /\ \A c \in Instance : task[c] = "waiting" => due[c] > -MaxDelay
    /\ due' = [c \in Instance |-> IF task[c] = "waiting" THEN due[c] - 1 ELSE due[c]]
    /\ age' = [t \in Ticket |-> IF swaps[t] # Unsealed /\ age[t] < MaxAge
                                THEN age[t] + 1 ELSE age[t]]
    /\ UNCHANGED <<builder, configs, task, swaps, failures>>

RotationNext ==
    \/ DropBuilder
    \/ \E c \in Instance : \/ BuildConsuming(c) \/ BuildFromClone(c) \/ DropConfig(c)
                           \/ Rotate(c) \/ RotateFails(c) \/ Exit(c)
    \/ \E t \in Ticket : Seal(t)
    \/ Tick

(***************************************************************************)
(* The runtime polls a task whose timer is due, and time passes.  Builds,  *)
(* drops and handshakes are the application's choice and are not fair.     *)
(***************************************************************************)
RotationFairness ==
    /\ WF_rotationVars(Tick)
    /\ \A c \in Instance : WF_rotationVars(Rotate(c) \/ RotateFails(c) \/ Exit(c))

RotationSpec == RotationInit /\ [][RotationNext]_rotationVars /\ RotationFairness

-----------------------------------------------------------------------------
RotationTypeOK ==
    /\ builder \in BOOLEAN
    /\ configs \in [Instance -> {"unbuilt", "live", "dropped"}]
    /\ task \in [Instance -> {"unspawned", "waiting", "exited"}]
    /\ due \in [Instance -> (-MaxDelay)..(Interval + MaxDelay)]
    /\ age \in [Ticket -> 0..MaxAge]
    /\ swaps \in [Ticket -> {Unsealed, 0, 1, 2}]
    /\ failures \in 0..MaxFailures

(***************************************************************************)
(* "Kept for one cycle so in-flight tickets remain decryptable"            *)
(* (server.rs, lines 415-417): a ticket can be opened for at least one     *)
(* interval after it was sealed, less the lateness of the timer that       *)
(* retires its key.                                                        *)
(***************************************************************************)
InFlightTicketsSurvive ==
    \A t \in Ticket :
        (swaps[t] # Unsealed /\ age[t] < Interval - MaxDelay) => swaps[t] <= 1

Spawned == {c \in Instance : task[c] # "unspawned"}

(***************************************************************************)
(* The same for a builder that is built once: the one rotation task never  *)
(* retires a key before tickets had their interval, however late it runs   *)
(* and even when rotations fail.                                           *)
(***************************************************************************)
SoleTaskKeepsTickets ==
    (\A c, d \in Spawned : c = d) => InFlightTicketsSurvive

NoLiveConfig == \A c \in Instance : configs[c] # "live"
Orphaned == ~builder /\ NoLiveConfig

(***************************************************************************)
(* Keys are retired: no ticket opens longer than two intervals after it    *)
(* was sealed, plus one interval for each rotation that failed and the     *)
(* lateness of the start and of the last tick, unless everybody is gone.   *)
(***************************************************************************)
KeysAreRetired ==
    \A t \in Ticket :
        (/\ swaps[t] # Unsealed
         /\ ~Orphaned
         /\ age[t] > (2 + failures) * Interval + 2 * MaxDelay) => swaps[t] = 2

-----------------------------------------------------------------------------
\* A config and its task begin together, and no task ends while the ticketer lives.
TasksServeConfigs ==
    /\ \A c \in Instance : configs[c] = "unbuilt" <=> task[c] = "unspawned"
    /\ TicketerAlive => \A c \in Instance : task[c] # "exited"
    /\ Spawned = {} => \A t \in Ticket : swaps[t] = Unsealed

(***************************************************************************)
(* A sole task that has rotated once since t was sealed fires again no     *)
(* sooner than an interval after that, less its lateness.                  *)
(***************************************************************************)
SoleTaskIsSlow ==
    \A c \in Instance, t \in Ticket : Spawned = {c} =>
        /\ swaps[t] = 1 => age[t] + due[c] >= Interval - MaxDelay \/ age[t] = MaxAge
        /\ swaps[t] = 2 => age[t] >= Interval - MaxDelay

(***************************************************************************)
(* While the ticketer lives, some task keeps pace with every ticket: each  *)
(* interval since the ticket was sealed is accounted for by a rotation or  *)
(* by a failure.                                                           *)
(***************************************************************************)
SomeTaskKeepsPace ==
    ~Orphaned => \A t \in Ticket : swaps[t] \in {0, 1} =>
        \E c \in Instance :
            /\ task[c] = "waiting"
            /\ age[t] + due[c] <= (1 + swaps[t] + failures) * Interval + MaxDelay

\* The inductive invariant behind SoleTaskKeepsTickets and KeysAreRetired.
RotationInv ==
    /\ RotationTypeOK
    /\ TasksServeConfigs
    /\ SoleTaskIsSlow
    /\ SomeTaskKeepsPace

(***************************************************************************)
(* No task outlives the ticketer: once the builder and every config are    *)
(* gone, every rotation task ends by itself, although nobody cancels it.   *)
(***************************************************************************)
OrphanedTasksExit ==
    Orphaned ~> (\A c \in Instance : task[c] # "waiting")
=============================================================================
