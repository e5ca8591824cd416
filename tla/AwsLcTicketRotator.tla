-------------------------- MODULE AwsLcTicketRotator --------------------------
(***************************************************************************)
(* AwsLcTicketRotator of oxitls-adapter-aws-lc/src/ticketer.rs: a ticketer *)
(* with a current and a previous key, and a task of its own that rotates   *)
(* them until the ticketer is dropped.  Unlike the task of ServerBuilder,  *)
(* it takes the interval as it is given: zero, or a part of a second.      *)
(*                                                                         *)
(* One ticket is followed, by the slot that its key is in.  Time is        *)
(* relative and counted in units, PerSecond of them to the second.  No     *)
(* code panics while it holds the lock, so that it is never poisoned.      *)
(***************************************************************************)
EXTENDS Integers

CONSTANTS RotatorInterval,  \* rotation intervals, in units
          PerSecond,        \* units in a second
          LifetimeCap,      \* stands for u32::MAX, in seconds
          RotatorDelay,     \* bound: how late the runtime polls the task, in units
          RotatorFailures,  \* bound: number of RNG failures
          RotatorAge        \* the age of the ticket is counted up to here

ASSUME AwsLcTicketRotatorAssumption ==
    /\ RotatorInterval \subseteq Nat
    /\ PerSecond \in Nat \ {0}
    /\ LifetimeCap \in Nat \ {0}
    /\ {RotatorDelay, RotatorFailures, RotatorAge} \subseteq Nat
    \* Ages are counted beyond what the property tells apart.
    /\ \A i \in RotatorInterval : RotatorAge > (2 + RotatorFailures) * i + 2 * RotatorDelay

VARIABLES rotator,     \* the interval and the lifetime_secs, or NoRotator
          ticker,      \* "none", "spawned", "waiting", "panicked", "aborted"
          untilTick,   \* units until the task is due, negative when it is late
          slot,        \* where the key of the ticket is: "unsealed", "current", "previous", "gone"
          ticketAge,   \* units since the ticket was sealed
          rngFailures

rotatorVars == <<rotator, ticker, untilTick, slot, ticketAge, rngFailures>>

NoRotator == [interval |-> 0, lifetime |-> 0]

Lesser(x, y) == IF x < y THEN x ELSE y

\* Faulty variant of LifetimeSecs: the previous key is forgotten.
LifetimeSecsOfOneKey(interval) ==
    LET secs == interval \div PerSecond
    IN  Lesser(IF secs = 0 THEN 1 ELSE secs, LifetimeCap)

\* lifetime_secs, from as_secs() clamped to at least 1.
LifetimeSecs(interval) ==
    LET secs == interval \div PerSecond
    IN  Lesser(2 * (IF secs = 0 THEN 1 ELSE secs), LifetimeCap)

RotatorInit ==
    /\ rotator = NoRotator
    /\ ticker = "none"
    /\ untilTick = 0
    /\ slot = "unsealed"
    /\ ticketAge = 0
    /\ rngFailures = 0

\* AwsLcTicketRotator::new; when the RNG fails there is no rotator.
NewRotator(i) ==
    /\ ticker = "none"
    /\ rotator' = [interval |-> i, lifetime |-> LifetimeSecs(i)]
    /\ ticker' = "spawned"
    /\ UNCHANGED <<untilTick, slot, ticketAge, rngFailures>>

\* The task is polled for the first time: tokio::time::interval panics on zero,
\* and the first tick is immediate.
StartTicker ==
    /\ ticker = "spawned"
    /\ ticker' = IF rotator.interval = 0 THEN "panicked" ELSE "waiting"
    /\ untilTick' = rotator.interval
    /\ UNCHANGED <<rotator, slot, ticketAge, rngFailures>>

\* A tick, at the time it was due or later (MissedTickBehavior::Burst).
TickerFires ==
    /\ ticker = "waiting"
    /\ untilTick <= 0
    /\ untilTick' = untilTick + rotator.interval
    /\ UNCHANGED <<rotator, ticker, ticketAge>>

\* RotatorState::rotate returns Ok.
RotateState ==
    /\ TickerFires
    /\ slot' = CASE slot = "current" -> "previous"
                 [] slot = "previous" -> "gone"
                 [] OTHER -> slot
    /\ UNCHANGED rngFailures

\* RotatorState::rotate returns Err, which is ignored.
RotateStateFails ==
    /\ TickerFires
    /\ rngFailures < RotatorFailures
    /\ rngFailures' = rngFailures + 1
    /\ UNCHANGED slot

\* encrypt, with the current key.
SealTicket ==
    /\ ticker \in {"spawned", "waiting", "panicked"}
    /\ slot = "unsealed"
    /\ slot' = "current"
    /\ ticketAge' = 0
    /\ UNCHANGED <<rotator, ticker, untilTick, rngFailures>>

\* decrypt, with the current key and then with the previous one.
Decrypts == ticker # "aborted" /\ slot \in {"current", "previous"}

\* The last reference is dropped, and with it both keys.
DropRotator ==
    /\ ticker \in {"spawned", "waiting", "panicked"}
    /\ ticker' = "aborted"
    /\ UNCHANGED <<rotator, untilTick, slot, ticketAge, rngFailures>>

\* A unit of time passes; the task waits for the runtime at most RotatorDelay.
TimePasses ==
    /\ ticker \in {"spawned", "waiting"} => untilTick > -RotatorDelay
    /\ untilTick' = IF ticker \in {"spawned", "waiting"} THEN untilTick - 1 ELSE untilTick
    /\ ticketAge' = IF slot # "unsealed" /\ ticketAge < RotatorAge THEN ticketAge + 1 ELSE ticketAge
    /\ UNCHANGED <<rotator, ticker, slot, rngFailures>>

RotatorNext ==
    \/ \E i \in RotatorInterval : NewRotator(i)
    \/ StartTicker
    \/ RotateState
    \/ RotateStateFails
    \/ SealTicket
    \/ DropRotator
    \/ TimePasses

RotatorSpec == RotatorInit /\ [][RotatorNext]_rotatorVars

-----------------------------------------------------------------------------
RotatorTypeOK ==
    /\ rotator \in {NoRotator} \cup {[interval |-> i, lifetime |-> LifetimeSecs(i)] : i \in RotatorInterval}
    /\ ticker \in {"none", "spawned", "waiting", "panicked", "aborted"}
    /\ untilTick \in Int
    /\ slot \in {"unsealed", "current", "previous", "gone"}
    /\ ticketAge \in 0..RotatorAge
    /\ rngFailures \in 0..RotatorFailures

(***************************************************************************)
(* lifetime() is what clients are told (ticketer.rs, lines 98 and          *)
(* 118-124).  A ticket opens for at least one interval, less the lateness  *)
(* of a tick; and, unless the interval is zero (the task panics and no key *)
(* is ever retired) or its double exceeds the cap, at most for the         *)
(* lifetime, plus what as_secs() cuts off, an interval for each failed     *)
(* rotation, and the lateness of the first poll and of the last tick.      *)
(***************************************************************************)
TicketsOpenForTheirLifetime ==
    LET i == rotator.interval
        slack == 2 * (i % PerSecond) + rngFailures * i + 2 * RotatorDelay
    IN  slot # "unsealed" /\ ticker # "aborted" =>
          /\ ticketAge < i - RotatorDelay => Decrypts
          /\ (i > 0 /\ 2 * i <= LifetimeCap * PerSecond) =>
               (ticketAge > rotator.lifetime * PerSecond + slack => ~Decrypts)

-----------------------------------------------------------------------------
\* When the task is due, and what it cannot have done yet.
TickerIsOnTime ==
    /\ ticker = "none" => untilTick = 0 /\ rotator = NoRotator /\ slot = "unsealed"
    /\ ticker = "spawned" => untilTick \in (-RotatorDelay)..0
    /\ ticker = "waiting" => /\ untilTick \in (-RotatorDelay)..rotator.interval
                             /\ rotator.interval > 0
    /\ ticker = "panicked" => rotator.interval = 0
    /\ ticker \in {"spawned", "panicked"} => slot \in {"unsealed", "current"}

(***************************************************************************)
(* The age of the ticket and the time until the next tick add up to the    *)
(* intervals that its key has been through: not less, as the task never    *)
(* fires early, and not more, as it is late by RotatorDelay at most.       *)
(***************************************************************************)
TicketKeepsPace ==
    LET i == rotator.interval
        total == ticketAge + untilTick
    IN  /\ ticker = "spawned" /\ slot = "current" => total <= 0
        /\ ticker = "waiting" =>
             /\ slot = "current" => total <= (1 + rngFailures) * i + RotatorDelay
             /\ slot = "previous" => /\ total <= (2 + rngFailures) * i + RotatorDelay
                                     /\ total >= i - RotatorDelay \/ ticketAge = RotatorAge
             /\ slot = "gone" => ticketAge >= i - RotatorDelay

\* The inductive invariant behind TicketsOpenForTheirLifetime.
RotatorInv == RotatorTypeOK /\ TickerIsOnTime /\ TicketKeepsPace
=============================================================================
