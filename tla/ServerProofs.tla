----------------------------- MODULE ServerProofs -----------------------------
(***************************************************************************)
(* Proofs about the server side: the rotation tasks of ServerBuilder       *)
(* (TicketRotation.tla), the AwsLcTicketRotator (AwsLcTicketRotator.tla)   *)
(* and the builder itself (ServerBuilder.tla), for any number of configs,  *)
(* tickets, providers and names, any interval and any lateness of the      *)
(* runtime.                                                                *)
(***************************************************************************)
EXTENDS ServerBuilder, TicketRotation, AwsLcTicketRotator, TLAPS

-----------------------------------------------------------------------------
(***************************************************************************)
(* Arithmetic that both clocks rest on: one more interval in a product,    *)
(* and a product with more intervals is not smaller.                       *)
(***************************************************************************)
LEMMA OneMore ==
    ASSUME NEW k \in Nat, NEW i \in Nat
    PROVE  (k + 1) * i = k * i + i
  OBVIOUS

\* More intervals take no less time.
LEMMA MoreIntervals ==
    ASSUME NEW k \in Nat, NEW n \in Nat, NEW i \in Nat, k <= n
    PROVE  k * i <= n * i
<1>1. PICK d \in Nat : n = k + d
    OBVIOUS
<1>2. n * i = k * i + d * i
    BY <1>1
<1>3. d * i \in Nat /\ k * i \in Nat
    OBVIOUS
<1> QED
    BY <1>2, <1>3

-----------------------------------------------------------------------------
(***************************************************************************)
(* The rotation tasks.  Initially nothing is built and nothing is sealed.  *)
(***************************************************************************)
LEMMA RotationInitInv == RotationInit => RotationInv
  BY TicketRotationAssumption
     DEF RotationInit, RotationInv, RotationTypeOK, TasksServeConfigs, SoleTaskIsSlow,
         SomeTaskKeepsPace, Spawned, Unsealed, TicketerAlive

\* Every step keeps the types: timers stay within their interval and their lateness.
LEMMA RotationTypeStep ==
    ASSUME RotationInv, [RotationNext]_rotationVars
    PROVE  RotationTypeOK'
<1> USE TicketRotationAssumption DEF RotationInv, RotationTypeOK, Unsealed
<1>1. CASE DropBuilder
    BY <1>1 DEF DropBuilder
<1>2. ASSUME NEW c \in Instance, SpawnRotation(c), builder' \in BOOLEAN
      PROVE  RotationTypeOK'
    BY <1>2 DEF SpawnRotation
<1>3. ASSUME NEW c \in Instance, BuildConsuming(c) \/ BuildFromClone(c)
      PROVE  RotationTypeOK'
    BY <1>2, <1>3 DEF BuildConsuming, BuildFromClone
<1>4. ASSUME NEW c \in Instance, DropConfig(c)
      PROVE  RotationTypeOK'
    BY <1>4 DEF DropConfig
<1>5. ASSUME NEW c \in Instance, Rotate(c)
      PROVE  RotationTypeOK'
    BY <1>5 DEF Rotate, Fires
<1>6. ASSUME NEW c \in Instance, RotateFails(c)
      PROVE  RotationTypeOK'
    BY <1>6 DEF RotateFails, Fires
<1>7. ASSUME NEW c \in Instance, Exit(c)
      PROVE  RotationTypeOK'
    BY <1>7 DEF Exit, Fires
<1>8. ASSUME NEW t \in Ticket, Seal(t)
      PROVE  RotationTypeOK'
    BY <1>8 DEF Seal
<1>9. CASE Tick
    BY <1>9 DEF Tick
<1>10. CASE UNCHANGED rotationVars
    BY <1>10 DEF rotationVars
<1> QED
    BY <1>1, <1>3, <1>4, <1>5, <1>6, <1>7, <1>8, <1>9, <1>10 DEF RotationNext

\* Every step keeps a task for each config, as long as the ticketer lives.
LEMMA TasksServeConfigsStep ==
    ASSUME RotationInv, [RotationNext]_rotationVars
    PROVE  TasksServeConfigs'
<1> USE DEF RotationInv, RotationTypeOK, TasksServeConfigs, TicketerAlive, Spawned
<1>1. CASE DropBuilder
    BY <1>1 DEF DropBuilder
<1>2. ASSUME NEW c \in Instance, SpawnRotation(c)
      PROVE  TasksServeConfigs'
    BY <1>2 DEF SpawnRotation
<1>3. ASSUME NEW c \in Instance, BuildConsuming(c) \/ BuildFromClone(c)
      PROVE  TasksServeConfigs'
    BY <1>2, <1>3 DEF BuildConsuming, BuildFromClone
<1>4. ASSUME NEW c \in Instance, DropConfig(c)
      PROVE  TasksServeConfigs'
    BY <1>4 DEF DropConfig
<1>5. ASSUME NEW c \in Instance, Rotate(c)
      PROVE  TasksServeConfigs'
    BY <1>5 DEF Rotate, Fires, Unsealed
<1>6. ASSUME NEW c \in Instance, RotateFails(c)
      PROVE  TasksServeConfigs'
    BY <1>6 DEF RotateFails, Fires
<1>7. ASSUME NEW c \in Instance, Exit(c)
      PROVE  TasksServeConfigs'
    BY <1>7 DEF Exit, Fires
<1>8. ASSUME NEW t \in Ticket, Seal(t)
      PROVE  TasksServeConfigs'
    BY <1>8 DEF Seal
<1>9. CASE Tick
    BY <1>9 DEF Tick
<1>10. CASE UNCHANGED rotationVars
    BY <1>10 DEF rotationVars
<1> QED
    BY <1>1, <1>3, <1>4, <1>5, <1>6, <1>7, <1>8, <1>9, <1>10 DEF RotationNext

(***************************************************************************)
(* Every step keeps a sole task slow: a second build() ends the claim, a   *)
(* first one finds no ticket, and of the others only a tick of the timer   *)
(* and the passing of time change what is compared.                        *)
(***************************************************************************)
LEMMA SoleTaskIsSlowStep ==
    ASSUME RotationInv, [RotationNext]_rotationVars
    PROVE  SoleTaskIsSlow'
<1> USE TicketRotationAssumption DEF RotationInv, RotationTypeOK, SoleTaskIsSlow, Spawned, Unsealed
<1>1. CASE DropBuilder
    BY <1>1 DEF DropBuilder
<1>2. ASSUME NEW c \in Instance, SpawnRotation(c)
      PROVE  SoleTaskIsSlow'
  <2>1. Spawned' = Spawned \cup {c} /\ c \notin Spawned
    BY <1>2 DEF SpawnRotation, TasksServeConfigs
  <2>2. CASE Spawned = {}
    BY <1>2, <2>2 DEF SpawnRotation, TasksServeConfigs
  <2>3. CASE Spawned # {}
    BY <2>1, <2>3
  <2> QED
    BY <2>2, <2>3
<1>3. ASSUME NEW c \in Instance, BuildConsuming(c) \/ BuildFromClone(c)
      PROVE  SoleTaskIsSlow'
    BY <1>2, <1>3 DEF BuildConsuming, BuildFromClone
<1>4. ASSUME NEW c \in Instance, DropConfig(c)
      PROVE  SoleTaskIsSlow'
    BY <1>4 DEF DropConfig
<1>5. ASSUME NEW c \in Instance, Rotate(c)
      PROVE  SoleTaskIsSlow'
  <2> SUFFICES ASSUME NEW d \in Instance, NEW t \in Ticket, Spawned = {d}
               PROVE  /\ swaps'[t] = 1 => age[t] + due'[d] >= Interval - MaxDelay
                      /\ swaps'[t] = 2 => age[t] >= Interval - MaxDelay
    BY <1>5 DEF Rotate
  <2>1. d = c /\ due[c] <= 0 /\ due'[c] = due[c] + Interval
    BY <1>5 DEF Rotate, Fires
  <2>2. age[t] \in 0..MaxAge /\ due[c] \in (-MaxDelay)..(Interval + MaxDelay)
    OBVIOUS
  <2>3. CASE swaps[t] = 0
    BY <1>5, <2>1, <2>2, <2>3 DEF Rotate
  <2>4. CASE swaps[t] = 1
    <3>1. age[t] >= Interval - MaxDelay
      <4>1. MaxAge >= Interval
        <5>1. (2 + MaxFailures) * Interval >= 1 * Interval
          BY MoreIntervals
        <5> QED
          BY <5>1
      <4> QED
        BY <2>1, <2>2, <2>4, <4>1
    <3> QED
      BY <1>5, <2>4, <3>1 DEF Rotate
  <2>5. CASE swaps[t] \in {-1, 2}
    BY <1>5, <2>5 DEF Rotate
  <2> QED
    BY <2>3, <2>4, <2>5
<1>6. ASSUME NEW c \in Instance, RotateFails(c)
      PROVE  SoleTaskIsSlow'
    BY <1>6 DEF RotateFails, Fires
<1>7. ASSUME NEW c \in Instance, Exit(c)
      PROVE  SoleTaskIsSlow'
    BY <1>7 DEF Exit, Fires
<1>8. ASSUME NEW t \in Ticket, Seal(t)
      PROVE  SoleTaskIsSlow'
    BY <1>8 DEF Seal
<1>9. CASE Tick
    BY <1>9 DEF Tick
<1>10. CASE UNCHANGED rotationVars
    BY <1>10 DEF rotationVars
<1> QED
    BY <1>1, <1>3, <1>4, <1>5, <1>6, <1>7, <1>8, <1>9, <1>10 DEF RotationNext

\* Task c accounts for the age of t with k intervals and one late poll.
Paces(c, t, k) == task[c] = "waiting" /\ age[t] + due[c] <= k * Interval + MaxDelay

(***************************************************************************)
(* Every step keeps a task in pace with every ticket: a tick that rotates  *)
(* or fails pays for the interval that it adds to the timer.               *)
(***************************************************************************)
LEMMA SomeTaskKeepsPaceStep ==
    ASSUME RotationInv, [RotationNext]_rotationVars
    PROVE  SomeTaskKeepsPace'
<1> USE TicketRotationAssumption DEF RotationInv, RotationTypeOK, Unsealed
<1>0. ASSUME ~Orphaned, NEW t \in Ticket, swaps[t] \in {0, 1}
      PROVE  \E c \in Instance : Paces(c, t, 1 + swaps[t] + failures)
    BY <1>0 DEF SomeTaskKeepsPace, Paces
<1>a. ASSUME Orphaned' => Orphaned, Orphaned => Orphaned',
             \A t \in Ticket : ~Orphaned /\ swaps'[t] \in {0, 1} =>
                 \E c \in Instance : Paces(c, t, 1 + swaps[t] + failures)'
      PROVE  SomeTaskKeepsPace'
    BY <1>a DEF SomeTaskKeepsPace, Paces
<1>1. CASE DropBuilder
    BY <1>1 DEF DropBuilder, SomeTaskKeepsPace, Orphaned, NoLiveConfig
<1>2. ASSUME NEW c \in Instance, SpawnRotation(c)
      PROVE  SomeTaskKeepsPace'
  <2>1. ASSUME NEW d \in Instance, task[d] = "waiting"
        PROVE  task'[d] = "waiting" /\ due'[d] = due[d]
    BY <1>2, <2>1 DEF SpawnRotation, TasksServeConfigs
  <2> QED
    BY <1>2, <2>1 DEF SpawnRotation, SomeTaskKeepsPace, Orphaned, NoLiveConfig
<1>3. ASSUME NEW c \in Instance, BuildConsuming(c) \/ BuildFromClone(c)
      PROVE  SomeTaskKeepsPace'
    BY <1>2, <1>3 DEF BuildConsuming, BuildFromClone
<1>4. ASSUME NEW c \in Instance, DropConfig(c)
      PROVE  SomeTaskKeepsPace'
    BY <1>4 DEF DropConfig, SomeTaskKeepsPace, Orphaned, NoLiveConfig
<1>5. ASSUME NEW c \in Instance, Rotate(c)
      PROVE  SomeTaskKeepsPace'
  <2>1. Orphaned' <=> Orphaned
    BY <1>5 DEF Rotate, Orphaned, NoLiveConfig
  <2>2. ASSUME NEW t \in Ticket, ~Orphaned, swaps'[t] \in {0, 1}
        PROVE  \E d \in Instance : Paces(d, t, 1 + swaps[t] + failures)'
    <3>1. swaps[t] = 0 /\ swaps'[t] = 1
      BY <1>5, <2>2 DEF Rotate
    <3>2. PICK d \in Instance : Paces(d, t, 1 + 0 + failures)
      BY <1>0, <2>2, <3>1
    <3>3. due'[d] <= due[d] + Interval /\ due'[d] \in Int /\ due[d] \in Int /\ age[t] \in Int
      BY <1>5 DEF Rotate, Fires
    <3>4. (1 + 1 + failures) * Interval = (1 + 0 + failures) * Interval + Interval
      BY OneMore
    <3>5. age[t] + due'[d] <= (1 + 1 + failures) * Interval + MaxDelay
      BY <3>2, <3>3, <3>4 DEF Paces
    <3> QED
      BY <1>5, <3>1, <3>2, <3>5 DEF Rotate, Paces
  <2> QED
    BY <1>a, <2>1, <2>2
<1>6. ASSUME NEW c \in Instance, RotateFails(c)
      PROVE  SomeTaskKeepsPace'
  <2>1. Orphaned' <=> Orphaned
    BY <1>6 DEF RotateFails, Orphaned, NoLiveConfig
  <2>2. ASSUME NEW t \in Ticket, ~Orphaned, swaps'[t] \in {0, 1}
        PROVE  \E d \in Instance : Paces(d, t, 1 + swaps[t] + failures)'
    <3>1. swaps[t] \in {0, 1} /\ swaps' = swaps /\ failures' = failures + 1
      BY <1>6, <2>2 DEF RotateFails
    <3>2. PICK d \in Instance : Paces(d, t, 1 + swaps[t] + failures)
      BY <1>0, <2>2, <3>1
    <3>3. due'[d] <= due[d] + Interval /\ due'[d] \in Int /\ due[d] \in Int /\ age[t] \in Int
      BY <1>6 DEF RotateFails, Fires
    <3>4. (1 + swaps[t] + failures') * Interval = (1 + swaps[t] + failures) * Interval + Interval
      BY <3>1, OneMore
    <3>5. age[t] + due'[d] <= (1 + swaps[t] + failures') * Interval + MaxDelay
      BY <3>1, <3>2, <3>3, <3>4 DEF Paces
    <3> QED
      BY <1>6, <3>1, <3>2, <3>5 DEF RotateFails, Paces
  <2> QED
    BY <1>a, <2>1, <2>2
<1>7. ASSUME NEW c \in Instance, Exit(c)
      PROVE  SomeTaskKeepsPace'
    BY <1>7 DEF Exit, SomeTaskKeepsPace, Orphaned, NoLiveConfig, TicketerAlive
<1>8. ASSUME NEW t \in Ticket, Seal(t)
      PROVE  SomeTaskKeepsPace'
  <2>1. PICK c \in Instance : configs[c] = "live"
    BY <1>8 DEF Seal
  <2>2. task[c] = "waiting"
    BY <2>1 DEF TasksServeConfigs, TicketerAlive
  <2>3. 1 * Interval <= (1 + 0 + failures) * Interval
    BY MoreIntervals
  <2>4. Paces(c, t, 1 + swaps[t] + failures)'
    BY <1>8, <2>2, <2>3 DEF Seal, Paces
  <2>5. ASSUME NEW u \in Ticket, u # t, swaps'[u] \in {0, 1}
        PROVE  \E d \in Instance : Paces(d, u, 1 + swaps[u] + failures)'
    <3>1. swaps[u] \in {0, 1} /\ ~Orphaned
      BY <1>8, <2>1, <2>5 DEF Seal, Orphaned, NoLiveConfig
    <3> QED
      BY <1>0, <1>8, <2>5, <3>1 DEF Seal, Paces
  <2>6. Orphaned' <=> Orphaned
    BY <1>8 DEF Seal, Orphaned, NoLiveConfig
  <2> QED
    BY <1>a, <2>4, <2>5, <2>6
<1>9. CASE Tick
  <2>1. Orphaned' <=> Orphaned
    BY <1>9 DEF Tick, Orphaned, NoLiveConfig
  <2>2. ASSUME NEW t \in Ticket, ~Orphaned, swaps'[t] \in {0, 1}
        PROVE  \E d \in Instance : Paces(d, t, 1 + swaps[t] + failures)'
    <3>1. PICK d \in Instance : Paces(d, t, 1 + swaps[t] + failures)
      BY <1>0, <1>9, <2>2 DEF Tick
    <3>2. age'[t] + due'[d] <= age[t] + due[d] /\ {age'[t], due'[d], age[t], due[d]} \subseteq Int
      BY <1>9, <3>1 DEF Tick, Paces
    <3>3. (1 + swaps[t] + failures) * Interval \in Int
      OBVIOUS
    <3> QED
      BY <1>9, <3>1, <3>2, <3>3 DEF Tick, Paces
  <2> QED
    BY <1>a, <2>1, <2>2
<1>10. CASE UNCHANGED rotationVars
    BY <1>10 DEF rotationVars, SomeTaskKeepsPace, Orphaned, NoLiveConfig
<1> QED
    BY <1>1, <1>3, <1>4, <1>5, <1>6, <1>7, <1>8, <1>9, <1>10 DEF RotationNext

-----------------------------------------------------------------------------
\* RotationInv is inductive.
THEOREM RotationInvariant == RotationSpec => []RotationInv
<1>1. RotationInv /\ [RotationNext]_rotationVars => RotationInv'
    BY RotationTypeStep, TasksServeConfigsStep, SoleTaskIsSlowStep, SomeTaskKeepsPaceStep
       DEF RotationInv
<1> QED
    BY <1>1, RotationInitInv, PTL DEF RotationSpec

(***************************************************************************)
(* A builder that is built once never retires the key of a ticket before   *)
(* the ticket had its interval, whatever the interval and the lateness of  *)
(* the runtime are and however many rotations fail.                        *)
(***************************************************************************)
THEOREM SoleTasksKeepTickets == RotationSpec => []SoleTaskKeepsTickets
<1>1. RotationInv => SoleTaskKeepsTickets
  <2> SUFFICES ASSUME RotationInv, \A c, d \in Spawned : c = d,
                      NEW t \in Ticket, swaps[t] = 2
               PROVE  ~(age[t] < Interval - MaxDelay)
    BY DEF SoleTaskKeepsTickets, InFlightTicketsSurvive, RotationInv, RotationTypeOK, Unsealed
  <2>1. Spawned # {}
    BY DEF RotationInv, TasksServeConfigs, Unsealed
  <2>2. PICK c \in Instance : Spawned = {c}
    BY <2>1 DEF Spawned
  <2> QED
    BY <2>2, TicketRotationAssumption DEF RotationInv, SoleTaskIsSlow, RotationTypeOK
<1> QED
    BY <1>1, RotationInvariant, PTL

(***************************************************************************)
(* Keys are retired in time, by any number of tasks: a ticket opens for at *)
(* most two intervals, one more for every failed rotation, and the         *)
(* lateness of two polls.                                                  *)
(***************************************************************************)
THEOREM KeysAreRetiredInTime == RotationSpec => []KeysAreRetired
<1>1. RotationInv => KeysAreRetired
  <2> USE TicketRotationAssumption DEF RotationInv, RotationTypeOK, Unsealed
  <2> SUFFICES ASSUME RotationInv, NEW t \in Ticket, ~Orphaned, swaps[t] \in {0, 1}
               PROVE  age[t] <= (2 + failures) * Interval + 2 * MaxDelay
    BY DEF KeysAreRetired
  <2>1. PICK c \in Instance :
            age[t] + due[c] <= (1 + swaps[t] + failures) * Interval + MaxDelay
    BY DEF SomeTaskKeepsPace
  <2>2. (1 + swaps[t] + failures) * Interval <= (2 + failures) * Interval
    BY MoreIntervals
  <2>3. age[t] \in Int /\ due[c] \in Int /\ due[c] >= -MaxDelay
    OBVIOUS
  <2>4. /\ (1 + swaps[t] + failures) * Interval \in Int
        /\ (2 + failures) * Interval \in Int
    OBVIOUS
  <2> QED
    BY <2>1, <2>2, <2>3, <2>4
<1> QED
    BY <1>1, RotationInvariant, PTL

-----------------------------------------------------------------------------
(***************************************************************************)
(* The AwsLcTicketRotator.  The interval that it was given, or none, is a  *)
(* natural number, and fits into the ages that are counted.                *)
(***************************************************************************)
LEMMA RotatorIntervals ==
    ASSUME RotatorTypeOK
    PROVE  /\ rotator.interval \in Nat
           /\ rotator.interval > 0 =>
                /\ rotator.interval \in RotatorInterval
                /\ rotator.lifetime = LifetimeSecs(rotator.interval)
                /\ RotatorAge > rotator.interval
<1> USE AwsLcTicketRotatorAssumption
<1>1. rotator.interval \in Nat
    BY DEF RotatorTypeOK, NoRotator
<1>2. ASSUME rotator.interval > 0
      PROVE  /\ rotator.interval \in RotatorInterval
             /\ rotator.lifetime = LifetimeSecs(rotator.interval)
    BY <1>2 DEF RotatorTypeOK, NoRotator
<1>3. ASSUME rotator.interval > 0
      PROVE  RotatorAge > rotator.interval
  <2>1. 1 * rotator.interval <= (2 + RotatorFailures) * rotator.interval
    BY <1>1, MoreIntervals
  <2>2. (2 + RotatorFailures) * rotator.interval \in Int
    BY <1>1
  <2> QED
    BY <1>1, <1>2, <1>3, <2>1, <2>2
<1> QED
    BY <1>1, <1>2, <1>3

\* What an interval more is worth after f failures.
LEMMA Accounts ==
    ASSUME NEW f \in Nat, NEW i \in Nat
    PROVE  /\ {(1 + f) * i, (2 + f) * i, (3 + f) * i} \subseteq Nat
           /\ i <= (1 + f) * i
           /\ (2 + f) * i = (1 + f) * i + i
           /\ (3 + f) * i = (2 + f) * i + i
<1>1. 1 * i <= (1 + f) * i
    BY MoreIntervals
<1> QED
    BY <1>1

\* The first state satisfies the invariant.
LEMMA RotatorInitInv == RotatorInit => RotatorInv
  BY AwsLcTicketRotatorAssumption
     DEF RotatorInit, RotatorInv, RotatorTypeOK, TickerIsOnTime, TicketKeepsPace, NoRotator

(***************************************************************************)
(* Every step of the rotator keeps the clocks together: a tick pays for    *)
(* the interval that it adds by moving the key on or by a failure.         *)
(***************************************************************************)
LEMMA RotatorStepInv ==
    ASSUME RotatorInv, [RotatorNext]_rotatorVars
    PROVE  RotatorInv'
<1> USE AwsLcTicketRotatorAssumption DEF RotatorInv, RotatorTypeOK
<1> DEFINE i == rotator.interval
           total == ticketAge + untilTick
<1>i. i \in Nat /\ (i > 0 => RotatorAge > i)
    BY RotatorIntervals
<1>f. rngFailures \in Nat
    OBVIOUS
<1>p. /\ {(1 + rngFailures) * i, (2 + rngFailures) * i, (3 + rngFailures) * i} \subseteq Nat
      /\ i <= (1 + rngFailures) * i
      /\ (2 + rngFailures) * i = (1 + rngFailures) * i + i
      /\ (3 + rngFailures) * i = (2 + rngFailures) * i + i
    BY ONLY <1>i, <1>f, Accounts
<1>1. ASSUME NEW j \in RotatorInterval, NewRotator(j)
      PROVE  RotatorInv'
  <2>1. RotatorTypeOK'
    BY <1>1 DEF NewRotator
  <2>2. TickerIsOnTime' /\ TicketKeepsPace'
    BY <1>1 DEF NewRotator, TickerIsOnTime, TicketKeepsPace
  <2> QED
    BY <2>1, <2>2
<1>2. CASE StartTicker
  <2>1. RotatorTypeOK'
    BY <1>2, <1>i DEF StartTicker
  <2>2. TickerIsOnTime'
    BY <1>2, <1>i DEF StartTicker, TickerIsOnTime
  <2>3. ticketAge <= RotatorDelay \/ slot = "unsealed"
    BY <1>2 DEF StartTicker, TickerIsOnTime, TicketKeepsPace
  <2>4. TicketKeepsPace'
    BY <1>2, <1>i, <1>p, <2>3 DEF StartTicker, TickerIsOnTime, TicketKeepsPace
  <2> QED
    BY <2>1, <2>2, <2>4
<1>3. CASE RotateState
  <2>1. /\ ticker = "waiting" /\ ticker' = "waiting" /\ rotator' = rotator
        /\ ticketAge' = ticketAge /\ rngFailures' = rngFailures
        /\ untilTick <= 0 /\ untilTick' = untilTick + i
        /\ slot' = CASE slot = "current" -> "previous"
                     [] slot = "previous" -> "gone"
                     [] OTHER -> slot
    BY <1>3 DEF RotateState, TickerFires
  <2>2. untilTick >= -RotatorDelay /\ i > 0 /\ untilTick \in Int /\ ticketAge \in Nat
    BY <2>1 DEF TickerIsOnTime
  <2>3. RotatorTypeOK'
    BY <1>i, <2>1
  <2>4. TickerIsOnTime'
    BY <1>i, <2>1, <2>2 DEF TickerIsOnTime
  <2>5. slot = "current" => /\ total + i <= (2 + rngFailures) * i + RotatorDelay
                            /\ total + i >= i - RotatorDelay
    BY <1>i, <1>p, <2>1, <2>2 DEF TicketKeepsPace
  <2>6. slot \in {"previous", "gone"} => ticketAge >= i - RotatorDelay
    BY <1>i, <2>1, <2>2 DEF TicketKeepsPace
  <2>7. ticketAge' + untilTick' = total + i
    BY <1>i, <2>1, <2>2
  <2>8. TicketKeepsPace'
    BY <2>1, <2>5, <2>6, <2>7 DEF TicketKeepsPace
  <2> QED
    BY <2>3, <2>4, <2>8
<1>4. CASE RotateStateFails
  <2>1. /\ ticker = "waiting" /\ ticker' = "waiting" /\ rotator' = rotator
        /\ ticketAge' = ticketAge /\ slot' = slot
        /\ untilTick <= 0 /\ untilTick' = untilTick + i
        /\ rngFailures' = rngFailures + 1 /\ rngFailures < RotatorFailures
    BY <1>4 DEF RotateStateFails, TickerFires
  <2>2. untilTick >= -RotatorDelay /\ i > 0 /\ untilTick \in Int /\ ticketAge \in Nat
    BY <2>1 DEF TickerIsOnTime
  <2>3. RotatorTypeOK'
    BY <1>i, <2>1
  <2>4. TickerIsOnTime'
    BY <1>i, <2>1, <2>2 DEF TickerIsOnTime
  <2>5. /\ (1 + rngFailures') * rotator'.interval = (1 + rngFailures) * i + i
        /\ (2 + rngFailures') * rotator'.interval = (2 + rngFailures) * i + i
    <3>1. 1 + rngFailures' = 2 + rngFailures /\ 2 + rngFailures' = 3 + rngFailures
      BY <1>f, <2>1
    <3> QED
      BY <1>p, <2>1, <3>1
  <2>6. ticketAge' + untilTick' = total + i
    BY <1>i, <2>1, <2>2
  <2>7. /\ slot = "current" => total + i <= (1 + rngFailures) * i + i + RotatorDelay
        /\ slot = "previous" => /\ total + i <= (2 + rngFailures) * i + i + RotatorDelay
                                /\ total + i >= i - RotatorDelay \/ ticketAge = RotatorAge
        /\ slot = "gone" => ticketAge >= i - RotatorDelay
    BY <1>i, <1>p, <2>1, <2>2 DEF TicketKeepsPace
  <2>8. TicketKeepsPace'
    BY <2>1, <2>5, <2>6, <2>7 DEF TicketKeepsPace
  <2> QED
    BY <2>3, <2>4, <2>8
<1>5. CASE SealTicket
  <2>1. RotatorTypeOK' /\ TickerIsOnTime'
    BY <1>5 DEF SealTicket, TickerIsOnTime
  <2>2. TicketKeepsPace'
    BY <1>5, <1>i, <1>p DEF SealTicket, TickerIsOnTime, TicketKeepsPace
  <2> QED
    BY <2>1, <2>2
<1>6. CASE DropRotator
    BY <1>6 DEF DropRotator, TickerIsOnTime, TicketKeepsPace
<1>7. CASE TimePasses
  <2>1. RotatorTypeOK' /\ TickerIsOnTime'
    BY <1>7, <1>i DEF TimePasses, TickerIsOnTime
  <2>2. /\ rotator' = rotator /\ ticker' = ticker /\ slot' = slot /\ rngFailures' = rngFailures
        /\ ticketAge' >= ticketAge /\ ticketAge' \in Int /\ ticketAge \in Int
        /\ ticker \in {"spawned", "waiting"} /\ slot # "unsealed" =>
             /\ ticketAge' + untilTick' <= total
             /\ ticketAge' + untilTick' = total \/ ticketAge' = RotatorAge
    BY <1>7 DEF TimePasses
  <2>3. total \in Int /\ ticketAge' + untilTick' \in Int
    BY <2>1
  <2>4. ASSUME ticker = "waiting"
        PROVE  /\ slot = "current" => ticketAge' + untilTick' <= (1 + rngFailures) * i + RotatorDelay
               /\ slot = "previous" =>
                    /\ ticketAge' + untilTick' <= (2 + rngFailures) * i + RotatorDelay
                    /\ ticketAge' + untilTick' >= i - RotatorDelay \/ ticketAge' = RotatorAge
               /\ slot = "gone" => ticketAge' >= i - RotatorDelay
    <3>1. CASE slot \in {"current", "gone", "unsealed"}
      BY <1>i, <1>p, <2>2, <2>3, <2>4, <3>1 DEF TicketKeepsPace
    <3>2. CASE slot = "previous"
      <4>1. total <= (2 + rngFailures) * i + RotatorDelay
        BY <2>4, <3>2 DEF TicketKeepsPace
      <4>2. total >= i - RotatorDelay \/ ticketAge = RotatorAge
        BY <2>4, <3>2 DEF TicketKeepsPace
      <4>3. ticketAge = RotatorAge => ticketAge' = RotatorAge
        BY <1>7 DEF TimePasses
      <4>4. RotatorDelay \in Nat /\ (2 + rngFailures) * i + RotatorDelay \in Int
        BY <1>p
      <4> QED
        BY ONLY <1>i, <2>2, <2>3, <2>4, <3>2, <4>1, <4>2, <4>3, <4>4
    <3> QED
      BY <3>1, <3>2
  <2>5. ticker = "spawned" /\ slot = "current" => ticketAge' + untilTick' <= 0
    BY <2>2, <2>3 DEF TicketKeepsPace
  <2>6. TicketKeepsPace'
    BY <2>2, <2>4, <2>5 DEF TicketKeepsPace
  <2> QED
    BY <2>1, <2>6
<1>8. CASE UNCHANGED rotatorVars
    BY <1>8 DEF rotatorVars, TickerIsOnTime, TicketKeepsPace
<1> QED
    BY <1>1, <1>2, <1>3, <1>4, <1>5, <1>6, <1>7, <1>8 DEF RotatorNext

\* RotatorInv is inductive.
THEOREM RotatorInvariant == RotatorSpec => []RotatorInv
<1>1. RotatorInv /\ [RotatorNext]_rotatorVars => RotatorInv'
    BY RotatorStepInv
<1> QED
    BY <1>1, RotatorInitInv, PTL DEF RotatorSpec

(***************************************************************************)
(* The lifetime that clients are told covers two intervals, but for what   *)
(* as_secs() cuts off of each, unless the cap of u32 is reached.           *)
(***************************************************************************)
LEMMA LifetimeCoversTwoIntervals ==
    ASSUME NEW i \in Nat, i > 0, 2 * i <= LifetimeCap * PerSecond
    PROVE  /\ 2 * i <= LifetimeSecs(i) * PerSecond + 2 * (i % PerSecond)
           /\ LifetimeSecs(i) * PerSecond \in Nat /\ i % PerSecond \in Nat
<1> USE AwsLcTicketRotatorAssumption
<1> DEFINE secs == i \div PerSecond
           rest == i % PerSecond
<1>1. secs \in Nat /\ rest \in Nat /\ i = PerSecond * secs + rest
    OBVIOUS
<1>2. CASE LifetimeSecs(i) = LifetimeCap
    BY <1>1, <1>2
<1>3. CASE LifetimeSecs(i) = 2 * secs
    BY <1>1, <1>3
<1>4. CASE LifetimeSecs(i) = 2 /\ secs = 0
    BY <1>1, <1>4
<1>5. \/ LifetimeSecs(i) = LifetimeCap
      \/ LifetimeSecs(i) = 2 * secs
      \/ LifetimeSecs(i) = 2 /\ secs = 0
    BY <1>1 DEF LifetimeSecs, Lesser
<1> QED
    BY <1>2, <1>3, <1>4, <1>5

(***************************************************************************)
(* Tickets open for at least an interval and at most for the lifetime that *)
(* clients are told, up to the lateness of the runtime, the failures and   *)
(* the cut-off fraction, for every interval, unit of time and cap.         *)
(***************************************************************************)
THEOREM LifetimeIsKept == RotatorSpec => []TicketsOpenForTheirLifetime
<1>1. RotatorInv => TicketsOpenForTheirLifetime
  <2> SUFFICES ASSUME RotatorInv, slot # "unsealed", ticker # "aborted"
               PROVE  TicketsOpenForTheirLifetime
    BY DEF TicketsOpenForTheirLifetime
  <2> USE AwsLcTicketRotatorAssumption DEF RotatorInv
  <2> DEFINE i == rotator.interval
             f == rngFailures
  <2>0. i \in Nat /\ f \in Nat /\ ticketAge \in Nat
    BY RotatorIntervals DEF RotatorTypeOK
  <2>1. ticketAge < i - RotatorDelay => Decrypts
    <3>1. slot = "gone" => ticker = "waiting"
      BY DEF RotatorTypeOK, TickerIsOnTime
    <3>2. slot = "gone" => ticketAge >= i - RotatorDelay
      BY <3>1 DEF TicketKeepsPace
    <3> QED
      BY <2>0, <3>2 DEF Decrypts, RotatorTypeOK
  <2>2. ASSUME i > 0, 2 * i <= LifetimeCap * PerSecond, Decrypts
        PROVE  ticketAge <= rotator.lifetime * PerSecond
                              + (2 * (i % PerSecond) + f * i + 2 * RotatorDelay)
    <3>1. /\ 2 * i <= rotator.lifetime * PerSecond + 2 * (i % PerSecond)
          /\ rotator.lifetime * PerSecond \in Nat /\ i % PerSecond \in Nat
      BY <2>0, <2>2, RotatorIntervals, LifetimeCoversTwoIntervals
    <3>2. (2 + f) * i = 2 * i + f * i /\ (1 + f) * i = i + f * i /\ f * i \in Nat
      BY <2>0
    <3>3. ticker \in {"spawned", "waiting"}
      BY <2>2 DEF Decrypts, RotatorTypeOK, TickerIsOnTime
    <3>4. untilTick >= -RotatorDelay /\ untilTick \in Int
      BY <3>3 DEF TickerIsOnTime
    <3>5. ticketAge + untilTick <= 2 * i + f * i + RotatorDelay
      BY <2>0, <2>2, <3>2, <3>3 DEF Decrypts, TickerIsOnTime, TicketKeepsPace
    <3>6. ticketAge <= 2 * i + f * i + 2 * RotatorDelay
      BY ONLY <2>0, <3>2, <3>4, <3>5, AwsLcTicketRotatorAssumption
    <3> QED
      BY ONLY <2>0, <3>1, <3>2, <3>6, AwsLcTicketRotatorAssumption
  <2>3. (i > 0 /\ 2 * i <= LifetimeCap * PerSecond) =>
          (ticketAge > rotator.lifetime * PerSecond
                         + (2 * (i % PerSecond) + f * i + 2 * RotatorDelay) => ~Decrypts)
    <3> SUFFICES ASSUME i > 0, 2 * i <= LifetimeCap * PerSecond, Decrypts
                 PROVE  ~(ticketAge > rotator.lifetime * PerSecond
                            + (2 * (i % PerSecond) + f * i + 2 * RotatorDelay))
      OBVIOUS
    <3>1. /\ rotator.lifetime * PerSecond \in Nat /\ i % PerSecond \in Nat /\ f * i \in Nat
      BY <2>0, RotatorIntervals, LifetimeCoversTwoIntervals
    <3> QED
      BY ONLY <2>0, <2>2, <3>1, AwsLcTicketRotatorAssumption, i > 0,
              2 * i <= LifetimeCap * PerSecond, Decrypts
  <2> QED
    BY <2>1, <2>3 DEF TicketsOpenForTheirLifetime
<1> QED
    BY <1>1, RotatorInvariant, PTL

-----------------------------------------------------------------------------
(***************************************************************************)
(* The builder.  A clone is the builder, field by field.                   *)
(***************************************************************************)
LEMMA CloneIsTheSame == TypeOK => Clone(b) = b
  BY DEF TypeOK, Clone

\* No ticketer is a value of the field.
LEMMA NoTicketerType == NoTicketer \in Ticketer
  BY ServerBuilderAssumption DEF NoTicketer, Ticketer

\* The first state satisfies the invariant.
LEMMA BuilderInitInv == Init => BuilderInv
  BY ServerBuilderAssumption
     DEF Init, BuilderInv, TypeOK, AuthIsTracked, GuardsAreTracked, ConfigIsOfBuilder, AskedFor,
         EmptyBuilder, NoTicketer, Ticketer

\* A call that changes one field, and neither the ticketers nor the authentication.
LEMMA PlainSetInv ==
    ASSUME BuilderInv, NEW x, Set(x), wanted' = wanted, x.api = b.api,
           x.roots = b.roots, x.clientRpk = b.clientRpk, x.optional = b.optional,
           x.ticketer = b.ticketer, x.rotation = b.rotation, TypeOK'
    PROVE  BuilderInv'
  BY DEF BuilderInv, Set, AuthIsTracked, GuardsAreTracked, ConfigIsOfBuilder, AskedFor

\* The calls about client authentication leave the ticketers alone.
LEMMA AuthSetInv ==
    ASSUME BuilderInv, NEW x, Set(x), TypeOK', AuthIsTracked', wanted'.replay = wanted.replay,
           x.ticketer = b.ticketer, x.rotation = b.rotation
    PROVE  BuilderInv'
  BY DEF BuilderInv, Set, GuardsAreTracked, ConfigIsOfBuilder

\* A call that loses the builder leaves everything as it is.
LEMMA LoseInv ==
    ASSUME BuilderInv, Lose
    PROVE  BuilderInv'
  BY DEF BuilderInv, Lose, TypeOK, AuthIsTracked, GuardsAreTracked, ConfigIsOfBuilder

(***************************************************************************)
(* Every call on a builder keeps the invariant, whatever was called before *)
(* it.                                                                     *)
(***************************************************************************)
LEMMA BuilderStepInv ==
    ASSUME BuilderInv, [Next]_vars
    PROVE  BuilderInv'
<1> USE ServerBuilderAssumption
<1>t. TypeOK
    BY DEF BuilderInv
<1>1. CASE WithCertAndKey
  <2>1. ASSUME NEW c \in {"good", "mismatched"}, Set([b EXCEPT !.cert = c]), UNCHANGED wanted
        PROVE  BuilderInv'
    <3>1. TypeOK'
      BY <1>t, <2>1 DEF Set, TypeOK
    <3> QED
      BY <1>t, <2>1, <3>1, PlainSetInv DEF TypeOK
  <2> QED
    BY <1>1, <2>1, LoseInv DEF WithCertAndKey
<1>2. CASE WithClientCertVerifier
  <2>1. PICK r \in {"good", "empty"} : SetFacade([b EXCEPT !.roots = r])
    BY <1>2 DEF WithClientCertVerifier
  <2>2. TypeOK' /\ wanted'.replay = wanted.replay
    BY <1>2, <1>t, <2>1 DEF WithClientCertVerifier, SetFacade, Set, TypeOK
  <2>3. AuthIsTracked'
    BY <1>2, <1>t, <2>1 DEF WithClientCertVerifier, SetFacade, Set, TypeOK, BuilderInv, AuthIsTracked, AskedFor
  <2> QED
    BY <1>t, <2>1, <2>2, <2>3, AuthSetInv DEF SetFacade, TypeOK
<1>3. CASE WithClientAuth
  <2>1. PICK r \in {"good", "empty"}, required \in BOOLEAN :
            /\ Set([b EXCEPT !.roots = r, !.optional = ~required])
            /\ wanted' = [wanted EXCEPT !.auth = IF required THEN "required" ELSE "optional"]
    BY <1>3 DEF WithClientAuth
  <2>2. TypeOK' /\ wanted'.replay = wanted.replay
    BY <1>t, <2>1 DEF Set, TypeOK
  <2>3. AuthIsTracked'
    BY <1>3, <1>t, <2>1 DEF WithClientAuth, Set, TypeOK, BuilderInv, AuthIsTracked, AskedFor
  <2> QED
    BY <1>t, <2>1, <2>2, <2>3, AuthSetInv DEF TypeOK
<1>4. CASE WithClientRawPublicKeys
  <2>1. Set([b EXCEPT !.clientRpk = TRUE]) /\ b.api = "facade"
    BY <1>4 DEF WithClientRawPublicKeys, SetFacade
  <2>2. TypeOK' /\ wanted'.replay = wanted.replay
    BY <1>4, <1>t, <2>1 DEF WithClientRawPublicKeys, Set, TypeOK
  <2>3. AuthIsTracked'
    BY <1>4, <1>t, <2>1 DEF WithClientRawPublicKeys, Set, TypeOK, BuilderInv, AuthIsTracked, AskedFor
  <2> QED
    BY <1>t, <2>1, <2>2, <2>3, AuthSetInv DEF TypeOK
<1>5. CASE WithServerRawPublicKey
  <2>1. Set([b EXCEPT !.serverRpk = TRUE]) /\ wanted' = wanted
    BY <1>5 DEF WithServerRawPublicKey, SetFacade
  <2>2. TypeOK'
    BY <1>t, <2>1 DEF Set, TypeOK
  <2> QED
    BY <1>t, <2>1, <2>2, PlainSetInv DEF TypeOK
<1>6. CASE WithSniCert
  <2>1. PICK n \in Name \cup {BadName} : Set([b EXCEPT !.sni = @ \cup {n}]) /\ wanted' = wanted
    BY <1>6 DEF WithSniCert, SetFacade
  <2>2. TypeOK'
    BY <1>t, <2>1 DEF Set, TypeOK
  <2> QED
    BY <1>t, <2>1, <2>2, PlainSetInv DEF TypeOK
<1>7. CASE WithProtocolVersions
  <2>1. PICK v \in {"usable", "unusable"} : Set([b EXCEPT !.versions = v]) /\ wanted' = wanted
    BY <1>7 DEF WithProtocolVersions, SetFacade
  <2>2. TypeOK'
    BY <1>t, <2>1 DEF Set, TypeOK
  <2> QED
    BY <1>t, <2>1, <2>2, PlainSetInv DEF TypeOK
<1>8. CASE WithProvider
  <2>1. PICK p \in Provider : Set([b EXCEPT !.provider = p]) /\ wanted' = wanted
    BY <1>8 DEF WithProvider, SetFacade
  <2>2. TypeOK'
    BY <1>t, <2>1 DEF Set, TypeOK
  <2> QED
    BY <1>t, <2>1, <2>2, PlainSetInv DEF TypeOK
<1>9. CASE WithOption
  <2>1. PICK S \in SUBSET Option : Set([b EXCEPT !.options = S]) /\ wanted' = wanted
    <3>1. PICK o \in Option : \/ Set([b EXCEPT !.options = b.options \cup {o}])
                              \/ Set([b EXCEPT !.options = b.options \ {o}])
      BY <1>9 DEF WithOption
    <3>2. b.options \cup {o} \in SUBSET Option /\ b.options \ {o} \in SUBSET Option
      BY <1>t DEF TypeOK
    <3> QED
      BY <1>9, <3>1, <3>2 DEF WithOption
  <2>2. TypeOK'
    BY <1>t, <2>1 DEF Set, TypeOK
  <2> QED
    BY <1>t, <2>1, <2>2, PlainSetInv DEF TypeOK
<1>10. CASE WithTicketer
  <2>1. TypeOK'
    <3>1. made' \in 0..MaxTicketers /\ [key |-> made', guards |-> {}] \in Ticketer
      BY <1>10, <1>t DEF WithTicketer, TypeOK, Ticketer
    <3> QED
      BY <1>10, <1>t, <3>1, NoTicketerType DEF WithTicketer, TypeOK
  <2>2. b' = [b EXCEPT !.ticketer = [key |-> made', guards |-> {}], !.rotation = NoTicketer]
        /\ wanted' = [wanted EXCEPT !.replay = FALSE] /\ phase' = "open" /\ phase = "open"
    BY <1>10 DEF WithTicketer
  <2>3. AuthIsTracked' /\ GuardsAreTracked' /\ ConfigIsOfBuilder'
    BY <1>t, <2>2 DEF BuilderInv, TypeOK, AuthIsTracked, AskedFor, GuardsAreTracked, ConfigIsOfBuilder
  <2> QED
    BY <2>1, <2>3 DEF BuilderInv
<1>11. CASE WithAntiReplay
  <2>1. CASE Wrap
    <3>1. /\ phase = "open" /\ phase' = "open" /\ wanted' = [wanted EXCEPT !.replay = TRUE]
          /\ \E T \in Ticketer : T.guards # {} /\ b' = [b EXCEPT !.ticketer = T]
          /\ made' \in 0..MaxTicketers
      <4>1. CASE b.ticketer = NoTicketer
        <5> DEFINE T == [key |-> made + 1, guards |-> {made + 2}]
        <5>1. T \in Ticketer /\ T.guards # {} /\ made' \in 0..MaxTicketers
          BY <1>t, <2>1, <4>1 DEF Wrap, TypeOK, Ticketer
        <5> QED
          BY <2>1, <4>1, <5>1 DEF Wrap
      <4>2. CASE b.ticketer # NoTicketer
        <5> DEFINE T == [b.ticketer EXCEPT !.guards = @ \cup {made'}]
        <5>1. made' \in 0..MaxTicketers /\ made' \in 1..MaxTicketers /\ b.ticketer \in Ticketer
          BY <1>t, <2>1, <4>2 DEF Wrap, TypeOK
        <5>2. T \in Ticketer /\ T.guards # {}
          BY <5>1 DEF Ticketer
        <5>3. b' = [b EXCEPT !.ticketer = T]
          BY <1>t, <2>1, <4>2 DEF Wrap, TypeOK
        <5> QED
          BY <2>1, <5>1, <5>2, <5>3 DEF Wrap
      <4> QED
        BY <4>1, <4>2
    <3>2. PICK T \in Ticketer : T.guards # {} /\ b' = [b EXCEPT !.ticketer = T]
      BY <3>1
    <3>3. TypeOK'
      BY <1>t, <3>1, <3>2 DEF TypeOK
    <3>4. AuthIsTracked' /\ GuardsAreTracked' /\ ConfigIsOfBuilder'
      BY <1>t, <3>1, <3>2
         DEF BuilderInv, TypeOK, AuthIsTracked, AskedFor, GuardsAreTracked, ConfigIsOfBuilder
    <3> QED
      BY <3>3, <3>4 DEF BuilderInv
  <2> QED
    BY <1>11, <2>1, LoseInv DEF WithAntiReplay
<1>12. CASE WithTicketerRotationInterval
  <2>1. CASE SetFacade(b) /\ UNCHANGED wanted
    <3>1. TypeOK'
      BY <1>t, <2>1 DEF SetFacade, Set, TypeOK
    <3> QED
      BY <2>1, <3>1, PlainSetInv DEF SetFacade
  <2>2. CASE ~(SetFacade(b) /\ UNCHANGED wanted)
    <3>1. /\ phase = "open" /\ phase' = "open" /\ wanted' = [wanted EXCEPT !.replay = FALSE]
          /\ b' = [b EXCEPT !.rotation = [key |-> made', guards |-> {}], !.ticketer = NoTicketer]
          /\ made < MaxTicketers /\ made' = made + 1
      BY <1>12, <2>2 DEF WithTicketerRotationInterval
    <3>2. TypeOK'
      <4>1. made' \in 0..MaxTicketers /\ [key |-> made', guards |-> {}] \in Ticketer
        BY <1>t, <3>1 DEF TypeOK, Ticketer
      <4> QED
        BY <1>t, <3>1, <4>1, NoTicketerType DEF TypeOK
    <3>3. b'.rotation # NoTicketer
      BY <1>t, <3>1 DEF TypeOK, NoTicketer
    <3>4. AuthIsTracked' /\ GuardsAreTracked' /\ ConfigIsOfBuilder'
      BY <1>t, <3>1, <3>3
         DEF BuilderInv, TypeOK, AuthIsTracked, AskedFor, GuardsAreTracked, ConfigIsOfBuilder
    <3> QED
      BY <3>2, <3>4 DEF BuilderInv
  <2> QED
    BY <2>1, <2>2
<1>13. CASE WithOcspResponse
  <2>1. PICK o \in BOOLEAN : Set([b EXCEPT !.ocsp = o]) /\ wanted' = wanted
    <3>1. b = [b EXCEPT !.ocsp = b.ocsp] /\ b.ocsp \in BOOLEAN
      BY <1>t DEF TypeOK
    <3>2. CASE SetFacade(b)
      BY <1>13, <3>1, <3>2 DEF WithOcspResponse, SetFacade
    <3>3. CASE Set([b EXCEPT !.ocsp = TRUE]) \/ Set([b EXCEPT !.ocsp = FALSE])
      BY <1>13, <3>3 DEF WithOcspResponse
    <3> QED
      BY <1>13, <3>2, <3>3 DEF WithOcspResponse
  <2>2. TypeOK'
    BY <1>t, <2>1 DEF Set, TypeOK
  <2> QED
    BY <1>t, <2>1, <2>2, PlainSetInv DEF TypeOK
<1>14. CASE Build
  <2>1. TypeOK' /\ AuthIsTracked' /\ GuardsAreTracked'
    BY <1>14 DEF Build, BuilderInv, TypeOK, AuthIsTracked, AskedFor, GuardsAreTracked
  <2>2. ConfigIsOfBuilder'
    BY <1>14 DEF Build, ConfigIsOfBuilder
  <2> QED
    BY <2>1, <2>2 DEF BuilderInv
<1>15. CASE UNCHANGED vars
    BY <1>15 DEF vars, BuilderInv, TypeOK, AuthIsTracked, AskedFor, GuardsAreTracked, ConfigIsOfBuilder
<1> QED
    BY <1>1, <1>2, <1>3, <1>4, <1>5, <1>6, <1>7, <1>8, <1>9, <1>10, <1>11, <1>12, <1>13, <1>14,
       <1>15 DEF Next

\* BuilderInv is inductive.
THEOREM BuilderInvariant == Spec => []BuilderInv
<1>1. BuilderInv /\ [Next]_vars => BuilderInv'
    BY BuilderStepInv
<1> QED
    BY <1>1, BuilderInitInv, PTL DEF Spec

(***************************************************************************)
(* After any sequence of calls on either builder, the config authenticates *)
(* clients exactly as the application last asked for.                      *)
(***************************************************************************)
THEOREM ServersAuthenticateClients == Spec => []ClientsAreAuthenticated
<1>1. BuilderInv => ClientsAreAuthenticated
  <2> SUFFICES ASSUME BuilderInv, phase = "built"
               PROVE  ClientsAreAuthenticated
    BY DEF ClientsAreAuthenticated
  <2>1. config.auth = AuthOf(b) /\ wanted.auth = AskedFor(b)
    BY DEF BuilderInv, ConfigIsOfBuilder, Config, AuthIsTracked
  <2>2. CASE b.api = "facade"
    BY <2>1, <2>2 DEF BuilderInv, TypeOK, AuthIsTracked, AskedFor, AuthOf, ClientAuth,
                      ClientsAreAuthenticated
  <2>3. CASE b.api = "adapter"
    BY <2>1, <2>3 DEF BuilderInv, TypeOK, AuthIsTracked, AskedFor, AuthOf, AdapterAuth,
                      ClientsAreAuthenticated
  <2> QED
    BY <2>2, <2>3 DEF BuilderInv, TypeOK
<1> QED
    BY <1>1, BuilderInvariant, PTL

(***************************************************************************)
(* Every connection that accept() serves from a clone has the config of    *)
(* the builder's own build(), its ticket keys and replay guards included.  *)
(***************************************************************************)
THEOREM ClonesShareTheConfig == Spec => []ClonesBuildTheSame
<1>1. BuilderInv => ClonesBuildTheSame
    BY CloneIsTheSame DEF BuilderInv, ConfigIsOfBuilder, ClonesBuildTheSame
<1> QED
    BY <1>1, BuilderInvariant, PTL

(***************************************************************************)
(* A config without a rotation task has guarded tickets exactly when       *)
(* with_anti_replay followed the last choice of a ticketer, after any      *)
(* sequence of calls.                                                      *)
(***************************************************************************)
THEOREM GuardsFollowTheLastWord == Spec => []FixedTicketersAreGuarded
<1>1. BuilderInv => FixedTicketersAreGuarded
  <2> SUFFICES ASSUME BuilderInv, phase = "built", ~config.rotates
               PROVE  wanted.replay <=> config.ticketer.guards # {}
    BY DEF FixedTicketersAreGuarded
  <2>1. config = Config(b)
    BY DEF BuilderInv, ConfigIsOfBuilder
  <2>2. config.rotates = (b.rotation # NoTicketer)
    BY <2>1 DEF Config
  <2>3. b.rotation = NoTicketer
    BY <2>2
  <2>4. config.ticketer = b.ticketer
    BY <2>1, <2>3 DEF Config
  <2> QED
    BY <2>3, <2>4 DEF BuilderInv, GuardsAreTracked
<1> QED
    BY <1>1, BuilderInvariant, PTL
=============================================================================
