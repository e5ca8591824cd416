----------------------------- MODULE TicketProofs -----------------------------
(***************************************************************************)
(* Proofs about the replay guard, the session ticketer and the decorator   *)
(* that joins them, for any number of threads, tickets and keys, every     *)
(* window and every bound on scheduling lag and clock skew.                *)
(***************************************************************************)
EXTENDS MCTickets, TLAPS

-----------------------------------------------------------------------------
(***************************************************************************)
(* ReplayGuard implements SingleUse.  The invariant ties three times       *)
(* together: an entry of the table is no older than the last use of its    *)
(* ticket less the lag and the skew, so that a prune, whose clock reading  *)
(* is at most the skew ahead of real time, cannot remove it until Lower    *)
(* seconds after that use.                                                 *)
(***************************************************************************)

\* A prune leaves a table.
LEMMA PruneType ==
    ASSUME GuardTypeOK, NEW n \in Nat
    PROVE  Prune(n) \in [Ticket -> Nat \cup {NotSeen}]
  BY DEF GuardTypeOK, Prune

\* What a prune with clock reading n keeps and drops.
LEMMA PruneFacts ==
    ASSUME GuardTypeOK, NEW n \in Nat, NEW t \in Ticket
    PROVE  /\ Prune(n)[t] # NotSeen => Prune(n)[t] = seen[t] /\ n - seen[t] <= Window
           /\ Prune(n)[t] = NotSeen => seen[t] = NotSeen \/ n - seen[t] > Window
  BY ReplayGuardAssumption DEF GuardTypeOK, Prune, SaturatingSub, NotSeen

\* The first state satisfies the invariant.
LEMMA GuardInitInv == GuardInit => GuardInv
  BY ReplayGuardAssumption DEF GuardInit, GuardInv, GuardTypeOK, StampsAreRecent, EntriesMatchLastUse,
                               RecentUsesAreRemembered, NotSeen, Never

\* A clock reading is a natural number within ClockSkew of real time.
LEMMA ReadingFacts ==
    ASSUME GuardTypeOK, NEW n \in ClockReadings
    PROVE  n \in Nat /\ now - ClockSkew <= n /\ n <= now + ClockSkew
  BY ReplayGuardAssumption DEF GuardTypeOK, ClockReadings

\* A thread that reads the clock has a recent stamp.
LEMMA BeginCheckInv ==
    ASSUME GuardInv, NEW w \in Worker, NEW t \in Ticket, BeginCheck(w, t)
    PROVE  GuardInv'
<1>1. PICK n \in ClockReadings : stamp' = [stamp EXCEPT ![w] = n]
  BY DEF BeginCheck
<1>2. n \in Nat /\ now - ClockSkew <= n /\ n <= now + ClockSkew
  BY ReadingFacts DEF GuardInv
<1>3. GuardTypeOK'
  BY <1>1, <1>2 DEF GuardInv, GuardTypeOK, BeginCheck
<1>4. StampsAreRecent'
  BY <1>1, <1>2, ReplayGuardAssumption DEF GuardInv, GuardTypeOK, StampsAreRecent, BeginCheck
<1>5. EntriesMatchLastUse' /\ RecentUsesAreRemembered'
  BY DEF GuardInv, EntriesMatchLastUse, RecentUsesAreRemembered, BeginCheck
<1> QED
  BY <1>3, <1>4, <1>5 DEF GuardInv

\* A prune by a clocked thread drops only entries whose last use is far back.
LEMMA PrunePreserves ==
    ASSUME GuardInv, NEW w \in Worker, pc[w] = "clocked", NEW t \in Ticket
    PROVE  LET p == Prune(stamp[w]) IN
           /\ p[t] # NotSeen => p[t] = seen[t] /\ lastUse[t] # Never
                                /\ now - lastUse[t] <= Upper
           /\ p[t] = NotSeen /\ lastUse[t] # Never => now - lastUse[t] > Lower
<1> DEFINE p == Prune(stamp[w])
<1>1. /\ stamp[w] \in Nat /\ readAt[w] \in Nat /\ now \in Nat
      /\ seen[t] \in Nat \cup {NotSeen} /\ lastUse[t] \in Nat \cup {Never}
      /\ readAt[w] <= now /\ now <= readAt[w] + MaxLag
      /\ readAt[w] - ClockSkew <= stamp[w] /\ stamp[w] <= readAt[w] + ClockSkew
  BY DEF GuardInv, GuardTypeOK, StampsAreRecent
<1>2. /\ p[t] # NotSeen => p[t] = seen[t] /\ stamp[w] - seen[t] <= Window
      /\ p[t] = NotSeen => seen[t] = NotSeen \/ stamp[w] - seen[t] > Window
  BY <1>1, PruneFacts DEF GuardInv
<1>3. seen[t] # NotSeen => /\ lastUse[t] # Never
                           /\ lastUse[t] - MaxLag - ClockSkew <= seen[t]
                           /\ seen[t] <= lastUse[t] + ClockSkew
  BY DEF GuardInv, EntriesMatchLastUse
<1>4. seen[t] = NotSeen /\ lastUse[t] # Never => now - lastUse[t] > Lower
  BY <1>1, ReplayGuardAssumption DEF GuardInv, RecentUsesAreRemembered, Lower, Never
<1>5. p[t] # NotSeen => now - lastUse[t] <= Upper
  BY <1>1, <1>2, <1>3, ReplayGuardAssumption DEF Upper, NotSeen, Never
<1>6. p[t] = NotSeen /\ seen[t] # NotSeen => now - lastUse[t] > Lower
  BY <1>1, <1>2, <1>3, ReplayGuardAssumption DEF Lower, NotSeen, Never
<1> QED
  BY <1>2, <1>3, <1>4, <1>5, <1>6

\* A first use is entered with a stamp that no prune removes too early.
LEMMA CheckFreshInv ==
    ASSUME GuardInv, NEW w \in Worker, CheckFresh(w)
    PROVE  GuardInv'
<1> DEFINE p == Prune(stamp[w])
<1>1. /\ pc[w] = "clocked" /\ arg[w] \in Ticket /\ stamp[w] \in Nat
      /\ now \in Nat /\ readAt[w] \in Nat
  BY DEF CheckFresh, GuardInv, GuardTypeOK
<1>2. /\ seen' = [p EXCEPT ![arg[w]] = stamp[w]]
      /\ lastUse' = [lastUse EXCEPT ![arg[w]] = now]
      /\ uses' = [uses EXCEPT ![arg[w]] = @ + 1]
      /\ pc' = [pc EXCEPT ![w] = "fresh"]
      /\ UNCHANGED <<now, arg, stamp, readAt>>
  BY DEF CheckFresh
<1>3. p \in [Ticket -> Nat \cup {NotSeen}]
  BY <1>1, PruneType DEF GuardInv
<1> HIDE DEF p
<1>4. GuardTypeOK'
  BY <1>1, <1>2, <1>3 DEF GuardInv, GuardTypeOK
<1>5. StampsAreRecent'
  BY <1>2 DEF GuardInv, GuardTypeOK, StampsAreRecent
<1>6. \A t \in Ticket : /\ p[t] # NotSeen => p[t] = seen[t]
                        /\ p[t] = NotSeen /\ lastUse[t] # Never => now - lastUse[t] > Lower
  BY <1>1, PrunePreserves DEF p
<1>7. EntriesMatchLastUse'
  <2>1. ASSUME NEW t \in Ticket, t # arg[w], seen'[t] # NotSeen
        PROVE  /\ lastUse'[t] # Never
               /\ lastUse'[t] - MaxLag - ClockSkew <= seen'[t]
               /\ seen'[t] <= lastUse'[t] + ClockSkew
    <3>1. seen'[t] = seen[t] /\ lastUse'[t] = lastUse[t]
      BY <1>1, <1>2, <1>3, <1>6, <2>1 DEF GuardInv, GuardTypeOK
    <3> QED
      BY <2>1, <3>1 DEF GuardInv, EntriesMatchLastUse
  <2>2. seen'[arg[w]] = stamp[w] /\ lastUse'[arg[w]] = now
    BY <1>1, <1>2, <1>3 DEF GuardInv, GuardTypeOK
  <2>3. /\ readAt[w] <= now /\ now <= readAt[w] + MaxLag
        /\ readAt[w] - ClockSkew <= stamp[w] /\ stamp[w] <= readAt[w] + ClockSkew
    BY <1>1 DEF GuardInv, StampsAreRecent
  <2>4. /\ lastUse'[arg[w]] # Never
        /\ lastUse'[arg[w]] - MaxLag - ClockSkew <= seen'[arg[w]]
        /\ seen'[arg[w]] <= lastUse'[arg[w]] + ClockSkew
    BY <1>1, <2>2, <2>3, ReplayGuardAssumption DEF Never
  <2> QED
    BY <2>1, <2>4 DEF EntriesMatchLastUse
<1>8. RecentUsesAreRemembered'
  <2>1. ASSUME NEW t \in Ticket, lastUse'[t] # Never, now' - lastUse'[t] <= Lower,
               seen'[t] = NotSeen
        PROVE  FALSE
    <3>1. t # arg[w]
      BY <1>1, <1>2, <1>3, <2>1 DEF NotSeen
    <3>2. p[t] = NotSeen /\ lastUse[t] # Never /\ now - lastUse[t] <= Lower
      BY <1>1, <1>2, <1>3, <2>1, <3>1 DEF GuardInv, GuardTypeOK
    <3>3. now - lastUse[t] > Lower /\ lastUse[t] \in Int /\ Lower \in Int
      BY <1>6, <3>2, ReplayGuardAssumption DEF GuardInv, GuardTypeOK, Lower, Never
    <3> QED
      BY <1>1, <3>2, <3>3
  <2> QED
    BY <2>1 DEF RecentUsesAreRemembered, Lower
<1> QED
  BY <1>4, <1>5, <1>7, <1>8 DEF GuardInv

\* A refused use leaves the entry as it is.
LEMMA CheckReplayedInv ==
    ASSUME GuardInv, NEW w \in Worker, CheckReplayed(w)
    PROVE  GuardInv'
<1> DEFINE p == Prune(stamp[w])
<1>1. pc[w] = "clocked" /\ stamp[w] \in Nat /\ now \in Nat
  BY DEF CheckReplayed, GuardInv, GuardTypeOK
<1>2. /\ seen' = p
      /\ pc' = [pc EXCEPT ![w] = "replayed"]
      /\ UNCHANGED <<now, arg, stamp, readAt, lastUse, uses>>
  BY DEF CheckReplayed
<1>3. p \in [Ticket -> Nat \cup {NotSeen}]
  BY <1>1, PruneType DEF GuardInv
<1>4. \A t \in Ticket : /\ p[t] # NotSeen => p[t] = seen[t]
                        /\ p[t] = NotSeen /\ lastUse[t] # Never => now - lastUse[t] > Lower
  BY <1>1, PrunePreserves
<1> HIDE DEF p
<1>5. GuardTypeOK'
  BY <1>1, <1>2, <1>3 DEF GuardInv, GuardTypeOK
<1>6. StampsAreRecent'
  BY <1>2 DEF GuardInv, GuardTypeOK, StampsAreRecent
<1>7. EntriesMatchLastUse'
  BY <1>2, <1>4 DEF GuardInv, EntriesMatchLastUse
<1>8. RecentUsesAreRemembered'
  <2>1. \A t \in Ticket : lastUse[t] \in Int /\ Lower \in Int
    BY ReplayGuardAssumption DEF GuardInv, GuardTypeOK, Lower, Never
  <2> QED
    BY <1>1, <1>2, <1>4, <2>1 DEF RecentUsesAreRemembered, Lower
<1> QED
  BY <1>5, <1>6, <1>7, <1>8 DEF GuardInv

\* A thread returns.
LEMMA ReturnInv ==
    ASSUME GuardInv, NEW w \in Worker, Return(w)
    PROVE  GuardInv'
  BY DEF GuardInv, GuardTypeOK, StampsAreRecent, EntriesMatchLastUse, RecentUsesAreRemembered, Return

\* Time passes.
LEMMA TickInv ==
    ASSUME GuardInv, Tick
    PROVE  GuardInv'
<1>1. GuardTypeOK'
  BY DEF GuardInv, GuardTypeOK, Tick
<1>2. StampsAreRecent'
  BY ReplayGuardAssumption DEF GuardInv, GuardTypeOK, StampsAreRecent, Tick
<1>3. EntriesMatchLastUse'
  BY DEF GuardInv, EntriesMatchLastUse, Tick
<1>4. RecentUsesAreRemembered'
  BY ReplayGuardAssumption DEF GuardInv, GuardTypeOK, RecentUsesAreRemembered, Tick, Lower, Never
<1> QED
  BY <1>1, <1>2, <1>3, <1>4 DEF GuardInv

\* Every step keeps the invariant.
LEMMA GuardNextInv == GuardInv /\ [GuardNext]_guardVars => GuardInv'
<1> SUFFICES ASSUME GuardInv, [GuardNext]_guardVars PROVE GuardInv'
  OBVIOUS
<1>1. CASE UNCHANGED guardVars
  BY <1>1 DEF guardVars, GuardInv, GuardTypeOK, StampsAreRecent, EntriesMatchLastUse,
              RecentUsesAreRemembered, Lower
<1>2. CASE GuardNext
  BY <1>2, BeginCheckInv, CheckFreshInv, CheckReplayedInv, ReturnInv, TickInv DEF GuardNext
<1> QED
  BY <1>1, <1>2

(***************************************************************************)
(* Type correctness of the replay table and of the calls on it, and the    *)
(* guarantee that recent uses stay in the table, in every reachable state. *)
(***************************************************************************)
THEOREM GuardInvariant == GuardSpec => [](GuardTypeOK /\ RecentUsesAreRemembered)
<1>1. GuardInv => GuardTypeOK /\ RecentUsesAreRemembered
  BY DEF GuardInv
<1> QED
  BY <1>1, GuardInitInv, GuardNextInv, PTL DEF GuardSpec

-----------------------------------------------------------------------------
(***************************************************************************)
(* The refinement: the initial states map to initial states, and every     *)
(* step maps to a step of SingleUse with the same effect.                  *)
(***************************************************************************)
LEMMA GuardRefinesInit == GuardInit => SU!Init
  BY DEF GuardInit, SU!Init, Never, SU!Never

\* A thread that reads the clock presents its ticket.
LEMMA RefinesBeginCheck ==
    ASSUME GuardInv, NEW w \in Worker, NEW t \in Ticket, BeginCheck(w, t)
    PROVE  SU!Present(w, t)
  BY DEF GuardInv, GuardTypeOK, BeginCheck, SU!Present

\* An answer Fresh is one that SingleUse allows.
LEMMA RefinesCheckFresh ==
    ASSUME GuardInv, NEW w \in Worker, CheckFresh(w)
    PROVE  SU!AnswerFresh(w)
<1>1. pc[w] = "clocked" /\ arg[w] \in Ticket /\ Prune(stamp[w])[arg[w]] = NotSeen
  BY DEF CheckFresh, GuardInv, GuardTypeOK
<1>2. lastUse[arg[w]] # Never => now - lastUse[arg[w]] > Lower
  BY <1>1, PrunePreserves
<1> QED
  BY <1>1, <1>2 DEF GuardInv, GuardTypeOK, CheckFresh, SU!AnswerFresh, Never, SU!Never

\* So is an answer Replayed.
LEMMA RefinesCheckReplayed ==
    ASSUME GuardInv, NEW w \in Worker, CheckReplayed(w)
    PROVE  SU!AnswerReplayed(w)
<1>1. pc[w] = "clocked" /\ arg[w] \in Ticket /\ Prune(stamp[w])[arg[w]] # NotSeen
  BY DEF CheckReplayed, GuardInv, GuardTypeOK
<1>2. lastUse[arg[w]] # Never /\ now - lastUse[arg[w]] <= Upper
  BY <1>1, PrunePreserves
<1> QED
  BY <1>1, <1>2 DEF GuardInv, GuardTypeOK, CheckReplayed, SU!AnswerReplayed, Never, SU!Never

\* Returning is a step of SingleUse.
LEMMA RefinesReturn ==
    ASSUME GuardInv, NEW w \in Worker, Return(w)
    PROVE  SU!Finish(w)
  BY DEF GuardInv, GuardTypeOK, Return, SU!Finish

\* So is the passage of time.
LEMMA RefinesTick == Tick => SU!Tick
  BY DEF Tick, SU!Tick

\* Every step is one of SingleUse or none.
LEMMA GuardRefinesNext == GuardInv /\ [GuardNext]_guardVars => [SU!Next]_SU!vars
<1> SUFFICES ASSUME GuardInv, [GuardNext]_guardVars PROVE [SU!Next]_SU!vars
  OBVIOUS
<1>1. CASE UNCHANGED guardVars
  BY <1>1 DEF guardVars, SU!vars
<1>2. CASE GuardNext
  BY <1>2, RefinesBeginCheck, RefinesCheckFresh, RefinesCheckReplayed, RefinesReturn,
     RefinesTick DEF GuardNext, SU!Next
<1> QED
  BY <1>1, <1>2

(***************************************************************************)
(* Every behaviour of check_and_record, for any number of threads, is a    *)
(* behaviour of SingleUse: no ticket is Fresh twice within Lower seconds   *)
(* and none is Replayed more than Upper seconds after its last use.        *)
(***************************************************************************)
THEOREM SingleUseRefinement == GuardSpec => ImplementsSingleUse
<1>1. GuardInit /\ [][GuardNext]_guardVars => []GuardInv
  BY GuardInitInv, GuardNextInv, PTL
<1> QED
  BY <1>1, GuardRefinesInit, GuardRefinesNext, PTL DEF GuardSpec, ImplementsSingleUse, SU!Spec

-----------------------------------------------------------------------------
(***************************************************************************)
(* OxiTicketer implements TicketEpochs.  The invariant says that the slots *)
(* hold the keys of the last two epochs (SlotsMatchEpochs); it is          *)
(* inductive only together with KeysAreFresh, which keeps a key that was   *)
(* drawn outside the lock apart from every key that has already sealed a   *)
(* ticket.                                                                 *)
(***************************************************************************)

\* The first state satisfies the invariant.
LEMMA TicketerInitInv == TicketerInit => TicketerInv
  BY OxiTicketerAssumption DEF TicketerInit, TicketerInv, TicketerTypeOK, KeysAreFresh, SlotsMatchEpochs,
     FallbackIsNeeded, Key, NoKey, Unsealed, Opens

\* Whether a key opens a ticket is a Boolean.
LEMMA OpensType == \A k, t : Opens(k, t) \in BOOLEAN
  BY Zenon DEF Opens

\* A ticket is sealed with the current key.
LEMMA EncryptInv ==
    ASSUME TicketerInv, NEW t \in Ticket, Encrypt(t)
    PROVE  TicketerInv'
<1>1. TicketerTypeOK'
  BY DEF TicketerInv, TicketerTypeOK, Encrypt, EncryptWithKey, Key, NoKey, Unsealed
<1>2. KeysAreFresh'
  BY DEF TicketerInv, TicketerTypeOK, KeysAreFresh, Encrypt, EncryptWithKey, Key, NoKey
<1>3. SlotsMatchEpochs'
  BY DEF TicketerInv, TicketerTypeOK, KeysAreFresh, SlotsMatchEpochs, Encrypt, EncryptWithKey, Key, NoKey, Unsealed
<1>4. FallbackIsNeeded'
  BY OxiTicketerAssumption DEF TicketerInv, TicketerTypeOK, FallbackIsNeeded, Encrypt, EncryptWithKey, Opens
<1> QED
  BY <1>1, <1>2, <1>3, <1>4 DEF TicketerInv

\* The current key is tried.
LEMMA DecryptCurrentInv ==
    ASSUME TicketerInv, NEW w \in Worker, NEW t \in Ticket, DecryptCurrent(w, t)
    PROVE  TicketerInv'
<1>1. TicketerTypeOK'
  <2> DEFINE a == [ticket |-> t, ok |-> Opens(current, t)]
  <2>1. a \in Answer
    BY OpensType DEF Answer
  <2>2. answer' \in {answer, [answer EXCEPT ![w] = a]} /\ subject' \in {subject, [subject EXCEPT ![w] = t]}
    BY DEF DecryptCurrent
  <2> HIDE DEF a
  <2> QED
    BY <2>1, <2>2 DEF TicketerInv, TicketerTypeOK, DecryptCurrent
<1>2. KeysAreFresh' /\ SlotsMatchEpochs'
  BY DEF TicketerInv, KeysAreFresh, SlotsMatchEpochs, DecryptCurrent
<1>3. FallbackIsNeeded'
  BY OxiTicketerAssumption DEF TicketerInv, TicketerTypeOK, FallbackIsNeeded, DecryptCurrent, Opens
<1> QED
  BY <1>1, <1>2, <1>3 DEF TicketerInv

\* The previous key is tried.
LEMMA DecryptPreviousInv ==
    ASSUME TicketerInv, NEW w \in Worker, DecryptPrevious(w)
    PROVE  TicketerInv'
<1>1. TicketerTypeOK'
  <2> DEFINE a == [ticket |-> subject[w], ok |-> Opens(previous, subject[w])]
  <2>1. a \in Answer
    BY OpensType DEF Answer, TicketerInv, TicketerTypeOK, DecryptPrevious
  <2>2. answer' = [answer EXCEPT ![w] = a]
    BY DEF DecryptPrevious
  <2> HIDE DEF a
  <2> QED
    BY <2>1, <2>2 DEF TicketerInv, TicketerTypeOK, DecryptPrevious
<1>2. KeysAreFresh' /\ SlotsMatchEpochs'
  BY DEF TicketerInv, KeysAreFresh, SlotsMatchEpochs, DecryptPrevious
<1>3. FallbackIsNeeded'
  BY DEF TicketerInv, TicketerTypeOK, FallbackIsNeeded, DecryptPrevious, Opens
<1> QED
  BY <1>1, <1>2, <1>3 DEF TicketerInv

\* The answer is delivered.
LEMMA DeliverInv ==
    ASSUME TicketerInv, NEW w \in Worker, Deliver(w)
    PROVE  TicketerInv'
  BY DEF TicketerInv, TicketerTypeOK, KeysAreFresh, SlotsMatchEpochs, FallbackIsNeeded, Deliver, Opens

\* A key is drawn that was never drawn before.
LEMMA GenerateInv ==
    ASSUME TicketerInv, NEW r \in Rotator, Generate(r)
    PROVE  TicketerInv'
<1>1. TicketerTypeOK'
  BY DEF TicketerInv, TicketerTypeOK, Generate
<1>2. KeysAreFresh'
  BY DEF TicketerInv, TicketerTypeOK, KeysAreFresh, Generate, Key, NoKey
<1>3. SlotsMatchEpochs' /\ FallbackIsNeeded'
  BY DEF TicketerInv, SlotsMatchEpochs, FallbackIsNeeded, Generate, Opens
<1> QED
  BY <1>1, <1>2, <1>3 DEF TicketerInv

\* It is installed, and the slots hold the last two keys.
LEMMA InstallInv ==
    ASSUME TicketerInv, NEW r \in Rotator, Install(r)
    PROVE  TicketerInv'
<1>1. TicketerTypeOK'
  BY DEF TicketerInv, TicketerTypeOK, Install, Key, NoKey
<1>2. KeysAreFresh'
  BY DEF TicketerInv, TicketerTypeOK, KeysAreFresh, Install, Key, NoKey
<1>3. SlotsMatchEpochs'
  BY DEF TicketerInv, TicketerTypeOK, KeysAreFresh, SlotsMatchEpochs, Install, Key, NoKey, Unsealed
<1>4. FallbackIsNeeded'
  BY DEF FallbackIsNeeded, Install, Readers
<1> QED
  BY <1>1, <1>2, <1>3, <1>4 DEF TicketerInv

\* Every step keeps the invariant.
LEMMA TicketerNextInv == TicketerInv /\ [TicketerNext]_ticketerVars => TicketerInv'
<1> SUFFICES ASSUME TicketerInv, [TicketerNext]_ticketerVars PROVE TicketerInv'
  OBVIOUS
<1>1. CASE UNCHANGED ticketerVars
  BY <1>1 DEF ticketerVars, TicketerInv, TicketerTypeOK, KeysAreFresh, SlotsMatchEpochs, FallbackIsNeeded, Opens
<1>2. CASE TicketerNext
  BY <1>2, EncryptInv, DecryptCurrentInv, DecryptPreviousInv, DeliverInv, GenerateInv,
     InstallInv DEF TicketerNext
<1> QED
  BY <1>1, <1>2

(***************************************************************************)
(* The key slots hold exactly the keys of the last two epochs in every     *)
(* reachable state of OxiTicketer, however many rotations race.            *)
(***************************************************************************)
THEOREM SlotsInvariant == TicketerSpec => [](TicketerTypeOK /\ SlotsMatchEpochs)
<1>1. TicketerInv => TicketerTypeOK /\ SlotsMatchEpochs
  BY DEF TicketerInv
<1> QED
  BY <1>1, TicketerInitInv, TicketerNextInv, PTL DEF TicketerSpec

-----------------------------------------------------------------------------
\* The first state is one of TicketEpochs.
LEMMA TicketerRefinesInit == TicketerInit => TE!Init
  BY DEF TicketerInit, TE!Init, Unsealed, TE!Unsealed

\* What the two attempts find is what TicketEpochs calls a live ticket.
LEMMA OpensIsLive ==
    ASSUME TicketerInv, NEW t \in Ticket
    PROVE  TE!Live(t) <=> (Opens(current, t) \/ Opens(previous, t))
  BY DEF TicketerInv, TicketerTypeOK, SlotsMatchEpochs, Opens, TE!Live, Unsealed, TE!Unsealed, Key, NoKey

\* The first attempt answers as TicketEpochs allows, or does not answer.
LEMMA RefinesDecryptCurrent ==
    ASSUME TicketerInv, NEW w \in Worker, NEW t \in Ticket, DecryptCurrent(w, t)
    PROVE  TE!Decrypt(w, t) \/ UNCHANGED TE!vars
<1>1. CASE Opens(current, t) \/ previous = NoKey
  <2>1. Opens(current, t) = TE!Live(t)
    BY <1>1, OpensIsLive DEF Opens, TE!Live
  <2> QED
    BY <1>1, <2>1 DEF DecryptCurrent, TE!Decrypt
<1>2. CASE ~(Opens(current, t) \/ previous = NoKey)
  BY <1>2 DEF DecryptCurrent, TE!vars
<1> QED
  BY <1>1, <1>2

\* The second attempt answers as TicketEpochs allows.
LEMMA RefinesDecryptPrevious ==
    ASSUME TicketerInv, NEW w \in Worker, DecryptPrevious(w)
    PROVE  \E t \in Ticket : TE!Decrypt(w, t)
<1>1. subject[w] \in Ticket /\ answer[w] = NoAnswer /\ ~Opens(current, subject[w])
  BY DEF TicketerInv, TicketerTypeOK, FallbackIsNeeded, DecryptPrevious
<1>2. Opens(previous, subject[w]) = TE!Live(subject[w])
  BY <1>1, OpensIsLive DEF Opens, TE!Live
<1>3. TE!Decrypt(w, subject[w])
  BY <1>1, <1>2 DEF DecryptPrevious, TE!Decrypt
<1> QED
  BY <1>1, <1>3

\* Every step is one of TicketEpochs or none.
LEMMA TicketerRefinesNext == TicketerInv /\ [TicketerNext]_ticketerVars => [TE!Next]_TE!vars
<1> SUFFICES ASSUME TicketerInv, [TicketerNext]_ticketerVars PROVE [TE!Next]_TE!vars
  OBVIOUS
<1>1. CASE UNCHANGED ticketerVars
  BY <1>1 DEF ticketerVars, TE!vars
<1>2. ASSUME NEW t \in Ticket, Encrypt(t) PROVE TE!Seal(t)
  BY <1>2 DEF TicketerInv, SlotsMatchEpochs, Encrypt, EncryptWithKey, TE!Seal, Unsealed, TE!Unsealed
<1>3. ASSUME NEW w \in Worker, Deliver(w) PROVE TE!Deliver(w)
  BY <1>3 DEF Deliver, TE!Deliver
<1>4. ASSUME NEW r \in Rotator, Generate(r) PROVE UNCHANGED TE!vars
  BY <1>4 DEF Generate, TE!vars
<1>5. ASSUME NEW r \in Rotator, Install(r) PROVE TE!Rotate
  BY <1>5 DEF Install, TE!Rotate
<1>6. CASE TicketerNext
  BY <1>2, <1>3, <1>4, <1>5, <1>6, RefinesDecryptCurrent, RefinesDecryptPrevious DEF TicketerNext, TE!Next
<1> QED
  BY <1>1, <1>6

(***************************************************************************)
(* Every behaviour of the ticketer is a behaviour of TicketEpochs: decrypt *)
(* answers Some exactly for tickets of this epoch and of the one before,   *)
(* at one instant of the call, however rotations race with it.             *)
(***************************************************************************)
THEOREM EpochsRefinement == TicketerSpec => ImplementsTicketEpochs
<1>1. TicketerInit /\ [][TicketerNext]_ticketerVars => []TicketerInv
  BY TicketerInitInv, TicketerNextInv, PTL
<1> QED
  BY <1>1, TicketerRefinesInit, TicketerRefinesNext, PTL DEF TicketerSpec, ImplementsTicketEpochs, TE!Spec

-----------------------------------------------------------------------------
(***************************************************************************)
(* AntiReplayTicketer lets its two parts take only steps of their own: so  *)
(* it inherits what was proved of them, refinements included.  What        *)
(* connects the two, that the guard is asked only about tickets which the  *)
(* inner ticketer opened, is the invariant CallsAreBacked.                 *)
(***************************************************************************)

-----------------------------------------------------------------------------
(* The parts.                                                              *)

\* Every step of the decorator is one of the inner ticketer, or leaves it alone.
LEMMA StepOfTicketer == [Next]_vars => [TicketerNext]_ticketerVars
<1>1. UNCHANGED vars => UNCHANGED ticketerVars
      BY DEF vars
<1>2. \A t \in Ticket : EncryptGuarded(t) => TicketerNext
      BY DEF EncryptGuarded, TicketerNext
<1>3. \A w \in Worker : DecryptInner(w) => TicketerNext
      BY DEF DecryptInner, TicketerNext
<1>4. \A w \in Worker : RejectUnopened(w) \/ ConsultGuard(w) => TicketerNext
      BY DEF RejectUnopened, ConsultGuard, TicketerNext
<1>5. \A w \in Worker : CheckGuarded(w) \/ ReturnGuarded(w) => UNCHANGED ticketerVars
      BY DEF CheckGuarded, ReturnGuarded
<1>6. \A r \in Rotator : Rotate(r) => TicketerNext
      BY DEF Rotate, TicketerNext
<1>7. TickGuarded => UNCHANGED ticketerVars
      BY DEF TickGuarded
<1> QED BY <1>1, <1>2, <1>3, <1>4, <1>5, <1>6, <1>7 DEF Next

\* Every step of the decorator is one of the guard, or leaves it alone: the ticket
\* that it is asked about is one that the inner ticketer answered for.
LEMMA StepOfGuard == TicketerInv /\ [Next]_vars => [GuardNext]_guardVars
<1> SUFFICES ASSUME TicketerInv, [Next]_vars PROVE [GuardNext]_guardVars
      OBVIOUS
<1>1. UNCHANGED vars => UNCHANGED guardVars
      BY DEF vars
<1>2. \A t \in Ticket : EncryptGuarded(t) => UNCHANGED guardVars
      BY DEF EncryptGuarded
<1>3. \A w \in Worker : DecryptInner(w) \/ RejectUnopened(w) => UNCHANGED guardVars
      BY DEF DecryptInner, RejectUnopened
<1>4. ASSUME NEW w \in Worker, ConsultGuard(w)
      PROVE  GuardNext
  <2>1. answer[w].ticket \in Ticket
        BY <1>4 DEF ConsultGuard, TicketerInv, TicketerTypeOK, Answer
  <2> QED BY <1>4, <2>1 DEF ConsultGuard, GuardNext
<1>5. \A w \in Worker : CheckGuarded(w) \/ ReturnGuarded(w) => GuardNext
      BY DEF CheckGuarded, ReturnGuarded, GuardNext
<1>6. \A r \in Rotator : Rotate(r) => UNCHANGED guardVars
      BY DEF Rotate
<1>7. TickGuarded => GuardNext
      BY DEF TickGuarded, GuardNext
<1> QED BY <1>1, <1>2, <1>3, <1>4, <1>5, <1>6, <1>7 DEF Next

\* The inner ticketer keeps its invariant.
LEMMA InnerInvariant == Spec => []TicketerInv
<1>1. Init => TicketerInv
      BY TicketerInitInv DEF Init
<1>2. TicketerInv /\ [Next]_vars => TicketerInv'
      BY StepOfTicketer, TicketerNextInv
<1> QED BY <1>1, <1>2, PTL DEF Spec

(***************************************************************************)
(* The decorator is both of its parts: whatever handshake threads and      *)
(* rotations do between its two critical sections, it behaves towards the  *)
(* inner ticketer and towards the guard as any of their callers may.       *)
(***************************************************************************)
THEOREM Composition == Spec => TicketerSpec /\ GuardSpec
<1>1. Init => TicketerInit /\ GuardInit
      BY DEF Init
<1>2. TicketerInv /\ [Next]_vars => [TicketerNext]_ticketerVars /\ [GuardNext]_guardVars
      BY StepOfTicketer, StepOfGuard
<1> QED BY <1>1, <1>2, InnerInvariant, PTL DEF Spec, TicketerSpec, GuardSpec

(***************************************************************************)
(* Behind the decorator a ticket is accepted once within the window, and   *)
(* every ticket is answered by the epochs of the inner ticketer.           *)
(***************************************************************************)
THEOREM GuardedRefinement == Spec => ImplementsSingleUse /\ ImplementsTicketEpochs
BY Composition, SingleUseRefinement, EpochsRefinement

-----------------------------------------------------------------------------
(* What connects the parts.                                                *)

\* The first state satisfies the invariant.
LEMMA AntiReplayInitInv == Init => AntiReplayInv
<1> SUFFICES ASSUME Init PROVE AntiReplayInv
      OBVIOUS
<1>1. GuardInv /\ TicketerInv
      BY GuardInitInv, TicketerInitInv DEF Init
<1>2. openedIn \in [Worker -> Nat \cup {NotOpened}]
      BY DEF Init
<1>3. CallsAreBacked
      BY DEF Init, CallsAreBacked, GuardInit, TicketerInit
<1>4. OnlySealedTicketsAreRecorded
      BY DEF Init, OnlySealedTicketsAreRecorded, GuardInit
<1> QED BY <1>1, <1>2, <1>3, <1>4 DEF AntiReplayInv

\* Sealing a ticket and rotating the keys do not change what a call has opened.
LEMMA SealAndRotateInv ==
    ASSUME AntiReplayInv, (\E t \in Ticket : EncryptGuarded(t)) \/ (\E r \in Rotator : Rotate(r))
    PROVE  CallsAreBacked' /\ OnlySealedTicketsAreRecorded'
<1>1. /\ UNCHANGED <<answer, openedIn>> /\ UNCHANGED guardVars
      /\ \A t \in Ticket : sealedBy[t] # NoKey =>
           sealedBy'[t] = sealedBy[t] /\ sealedAt'[t] = sealedAt[t]
  <2>1. ASSUME NEW t \in Ticket, EncryptGuarded(t)
        PROVE  <1>1!1 /\ <1>1!2
        BY <2>1 DEF EncryptGuarded, Encrypt, EncryptWithKey, AntiReplayInv, TicketerInv, TicketerTypeOK
  <2>2. ASSUME NEW r \in Rotator, Rotate(r)
        PROVE  <1>1!1 /\ <1>1!2
        BY <2>2 DEF Rotate, Generate, Install
  <2> QED BY <2>1, <2>2
<1>2. UNCHANGED <<pc, arg, seen>>
      BY <1>1 DEF guardVars
<1>3. \A w \in Worker : /\ pc[w] # "idle" => arg[w] \in Ticket
                        /\ answer[w] # NoAnswer => answer[w].ticket \in Ticket
      BY DEF AntiReplayInv, GuardInv, GuardTypeOK, TicketerInv, TicketerTypeOK, Answer
<1>4. CallsAreBacked'
  <2> SUFFICES ASSUME NEW v \in Worker
               PROVE  /\ pc'[v] # "idle" => answer'[v] = NoAnswer /\ Backed(v, arg[v])'
                      /\ answer'[v] # NoAnswer /\ answer'[v].ok => Backed(v, answer[v].ticket)'
        BY DEF CallsAreBacked
  <2>1. /\ pc[v] # "idle" => answer[v] = NoAnswer /\ Backed(v, arg[v])
        /\ answer[v] # NoAnswer /\ answer[v].ok => Backed(v, answer[v].ticket)
        BY DEF AntiReplayInv, CallsAreBacked
  <2>2. \A t \in Ticket : Backed(v, t) =>
          sealedBy'[t] # NoKey /\ openedIn'[v] # NotOpened /\ sealedAt'[t] \in {openedIn'[v], openedIn'[v] - 1}
        BY <1>1 DEF Backed
  <2>3. pc'[v] # "idle" => answer'[v] = NoAnswer /\ Backed(v, arg[v])'
        BY <1>1, <1>2, <1>3, <2>1, <2>2 DEF Backed
  <2>4. answer'[v] # NoAnswer /\ answer'[v].ok => Backed(v, answer[v].ticket)'
        BY <1>1, <1>3, <2>1, <2>2 DEF Backed
  <2> QED BY <2>3, <2>4
<1>5. OnlySealedTicketsAreRecorded'
      BY <1>1, <1>2 DEF AntiReplayInv, OnlySealedTicketsAreRecorded
<1> QED BY <1>4, <1>5

\* DecryptInner: a ticket that opens was sealed in this epoch or the one before.
LEMMA DecryptInnerInv ==
    ASSUME AntiReplayInv, NEW w \in Worker, DecryptInner(w)
    PROVE  /\ openedIn' \in [Worker -> Nat \cup {NotOpened}]
           /\ CallsAreBacked' /\ OnlySealedTicketsAreRecorded'
<1>1. /\ TicketerTypeOK /\ SlotsMatchEpochs /\ CallsAreBacked
      /\ openedIn \in [Worker -> Nat \cup {NotOpened}]
      BY DEF AntiReplayInv, TicketerInv
<1>2. /\ pc[w] = "idle"
      /\ UNCHANGED <<pc, arg, seen, sealedBy, sealedAt, epoch>>
      /\ openedIn' = [openedIn EXCEPT ![w] = IF answer'[w] # NoAnswer /\ answer'[w].ok
                                             THEN epoch ELSE NotOpened]
      BY DEF DecryptInner, DecryptCurrent, DecryptPrevious, guardVars
<1>3. /\ \A v \in Worker \ {w} : answer'[v] = answer[v]
      /\ answer'[w] # NoAnswer /\ answer'[w].ok =>
           /\ sealedBy[answer'[w].ticket] # NoKey
           /\ sealedAt[answer'[w].ticket] \in {epoch, epoch - 1}
  <2>1. ASSUME NEW t \in Ticket, DecryptCurrent(w, t)
        PROVE  <1>3!1 /\ <1>3!2
    <3>1. CASE answer' = [answer EXCEPT ![w] = [ticket |-> t, ok |-> Opens(current, t)]]
      <4>1. /\ answer'[w] = [ticket |-> t, ok |-> Opens(current, t)]
            /\ \A v \in Worker \ {w} : answer'[v] = answer[v]
            BY <1>1, <3>1 DEF TicketerTypeOK
      <4>2. Opens(current, t) => sealedBy[t] # NoKey /\ sealedAt[t] = epoch
            BY <1>1 DEF Opens, SlotsMatchEpochs
      <4> QED BY <4>1, <4>2
    <3>2. CASE answer' = answer
          BY <2>1, <3>2 DEF DecryptCurrent
    <3> QED BY <2>1, <3>1, <3>2 DEF DecryptCurrent
  <2>2. CASE DecryptPrevious(w)
    <3>1. subject[w] \in Ticket
          BY <1>1, <2>2 DEF DecryptPrevious, TicketerTypeOK
    <3>2. /\ answer'[w] = [ticket |-> subject[w], ok |-> Opens(previous, subject[w])]
          /\ \A v \in Worker \ {w} : answer'[v] = answer[v]
          BY <1>1, <2>2 DEF DecryptPrevious, TicketerTypeOK
    <3>3. Opens(previous, subject[w]) =>
            sealedBy[subject[w]] # NoKey /\ sealedAt[subject[w]] = epoch - 1
          BY <1>1, <3>1 DEF Opens, SlotsMatchEpochs
    <3> QED BY <3>2, <3>3
  <2> QED BY <2>1, <2>2 DEF DecryptInner
<1>4. /\ openedIn' \in [Worker -> Nat \cup {NotOpened}]
      /\ \A v \in Worker \ {w} : openedIn'[v] = openedIn[v]
      /\ answer'[w] # NoAnswer /\ answer'[w].ok => openedIn'[w] = epoch
      /\ epoch \in Nat /\ epoch # NotOpened
      BY <1>1, <1>2 DEF TicketerTypeOK, NotOpened
<1>5. CallsAreBacked'
  <2> SUFFICES ASSUME NEW v \in Worker
               PROVE  /\ pc'[v] # "idle" => answer'[v] = NoAnswer /\ Backed(v, arg[v])'
                      /\ answer'[v] # NoAnswer /\ answer'[v].ok => Backed(v, answer[v].ticket)'
        BY <1>2 DEF CallsAreBacked
  <2>1. CASE v = w
        BY <1>2, <1>3, <1>4, <2>1 DEF Backed
  <2>2. CASE v # w
        BY <1>1, <1>2, <1>3, <1>4, <2>2 DEF CallsAreBacked, Backed
  <2> QED BY <2>1, <2>2
<1>6. OnlySealedTicketsAreRecorded'
      BY <1>2 DEF AntiReplayInv, OnlySealedTicketsAreRecorded
<1> QED BY <1>4, <1>5, <1>6

\* The answer is delivered, and for an authentic ticket the guard is asked.
LEMMA HandOverInv ==
    ASSUME AntiReplayInv, NEW w \in Worker, RejectUnopened(w) \/ ConsultGuard(w)
    PROVE  CallsAreBacked' /\ OnlySealedTicketsAreRecorded'
<1>1. TicketerTypeOK /\ GuardTypeOK /\ CallsAreBacked
      BY DEF AntiReplayInv, TicketerInv, GuardInv
<1>2. /\ answer[w] # NoAnswer /\ answer' = [answer EXCEPT ![w] = NoAnswer]
      /\ UNCHANGED <<seen, openedIn, sealedBy, sealedAt>>
      BY DEF RejectUnopened, ConsultGuard, Deliver, BeginCheck, guardVars
<1>3. /\ answer'[w] = NoAnswer
      /\ \A v \in Worker \ {w} : answer'[v] = answer[v]
      BY <1>1, <1>2 DEF TicketerTypeOK
<1>4. /\ \A v \in Worker \ {w} : pc'[v] = pc[v] /\ arg'[v] = arg[v]
      /\ pc'[w] # "idle" => \/ pc[w] # "idle" /\ arg'[w] = arg[w]
                            \/ answer[w].ok /\ arg'[w] = answer[w].ticket
  <2>1. CASE RejectUnopened(w)
        BY <2>1 DEF RejectUnopened, guardVars
  <2>2. CASE ConsultGuard(w)
        BY <1>1, <2>2 DEF ConsultGuard, BeginCheck, GuardTypeOK
  <2> QED BY <2>1, <2>2
<1>5. CallsAreBacked'
  <2> SUFFICES ASSUME NEW v \in Worker
               PROVE  /\ pc'[v] # "idle" => answer'[v] = NoAnswer /\ Backed(v, arg[v])'
                      /\ answer'[v] # NoAnswer /\ answer'[v].ok => Backed(v, answer[v].ticket)'
        BY DEF CallsAreBacked
  <2>1. CASE v = w
        BY <1>1, <1>2, <1>3, <1>4, <2>1 DEF CallsAreBacked, Backed
  <2>2. CASE v # w
        BY <1>1, <1>2, <1>3, <1>4, <2>2 DEF CallsAreBacked, Backed
  <2> QED BY <2>1, <2>2
<1>6. OnlySealedTicketsAreRecorded'
      BY <1>2 DEF AntiReplayInv, OnlySealedTicketsAreRecorded
<1> QED BY <1>5, <1>6

\* The critical section of the guard records no other ticket than the call's.
LEMMA CheckGuardedInv ==
    ASSUME AntiReplayInv, NEW w \in Worker, CheckGuarded(w)
    PROVE  CallsAreBacked' /\ OnlySealedTicketsAreRecorded'
<1>1. GuardTypeOK /\ TicketerTypeOK /\ CallsAreBacked /\ OnlySealedTicketsAreRecorded
      BY DEF AntiReplayInv, GuardInv, TicketerInv
<1>2. /\ pc[w] = "clocked" /\ arg[w] \in Ticket
      /\ UNCHANGED <<arg, answer, openedIn, sealedBy, sealedAt>>
      /\ \A v \in Worker \ {w} : pc'[v] = pc[v]
      BY <1>1 DEF CheckGuarded, CheckFresh, CheckReplayed, ticketerVars, GuardTypeOK
<1>3. \A t \in Ticket : seen'[t] # NotSeen => seen[t] # NotSeen \/ t = arg[w]
  <2>1. CASE CheckFresh(w)
    <3>1. seen' = [Prune(stamp[w]) EXCEPT ![arg[w]] = stamp[w]]
          BY <2>1 DEF CheckFresh
    <3> QED BY <3>1 DEF Prune
  <2>2. CASE CheckReplayed(w)
    <3>1. seen' = Prune(stamp[w])
          BY <2>2 DEF CheckReplayed
    <3> QED BY <3>1 DEF Prune
  <2> QED BY <2>1, <2>2 DEF CheckGuarded
<1>4. sealedBy[arg[w]] # NoKey
      BY <1>1, <1>2 DEF CallsAreBacked, Backed
<1>5. CallsAreBacked'
  <2> SUFFICES ASSUME NEW v \in Worker
               PROVE  /\ pc'[v] # "idle" => answer'[v] = NoAnswer /\ Backed(v, arg[v])'
                      /\ answer'[v] # NoAnswer /\ answer'[v].ok => Backed(v, answer[v].ticket)'
        BY DEF CallsAreBacked
  <2>1. /\ pc[v] # "idle" => answer[v] = NoAnswer /\ Backed(v, arg[v])
        /\ answer[v] # NoAnswer /\ answer[v].ok => Backed(v, answer[v].ticket)
        BY <1>1 DEF CallsAreBacked
  <2> QED BY <1>2, <2>1 DEF Backed
<1>6. OnlySealedTicketsAreRecorded'
      BY <1>1, <1>2, <1>3, <1>4 DEF OnlySealedTicketsAreRecorded
<1> QED BY <1>5, <1>6

\* The verdict is returned: no call of this thread is left.
LEMMA ReturnGuardedInv ==
    ASSUME AntiReplayInv, NEW w \in Worker, ReturnGuarded(w)
    PROVE  /\ openedIn' \in [Worker -> Nat \cup {NotOpened}]
           /\ CallsAreBacked' /\ OnlySealedTicketsAreRecorded'
<1>1. /\ GuardTypeOK /\ CallsAreBacked
      /\ openedIn \in [Worker -> Nat \cup {NotOpened}]
      BY DEF AntiReplayInv, GuardInv
<1>2. /\ pc[w] # "idle" /\ pc'[w] = "idle"
      /\ UNCHANGED <<seen, answer, sealedBy, sealedAt>>
      /\ \A v \in Worker \ {w} : pc'[v] = pc[v] /\ arg'[v] = arg[v] /\ openedIn'[v] = openedIn[v]
      BY <1>1 DEF ReturnGuarded, Return, ticketerVars, GuardTypeOK
<1>3. openedIn' \in [Worker -> Nat \cup {NotOpened}]
      BY <1>1 DEF ReturnGuarded
<1>4. CallsAreBacked'
  <2> SUFFICES ASSUME NEW v \in Worker
               PROVE  /\ pc'[v] # "idle" => answer'[v] = NoAnswer /\ Backed(v, arg[v])'
                      /\ answer'[v] # NoAnswer /\ answer'[v].ok => Backed(v, answer[v].ticket)'
        BY DEF CallsAreBacked
  <2>1. CASE v = w
        BY <1>1, <1>2, <2>1 DEF CallsAreBacked
  <2>2. CASE v # w
        BY <1>1, <1>2, <2>2 DEF CallsAreBacked, Backed
  <2> QED BY <2>1, <2>2
<1>5. OnlySealedTicketsAreRecorded'
      BY <1>2 DEF AntiReplayInv, OnlySealedTicketsAreRecorded
<1> QED BY <1>3, <1>4, <1>5

\* Every step keeps the invariant.
LEMMA AntiReplayNextInv == AntiReplayInv /\ [Next]_vars => AntiReplayInv'
<1> SUFFICES ASSUME AntiReplayInv, [Next]_vars PROVE AntiReplayInv'
      OBVIOUS
<1>1. GuardInv' /\ TicketerInv'
      BY StepOfTicketer, StepOfGuard, TicketerNextInv, GuardNextInv DEF AntiReplayInv
<1> SUFFICES /\ openedIn' \in [Worker -> Nat \cup {NotOpened}]
             /\ CallsAreBacked' /\ OnlySealedTicketsAreRecorded'
      BY <1>1 DEF AntiReplayInv
<1>2. CASE UNCHANGED <<pc, arg, seen, answer, sealedBy, sealedAt, openedIn>>
      BY <1>2 DEF AntiReplayInv, CallsAreBacked, Backed, OnlySealedTicketsAreRecorded
<1>3. CASE \/ \E t \in Ticket : EncryptGuarded(t)
           \/ \E r \in Rotator : Rotate(r)
      BY <1>3, SealAndRotateInv DEF AntiReplayInv, EncryptGuarded, Rotate
<1>4. ASSUME NEW w \in Worker, DecryptInner(w)
      PROVE  /\ openedIn' \in [Worker -> Nat \cup {NotOpened}]
             /\ CallsAreBacked' /\ OnlySealedTicketsAreRecorded'
      BY <1>4, DecryptInnerInv
<1>5. ASSUME NEW w \in Worker, RejectUnopened(w) \/ ConsultGuard(w)
      PROVE  /\ openedIn' \in [Worker -> Nat \cup {NotOpened}]
             /\ CallsAreBacked' /\ OnlySealedTicketsAreRecorded'
      BY <1>5, HandOverInv DEF AntiReplayInv, RejectUnopened, ConsultGuard
<1>6. ASSUME NEW w \in Worker, CheckGuarded(w)
      PROVE  /\ openedIn' \in [Worker -> Nat \cup {NotOpened}]
             /\ CallsAreBacked' /\ OnlySealedTicketsAreRecorded'
      BY <1>6, CheckGuardedInv DEF AntiReplayInv, CheckGuarded
<1>7. ASSUME NEW w \in Worker, ReturnGuarded(w)
      PROVE  /\ openedIn' \in [Worker -> Nat \cup {NotOpened}]
             /\ CallsAreBacked' /\ OnlySealedTicketsAreRecorded'
      BY <1>7, ReturnGuardedInv
<1>8. TickGuarded \/ UNCHANGED vars => UNCHANGED <<pc, arg, seen, answer, sealedBy, sealedAt, openedIn>>
      BY DEF TickGuarded, Tick, vars, ticketerVars, guardVars
<1> QED BY <1>2, <1>3, <1>4, <1>5, <1>6, <1>7, <1>8 DEF Next

(***************************************************************************)
(* The decorator keeps the invariants of both parts, and a call that has   *)
(* reached the guard is about a ticket that the inner ticketer opened for  *)
(* this very call.                                                         *)
(***************************************************************************)
THEOREM AntiReplayInvariant == Spec => []AntiReplayInv
BY AntiReplayInitInv, AntiReplayNextInv, PTL DEF Spec

-----------------------------------------------------------------------------
(* The deployments of the model-checking instance.                         *)

\* The guarded deployment takes steps of the decorator only.
LEMMA DeploymentInvariant == MCSpec => [](deployment = "guarded" => AntiReplayInv)
<1> DEFINE Inv == deployment = "guarded" => AntiReplayInv
<1>1. MCInit => Inv
      BY AntiReplayInitInv DEF MCInit
<1>2. Inv /\ [MCNext]_<<vars, deployment>> => Inv'
  <2> SUFFICES ASSUME Inv, [MCNext]_<<vars, deployment>>, deployment' = "guarded"
               PROVE  AntiReplayInv'
        OBVIOUS
  <2>1. deployment = "guarded"
        BY DEF MCNext
  <2>2. [Next]_vars
        BY <2>1 DEF MCNext, GuardAlone, TicketerAlone, Guarded
  <2> QED BY <2>1, <2>2, AntiReplayNextInv
<1> QED BY <1>1, <1>2, PTL DEF MCSpec

(***************************************************************************)
(* "The replay table cannot be poisoned": behind the decorator, for any    *)
(* number of handshake threads, tickets, rotations and clock readings, an  *)
(* entry belongs to a ticket that this server sealed.                      *)
(***************************************************************************)
THEOREM TableIsNotPoisoned == MCSpec => []GuardedTicketsWereSealed
<1>1. (deployment = "guarded" => AntiReplayInv) => GuardedTicketsWereSealed
      BY DEF AntiReplayInv, GuardedTicketsWereSealed
<1> QED BY <1>1, DeploymentInvariant, PTL

(***************************************************************************)
(* Behind the decorator a session is resumed only from a ticket of the     *)
(* epoch in which this call opened it or of the one before, however many   *)
(* rotations fall between the two critical sections.                       *)
(***************************************************************************)
THEOREM ResumptionUsesLiveKeys == MCSpec => []GuardedTicketsWereLive
<1>1. AntiReplayInv => ResumedFromLiveKey
      BY DEF AntiReplayInv, CallsAreBacked, Backed, ResumedFromLiveKey
<1>2. (deployment = "guarded" => AntiReplayInv) => GuardedTicketsWereLive
      BY <1>1 DEF GuardedTicketsWereLive
<1> QED BY <1>2, DeploymentInvariant, PTL
=============================================================================
