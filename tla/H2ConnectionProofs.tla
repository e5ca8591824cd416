-------------------------- MODULE H2ConnectionProofs --------------------------
(***************************************************************************)
(* Proofs about H2Connection: for any number of tasks that call ping(),    *)
(* of handles and of streams, sharing the PingPong with the keepalive task *)
(* makes no ping fail.                                                     *)
(***************************************************************************)
EXTENDS H2Connection, SequenceTheorems, TLAPS

-----------------------------------------------------------------------------
(* The mutex and its waiters.                                              *)

\* A task that gives up its place leaves the others in theirs.
LEMMA GiveUpPlace ==
    ASSUME NEW S, NEW q \in Seq(S), IsInjective(q), NEW e
    PROVE  /\ RemoveFirst(q, e) \in Seq(S)
           /\ IsInjective(RemoveFirst(q, e))
           /\ ToSet(RemoveFirst(q, e)) = ToSet(q) \ {e}
           /\ q # <<>> /\ Head(q) # e => RemoveFirst(q, e) # <<>> /\ Head(RemoveFirst(q, e)) = Head(q)
<1>1. /\ Len(q) \in Nat
      /\ DOMAIN q = 1..Len(q)
      /\ \A i \in 1..Len(q) : q[i] \in S
      BY LenProperties, ElementOfSeq
<1>2. CASE \A i \in 1..Len(q) : q[i] # e
  <2>1. RemoveFirst(q, e) = q
        BY <1>2 DEF RemoveFirst
  <2> QED BY <1>1, <1>2, <2>1 DEF ToSet
<1>3. ASSUME NEW i \in 1..Len(q), q[i] = e
      PROVE  /\ RemoveFirst(q, e) \in Seq(S)
             /\ IsInjective(RemoveFirst(q, e))
             /\ ToSet(RemoveFirst(q, e)) = ToSet(q) \ {e}
             /\ q # <<>> /\ Head(q) # e =>
                  RemoveFirst(q, e) # <<>> /\ Head(RemoveFirst(q, e)) = Head(q)
  <2>1. {j \in 1..Len(q) : q[j] = e} = {i}
        BY <1>1, <1>3 DEF IsInjective
  <2>2. Min({i}) = i
        BY DEF Min
  <2>3. RemoveFirst(q, e) = SubSeq(q, 1, i - 1) \o SubSeq(q, i + 1, Len(q))
        BY <1>3, <2>1, <2>2 DEF RemoveFirst, RemoveAt, SelectInSeq
  <2> DEFINE u == SubSeq(q, 1, i - 1)
             v == SubSeq(q, i + 1, Len(q))
             r == u \o v
  <2>4. u \in Seq(S) /\ Len(u) = i - 1 /\ \A j \in 1..i - 1 : u[j] = q[j]
    <3>1. 1 \in Int /\ i - 1 \in Int /\ \A j \in 1..i - 1 : q[j] \in S
          BY <1>1
    <3> QED BY <1>1, <3>1, SubSeqProperties
  <2>5. v \in Seq(S) /\ Len(v) = Len(q) - i /\ \A j \in 1..Len(q) - i : v[j] = q[j + i]
    <3>1. i + 1 \in Int /\ Len(q) \in Int /\ \A j \in i + 1..Len(q) : q[j] \in S
          BY <1>1
    <3>2. /\ v \in Seq(S)
          /\ Len(v) = IF i + 1 <= Len(q) THEN Len(q) - (i + 1) + 1 ELSE 0
          /\ \A j \in 1..Len(q) - (i + 1) + 1 : v[j] = q[(i + 1) + j - 1]
          BY <3>1, SubSeqProperties
    <3> HIDE DEF v
    <3>3. Len(q) - (i + 1) + 1 = Len(q) - i /\ Len(v) = Len(q) - i
      <4>1. PICK n \in Nat : n = Len(q)
            BY <1>1
      <4>2. n - (i + 1) + 1 = n - i /\ (~(i + 1 <= n) => n - i = 0)
            BY <4>1
      <4> QED BY <3>2, <4>1, <4>2
    <3>4. \A j \in 1..Len(q) - i : (i + 1) + j - 1 = j + i
          BY <1>1
    <3> QED BY <3>2, <3>3, <3>4
  <2> HIDE DEF u, v
  <2>6. /\ r \in Seq(S) /\ Len(r) = Len(q) - 1
        /\ \A j \in 1..Len(q) - 1 : r[j] = IF j <= i - 1 THEN u[j] ELSE v[j - (i - 1)]
    <3>1. /\ r \in Seq(S) /\ Len(r) = Len(u) + Len(v)
          /\ \A j \in 1..Len(u) + Len(v) : r[j] = IF j <= Len(u) THEN u[j] ELSE v[j - Len(u)]
          BY <2>4, <2>5, ConcatProperties
    <3>2. Len(u) + Len(v) = Len(q) - 1 /\ Len(u) = i - 1
          BY <1>1, <2>4, <2>5
    <3> HIDE DEF r
    <3> QED BY <3>1, <3>2
  <2>7. ASSUME NEW j \in 1..Len(q) - 1
        PROVE  r[j] = IF j < i THEN q[j] ELSE q[j + 1]
    <3> HIDE DEF r
    <3>1. r[j] = IF j <= i - 1 THEN u[j] ELSE v[j - (i - 1)]
          BY <2>6
    <3>2. CASE j < i
          BY <1>1, <2>4, <3>1, <3>2
    <3>3. CASE ~(j < i)
      <4>1. j - (i - 1) \in 1..Len(q) - i /\ ~(j <= i - 1) /\ (j - (i - 1)) + i = j + 1
            BY <1>1, <3>3
      <4> QED BY <2>5, <3>1, <3>3, <4>1
    <3> QED BY <3>2, <3>3
  <2>8. DOMAIN r = 1..Len(q) - 1
        BY <2>6, LenProperties
  <2> HIDE DEF r
  <2>9. IsInjective(r)
    <3> SUFFICES ASSUME NEW j \in 1..Len(q) - 1, NEW k \in 1..Len(q) - 1, r[j] = r[k]
                 PROVE  j = k
          BY <2>8 DEF IsInjective
    <3> DEFINE a == IF j < i THEN j ELSE j + 1
               d == IF k < i THEN k ELSE k + 1
    <3>1. a \in 1..Len(q) /\ d \in 1..Len(q) /\ (a = d => j = k)
          BY <1>1
    <3>2. q[a] = q[d]
          BY <2>7
    <3> QED BY <1>1, <3>1, <3>2 DEF IsInjective
  <2>10. ToSet(r) = ToSet(q) \ {e}
    <3>1. ASSUME NEW j \in 1..Len(q) - 1
          PROVE  r[j] \in ToSet(q) \ {e}
      <4> DEFINE a == IF j < i THEN j ELSE j + 1
      <4>1. a \in 1..Len(q) /\ a # i
            BY <1>1
      <4>2. r[j] = q[a]
            BY <2>7
      <4>3. q[a] # e
            BY <1>1, <1>3, <4>1 DEF IsInjective
      <4> QED BY <1>1, <4>1, <4>2, <4>3 DEF ToSet
    <3>2. ASSUME NEW k \in 1..Len(q), k # i
          PROVE  q[k] \in ToSet(r)
      <4> DEFINE j == IF k < i THEN k ELSE k - 1
      <4>1. j \in 1..Len(q) - 1 /\ k = (IF j < i THEN j ELSE j + 1)
            BY <1>1, <3>2
      <4>2. r[j] = q[k]
            BY <2>7, <4>1
      <4> QED BY <2>8, <4>1, <4>2 DEF ToSet
    <3> QED BY <1>1, <1>3, <2>8, <3>1, <3>2 DEF ToSet
  <2>11. q # <<>> /\ Head(q) # e => r # <<>> /\ Head(r) = Head(q)
    <3> SUFFICES ASSUME q # <<>>, Head(q) # e PROVE r # <<>> /\ Head(r) = Head(q)
          OBVIOUS
    <3>1. Head(q) = q[1] /\ i # 1
          BY <1>1, <1>3
    <3>2. 1 \in 1..Len(q) - 1 /\ 1 < i
          BY <1>1, <3>1
    <3>3. r[1] = q[1] /\ r # <<>>
          BY <2>6, <2>7, <3>2
    <3> QED BY <2>6, <3>1, <3>3
  <2> QED BY <2>3, <2>6, <2>9, <2>10, <2>11 DEF r, u, v
<1> QED BY <1>2, <1>3

\* A task that leaves the mutex leaves the others in their places.
LEMMA LeaveHead ==
    ASSUME NEW S, NEW q \in Seq(S), IsInjective(q), q # <<>>
    PROVE  /\ Tail(q) \in Seq(S)
           /\ IsInjective(Tail(q))
           /\ ToSet(Tail(q)) = ToSet(q) \ {Head(q)}
<1>1. /\ Len(q) \in Nat \ {0}
      /\ DOMAIN q = 1..Len(q)
      BY LenProperties, EmptySeq
<1>2. /\ Tail(q) \in Seq(S) /\ Len(Tail(q)) = Len(q) - 1
      /\ \A i \in 1..Len(Tail(q)) : Tail(q)[i] = q[i + 1]
      BY HeadTailProperties
<1>3. DOMAIN Tail(q) = 1..Len(q) - 1 /\ Head(q) = q[1]
      BY <1>2, LenProperties
<1>4. \A i \in 1..Len(q) - 1 : Tail(q)[i] = q[i + 1] /\ i + 1 \in 1..Len(q) /\ i + 1 # 1
      BY <1>1, <1>2
<1>5. IsInjective(Tail(q))
      BY <1>1, <1>3, <1>4 DEF IsInjective
<1>6. \A k \in 1..Len(q) : k # 1 => k - 1 \in 1..Len(q) - 1 /\ (k - 1) + 1 = k
      BY <1>1
<1>7. \A k \in 1..Len(q) : k # 1 => q[k] = Tail(q)[k - 1] /\ q[k] # q[1]
      BY <1>1, <1>4, <1>6 DEF IsInjective
<1>8. ToSet(Tail(q)) \subseteq ToSet(q) \ {Head(q)}
      BY <1>1, <1>3, <1>4 DEF ToSet, IsInjective
<1>9. \A k \in 1..Len(q) : q[k] # Head(q) => q[k] \in ToSet(Tail(q))
  <2> SUFFICES ASSUME NEW k \in 1..Len(q), q[k] # Head(q) PROVE q[k] \in ToSet(Tail(q))
        OBVIOUS
  <2>1. k # 1
        BY <1>3
  <2>2. k - 1 \in DOMAIN Tail(q) /\ q[k] = Tail(q)[k - 1]
        BY <1>3, <1>6, <1>7, <2>1
  <2> QED BY <2>2 DEF ToSet
<1>10. ToSet(q) \ {Head(q)} \subseteq ToSet(Tail(q))
      BY <1>1, <1>9 DEF ToSet
<1> QED BY <1>2, <1>5, <1>8, <1>10

\* A task that waits for the mutex is the last of those who wait.
LEMMA JoinQueue ==
    ASSUME NEW S, NEW q \in Seq(S), IsInjective(q), NEW e \in S, e \notin ToSet(q)
    PROVE  /\ Append(q, e) \in Seq(S)
           /\ IsInjective(Append(q, e))
           /\ ToSet(Append(q, e)) = ToSet(q) \cup {e}
           /\ Append(q, e) # <<>>
           /\ q # <<>> => Head(Append(q, e)) = Head(q)
<1>1. /\ Len(q) \in Nat
      /\ DOMAIN q = 1..Len(q)
      BY LenProperties
<1>2. /\ Append(q, e) \in Seq(S) /\ Append(q, e) # <<>>
      /\ Len(Append(q, e)) = Len(q) + 1
      /\ \A i \in 1..Len(q) : Append(q, e)[i] = q[i]
      /\ Append(q, e)[Len(q) + 1] = e
      BY AppendProperties
<1>3. DOMAIN Append(q, e) = 1..Len(q) + 1
      BY <1>2, LenProperties
<1>4. \A i \in 1..Len(q) + 1 : i \in 1..Len(q) \/ i = Len(q) + 1
      BY <1>1
<1>5. \A i \in 1..Len(q) : q[i] # e
      BY <1>1 DEF ToSet
<1>6. IsInjective(Append(q, e))
      BY <1>1, <1>2, <1>3, <1>4, <1>5 DEF IsInjective
<1>7. 1..Len(q) \subseteq 1..Len(q) + 1 /\ Len(q) + 1 \in 1..Len(q) + 1
      BY <1>1
<1>8. ToSet(Append(q, e)) = ToSet(q) \cup {e}
      BY <1>1, <1>2, <1>3, <1>4, <1>7 DEF ToSet
<1>9. q # <<>> => Head(Append(q, e)) = Head(q)
      BY HeadTailAppend
<1> QED BY <1>2, <1>6, <1>8, <1>9

-----------------------------------------------------------------------------
(* The inductive invariant.                                                *)

\* Where a caller of ping() can be.
PcValue == {"idle", "locking", "pinging", "ok", "err", "off", "stopped"}

\* The first state satisfies the invariant.
LEMMA PingInitInv == H2Init => PingInv
<1> SUFFICES ASSUME H2Init PROVE PingInv
      OBVIOUS
<1> USE DEF H2Init
<1>1. pc \in [Pinger -> PcValue]
      BY DEF PcValue
<1>2. \A p \in Pinger : pc[p] \in {"idle", "off"}
      OBVIOUS
<1>3. H2TypeOK
  <2>1. lock \in Seq(Pinger) /\ IsInjective(lock) /\ ToSet(lock) = {}
        BY DEF IsInjective, ToSet
  <2>2. \A p \in Pinger : pc[p] \in {"locking", "pinging"} <=> p \in ToSet(lock)
        BY <1>2, <2>1
  <2> QED BY <1>1, <2>1, <2>2, H2ConnectionAssumption DEF H2TypeOK, PcValue
<1>4. PingHasOwner
      BY <1>2 DEF PingHasOwner
<1>5. PingsFailOnlyWhenClosed
      BY <1>2 DEF PingsFailOnlyWhenClosed, Pinger
<1> QED BY <1>3, <1>4, <1>5 DEF PingInv

\* Steps of the application and of the peer that end nothing.
LEMMA StreamsInv ==
    ASSUME PingInv, CloneHandle \/ DropHandle \/ OpenStream \/ FinishStream \/ Pong
    PROVE  PingInv'
<1>1. /\ UNCHANGED <<driver, conn, outcome, own, lock, pc, cancels>>
      /\ ping' \in {ping, "answered"}
      /\ ping' # ping => ping = "sent"
      BY DEF CloneHandle, DropHandle, OpenStream, FinishStream, Pong
<1>2. clones' \in 0..MaxClones /\ streams' \in 0..MaxStreams
      BY H2ConnectionAssumption DEF PingInv, H2TypeOK, CloneHandle, DropHandle, OpenStream, FinishStream, Pong
<1>3. H2TypeOK'
      BY <1>1, <1>2 DEF PingInv, H2TypeOK
<1>4. PingHasOwner'
      BY <1>1 DEF PingInv, PingHasOwner, Holds
<1>5. PingsFailOnlyWhenClosed'
      BY <1>1 DEF PingInv, PingsFailOnlyWhenClosed
<1> QED BY <1>3, <1>4, <1>5 DEF PingInv

\* The types of what ends with a connection.
LEMMA Ends ==
    ASSUME PingInv
    PROVE  /\ driver \in {"running", "finished", "aborted"}
           /\ conn \in {"held", "closing", "gone"}
           /\ outcome \in {"none", "ok", "timeout"}
           /\ own \in BOOLEAN
           /\ streams \in 0..MaxStreams
           /\ ping \in {"empty", "sent", "answered", "closed"}
           /\ ping = "closed" <=> driver # "running"
BY DEF PingInv, H2TypeOK

\* Steps after which the driver no longer runs, or the connection is dropped.
LEMMA EndInv ==
    ASSUME PingInv, \/ DriverFinishes \/ PeerCloses \/ ShutdownReturns \/ ShutdownTimesOut
                    \/ DropConnection
    PROVE  PingInv'
<1>1. /\ UNCHANGED <<clones, lock, pc, cancels>>
      /\ conn' \in {"held", "closing", "gone"}
      /\ conn' = "closing" => conn = "closing"
      /\ driver' \in {"running", "finished", "aborted"}
      /\ ping' \in {"empty", "sent", "answered", "closed"}
      /\ ping' = "closed" <=> driver' # "running"
      /\ streams' \in 0..MaxStreams
      /\ own' \in BOOLEAN /\ outcome' \in {"none", "ok", "timeout"}
      /\ driver' = "running" => driver = "running" /\ ping' = ping /\ conn # "closing"
  <2> USE Ends, H2ConnectionAssumption DEF EndDriver
  <2>1. CASE DriverFinishes \/ PeerCloses
        BY <2>1 DEF DriverFinishes, PeerCloses
  <2>2. CASE ShutdownReturns
        BY <2>2 DEF ShutdownReturns
  <2>3. CASE ShutdownTimesOut
    <3>1. /\ driver' = "aborted" /\ ping' = "closed" /\ streams' = 0 /\ conn' = "gone"
          /\ own' = FALSE /\ outcome' = "timeout" /\ UNCHANGED <<clones, lock, pc, cancels>>
          BY <2>3 DEF ShutdownTimesOut
    <3>2. own' \in BOOLEAN
          BY <3>1
    <3>3. 0 \in 0..MaxStreams
          OBVIOUS
    <3> QED BY <3>1, <3>2, <3>3
  <2>4. CASE DropConnection
        BY <2>4 DEF DropConnection
  <2> QED BY <2>1, <2>2, <2>3, <2>4
<1>2. H2TypeOK'
      BY <1>1 DEF PingInv, H2TypeOK
<1>3. PingHasOwner'
      BY <1>1 DEF PingInv, PingHasOwner, Holds
<1>4. PingsFailOnlyWhenClosed'
      BY <1>1 DEF PingInv, PingsFailOnlyWhenClosed
<1> QED BY <1>2, <1>3, <1>4 DEF PingInv

\* What the invariant says of the places of the tasks.
LEMMA Places ==
    ASSUME PingInv
    PROVE  /\ lock \in Seq(Pinger) /\ IsInjective(lock)
           /\ \A p \in Pinger : pc[p] \in {"locking", "pinging"} <=> p \in ToSet(lock)
           /\ pc \in [Pinger -> PcValue]
           /\ Keepalive \in Pinger /\ \A c \in Caller : c \in Pinger /\ c # Keepalive
BY H2ConnectionAssumption DEF PingInv, H2TypeOK, PcValue, Pinger

\* Call: the caller waits behind the others.
LEMMA CallInv ==
    ASSUME PingInv, NEW p \in Pinger, Call(p)
    PROVE  PingInv'
<1>1. /\ pc[p] \in {"idle", "ok", "err"} /\ (p \in Caller => conn = "held")
      /\ pc' = [pc EXCEPT ![p] = "locking"]
      /\ lock' = Append(lock, p)
      /\ UNCHANGED <<driver, conn, outcome, clones, own, streams, ping, cancels>>
      BY DEF Call
<1>2. p \notin ToSet(lock)
      BY <1>1, Places
<1>3. /\ lock' \in Seq(Pinger) /\ IsInjective(lock')
      /\ ToSet(lock') = ToSet(lock) \cup {p}
      /\ lock' # <<>>
      /\ lock # <<>> => Head(lock') = Head(lock)
      BY <1>1, <1>2, Places, JoinQueue
<1>4. /\ pc' \in [Pinger -> PcValue]
      /\ pc'[p] = "locking"
      /\ \A q \in Pinger \ {p} : pc'[q] = pc[q]
      BY <1>1, Places DEF PcValue
<1>5. \A q \in Pinger : pc'[q] \in {"locking", "pinging"} <=> q \in ToSet(lock')
      BY <1>3, <1>4, Places
<1>6. H2TypeOK'
      BY <1>1, <1>3, <1>4, <1>5 DEF PingInv, H2TypeOK, PcValue
<1>7. conn # "closing"
      BY <1>1, Places DEF PingInv, PingHasOwner, Pinger
<1>8. PingHasOwner'
  <2>1. \A q \in Pinger : pc'[q] = "pinging" => pc[q] = "pinging" /\ q # p
        BY <1>4
  <2>2. \A q \in Pinger : pc'[q] = "pinging" => Holds(q)'
        BY <1>3, <2>1 DEF PingInv, PingHasOwner, Holds
  <2>3. \A q \in Pinger : pc[q] = "pinging" => pc'[q] = "pinging"
        BY <1>1, <1>4
  <2> QED BY <1>1, <1>7, <2>2, <2>3 DEF PingInv, PingHasOwner
<1>9. PingsFailOnlyWhenClosed'
      BY <1>1, <1>4, Places DEF PingInv, PingsFailOnlyWhenClosed
<1> QED BY <1>6, <1>8, <1>9 DEF PingInv

\* The value that Leave gives to pc[p].
LEMMA LeavePlace ==
    ASSUME PingInv, NEW p \in Pinger, NEW ok \in BOOLEAN, Holds(p), Leave(p, ok)
    PROVE  /\ lock' \in Seq(Pinger) /\ IsInjective(lock')
           /\ ToSet(lock') = ToSet(lock) \ {p}
           /\ pc' \in [Pinger -> PcValue]
           /\ pc'[p] \in {"idle", "stopped", "ok", "err"}
           /\ ok => pc'[p] \in {"idle", "ok"}
           /\ \A q \in Pinger \ {p} : pc'[q] = pc[q]
           /\ \A q \in Pinger : pc'[q] \in {"locking", "pinging"} <=> q \in ToSet(lock')
<1> DEFINE v == CASE p = Keepalive /\ ok  -> "idle"
                  [] p = Keepalive /\ ~ok -> "stopped"
                  [] p # Keepalive /\ ok  -> "ok"
                  [] OTHER                -> "err"
<1>1. lock' = Tail(lock) /\ pc' = [pc EXCEPT ![p] = v] /\ lock # <<>> /\ Head(lock) = p
      BY DEF Leave, Holds
<1>2. v \in {"idle", "stopped", "ok", "err"} /\ (ok => v \in {"idle", "ok"})
      OBVIOUS
<1> HIDE DEF v
<1>3. /\ lock' \in Seq(Pinger) /\ IsInjective(lock')
      /\ ToSet(lock') = ToSet(lock) \ {p}
      BY <1>1, Places, LeaveHead
<1>4. /\ pc' \in [Pinger -> PcValue] /\ pc'[p] = v
      /\ \A q \in Pinger \ {p} : pc'[q] = pc[q]
      BY <1>1, <1>2, Places DEF PcValue
<1>5. \A q \in Pinger : pc'[q] \in {"locking", "pinging"} <=> q \in ToSet(lock')
      BY <1>2, <1>3, <1>4, Places
<1> QED BY <1>2, <1>3, <1>4, <1>5

\* SendPing: it fails only on a connection that is closed, or after a cancelled
\* call, as the holder of the mutex is the only one who may have sent a PING.
LEMMA SendPingInv ==
    ASSUME PingInv, NEW p \in Pinger, SendPing(p)
    PROVE  PingInv'
<1>1. /\ Holds(p) /\ pc[p] = "locking"
      /\ UNCHANGED <<driver, conn, outcome, clones, own, streams, cancels>>
      BY DEF SendPing
<1>2. conn # "closing"
      BY <1>1 DEF PingInv, PingHasOwner, Holds
<1>3. \A q \in Pinger : pc[q] # "pinging"
      BY <1>1 DEF PingInv, PingHasOwner, Holds
<1>4. CASE ping = "empty"
  <2>1. ping' = "sent" /\ pc' = [pc EXCEPT ![p] = "pinging"] /\ lock' = lock
        BY <1>4 DEF SendPing
  <2>2. /\ pc' \in [Pinger -> PcValue] /\ pc'[p] = "pinging"
        /\ \A q \in Pinger \ {p} : pc'[q] = pc[q]
        BY <2>1, Places DEF PcValue
  <2>3. \A q \in Pinger : pc'[q] \in {"locking", "pinging"} <=> q \in ToSet(lock')
        BY <1>1, <2>1, <2>2, Places
  <2>4. H2TypeOK'
        BY <1>1, <1>4, <2>1, <2>2, <2>3 DEF PingInv, H2TypeOK, PcValue
  <2>5. PingHasOwner'
        BY <1>1, <1>2, <1>3, <2>1, <2>2 DEF PingInv, PingHasOwner, Holds
  <2>6. PingsFailOnlyWhenClosed'
        BY <1>1, <2>2, Places DEF PingInv, PingsFailOnlyWhenClosed
  <2> QED BY <2>4, <2>5, <2>6 DEF PingInv
<1>5. CASE ping # "empty"
  <2>1. Leave(p, FALSE) /\ ping' = ping
        BY <1>5 DEF SendPing
  <2>2. /\ lock' \in Seq(Pinger) /\ IsInjective(lock')
        /\ pc' \in [Pinger -> PcValue]
        /\ pc'[p] \in {"idle", "stopped", "ok", "err"}
        /\ \A q \in Pinger \ {p} : pc'[q] = pc[q]
        /\ \A q \in Pinger : pc'[q] \in {"locking", "pinging"} <=> q \in ToSet(lock')
        BY <1>1, <2>1, LeavePlace
  <2>3. H2TypeOK'
        BY <1>1, <2>1, <2>2 DEF PingInv, H2TypeOK, PcValue
  <2>4. ~(cancels = 0 /\ driver = "running")
        BY <1>2, <1>3, <1>5 DEF PingInv, PingHasOwner, H2TypeOK
  <2>5. PingHasOwner'
    <3>1. \A q \in Pinger : pc'[q] # "pinging"
          BY <1>3, <2>2
    <3>2. ~(cancels = 0 /\ ping \in {"sent", "answered"})
          BY <2>4 DEF PingInv, H2TypeOK
    <3> QED BY <1>1, <1>2, <2>1, <3>1, <3>2 DEF PingHasOwner
  <2>6. PingsFailOnlyWhenClosed'
        BY <1>1, <2>4 DEF PingsFailOnlyWhenClosed
  <2> QED BY <2>3, <2>5, <2>6 DEF PingInv
<1> QED BY <1>4, <1>5

\* PingReturns: with the pong the PingPong is empty again.
LEMMA PingReturnsInv ==
    ASSUME PingInv, NEW p \in Pinger, PingReturns(p)
    PROVE  PingInv'
<1>1. /\ Holds(p) /\ pc[p] = "pinging"
      /\ UNCHANGED <<driver, conn, outcome, clones, own, streams, cancels>>
      BY DEF PingReturns
<1>2. PICK ok \in BOOLEAN : /\ Leave(p, ok)
                            /\ ok => ping = "answered" /\ ping' = "empty"
                            /\ ~ok => ping = "closed" /\ ping' = "closed"
      BY DEF PingReturns
<1>3. /\ lock' \in Seq(Pinger) /\ IsInjective(lock')
      /\ pc' \in [Pinger -> PcValue]
      /\ pc'[p] \in {"idle", "stopped", "ok", "err"}
      /\ ok => pc'[p] \in {"idle", "ok"}
      /\ \A q \in Pinger \ {p} : pc'[q] = pc[q]
      /\ \A q \in Pinger : pc'[q] \in {"locking", "pinging"} <=> q \in ToSet(lock')
      BY <1>1, <1>2, LeavePlace
<1>4. H2TypeOK'
      BY <1>1, <1>2, <1>3 DEF PingInv, H2TypeOK, PcValue
<1>5. conn # "closing"
      BY <1>1 DEF PingInv, PingHasOwner, Holds
<1>6. \A q \in Pinger : pc'[q] # "pinging"
      BY <1>1, <1>3 DEF PingInv, PingHasOwner, Holds
<1>7. PingHasOwner'
      BY <1>1, <1>2, <1>5, <1>6 DEF PingHasOwner
<1>8. PingsFailOnlyWhenClosed'
  <2>1. CASE ok
        BY <1>1, <1>3, <2>1, Places DEF PingInv, PingsFailOnlyWhenClosed
  <2>2. CASE ~ok
    <3>1. driver # "running"
          BY <1>2, <2>2 DEF PingInv, H2TypeOK
    <3> QED BY <1>1, <3>1 DEF PingsFailOnlyWhenClosed
  <2> QED BY <2>1, <2>2
<1> QED BY <1>4, <1>7, <1>8 DEF PingInv

\* CancelPing: from then on a PING may be outstanding that nobody waits for.
LEMMA CancelInv ==
    ASSUME PingInv, NEW c \in Caller, CancelPing(c)
    PROVE  PingInv'
<1>1. /\ cancels < MaxCancels /\ cancels' = cancels + 1
      /\ pc[c] \in {"locking", "pinging"} /\ pc' = [pc EXCEPT ![c] = "err"]
      /\ lock' = RemoveFirst(lock, c)
      /\ UNCHANGED <<driver, conn, outcome, clones, own, streams, ping>>
      BY DEF CancelPing
<1>2. /\ lock' \in Seq(Pinger) /\ IsInjective(lock')
      /\ ToSet(lock') = ToSet(lock) \ {c}
      /\ lock # <<>> /\ Head(lock) # c => lock' # <<>> /\ Head(lock') = Head(lock)
      BY <1>1, Places, GiveUpPlace
<1>3. /\ pc' \in [Pinger -> PcValue] /\ pc'[c] = "err"
      /\ \A q \in Pinger \ {c} : pc'[q] = pc[q]
      BY <1>1, Places DEF PcValue
<1>4. \A q \in Pinger : pc'[q] \in {"locking", "pinging"} <=> q \in ToSet(lock')
      BY <1>2, <1>3, Places
<1>5. cancels' \in 0..MaxCancels /\ cancels' # 0
      BY <1>1, H2ConnectionAssumption DEF PingInv, H2TypeOK
<1>6. H2TypeOK'
      BY <1>1, <1>2, <1>3, <1>4, <1>5 DEF PingInv, H2TypeOK, PcValue
<1>7. lock # <<>>
  <2>1. c \in ToSet(lock)
        BY <1>1, Places
  <2> QED BY <2>1 DEF ToSet
<1>8. PingHasOwner'
  <2>1. \A q \in Pinger : pc'[q] = "pinging" => Holds(q)'
        BY <1>2, <1>3 DEF PingInv, PingHasOwner, Holds
  <2> QED BY <1>1, <1>5, <1>7, <2>1 DEF PingInv, PingHasOwner
<1>9. PingsFailOnlyWhenClosed'
      BY <1>5 DEF PingsFailOnlyWhenClosed
<1> QED BY <1>6, <1>8, <1>9 DEF PingInv

\* GracefulShutdown and Abort: no call is in flight, and nobody is left at the mutex.
LEMMA ShutdownInv ==
    ASSUME PingInv, GracefulShutdown \/ Abort
    PROVE  PingInv'
<1>1. /\ NoCallInFlight
      /\ pc' = [pc EXCEPT ![Keepalive] = IF pc[Keepalive] = "off" THEN "off" ELSE "stopped"]
      /\ lock' = RemoveFirst(lock, Keepalive)
      /\ conn' \in {"closing", "gone"}
      /\ UNCHANGED <<outcome, clones, cancels>>
      BY DEF GracefulShutdown, Abort, AbortKeepalive
<1>2. /\ driver' \in {"running", "finished", "aborted"}
      /\ ping' \in {"empty", "sent", "answered", "closed"}
      /\ ping' = "closed" <=> driver' # "running"
      /\ streams' \in 0..MaxStreams
      /\ own' \in BOOLEAN
      /\ driver' = "running" => conn' = "closing" /\ driver = "running"
  <2>1. CASE GracefulShutdown
        BY <2>1, Ends DEF GracefulShutdown
  <2>2. CASE Abort
    <3>1. own' \in BOOLEAN
          BY <2>2 DEF Abort
    <3>2. CASE driver = "running"
      <4>1. driver' = "aborted" /\ ping' = "closed" /\ streams' = 0
            BY <2>2, <3>2 DEF Abort, EndDriver
      <4>2. 0 \in 0..MaxStreams
            BY H2ConnectionAssumption
      <4> QED BY <3>1, <4>1, <4>2
    <3>3. CASE driver # "running"
      <4>1. UNCHANGED <<driver, streams, ping>>
            BY <2>2, <3>3 DEF Abort, EndDriver
      <4> QED BY <3>1, <3>3, <4>1, Ends
    <3> QED BY <3>2, <3>3
  <2> QED BY <2>1, <2>2
<1>3. /\ lock' \in Seq(Pinger) /\ IsInjective(lock')
      /\ ToSet(lock') = ToSet(lock) \ {Keepalive}
      BY <1>1, Places, GiveUpPlace
<1>4. \A c \in Caller : c \notin ToSet(lock)
      BY <1>1, Places DEF NoCallInFlight
<1>5. ToSet(lock') = {} /\ lock' = <<>>
  <2>1. ToSet(lock) \subseteq Pinger
        BY Places, LenProperties, ElementOfSeq DEF ToSet
  <2>2. ToSet(lock') = {}
        BY <1>3, <1>4, <2>1 DEF Pinger
  <2>3. DOMAIN lock' = 1..Len(lock') /\ Len(lock') \in Nat
        BY <1>3, LenProperties
  <2>4. lock' # <<>> => 1 \in DOMAIN lock'
        BY <1>3, <2>3, EmptySeq
  <2> QED BY <2>2, <2>4 DEF ToSet
<1>6. /\ pc' \in [Pinger -> PcValue] /\ pc'[Keepalive] \in {"off", "stopped"}
      /\ \A q \in Pinger \ {Keepalive} : pc'[q] = pc[q]
      BY <1>1, Places DEF PcValue
<1>7. \A q \in Pinger : pc'[q] \notin {"locking", "pinging"}
      BY <1>1, <1>6 DEF NoCallInFlight, Pinger
<1>8. H2TypeOK'
      BY <1>1, <1>2, <1>3, <1>5, <1>6, <1>7 DEF PingInv, H2TypeOK, PcValue
<1>9. PingHasOwner'
      BY <1>1, <1>2, <1>5, <1>6, <1>7 DEF PingHasOwner
<1>10. PingsFailOnlyWhenClosed'
  <2>1. \A c \in Caller : pc'[c] = pc[c]
        BY <1>6, Places
  <2> QED BY <1>1, <1>2, <2>1 DEF PingInv, PingsFailOnlyWhenClosed
<1> QED BY <1>8, <1>9, <1>10 DEF PingInv

(***************************************************************************)
(* The invariant holds in every reachable state: there is one outstanding  *)
(* PING at most, and it belongs to the holder of the mutex.                *)
(***************************************************************************)
THEOREM PingInvariant == H2Spec => []PingInv
<1>1. H2Init => PingInv
      BY PingInitInv
<1>2. PingInv /\ [H2Next]_h2Vars => PingInv'
  <2>1. PingInv /\ UNCHANGED h2Vars => PingInv'
        BY DEF h2Vars, PingInv, H2TypeOK, PingHasOwner, PingsFailOnlyWhenClosed, Holds
  <2> QED BY <2>1, StreamsInv, EndInv, CallInv, SendPingInv, PingReturnsInv, CancelInv,
             ShutdownInv DEF H2Next
<1> QED BY <1>1, <1>2, PTL DEF H2Spec

(***************************************************************************)
(* ping() and keepalive do not make each other fail while the connection   *)
(* is alive, for any number of callers.                                    *)
(***************************************************************************)
THEOREM PingsDoNotCollide == H2Spec => []PingsFailOnlyWhenClosed
<1>1. PingInv => PingsFailOnlyWhenClosed
      BY DEF PingInv
<1> QED BY <1>1, PingInvariant, PTL
=============================================================================
