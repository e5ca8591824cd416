------------------------------ MODULE TokenProofs ------------------------------
(***************************************************************************)
(* Proofs about PKCS#11 tokens: the session pool (SessionPool.tla), for    *)
(* any number of threads and sessions; the choice of a certificate by      *)
(* server name, for any map and names of any length; and the way of a      *)
(* signature to the client, for any keys and bytes (both TokenServer.tla). *)
(***************************************************************************)
EXTENDS SessionPool, TokenServer, FiniteSetTheorems, SequenceTheorems, TLAPS

-----------------------------------------------------------------------------
(***************************************************************************)
(* The pool.  PoolInv is inductive: it counts the permits that threads own *)
(* against the semaphore and the sessions they use against the queue,      *)
(* which is what ties the two critical sections of acquire() and of drop() *)
(* together.                                                               *)
(***************************************************************************)

\* Sets of threads are finite and can be counted.
LEMMA ThreadSets ==
    ASSUME NEW S \in SUBSET Thread
    PROVE  IsFiniteSet(S) /\ Cardinality(S) \in Nat
  BY FS_Subset, FS_CardinalityType, SessionPoolAssumption

\* One more thread.
LEMMA ThreadAdded ==
    ASSUME NEW S \in SUBSET Thread, NEW t \in Thread, t \notin S
    PROVE  Cardinality(S \cup {t}) = Cardinality(S) + 1
  BY ThreadSets, FS_AddElement

\* One thread less.
LEMMA ThreadRemoved ==
    ASSUME NEW S \in SUBSET Thread, NEW t \in S
    PROVE  Cardinality(S \ {t}) = Cardinality(S) - 1
  BY ThreadSets, FS_RemoveElement

\* Appending a session that is in no queue keeps the entries distinct.
LEMMA AppendDistinct ==
    ASSUME NEW q \in Seq(Session), NEW s \in Session,
           \A i, j \in 1..Len(q) : i # j => q[i] # q[j],
           \A i \in 1..Len(q) : q[i] # s
    PROVE  \A i, j \in 1..Len(Append(q, s)) : i # j => Append(q, s)[i] # Append(q, s)[j]
  OBVIOUS

\* The entries that Tail leaves, and the one that it removes.
LEMMA TailEntries ==
    ASSUME NEW q \in Seq(Session), q # <<>>
    PROVE  /\ Tail(q) \in Seq(Session) /\ Head(q) \in Session
           /\ Len(Tail(q)) = Len(q) - 1 /\ Len(q) \in Nat \ {0}
           /\ \A i \in 1..Len(Tail(q)) : Tail(q)[i] = q[i + 1] /\ i + 1 \in 1..Len(q)
           /\ Head(q) = q[1]
  OBVIOUS

\* The first state satisfies the invariant.
LEMMA InitInv == Init => PoolInv
<1> SUFFICES ASSUME Init PROVE PoolInv
  OBVIOUS
<1>1. Permitted = {}
  BY DEF Init, Permitted
<1>2. TypeOK
  BY SessionPoolAssumption DEF Init, TypeOK
<1>3. SessionsAreExclusive
  BY DEF Init, SessionsAreExclusive, Queued
<1> QED
  BY <1>1, <1>2, <1>3 DEF Init, PoolInv, PermitsMatch, SessionsMatch, OnlyWhenReady

\* new() puts a session that is nowhere else into the queue.
LEMMA OpenSessionInv ==
    ASSUME PoolInv, NEW s \in Session, OpenSession(s)
    PROVE  PoolInv'
<1> USE DEF PoolInv, OpenSession
<1>1. TypeOK'
  BY DEF TypeOK
<1>2. Permitted' = Permitted
  BY DEF Permitted
<1>3. PermitsMatch' /\ SessionsMatch' /\ OnlyWhenReady'
  BY <1>2 DEF PermitsMatch, SessionsMatch, OnlyWhenReady
<1>4. \A t \in Thread : held'[t] = NoSession
  BY DEF OnlyWhenReady, Permitted, TypeOK
<1>5. Queued' \subseteq Session
  BY <1>1 DEF TypeOK, Queued
<1>6. \A i \in 1..Len(queue) : queue[i] # s
  BY DEF Queued
<1>7. SessionsAreExclusive'
  BY <1>4, <1>5, <1>6, AppendDistinct, SessionPoolAssumption DEF TypeOK, SessionsAreExclusive
<1> QED
  BY <1>1, <1>3, <1>7

\* new() gives up.
LEMMA OpenFailsInv ==
    ASSUME PoolInv, OpenFails
    PROVE  PoolInv'
<1> USE DEF PoolInv, OpenFails
<1>1. TypeOK'
  BY DEF TypeOK
<1>2. Permitted' = Permitted
  BY DEF Permitted
<1>3. PermitsMatch' /\ SessionsMatch' /\ OnlyWhenReady'
  BY <1>2 DEF PermitsMatch, SessionsMatch, OnlyWhenReady
<1>4. SessionsAreExclusive'
  BY DEF SessionsAreExclusive, Queued
<1> QED
  BY <1>1, <1>3, <1>4

\* new() is done: as many permits as sessions.
LEMMA FinishNewInv ==
    ASSUME PoolInv, FinishNew
    PROVE  PoolInv'
<1> USE DEF PoolInv, FinishNew
<1>1. TypeOK'
  BY SessionPoolAssumption DEF TypeOK
<1>2. Permitted' = {} /\ Using' = {}
  BY DEF Permitted, Using, OnlyWhenReady
<1>3. PermitsMatch' /\ SessionsMatch' /\ OnlyWhenReady'
  BY <1>2, FS_EmptySet, SessionPoolAssumption DEF PermitsMatch, SessionsMatch, OnlyWhenReady
<1>4. SessionsAreExclusive'
  BY DEF SessionsAreExclusive, Queued
<1> QED
  BY <1>1, <1>3, <1>4

\* A thread takes a permit.
LEMMA TryAcquireInv ==
    ASSUME PoolInv, NEW t \in Thread, TryAcquire(t)
    PROVE  PoolInv'
<1> USE DEF PoolInv, TryAcquire
<1>1. TypeOK'
  BY DEF TypeOK
<1>2. Using' = Using
  BY DEF Using, TypeOK
<1>3. PermitsMatch'
  <2>1. CASE permits > 0
    <3>1. Permitted' = Permitted \cup {t} /\ t \notin Permitted
      BY <2>1 DEF Permitted, TypeOK
    <3>2. Cardinality(Permitted') = Cardinality(Permitted) + 1 /\ Cardinality(Permitted) \in Nat
      BY <3>1, ThreadAdded, ThreadSets DEF Permitted
    <3> QED
      BY <2>1, <3>2, SessionPoolAssumption DEF PermitsMatch, TypeOK
  <2>2. CASE ~(permits > 0)
    <3>1. Permitted' = Permitted
      BY <2>2 DEF Permitted, TypeOK
    <3> QED
      BY <2>2, <3>1 DEF PermitsMatch
  <2> QED
    BY <2>1, <2>2
<1>4. SessionsMatch' /\ OnlyWhenReady'
  BY <1>2 DEF SessionsMatch, OnlyWhenReady
<1>5. SessionsAreExclusive'
  BY DEF SessionsAreExclusive, Queued
<1> QED
  BY <1>1, <1>3, <1>4, <1>5

\* A thread with a permit finds a session: the others use fewer sessions than
\* there are permits out.
LEMMA Backed == PoolInv => PermitsAreBacked
<1> SUFFICES ASSUME PoolInv, NEW t \in Thread, pc[t] = "permit"
             PROVE  queue # <<>>
  BY DEF PermitsAreBacked
<1> USE DEF PoolInv
<1>1. t \in Permitted /\ Using \subseteq Permitted \ {t}
  BY DEF Permitted, Using
<1>2. phase = "ready"
  BY <1>1 DEF OnlyWhenReady
<1>3. Cardinality(Permitted \ {t}) = Cardinality(Permitted) - 1 /\ Cardinality(Permitted) \in Nat
  BY <1>1, ThreadRemoved, ThreadSets DEF Permitted
<1>4. Cardinality(Using) <= Cardinality(Permitted \ {t})
  BY <1>1, ThreadSets, FS_Subset DEF Permitted
<1>5. Cardinality(Using) \in Nat
  BY ThreadSets DEF Using
<1> QED
  BY <1>2, <1>3, <1>4, <1>5, SessionPoolAssumption DEF PermitsMatch, SessionsMatch, TypeOK

\* It takes the first session of the queue, which is there.
LEMMA PopFrontInv ==
    ASSUME PoolInv, NEW t \in Thread, PopFront(t)
    PROVE  PoolInv'
<1> USE DEF PoolInv
<1>1. queue # <<>>
  BY Backed DEF PermitsAreBacked, PopFront
<1>2. /\ pc[t] = "permit" /\ pc' = [pc EXCEPT ![t] = "using"]
      /\ held' = [held EXCEPT ![t] = Head(queue)] /\ queue' = Tail(queue)
      /\ UNCHANGED <<phase, permits>>
  BY <1>1 DEF PopFront
<1>3. TypeOK'
  BY <1>1, <1>2, TailEntries, SessionPoolAssumption DEF TypeOK
<1>4. Permitted' = Permitted
  BY <1>2 DEF Permitted, TypeOK
<1>5. PermitsMatch' /\ OnlyWhenReady'
  BY <1>2, <1>4 DEF PermitsMatch, OnlyWhenReady
<1>6. SessionsMatch'
  <2>1. Using' = Using \cup {t} /\ t \notin Using
    BY <1>2 DEF Using, TypeOK
  <2>2. Cardinality(Using') = Cardinality(Using) + 1 /\ Cardinality(Using) \in Nat
    BY <2>1, ThreadAdded, ThreadSets DEF Using
  <2> QED
    BY <1>1, <1>2, <2>2, TailEntries, SessionPoolAssumption DEF SessionsMatch, TypeOK
<1>7. SessionsAreExclusive'
  <2>1. \A i, j \in 1..Len(queue') : i # j => queue'[i] # queue'[j]
    BY <1>1, <1>2, TailEntries DEF SessionsAreExclusive, TypeOK
  <2>2. Queued' \subseteq Queued /\ Head(queue) \in Queued /\ Head(queue) \notin Queued'
    BY <1>1, <1>2, TailEntries DEF SessionsAreExclusive, TypeOK, Queued
  <2>3. \A u \in Thread : held'[u] \notin Queued'
    BY <1>2, <2>2 DEF SessionsAreExclusive, TypeOK
  <2>4. \A u \in Thread : u # t => held'[u] # Head(queue)
    BY <1>2, <2>2 DEF SessionsAreExclusive, TypeOK
  <2> QED
    BY <1>2, <2>1, <2>3, <2>4 DEF SessionsAreExclusive, TypeOK
<1> QED
  BY <1>3, <1>5, <1>6, <1>7

\* It returns its session.
LEMMA PushBackInv ==
    ASSUME PoolInv, NEW t \in Thread, PushBack(t)
    PROVE  PoolInv'
<1> USE DEF PoolInv, PushBack
<1>1. held[t] \in Session /\ held[t] # NoSession
  BY DEF TypeOK
<1>2. TypeOK'
  BY <1>1 DEF TypeOK
<1>3. Permitted' = Permitted
  BY DEF Permitted, TypeOK
<1>4. PermitsMatch' /\ OnlyWhenReady'
  BY <1>3 DEF PermitsMatch, OnlyWhenReady
<1>5. SessionsMatch'
  <2>1. Using' = Using \ {t} /\ t \in Using
    BY DEF Using, TypeOK
  <2>2. Cardinality(Using') = Cardinality(Using) - 1 /\ Cardinality(Using) \in Nat
    BY <2>1, ThreadRemoved, ThreadSets DEF Using
  <2>3. Len(queue') = Len(queue) + 1 /\ Len(queue) \in Nat
    BY <1>1 DEF TypeOK
  <2> QED
    BY <2>2, <2>3, SessionPoolAssumption DEF SessionsMatch
<1>6. SessionsAreExclusive'
  <2>1. \A i \in 1..Len(queue) : queue[i] # held[t]
    BY DEF SessionsAreExclusive, Queued
  <2>2. \A i, j \in 1..Len(queue') : i # j => queue'[i] # queue'[j]
    BY <1>1, <2>1, AppendDistinct DEF SessionsAreExclusive, TypeOK
  <2>3. Queued' = Queued \cup {held[t]} /\ Queued' \subseteq Session
    BY <1>1 DEF Queued, TypeOK
  <2>4. \A u \in Thread : held'[u] \notin Queued'
    BY <1>1, <2>3, SessionPoolAssumption DEF SessionsAreExclusive, TypeOK
  <2> QED
    BY <2>2, <2>4 DEF SessionsAreExclusive, TypeOK
<1> QED
  BY <1>2, <1>4, <1>5, <1>6

\* It returns its permit.
LEMMA ReleasePermitInv ==
    ASSUME PoolInv, NEW t \in Thread, ReleasePermit(t)
    PROVE  PoolInv'
<1> USE DEF PoolInv, ReleasePermit
<1>1. TypeOK'
  BY DEF TypeOK
<1>2. Using' = Using
  BY DEF Using, TypeOK
<1>3. Permitted' = Permitted \ {t} /\ t \in Permitted
  BY DEF Permitted, TypeOK
<1>4. Cardinality(Permitted') = Cardinality(Permitted) - 1 /\ Cardinality(Permitted) \in Nat
  BY <1>3, ThreadRemoved, ThreadSets DEF Permitted
<1>5. PermitsMatch'
  BY <1>4, SessionPoolAssumption DEF PermitsMatch, TypeOK
<1>6. SessionsMatch'
  BY <1>2 DEF SessionsMatch
<1>7. OnlyWhenReady'
  BY <1>3 DEF OnlyWhenReady
<1>8. SessionsAreExclusive'
  BY DEF SessionsAreExclusive, Queued
<1> QED
  BY <1>1, <1>5, <1>6, <1>7, <1>8

\* It tries again.
LEMMA RetryInv ==
    ASSUME PoolInv, NEW t \in Thread, Retry(t)
    PROVE  PoolInv'
<1> USE DEF PoolInv, Retry
<1>1. TypeOK'
  BY DEF TypeOK
<1>2. Permitted' = Permitted /\ Using' = Using
  BY DEF Permitted, Using, TypeOK
<1>3. PermitsMatch' /\ SessionsMatch' /\ OnlyWhenReady'
  BY <1>2 DEF PermitsMatch, SessionsMatch, OnlyWhenReady
<1>4. SessionsAreExclusive'
  BY DEF SessionsAreExclusive, Queued
<1> QED
  BY <1>1, <1>3, <1>4

\* Nothing happens.
LEMMA StutterInv ==
    ASSUME PoolInv, UNCHANGED vars
    PROVE  PoolInv'
<1> USE DEF PoolInv, vars
<1>1. Permitted' = Permitted /\ Using' = Using /\ Queued' = Queued
  BY DEF Permitted, Using, Queued
<1>2. TypeOK' /\ SessionsAreExclusive'
  BY <1>1 DEF TypeOK, SessionsAreExclusive
<1> QED
  BY <1>1, <1>2 DEF PermitsMatch, SessionsMatch, OnlyWhenReady

\* Permits and sessions are counted rightly.
LEMMA Inductive == Spec => []PoolInv
<1>1. PoolInv /\ [Next]_vars => PoolInv'
  BY OpenSessionInv, OpenFailsInv, FinishNewInv, TryAcquireInv, PopFrontInv, PushBackInv,
     ReleasePermitInv, RetryInv, StutterInv DEF Next
<1> QED
  BY InitInv, <1>1, PTL DEF Spec

\* When no permit is out, no session is out either.
LEMMA Complete == PoolInv => IdlePoolIsComplete
<1> SUFFICES ASSUME PoolInv, phase = "ready", Permitted = {}
             PROVE  permits = Capacity /\ Len(queue) = Capacity
  BY DEF IdlePoolIsComplete
<1>1. Using = {}
  BY DEF Using, Permitted
<1>2. Cardinality(Permitted) = 0 /\ Cardinality(Using) = 0
  BY <1>1, FS_EmptySet
<1> QED
  BY <1>2, SessionPoolAssumption DEF PoolInv, PermitsMatch, SessionsMatch, TypeOK

(***************************************************************************)
(* For any number of threads and sessions, sign() calls on the pool never  *)
(* share a PKCS#11 session.                                                *)
(***************************************************************************)
THEOREM Exclusive == Spec => [](TypeOK /\ SessionsAreExclusive)
<1>1. PoolInv => TypeOK /\ SessionsAreExclusive
  BY DEF PoolInv
<1> QED
  BY Inductive, <1>1, PTL

(***************************************************************************)
(* acquire() never finds the queue empty behind a permit, whatever         *)
(* releases are under way: their sessions come back before their permits.  *)
(***************************************************************************)
THEOREM PermitsFindSessions == Spec => []PermitsAreBacked
  BY Inductive, Backed, PTL

(***************************************************************************)
(* An idle pool has all its permits and sessions: the semaphore and the    *)
(* queue cannot drift apart.                                               *)
(***************************************************************************)
THEOREM NothingLeaks == Spec => []IdlePoolIsComplete
  BY Inductive, Complete, PTL

-----------------------------------------------------------------------------
(***************************************************************************)
(* Names.  match_sni cuts a prefix and a suffix off and looks for a dot in *)
(* what is left.  The sequences are compared entry by entry, which shows   *)
(* that this is the wildcard rule of RFC 6125, and that one wildcard at    *)
(* most covers a name.                                                     *)
(***************************************************************************)

\* Two sequences are equal if their entries are.
LEMMA SameEntries ==
    ASSUME NEW S, NEW s \in Seq(S), NEW t \in Seq(S), Len(s) = Len(t),
           \A i \in 1..Len(s) : s[i] = t[i]
    PROVE  s = t
  BY SeqEqual

\* One sequence starts another, entry by entry.
Starts(s, t) == Len(s) <= Len(t) /\ \A i \in 1..Len(s) : s[i] = t[i]

\* IsPrefix compares entries.
LEMMA PrefixEntries ==
    ASSUME NEW S, NEW s \in Seq(S), NEW t \in Seq(S)
    PROVE  IsPrefix(s, t) <=> Starts(s, t)
<1>1. ASSUME Len(s) <= Len(t)
      PROVE  /\ SubSeq(s, 1, Len(s)) \in Seq(S) /\ SubSeq(t, 1, Len(s)) \in Seq(S)
             /\ Len(SubSeq(s, 1, Len(s))) = Len(s) /\ Len(SubSeq(t, 1, Len(s))) = Len(s)
             /\ \A i \in 1..Len(s) : SubSeq(s, 1, Len(s))[i] = s[i] /\ SubSeq(t, 1, Len(s))[i] = t[i]
  BY <1>1
<1> DEFINE a == SubSeq(s, 1, Len(s))  b == SubSeq(t, 1, Len(s))
<1>2. IsPrefix(s, t) <=> Len(s) <= Len(t) /\ a = b
  BY DEF IsPrefix
<1>3. ASSUME Len(s) <= Len(t), \A i \in 1..Len(s) : s[i] = t[i] PROVE a = b
  <2>1. a \in Seq(S) /\ b \in Seq(S) /\ Len(a) = Len(b) /\ \A i \in 1..Len(a) : a[i] = b[i]
    BY <1>1, <1>3
  <2> HIDE DEF a, b
  <2> QED
    BY <2>1, SameEntries
<1>4. ASSUME Len(s) <= Len(t), a = b PROVE \A i \in 1..Len(s) : s[i] = t[i]
  <2>1. \A i \in 1..Len(s) : a[i] = s[i] /\ b[i] = t[i]
    BY <1>1, <1>4
  <2> HIDE DEF a, b
  <2> QED
    BY <1>4, <2>1
<1> QED
  BY <1>2, <1>3, <1>4 DEF Starts

\* So does IsSuffix, from the other end.
LEMMA SuffixEntries ==
    ASSUME NEW S, NEW s \in Seq(S), NEW t \in Seq(S)
    PROVE  IsSuffix(s, t) <=>
             Len(s) <= Len(t) /\ \A i \in 1..Len(s) : s[i] = t[Len(t) - Len(s) + i]
<1> DEFINE a == Reverse(s)  b == Reverse(t)
<1>1. /\ a \in Seq(S) /\ Len(a) = Len(s) /\ \A i \in 1..Len(s) : a[i] = s[(Len(s) - i) + 1]
      /\ b \in Seq(S) /\ Len(b) = Len(t) /\ \A i \in 1..Len(t) : b[i] = t[(Len(t) - i) + 1]
  BY DEF Reverse
<1>2. IsSuffix(s, t) <=> IsPrefix(a, b)
  BY DEF IsSuffix
<1> HIDE DEF a, b
<1>3. IsPrefix(a, b) <=> Len(s) <= Len(t) /\ \A i \in 1..Len(s) : a[i] = b[i]
  BY <1>1, PrefixEntries DEF Starts
<1>4. Len(s) \in Nat /\ Len(t) \in Nat
  OBVIOUS
<1>5. ASSUME Len(s) <= Len(t), \A i \in 1..Len(s) : a[i] = b[i], NEW i \in 1..Len(s)
      PROVE  s[i] = t[Len(t) - Len(s) + i]
  <2> DEFINE k == (Len(s) - i) + 1
  <2>1. /\ k \in 1..Len(s) /\ k \in 1..Len(t)
        /\ (Len(s) - k) + 1 = i /\ (Len(t) - k) + 1 = Len(t) - Len(s) + i
    BY <1>4, <1>5
  <2> HIDE DEF k
  <2>2. a[k] = s[(Len(s) - k) + 1] /\ b[k] = t[(Len(t) - k) + 1]
    BY <1>1, <2>1
  <2> QED
    BY <1>5, <2>1, <2>2
<1>6. ASSUME Len(s) <= Len(t), \A i \in 1..Len(s) : s[i] = t[Len(t) - Len(s) + i], NEW k \in 1..Len(s)
      PROVE  a[k] = b[k]
  <2> DEFINE i == (Len(s) - k) + 1
  <2>1. i \in 1..Len(s) /\ k \in 1..Len(t) /\ (Len(t) - k) + 1 = Len(t) - Len(s) + i
    BY <1>4, <1>6
  <2>2. a[k] = s[i] /\ b[k] = t[(Len(t) - k) + 1]
    BY <1>1, <2>1
  <2> HIDE DEF i
  <2> QED
    BY <1>6, <2>1, <2>2
<1> QED
  BY <1>2, <1>3, <1>5, <1>6

\* The first label of a name ends in front of place n.
EndsLabel(name, n) ==
    /\ n \in 2..Len(name)
    /\ name[n] = "."
    /\ \A i \in 1..(n - 1) : name[i] # "."

\* The pattern is the wildcard for what follows place n, entry by entry.
Below(key, name, n) ==
    /\ Len(key) = 2 + (Len(name) - n)
    /\ key[1] = "*" /\ key[2] = "."
    /\ \A i \in 1..(Len(name) - n) : key[i + 2] = name[n + i]

\* The pattern that is spelled out in RFC 6125 is the one that is meant.
LEMMA SpelledOut ==
    ASSUME NEW key \in Seq(Character), NEW name \in Seq(Character), NEW n \in 2..Len(name)
    PROVE  key = <<"*", ".">> \o SubSeq(name, n + 1, Len(name)) <=> Below(key, name, n)
<1> DEFINE w == <<"*", ".">>
           r == SubSeq(name, n + 1, Len(name))
           full == w \o r
           k == Len(name) - n
<1>1. k \in Nat /\ Len(name) \in Nat
  OBVIOUS
<1>2. /\ r \in Seq(Character) /\ Len(r) = k
      /\ \A i \in 1..k : r[i] = name[n + i]
  <2>1. r \in Seq(Character) /\ Len(r) = k
    OBVIOUS
  <2>2. \A i \in 1..k : r[i] = name[(n + 1) + i - 1]
    OBVIOUS
  <2>3. \A i \in 1..k : (n + 1) + i - 1 = n + i
    OBVIOUS
  <2> HIDE DEF r, k
  <2> QED
    BY <2>1, <2>2, <2>3
<1>3. w \in Seq(Character) /\ Len(w) = 2 /\ w[1] = "*" /\ w[2] = "."
  BY TokenServerAssumption
<1> HIDE DEF w, r
<1>4. /\ full \in Seq(Character) /\ Len(full) = Len(w) + Len(r)
      /\ \A i \in 1..Len(w) + Len(r) : full[i] = IF i <= Len(w) THEN w[i] ELSE r[i - Len(w)]
  BY <1>2, <1>3, ConcatProperties
<1> HIDE DEF full
<1>5. Len(full) = 2 + k /\ full[1] = "*" /\ full[2] = "."
  <2> HIDE DEF k
  <2> QED
    BY <1>1, <1>2, <1>3, <1>4
<1>6. \A i \in 1..k : full[i + 2] = name[n + i]
  <2> SUFFICES ASSUME NEW i \in 1..k PROVE full[i + 2] = name[n + i]
    OBVIOUS
  <2> HIDE DEF k
  <2> DEFINE j == i + 2
  <2>1. j \in 1..Len(w) + Len(r) /\ ~(j <= Len(w)) /\ j - Len(w) = i
    BY <1>1, <1>2, <1>3
  <2> HIDE DEF j
  <2>2. full[j] = r[i]
    BY <1>4, <2>1
  <2> QED
    BY <1>2, <2>2 DEF j
<1>7. Below(full, name, n)
  BY <1>5, <1>6 DEF Below
<1>8. ASSUME Below(key, name, n) PROVE key = full
  <2> HIDE DEF k
  <2>1. Len(key) = 2 + k /\ key[1] = "*" /\ key[2] = "." /\ \A i \in 1..k : key[i + 2] = name[n + i]
    BY <1>8 DEF Below, k
  <2>2. ASSUME NEW i \in 1..Len(key) PROVE key[i] = full[i]
    <3>1. CASE i = 1
      BY <1>5, <2>1, <3>1
    <3>2. CASE i = 2
      BY <1>5, <2>1, <3>2
    <3>3. CASE i # 1 /\ i # 2
      <4>1. i - 2 \in 1..k /\ (i - 2) + 2 = i
        BY <1>1, <2>1, <3>3
      <4>2. key[(i - 2) + 2] = full[(i - 2) + 2]
        BY <1>6, <2>1, <4>1
      <4> QED
        BY <4>1, <4>2
    <3> QED
      BY <3>1, <3>2, <3>3
  <2> QED
    BY <1>4, <1>5, <2>1, <2>2, SameEntries
<1> QED
  BY <1>7, <1>8 DEF full, w, r

\* The wildcard rule of match_sni, with its prefix, suffix and label, entry by entry.
LEMMA RuleEntries ==
    ASSUME NEW key \in Seq(Character), NEW name \in Seq(Character)
    PROVE  WildcardMatches(key, name) <=> \E n \in Nat : EndsLabel(name, n) /\ Below(key, name, n)
<1> DEFINE K == Len(key)
           L == Len(name)
           suffix == SubSeq(key, 3, K)
           n == L - Len(suffix)
           labelDot == SubSeq(name, 1, n)
<1>1. K \in Nat /\ L \in Nat
  OBVIOUS
<1>2. IsPrefix(<<"*", ".">>, key) <=> K >= 2 /\ key[1] = "*" /\ key[2] = "."
  <2> DEFINE w == <<"*", ".">>
  <2>1. w \in Seq(Character) /\ Len(w) = 2 /\ w[1] = "*" /\ w[2] = "."
    BY TokenServerAssumption
  <2> HIDE DEF w
  <2>2. IsPrefix(w, key) <=> Starts(w, key)
    BY <2>1, PrefixEntries
  <2>3. Starts(w, key) <=> 2 <= Len(key) /\ \A i \in 1..2 : w[i] = key[i]
    BY <2>1 DEF Starts
  <2>4. (\A i \in 1..2 : w[i] = key[i]) <=> w[1] = key[1] /\ w[2] = key[2]
    OBVIOUS
  <2> QED
    BY <1>1, <2>1, <2>2, <2>3, <2>4 DEF w
<1>3. WildcardMatches(key, name) <=>
        /\ IsPrefix(<<"*", ".">>, key)
        /\ IsSuffix(suffix, name)
        /\ Len(labelDot) > 1
        /\ Last(labelDot) = "."
        /\ ~Contains(Front(labelDot), ".")
  BY DEF WildcardMatches
<1>4. ASSUME K >= 2
      PROVE  /\ suffix \in Seq(Character) /\ Len(suffix) = K - 2
             /\ \A i \in 1..K - 2 : suffix[i] = key[i + 2]
  <2>1. suffix \in Seq(Character) /\ Len(suffix) = K - 2
    <3>1. 3 \in Int /\ K \in Int /\ \A i \in 3..K : key[i] \in Character
      BY <1>1
    <3>2. suffix \in Seq(Character) /\ Len(suffix) = IF 3 <= K THEN K - 3 + 1 ELSE 0
      BY <3>1, SubSeqProperties
    <3> HIDE DEF suffix, K
    <3>3. suffix \in Seq(Character)
      BY <3>2
    <3>4. Len(suffix) = K - 2
      BY <1>1, <1>4, <3>2
    <3> QED
      BY <3>3, <3>4
  <2>2. \A i \in 1..K - 2 : suffix[i] = key[3 + i - 1]
    BY <1>1, <1>4
  <2>3. \A i \in 1..K - 2 : 3 + i - 1 = i + 2
    OBVIOUS
  <2> HIDE DEF suffix, K
  <2> QED
    BY <2>1, <2>2, <2>3
<1>5. ASSUME K >= 2, K - 2 <= L
      PROVE  /\ Len(labelDot) = n /\ n = L - (K - 2) /\ n \in 0..L
             /\ n > 1 => /\ Last(labelDot) = name[n]
                         /\ Contains(Front(labelDot), ".") <=> \E i \in 1..(n - 1) : name[i] = "."
  <2>1. n = L - (K - 2) /\ n \in 0..L
    <3>1. Len(suffix) = K - 2
      BY <1>4, <1>5
    <3> HIDE DEF suffix, K, L
    <3> QED
      BY <1>1, <1>5, <3>1
  <2> HIDE DEF n
  <2>2. labelDot \in Seq(Character) /\ Len(labelDot) = n /\ \A i \in 1..n : labelDot[i] = name[i]
    BY <2>1
  <2>3. ASSUME n > 1
        PROVE  /\ Last(labelDot) = name[n]
               /\ Contains(Front(labelDot), ".") <=> \E i \in 1..(n - 1) : name[i] = "."
    <3> HIDE DEF labelDot
    <3>1. Last(labelDot) = name[n]
      BY <2>1, <2>2, <2>3 DEF Last
    <3> DEFINE f == Front(labelDot)
    <3>2. Len(f) = n - 1 /\ \A i \in 1..n - 1 : f[i] = labelDot[i]
      BY <2>1, <2>2, <2>3 DEF Front
    <3> HIDE DEF f
    <3>3. \A i \in 1..n - 1 : f[i] = name[i]
      BY <2>1, <2>2, <3>2
    <3> QED
      BY <3>1, <3>2, <3>3 DEF Contains, f
  <2> QED
    BY <2>1, <2>2, <2>3
<1>6. ASSUME K >= 2
      PROVE  IsSuffix(suffix, name) <=> K - 2 <= L /\ \A i \in 1..K - 2 : key[i + 2] = name[L - (K - 2) + i]
  <2> HIDE DEF suffix, K, L
  <2>1. IsSuffix(suffix, name) <=>
          Len(suffix) <= Len(name) /\ \A i \in 1..Len(suffix) : suffix[i] = name[Len(name) - Len(suffix) + i]
    BY <1>4, <1>6, SuffixEntries
  <2> QED
    BY <1>4, <1>6, <2>1 DEF L
<1>7. ASSUME WildcardMatches(key, name)
      PROVE  \E m \in Nat : EndsLabel(name, m) /\ Below(key, name, m)
  <2>1. K >= 2 /\ key[1] = "*" /\ key[2] = "."
    BY <1>2, <1>3, <1>7
  <2>2. K - 2 <= L /\ \A i \in 1..K - 2 : key[i + 2] = name[L - (K - 2) + i]
    BY <1>3, <1>6, <1>7, <2>1
  <2>3. /\ n = L - (K - 2) /\ n \in 2..L /\ name[n] = "."
        /\ ~\E i \in 1..(n - 1) : name[i] = "."
    <3>1. /\ Len(labelDot) = n /\ n = L - (K - 2) /\ n \in 0..L
          /\ n > 1 => /\ Last(labelDot) = name[n]
                      /\ Contains(Front(labelDot), ".") <=> \E i \in 1..(n - 1) : name[i] = "."
      BY <1>5, <2>1, <2>2
    <3>2. Len(labelDot) > 1 /\ Last(labelDot) = "." /\ ~Contains(Front(labelDot), ".")
      BY <1>3, <1>7
    <3> HIDE DEF labelDot, n, K, L
    <3> QED
      BY <1>1, <3>1, <3>2
  <2> HIDE DEF n
  <2>4. EndsLabel(name, n)
    BY <2>3 DEF EndsLabel
  <2>5. Below(key, name, n)
    <3>1. K = 2 + (L - n) /\ L - n = K - 2 /\ L - (K - 2) = n
      BY <1>1, <2>3
    <3> HIDE DEF K, L
    <3>2. \A i \in 1..(L - n) : key[i + 2] = name[n + i]
      BY <2>2, <3>1
    <3> QED
      BY <2>1, <3>1, <3>2 DEF Below, K, L
  <2> QED
    BY <1>1, <2>3, <2>4, <2>5
<1>8. ASSUME NEW m \in Nat, EndsLabel(name, m), Below(key, name, m)
      PROVE  WildcardMatches(key, name)
  <2>1. m \in 2..L /\ name[m] = "." /\ \A i \in 1..(m - 1) : name[i] # "."
    BY <1>8 DEF EndsLabel
  <2>2. /\ K = 2 + (L - m) /\ key[1] = "*" /\ key[2] = "."
        /\ \A i \in 1..(L - m) : key[i + 2] = name[m + i]
    BY <1>8 DEF Below
  <2>3. K >= 2 /\ K - 2 <= L /\ K - 2 = L - m /\ L - (K - 2) = m
    BY <1>1, <2>1, <2>2
  <2>4. IsSuffix(suffix, name)
    <3>1. \A i \in 1..K - 2 : key[i + 2] = name[L - (K - 2) + i]
      <4> HIDE DEF K, L
      <4> QED
        BY <2>2, <2>3
    <3> QED
      BY <1>6, <2>3, <3>1
  <2>5. n = m
    BY <1>5, <2>3
  <2>6. /\ Len(labelDot) = n /\ n > 1
        /\ Last(labelDot) = name[n]
        /\ Contains(Front(labelDot), ".") <=> \E i \in 1..(n - 1) : name[i] = "."
    <3>1. /\ Len(labelDot) = n
          /\ n > 1 => /\ Last(labelDot) = name[n]
                      /\ Contains(Front(labelDot), ".") <=> \E i \in 1..(n - 1) : name[i] = "."
      BY <1>5, <2>3
    <3>2. n > 1
      BY <1>1, <2>1, <2>5
    <3> HIDE DEF labelDot, n
    <3> QED
      BY <3>1, <3>2
  <2>7. Len(labelDot) > 1 /\ Last(labelDot) = "." /\ ~Contains(Front(labelDot), ".")
    <3> HIDE DEF labelDot, n
    <3> QED
      BY <2>1, <2>5, <2>6
  <2> QED
    BY <1>2, <1>3, <2>2, <2>3, <2>4, <2>7
<1> QED
  BY <1>7, <1>8

\* The rule of match_sni is the one of RFC 6125.
LEMMA RuleIsCovers ==
    ASSUME NEW key \in Seq(Character), NEW name \in Seq(Character)
    PROVE  WildcardMatches(key, name) <=> Covers(key, name)
<1>1. Covers(key, name) <=> \E n \in 2..Len(name) : EndsLabel(name, n) /\ Below(key, name, n)
  BY SpelledOut DEF Covers, EndsLabel
<1>2. \A n : EndsLabel(name, n) => n \in 2..Len(name) /\ n \in Nat
  BY DEF EndsLabel
<1> QED
  BY <1>1, <1>2, RuleEntries

\* One wildcard covers a name.
LEMMA CoveredOnce ==
    ASSUME NEW key \in Seq(Character), NEW other \in Seq(Character), NEW name \in Seq(Character),
           WildcardMatches(key, name), WildcardMatches(other, name)
    PROVE  key = other
<1>1. PICK n \in Nat : EndsLabel(name, n) /\ Below(key, name, n)
  BY RuleEntries
<1>2. PICK m \in Nat : EndsLabel(name, m) /\ Below(other, name, m)
  BY RuleEntries
<1>3. n = m
  <2>1. n \in 2..Len(name) /\ m \in 2..Len(name)
    BY <1>1, <1>2 DEF EndsLabel
  <2>2. ~(n < m)
    BY <1>1, <1>2, <2>1 DEF EndsLabel
  <2>3. ~(m < n)
    BY <1>1, <1>2, <2>1 DEF EndsLabel
  <2> QED
    BY <2>1, <2>2, <2>3
<1>4. n \in 2..Len(name)
  BY <1>1 DEF EndsLabel
<1> QED
  BY <1>1, <1>2, <1>3, <1>4, SpelledOut

\* What match_sni answers for a name is what the entries for the name say.
LEMMA MatchIsExpected ==
    ASSUME NEW map, DOMAIN map \subseteq HostPattern, NEW name \in HostName, NEW strict, NEW default,
           \A ck, dk \in default : ck = dk
    PROVE  LET wild == {h \in DOMAIN map : Covers(h, name)}
               expected == IF name \in DOMAIN map THEN {map[name]}
                           ELSE IF wild # {} THEN {map[h] : h \in wild} ELSE default
               found == MatchSni(map, name, strict, default)
           IN  /\ \A ck \in found : expected = {ck}
               /\ found = {} => expected = {} \/ strict
<1> DEFINE wild == {h \in DOMAIN map : Covers(h, name)}
           rule == {h \in DOMAIN map : WildcardMatches(h, name)}
           expected == IF name \in DOMAIN map THEN {map[name]}
                       ELSE IF wild # {} THEN {map[h] : h \in wild} ELSE default
           found == MatchSni(map, name, strict, default)
<1> SUFFICES /\ \A ck \in found : expected = {ck}
             /\ found = {} => expected = {} \/ strict
  OBVIOUS
<1>1. name \in Seq(Character) /\ DOMAIN map \subseteq Seq(Character)
  BY TokenServerAssumption
<1>2. wild = rule
  BY <1>1, RuleIsCovers
<1>3. \A h, k \in wild : h = k
  BY <1>1, <1>2, CoveredOnce
<1>4. found = IF name \in DOMAIN map THEN {map[name]}
              ELSE IF wild # {} THEN {map[h] : h \in wild}
              ELSE IF strict THEN {} ELSE default
  <2> HIDE DEF wild
  <2> QED
    BY <1>2 DEF MatchSni
<1> HIDE DEF found, wild, rule
<1>5. CASE name \in DOMAIN map
  BY <1>4, <1>5
<1>6. CASE name \notin DOMAIN map /\ wild # {}
  <2>1. PICK h \in wild : TRUE
    BY <1>6
  <2>2. wild = {h}
    BY <1>3
  <2> QED
    BY <1>4, <1>6, <2>2
<1>7. CASE name \notin DOMAIN map /\ wild = {}
  <2>1. expected = default /\ found = IF strict THEN {} ELSE default
    BY <1>4, <1>7
  <2> QED
    BY <2>1
<1> QED
  BY <1>5, <1>6, <1>7

\* The answer for a client.
LEMMA ResolveInv ==
    ASSUME TokenInv, NEW name \in HostName \cup {NoName}, Resolve(name)
    PROVE  TokenInv'
<1> DEFINE map == resolver.map
           default == resolver.default
           strict == resolver.strict
           own == {h \in DOMAIN map : h = name}
           wild == {h \in DOMAIN map : Covers(h, name)}
           served == IF name = NoName THEN default
                     ELSE IF own # {} THEN {map[h] : h \in own}
                     ELSE IF wild # {} THEN {map[h] : h \in wild}
                     ELSE default
           fallback == IF EmptyName \in DOMAIN map THEN {map[EmptyName]} ELSE default
           expected == IF name # NoName /\ own # {} THEN {map[h] : h \in own}
                       ELSE IF name # NoName /\ wild # {} THEN {map[h] : h \in wild}
                       ELSE fallback
<1>1. /\ resolver # NoResolver /\ resolver' = resolver
      /\ DOMAIN map \subseteq HostPattern
      /\ \A ck, dk \in default : ck = dk
      /\ DOMAIN map # {} => default = {}
  BY DEF Resolve, TokenInv
<1>2. /\ \A ck \in Lookup(name) : served = {ck}
      /\ Lookup(name) = {} => served = {} \/ strict
  <2>1. CASE name = NoName
    <3>1. Lookup(name) = IF strict THEN {} ELSE default
      BY <2>1 DEF Lookup
    <3>2. served = default
      BY <2>1
    <3> HIDE DEF default, strict, served
    <3> QED
      BY <1>1, <3>1, <3>2
  <2>2. CASE name # NoName
    <3> DEFINE expect == IF name \in DOMAIN map THEN {map[name]}
                         ELSE IF wild # {} THEN {map[h] : h \in wild} ELSE default
    <3>1. name \in HostName
      BY <2>2
    <3>2. served = expect
      <4>1. CASE name \in DOMAIN map
        <5>1. own = {name}
          BY <4>1
        <5> HIDE DEF own, map, wild
        <5> QED
          BY <2>2, <4>1, <5>1
      <4>2. CASE name \notin DOMAIN map
        <5>1. own = {}
          BY <4>2
        <5> HIDE DEF own, map, wild
        <5> QED
          BY <2>2, <4>2, <5>1
      <4> QED
        BY <4>1, <4>2
    <3>3. Lookup(name) = MatchSni(map, name, strict, default)
      BY <2>2 DEF Lookup
    <3> HIDE DEF map, default, strict
    <3>4. /\ \A ck \in MatchSni(map, name, strict, default) : expect = {ck}
          /\ MatchSni(map, name, strict, default) = {} => expect = {} \/ strict
      BY <1>1, <3>1, MatchIsExpected
    <3> HIDE DEF served, expect
    <3> QED
      BY <3>2, <3>3, <3>4
  <2> QED
    BY <2>1, <2>2
<1>3. \/ \E ck \in Lookup(name) : shake' = [phase |-> "resolved", name |-> name, entry |-> ck]
      \/ Lookup(name) = {} /\ shake' = [phase |-> "unresolved", name |-> name]
  BY DEF Resolve
<1>4. /\ "phase" \in DOMAIN shake' /\ shake'.name = name
      /\ shake'.phase = "resolved" => shake'.entry \in Lookup(name)
      /\ shake'.phase = "unresolved" => Lookup(name) = {}
  BY <1>3
<1>5. /\ \A ck \in Lookup(name) : expected = {ck}
      /\ Lookup(name) = {} => \/ expected = {}
                              \/ strict
                              \/ EmptyName \in DOMAIN map /\ expected = fallback
  <2>1. CASE name # NoName /\ (own # {} \/ wild # {})
    <3>1. expected = served
      <4>1. expected = IF own # {} THEN {map[h] : h \in own} ELSE {map[h] : h \in wild}
        <5> HIDE DEF own, wild, map, fallback
        <5> QED
          BY <2>1
      <4>2. served = IF own # {} THEN {map[h] : h \in own} ELSE {map[h] : h \in wild}
        <5> HIDE DEF own, wild, map, default
        <5> QED
          BY <2>1
      <4> HIDE DEF expected, served, own, wild, map
      <4> QED
        BY <4>1, <4>2
    <3> HIDE DEF expected, served, strict, fallback, map
    <3> QED
      BY <1>2, <3>1
  <2>2. CASE ~(name # NoName /\ (own # {} \/ wild # {}))
    <3>1. expected = fallback /\ served = default
      <4>1. expected = fallback
        <5> HIDE DEF own, wild, map, fallback
        <5> QED
          BY <2>2
      <4>2. served = default
        <5> HIDE DEF own, wild, map, default
        <5> QED
          BY <2>2
      <4> QED
        BY <4>1, <4>2
    <3>2. EmptyName \in DOMAIN map => default = {}
      <4> HIDE DEF map, default
      <4> QED
        BY <1>1
    <3>3. EmptyName \notin DOMAIN map => fallback = default
      <4> HIDE DEF map, default
      <4> QED
        OBVIOUS
    <3> HIDE DEF expected, served, strict, fallback, default, map
    <3> QED
      BY <1>2, <3>1, <3>2, <3>3
  <2> QED
    BY <2>1, <2>2
<1>6. TenantsAreSeparated'
  <2>1. /\ shake'.phase = "resolved" => expected = {shake'.entry}
        /\ shake'.phase = "unresolved" => \/ expected = {}
                                          \/ strict
                                          \/ EmptyName \in DOMAIN map /\ expected = fallback
    <3> HIDE DEF expected, strict, fallback, map
    <3> QED
      BY <1>4, <1>5
  <2> QED
    BY <1>1, <1>4, <2>1 DEF TenantsAreSeparated
<1> QED
  BY <1>1, <1>4, <1>6 DEF TokenInv

\* A phase in which no entry was just chosen says nothing about names.
LEMMA OtherPhase ==
    ASSUME TokenInv, resolver # NoResolver, UNCHANGED resolver, "phase" \in DOMAIN shake',
           shake'.phase \notin {"resolved", "unresolved"}
    PROVE  TokenInv'
  BY DEF TokenInv, TenantsAreSeparated

\* Every step keeps the invariant.
LEMMA TokenNextInv == TokenInv /\ [TokenNext]_tokenVars => TokenInv'
<1> SUFFICES ASSUME TokenInv, [TokenNext]_tokenVars PROVE TokenInv'
  OBVIOUS
<1>1. ASSUME UNCHANGED <<resolver, shake>> PROVE TokenInv'
  BY <1>1 DEF TokenInv, TenantsAreSeparated
<1>2. shake.phase # "waiting" => resolver # NoResolver
  BY DEF TokenInv, Waiting
<1>3. ASSUME resolver = NoResolver, UNCHANGED shake,
             DOMAIN resolver'.map \subseteq HostPattern,
             \A ck, dk \in resolver'.default : ck = dk,
             DOMAIN resolver'.map # {} => resolver'.default = {}
      PROVE  TokenInv'
  <2>1. shake = Waiting /\ shake' = Waiting /\ "phase" \in DOMAIN shake' /\ shake'.phase = "waiting"
    BY <1>3 DEF TokenInv, Waiting
  <2>2. TenantsAreSeparated'
    BY <2>1 DEF TenantsAreSeparated
  <2> QED
    BY <1>3, <2>1, <2>2 DEF TokenInv
<1>4. ASSUME NEW l \in KeyLabel, NEW k \in TokenKey, Provision(l, k) \/ ReplaceKey(l, k)
      PROVE  TokenInv'
  BY <1>1, <1>4 DEF Provision, ReplaceKey
<1>5. ASSUME NEW l \in KeyLabel, DeleteKey(l) PROVE TokenInv'
  BY <1>1, <1>5 DEF DeleteKey
<1>6. ASSUME NEW chain \in KeyLabel, NEW label \in KeyLabel, TokenServerConfig(chain, label)
      PROVE  TokenInv'
  <2>1. PICK ck \in CertifiedKey(chain, label) :
          resolver' = [built |-> TRUE, map |-> [h \in {} |-> ck], default |-> {ck}, strict |-> FALSE]
    BY <1>6 DEF TokenServerConfig
  <2>2. resolver'.default = {ck} /\ resolver'.map = [h \in {} |-> ck]
    BY <2>1
  <2>3. DOMAIN resolver'.map = {}
    BY <2>2
  <2>4. \A x, y \in resolver'.default : x = y
    BY <2>2
  <2> QED
    BY <1>3, <1>6, <2>3, <2>4 DEF TokenServerConfig
<1>7. ASSUME NEW hosts \in SUBSET HostPattern, NEW strict \in BOOLEAN,
             NEW labels \in [hosts -> KeyLabel \X KeyLabel], TokenServerConfigSni(labels, strict)
      PROVE  TokenInv'
  <2> DEFINE map == [h \in DOMAIN labels |-> CHOOSE ck \in CertifiedKey(labels[h][1], labels[h][2]) : TRUE]
  <2>1. resolver' = [built |-> TRUE, default |-> {}, strict |-> strict, map |-> map]
    BY <1>7 DEF TokenServerConfigSni
  <2>2. DOMAIN map = hosts
    OBVIOUS
  <2> HIDE DEF map
  <2>3. resolver'.default = {} /\ resolver'.map = map
    BY <2>1
  <2>4. DOMAIN resolver'.map \subseteq HostPattern /\ \A x, y \in resolver'.default : x = y
    BY <2>2, <2>3
  <2> QED
    BY <1>3, <1>7, <2>3, <2>4 DEF TokenServerConfigSni
<1>8. ASSUME NEW name \in HostName \cup {NoName}, Resolve(name) PROVE TokenInv'
  BY <1>8, ResolveInv
<1>9. ASSUME NEW offered \in Offer, ChooseSigner(offered) PROVE TokenInv'
  <2>1. /\ resolver # NoResolver /\ resolver' = resolver /\ "phase" \in DOMAIN shake'
        /\ shake'.phase \in {"noScheme", "chosen"}
    BY <1>2, <1>9 DEF ChooseSigner
  <2> QED
    BY <2>1, OtherPhase
<1>10. ASSUME NEW q \in RawSignature, NEW encoded \in BOOLEAN, SignViaPool(q, encoded)
      PROVE  TokenInv'
  <2>1. /\ resolver # NoResolver /\ resolver' = resolver /\ "phase" \in DOMAIN shake'
        /\ shake'.phase = "signed"
    BY <1>2, <1>10 DEF SignViaPool
  <2> QED
    BY <2>1, OtherPhase
<1>11. CASE SignFails
  <2>1. /\ resolver # NoResolver /\ resolver' = resolver /\ "phase" \in DOMAIN shake'
        /\ shake'.phase = "signFailed"
    BY <1>2, <1>11 DEF SignFails, TokenInv
  <2> QED
    BY <2>1, OtherPhase
<1>12. CASE PoolExhausted
  <2>1. /\ resolver # NoResolver /\ resolver' = resolver /\ "phase" \in DOMAIN shake'
        /\ shake'.phase = "exhausted"
    BY <1>2, <1>12 DEF PoolExhausted, TokenInv
  <2> QED
    BY <2>1, OtherPhase
<1>13. CASE ClientVerifies
  <2>1. /\ resolver # NoResolver /\ resolver' = resolver /\ "phase" \in DOMAIN shake'
        /\ shake'.phase \in {"connected", "refused"}
    BY <1>2, <1>13 DEF ClientVerifies, TokenInv
  <2> QED
    BY <2>1, OtherPhase
<1>14. CASE Finished
  <2>1. /\ resolver # NoResolver /\ resolver' = resolver /\ "phase" \in DOMAIN shake'
        /\ shake'.phase = "waiting"
    BY <1>2, <1>14 DEF Finished, Waiting
  <2> QED
    BY <2>1, OtherPhase
<1>15. CASE UNCHANGED tokenVars
  BY <1>1, <1>15 DEF tokenVars
<1> QED
  BY <1>4, <1>6, <1>7, <1>8, <1>9, <1>10, <1>12, <1>13, <1>14, <1>15, <1>5, <1>11 DEF TokenNext

(***************************************************************************)
(* For any hosts and wildcards in the map and any name that a client sends *)
(* - of any length - it is given the certificate for that name and no      *)
(* other: match_sni, which compares substrings, is the rule of RFC 6125.   *)
(***************************************************************************)
THEOREM TenantsStaySeparated == TokenSpec => []TenantsAreSeparated
<1>1. TokenInit => TokenInv
  BY DEF TokenInit, TokenInv, TenantsAreSeparated, Waiting, NoResolver
<1>2. TokenInv /\ [TokenNext]_tokenVars => TokenInv'
  BY TokenNextInv
<1>3. TokenInv => TenantsAreSeparated
  BY DEF TokenInv
<1> QED
  BY <1>1, <1>2, <1>3, PTL DEF TokenSpec

-----------------------------------------------------------------------------
(***************************************************************************)
(* Signatures.  encode_int strips and pads, raw_ecdsa_to_der puts two such *)
(* integers behind each other; the verifier finds the same two numbers.    *)
(***************************************************************************)

\* A part of a byte string, entry by entry.
LEMMA Slice ==
    ASSUME NEW S, NEW s \in Seq(S), NEW m \in Nat \ {0}, NEW k \in Nat, m + k <= Len(s) + 1
    PROVE  /\ SubSeq(s, m, m + k - 1) \in Seq(S)
           /\ Len(SubSeq(s, m, m + k - 1)) = k
           /\ \A i \in 1..k : SubSeq(s, m, m + k - 1)[i] = s[m - 1 + i]
<1>0. Len(s) \in Nat /\ m + k - 1 \in Int /\ \A i \in 1..Len(s) : s[i] \in S
  OBVIOUS
<1>1. \A i \in m..(m + k - 1) : s[i] \in S
  BY <1>0
<1> DEFINE n == m + k - 1
<1>2. n \in Int /\ n - m + 1 = k /\ (m <= n <=> k > 0) /\ \A i \in 1..k : m + i - 1 = m - 1 + i
  BY <1>0
<1> HIDE DEF n
<1>3. \A i \in m..n : s[i] \in S
  BY <1>1 DEF n
<1>4. /\ SubSeq(s, m, n) \in Seq(S)
      /\ Len(SubSeq(s, m, n)) = IF m <= n THEN n - m + 1 ELSE 0
      /\ \A i \in 1..(n - m + 1) : SubSeq(s, m, n)[i] = s[m + i - 1]
  BY <1>2, <1>3, SubSeqProperties
<1>5. Len(SubSeq(s, m, n)) = k
  BY <1>2, <1>4
<1>6. \A i \in 1..k : SubSeq(s, m, n)[i] = s[m - 1 + i]
  <2> TAKE i \in 1..k
  <2>1. i \in 1..(n - m + 1) /\ m + i - 1 = m - 1 + i
    BY <1>2
  <2>2. SubSeq(s, m, n)[i] = s[m + i - 1]
    BY <1>4, <2>1
  <2> QED
    BY <2>1, <2>2
<1> QED
  BY <1>4, <1>5, <1>6 DEF n

\* Two byte strings, one after the other, entry by entry.
LEMMA Joined ==
    ASSUME NEW S, NEW s \in Seq(S), NEW t \in Seq(S)
    PROVE  /\ s \o t \in Seq(S)
           /\ Len(s \o t) = Len(s) + Len(t)
           /\ \A i \in 1..Len(s) : (s \o t)[i] = s[i]
           /\ \A i \in 1..Len(t) : (s \o t)[Len(s) + i] = t[i]
<1>0. Len(s) \in Nat /\ Len(t) \in Nat
  OBVIOUS
<1>1. /\ s \o t \in Seq(S)
      /\ Len(s \o t) = Len(s) + Len(t)
      /\ \A i \in 1..Len(s) + Len(t) : (s \o t)[i] = IF i <= Len(s) THEN s[i] ELSE t[i - Len(s)]
  BY ConcatProperties
<1>2. \A i \in 1..Len(s) : i \in 1..Len(s) + Len(t) /\ i <= Len(s)
  BY <1>0
<1>3. \A i \in 1..Len(t) : /\ Len(s) + i \in 1..Len(s) + Len(t)
                          /\ ~(Len(s) + i <= Len(s)) /\ Len(s) + i - Len(s) = i
  BY <1>0
<1>4. ASSUME NEW i \in 1..Len(t) PROVE (s \o t)[Len(s) + i] = t[i]
  <2>1. (s \o t)[Len(s) + i] = t[Len(s) + i - Len(s)]
    BY <1>1, <1>3
  <2> QED
    BY <1>3, <2>1
<1> QED
  BY <1>1, <1>2, <1>4

\* A length that fits into a byte.
LEMMA FitsByte == ASSUME NEW n \in Nat, n < 256 PROVE n % 256 = n
  OBVIOUS

\* Bytes are numbers, and zero is one.
LEMMA Bytes ==
    /\ Byte \subseteq Nat /\ 0 \in Byte /\ 2 \in Byte /\ 48 \in Byte
    /\ \A n \in Nat : n < 256 => n \in Byte
  BY DEF Byte

\* A set of numbers has a least one.
LEMMA LeastNumber ==
    ASSUME NEW T \in SUBSET Nat, T # {}
    PROVE  \E m \in T : \A n \in T : m <= n
<1>1. PICK m \in T : \A n \in T : ~(<<n, m>> \in OpToRel(<, Nat))
  BY NatLessThanWellFounded, WFMin
<1>2. \A n \in T : ~(n < m)
  BY <1>1 DEF OpToRel
<1> QED
  BY <1>2

\* The number of leading zeros of a byte string.
LEMMA LeadingZeros ==
    ASSUME NEW bytes \in Seq(Byte)
    PROVE  LET zeros == {n \in 0..Len(bytes) : \A i \in 1..n : bytes[i] = 0}
               n == CHOOSE n \in zeros : \A k \in zeros : k <= n
           IN  /\ n \in 0..Len(bytes)
               /\ \A i \in 1..n : bytes[i] = 0
               /\ n < Len(bytes) => bytes[n + 1] # 0
<1> DEFINE zeros == {n \in 0..Len(bytes) : \A i \in 1..n : bytes[i] = 0}
           rest == {k \in Nat : k <= Len(bytes) /\ Len(bytes) - k \in zeros}
           greatest == CHOOSE n \in zeros : \A k \in zeros : k <= n
<1>0. Len(bytes) \in Nat
  OBVIOUS
<1>1. rest # {}
  <2>1. Len(bytes) \in rest
    BY <1>0
  <2> QED
    BY <2>1
<1>2. PICK r \in rest : \A k \in rest : r <= k
  BY <1>1, LeastNumber
<1>3. \E n \in zeros : \A k \in zeros : k <= n
  <2>1. Len(bytes) - r \in zeros
    OBVIOUS
  <2>2. ASSUME NEW k \in zeros PROVE k <= Len(bytes) - r
    <3>1. k \in 0..Len(bytes) /\ r \in Nat
      OBVIOUS
    <3>2. Len(bytes) - k \in Nat /\ Len(bytes) - (Len(bytes) - k) = k
      BY <1>0, <3>1
    <3>3. Len(bytes) - k \in rest
      BY <1>0, <3>1, <3>2
    <3>4. r <= Len(bytes) - k
      BY <1>2, <3>3
    <3> HIDE DEF zeros, rest
    <3> QED
      BY <1>0, <3>1, <3>2, <3>4
  <2> QED
    BY <2>1, <2>2
<1>4. greatest \in zeros /\ \A k \in zeros : k <= greatest
  BY <1>3
<1> HIDE DEF greatest
<1>5. greatest \in 0..Len(bytes) /\ \A i \in 1..greatest : bytes[i] = 0
  BY <1>4
<1>6. ASSUME greatest < Len(bytes), bytes[greatest + 1] = 0 PROVE FALSE
  <2>1. greatest + 1 \in 0..Len(bytes)
    BY <1>0, <1>5, <1>6
  <2>2. \A i \in 1..(greatest + 1) : bytes[i] = 0
    BY <1>5, <1>6
  <2>3. greatest + 1 \in zeros
    BY <2>1, <2>2
  <2> QED
    BY <1>4, <1>5, <2>3
<1> QED
  BY <1>5, <1>6 DEF greatest

\* Leading zeros add nothing to a number.
LEMMA ZerosAddNothing ==
    ASSUME NEW s \in Seq(Byte), NEW t \in Seq(Byte), NEW z \in Nat, Len(s) = z + Len(t),
           \A i \in 1..z : s[i] = 0, \A i \in 1..Len(t) : t[i] = s[z + i]
    PROVE  BytesValue(s) = BytesValue(t)
<1>0. Len(s) \in Nat /\ Len(t) \in Nat
  OBVIOUS
<1>1. ASSUME NEW n \in {m \in 1..Len(s) : s[m] # 0}
      PROVE  <<Len(s) - n, s[n]>> \in BytesValue(t)
  <2>1. n - z \in 1..Len(t) /\ Len(s) - n = Len(t) - (n - z) /\ z + (n - z) = n
    BY <1>0
  <2>2. s[n] = t[n - z]
    BY <2>1
  <2>3. n - z \in {m \in 1..Len(t) : t[m] # 0}
    BY <2>1, <2>2
  <2> QED
    BY <2>1, <2>2, <2>3 DEF BytesValue
<1>2. ASSUME NEW n \in {m \in 1..Len(t) : t[m] # 0}
      PROVE  <<Len(t) - n, t[n]>> \in BytesValue(s)
  <2>1. z + n \in 1..Len(s) /\ Len(s) - (z + n) = Len(t) - n
    BY <1>0
  <2>2. s[z + n] = t[n]
    OBVIOUS
  <2>3. z + n \in {m \in 1..Len(s) : s[m] # 0}
    BY <2>1, <2>2
  <2> QED
    BY <2>1, <2>2, <2>3 DEF BytesValue
<1>3. BytesValue(s) \subseteq BytesValue(t)
  BY <1>1 DEF BytesValue
<1>4. BytesValue(t) \subseteq BytesValue(s)
  BY <1>2 DEF BytesValue
<1> QED
  BY <1>3, <1>4

\* What encode_int makes of a half: the announced length, no superfluous zero, no sign,
\* and the same number.
LEMMA EncodedIntegers ==
    ASSUME NEW bytes \in Seq(Byte), Len(bytes) > 0 /\ Len(bytes) <= 48
    PROVE  \E p \in Seq(Byte) :
             /\ EncodeInt(bytes) = <<2, Len(p)>> \o p
             /\ Len(p) > 0 /\ Len(p) <= 49
             /\ IsInteger(p)
             /\ BytesValue(p) = BytesValue(bytes)
<1> DEFINE zeros == {n \in 0..Len(bytes) : \A i \in 1..n : bytes[i] = 0}
           z == CHOOSE n \in zeros : \A k \in zeros : k <= n
           trimmed == SubSeq(bytes, 1 + z, Len(bytes))
           stripped == IF trimmed = <<>> THEN <<0>> ELSE trimmed
           padded == IF Head(stripped) >= 128 THEN <<0>> \o stripped ELSE stripped
<1>1. EncodeInt(bytes) = <<2, Len(padded) % 256>> \o padded
  BY DEF EncodeInt
<1>2. /\ z \in 0..Len(bytes)
      /\ \A i \in 1..z : bytes[i] = 0
      /\ z < Len(bytes) => bytes[z + 1] # 0
  BY LeadingZeros
<1> HIDE DEF z
<1>3. /\ trimmed \in Seq(Byte) /\ Len(trimmed) = Len(bytes) - z
      /\ \A i \in 1..Len(trimmed) : trimmed[i] = bytes[z + i]
  <2> DEFINE k == Len(bytes) - z
             m == 1 + z
  <2>1. k \in Nat /\ m \in Nat \ {0} /\ m + k <= Len(bytes) + 1 /\ m + k - 1 = Len(bytes) /\ m - 1 = z
    BY <1>2
  <2> HIDE DEF k, m
  <2>2. /\ SubSeq(bytes, m, m + k - 1) \in Seq(Byte)
        /\ Len(SubSeq(bytes, m, m + k - 1)) = k
        /\ \A i \in 1..k : SubSeq(bytes, m, m + k - 1)[i] = bytes[m - 1 + i]
    BY <2>1, Slice
  <2>3. trimmed = SubSeq(bytes, m, m + k - 1)
    BY <2>1 DEF m
  <2> HIDE DEF trimmed
  <2> QED
    BY <2>1, <2>2, <2>3 DEF k
<1> HIDE DEF trimmed
<1>4. BytesValue(bytes) = BytesValue(trimmed)
  <2>1. z \in Nat /\ Len(bytes) = z + Len(trimmed)
    BY <1>2, <1>3
  <2> QED
    BY <1>2, <1>3, <2>1, ZerosAddNothing
<1>5. /\ stripped \in Seq(Byte) /\ Len(stripped) > 0 /\ Len(stripped) <= 48
      /\ BytesValue(stripped) = BytesValue(bytes)
      /\ Len(stripped) > 1 => stripped[1] # 0
  <2>1. CASE trimmed = <<>>
    <3>1. stripped = <<0>>
      BY <2>1
    <3> HIDE DEF stripped
    <3>2. stripped \in Seq(Byte) /\ Len(stripped) = 1 /\ stripped[1] = 0
      BY <3>1, Bytes
    <3>3. BytesValue(stripped) = BytesValue(trimmed)
      <4>1. Len(trimmed) = 0 /\ 1 \in Nat /\ Len(stripped) = 1 + Len(trimmed)
        BY <2>1, <3>2
      <4>2. \A i \in 1..1 : stripped[i] = 0
        BY <3>2
      <4>3. \A i \in 1..Len(trimmed) : trimmed[i] = stripped[1 + i]
        BY <4>1
      <4> QED
        BY <1>3, <3>2, <4>1, <4>2, <4>3, ZerosAddNothing
    <3> QED
      BY <1>4, <3>2, <3>3
  <2>2. CASE trimmed # <<>>
    <3>1. stripped = trimmed
      BY <2>2
    <3>2. Len(trimmed) > 0
      BY <1>3, <2>2
    <3>3. z < Len(bytes) /\ Len(trimmed) > 0 /\ Len(trimmed) <= 48
      <4>1. Len(trimmed) = Len(bytes) - z /\ z \in Nat /\ Len(bytes) > 0 /\ Len(bytes) <= 48
        BY <1>2, <1>3
      <4> QED
        BY <3>2, <4>1
    <3>4. trimmed[1] # 0
      BY <1>2, <1>3, <3>2, <3>3
    <3> HIDE DEF stripped
    <3> QED
      BY <1>3, <1>4, <3>1, <3>3, <3>4
  <2> QED
    BY <2>1, <2>2
<1> HIDE DEF stripped
<1>6. stripped # <<>> /\ Head(stripped) = stripped[1] /\ stripped[1] \in Nat
  <2>1. stripped # <<>> /\ stripped[1] \in Byte
    BY <1>5
  <2>2. Head(stripped) = stripped[1]
    BY <1>5, <2>1
  <2> QED
    BY <2>1, <2>2, Bytes
<1>7. /\ padded \in Seq(Byte) /\ Len(padded) > 0 /\ Len(padded) <= 49
      /\ IsInteger(padded) /\ BytesValue(padded) = BytesValue(bytes)
  <2>1. CASE stripped[1] >= 128
    <3>1. padded = <<0>> \o stripped
      BY <1>6, <2>1
    <3> HIDE DEF padded
    <3>2. /\ padded \in Seq(Byte) /\ Len(padded) = 1 + Len(stripped)
          /\ padded[1] = 0 /\ \A i \in 1..Len(stripped) : padded[1 + i] = stripped[i]
      <4>1. <<0>> \in Seq(Byte) /\ Len(<<0>>) = 1 /\ <<0>>[1] = 0
        BY Bytes
      <4> QED
        BY <1>5, <3>1, <4>1, Joined
    <3>3. BytesValue(padded) = BytesValue(stripped)
      <4>1. 1 \in Nat /\ \A i \in 1..1 : padded[i] = 0
        BY <3>2
      <4>2. \A i \in 1..Len(stripped) : stripped[i] = padded[1 + i]
        BY <3>2
      <4> QED
        BY <1>5, <3>2, <4>1, <4>2, ZerosAddNothing
    <3>4. padded[2] = stripped[1]
      <4>1. 1 \in 1..Len(stripped) /\ 1 + 1 = 2
        BY <1>5
      <4> QED
        BY <3>2, <4>1
    <3>5. Len(padded) > 0 /\ Len(padded) <= 49
      BY <1>5, <3>2
    <3>6. padded # <<>>
      BY <3>5
    <3>7. IsInteger(padded)
      BY <2>1, <3>2, <3>4, <3>6 DEF IsInteger
    <3> QED
      BY <1>5, <3>2, <3>3, <3>5, <3>7
  <2>2. CASE ~(stripped[1] >= 128)
    <3>1. padded = stripped
      BY <1>6, <2>2
    <3> HIDE DEF padded
    <3>2. stripped[1] < 128 /\ (Len(stripped) > 1 => stripped[1] # 0)
      BY <1>5, <1>6, <2>2
    <3>3. IsInteger(stripped)
      BY <1>6, <3>2 DEF IsInteger
    <3>4. Len(stripped) > 0 /\ Len(stripped) <= 49
      BY <1>5
    <3> QED
      BY <1>5, <3>1, <3>3, <3>4
  <2> QED
    BY <2>1, <2>2
<1> HIDE DEF padded
<1>8. Len(padded) % 256 = Len(padded)
  <2>1. Len(padded) \in Nat /\ Len(padded) < 256
    BY <1>7
  <2> QED
    BY <2>1, FitsByte
<1> QED
  BY <1>1, <1>7, <1>8

\* A header of two bytes in front of a byte string.
LEMMA WithHeader ==
    ASSUME NEW tag \in Byte, NEW len \in Byte, NEW s \in Seq(Byte)
    PROVE  /\ <<tag, len>> \o s \in Seq(Byte)
           /\ Len(<<tag, len>> \o s) = 2 + Len(s)
           /\ (<<tag, len>> \o s)[1] = tag /\ (<<tag, len>> \o s)[2] = len
           /\ \A i \in 1..Len(s) : (<<tag, len>> \o s)[2 + i] = s[i]
<1> DEFINE h == <<tag, len>>
<1>0. h \in Seq(Byte)
  OBVIOUS
<1>1. Len(h) = 2 /\ h[1] = tag /\ h[2] = len
  OBVIOUS
<1> HIDE DEF h
<1>2. /\ h \o s \in Seq(Byte)
      /\ Len(h \o s) = Len(h) + Len(s)
      /\ \A i \in 1..Len(h) : (h \o s)[i] = h[i]
      /\ \A i \in 1..Len(s) : (h \o s)[Len(h) + i] = s[i]
  BY <1>0, Joined
<1>3. (h \o s)[1] = tag /\ (h \o s)[2] = len
  <2>1. 1 \in 1..Len(h) /\ 2 \in 1..Len(h)
    BY <1>1
  <2> QED
    BY <1>1, <1>2, <2>1
<1> QED
  BY <1>1, <1>2, <1>3 DEF h

\* A SEQUENCE of two integers is read as these two, and in no other way.
LEMMA DecodesPair ==
    ASSUME NEW p \in Seq(Byte), NEW t \in Seq(Byte), NEW b \in Seq(Byte),
           Len(p) > 0, Len(t) > 0, Len(p) + Len(t) < 124, IsInteger(p), IsInteger(t),
           Len(b) = 6 + Len(p) + Len(t),
           b[1] = 48, b[2] = 4 + Len(p) + Len(t), b[3] = 2, b[4] = Len(p),
           b[5 + Len(p)] = 2, b[6 + Len(p)] = Len(t),
           \A i \in 1..Len(p) : b[4 + i] = p[i],
           \A i \in 1..Len(t) : b[6 + Len(p) + i] = t[i]
    PROVE  DecodeSignature(b) = {<<BytesValue(p), BytesValue(t)>>}
<1> DEFINE n == Len(p)
           k == Len(t)
           fits == {i \in 1..(Len(b) - 6) :
                      /\ b[1] = 48 /\ b[2] = Len(b) - 2 /\ Len(b) - 2 < 128
                      /\ b[3] = 2 /\ b[4] = i /\ IsInteger(SubSeq(b, 5, 4 + i))
                      /\ b[5 + i] = 2 /\ b[6 + i] = Len(b) - 6 - i /\ IsInteger(SubSeq(b, 7 + i, Len(b)))}
<1>0. n \in Nat /\ k \in Nat
  OBVIOUS
<1>1. SubSeq(b, 5, 4 + n) = p
  <2>1. 5 + n <= Len(b) + 1 /\ 5 + n - 1 = 4 + n /\ 5 - 1 = 4
    BY <1>0
  <2>2. /\ SubSeq(b, 5, 5 + n - 1) \in Seq(Byte)
        /\ Len(SubSeq(b, 5, 5 + n - 1)) = n
        /\ \A i \in 1..n : SubSeq(b, 5, 5 + n - 1)[i] = b[5 - 1 + i]
    <3> HIDE DEF n
    <3> QED
      BY <1>0, <2>1, Slice
  <2> DEFINE c == SubSeq(b, 5, 4 + n)
  <2>3. c \in Seq(Byte) /\ Len(c) = n /\ \A i \in 1..n : c[i] = p[i]
    <3> HIDE DEF n
    <3> QED
      BY <2>1, <2>2 DEF n
  <2> HIDE DEF c
  <2>4. c = p
    BY <2>3, SameEntries
  <2> QED
    BY <2>4 DEF c
<1>2. SubSeq(b, 7 + n, Len(b)) = t
  <2> DEFINE m == 7 + n
  <2>1. m \in Nat \ {0} /\ m + k <= Len(b) + 1 /\ m + k - 1 = Len(b) /\ m - 1 = 6 + n
    BY <1>0
  <2> HIDE DEF m, k
  <2>2. /\ SubSeq(b, m, m + k - 1) \in Seq(Byte)
        /\ Len(SubSeq(b, m, m + k - 1)) = k
        /\ \A i \in 1..k : SubSeq(b, m, m + k - 1)[i] = b[m - 1 + i]
    BY <1>0, <2>1, Slice
  <2> DEFINE c == SubSeq(b, m, Len(b))
  <2>3. c \in Seq(Byte) /\ Len(c) = k /\ \A i \in 1..k : c[i] = b[6 + n + i]
    BY <2>1, <2>2
  <2> HIDE DEF c
  <2>4. c = t
    BY <2>3, SameEntries DEF k
  <2> QED
    BY <2>4 DEF c, m
<1>3. fits = {n}
  <2>1. \A i \in fits : i = n
    OBVIOUS
  <2>2. n \in 1..(Len(b) - 6) /\ b[2] = Len(b) - 2 /\ Len(b) - 2 < 128 /\ b[6 + n] = Len(b) - 6 - n
    BY <1>0
  <2>3. n \in fits
    BY <1>1, <1>2, <2>2
  <2> HIDE DEF fits
  <2> QED
    BY <2>1, <2>3
<1>4. DecodeSignature(b) =
        {<<BytesValue(SubSeq(b, 5, 4 + i)), BytesValue(SubSeq(b, 7 + i, Len(b)))>> : i \in fits}
  BY DEF DecodeSignature
<1> HIDE DEF fits, n
<1>5. DecodeSignature(b) = {<<BytesValue(SubSeq(b, 5, 4 + n)), BytesValue(SubSeq(b, 7 + n, Len(b)))>>}
  BY <1>3, <1>4
<1> QED
  BY <1>1, <1>2, <1>5

\* A half of two byte strings of one length.
LEMMA Halves ==
    ASSUME NEW r \in Seq(Byte), NEW s \in Seq(Byte), Len(r) = Len(s)
    PROVE  LET raw == r \o s
               half == Len(raw) \div 2
           IN  SubSeq(raw, 1, half) = r /\ SubSeq(raw, half + 1, Len(raw)) = s
<1> DEFINE raw == r \o s
           n == Len(r)
<1>1. n \in Nat /\ n = Len(s)
  OBVIOUS
<1>2. /\ raw \in Seq(Byte) /\ Len(raw) = n + n
      /\ \A i \in 1..n : raw[i] = r[i] /\ raw[n + i] = s[i]
  BY <1>1, Joined
<1> HIDE DEF raw
<1>3. Len(raw) \div 2 = n
  <2> HIDE DEF n
  <2> QED
    BY <1>1, <1>2
<1>4. SubSeq(raw, 1, n) = r
  <2> DEFINE c == SubSeq(raw, 1, n)
  <2>1. 1 + n <= Len(raw) + 1 /\ 1 + n - 1 = n /\ \A i \in 1..n : 1 - 1 + i = i
    BY <1>1, <1>2
  <2>2. c \in Seq(Byte) /\ Len(c) = n /\ \A i \in 1..n : c[i] = raw[i]
    <3> HIDE DEF n
    <3>1. /\ SubSeq(raw, 1, 1 + n - 1) \in Seq(Byte)
          /\ Len(SubSeq(raw, 1, 1 + n - 1)) = n
          /\ \A i \in 1..n : SubSeq(raw, 1, 1 + n - 1)[i] = raw[1 - 1 + i]
      BY <1>1, <1>2, <2>1, Slice
    <3> QED
      BY <2>1, <3>1
  <2> HIDE DEF c
  <2>3. c = r
    BY <1>2, <2>2, SameEntries
  <2> QED
    BY <2>3 DEF c
<1>5. SubSeq(raw, n + 1, Len(raw)) = s
  <2> DEFINE m == n + 1
             c == SubSeq(raw, m, Len(raw))
  <2>1. m \in Nat \ {0} /\ m + n <= Len(raw) + 1 /\ m + n - 1 = Len(raw) /\ m - 1 = n
    BY <1>1, <1>2
  <2> HIDE DEF m
  <2>2. c \in Seq(Byte) /\ Len(c) = n /\ \A i \in 1..n : c[i] = raw[n + i]
    <3> HIDE DEF n
    <3>1. /\ SubSeq(raw, m, m + n - 1) \in Seq(Byte)
          /\ Len(SubSeq(raw, m, m + n - 1)) = n
          /\ \A i \in 1..n : SubSeq(raw, m, m + n - 1)[i] = raw[m - 1 + i]
      BY <1>1, <1>2, <2>1, Slice
    <3> QED
      BY <2>1, <3>1
  <2> HIDE DEF c
  <2>3. c = s
    BY <1>1, <1>2, <2>2, SameEntries
  <2> QED
    BY <2>3 DEF c, m
<1> QED
  BY <1>3, <1>4, <1>5 DEF raw

\* raw_ecdsa_to_der is understood by the verifier, whatever zeros and high bits the
\* two numbers have.
LEMMA EncodingIsRead ==
    ASSUME NEW r \in Seq(Byte), NEW s \in Seq(Byte), Len(r) = Len(s), Len(r) > 0, Len(r) <= 48
    PROVE  /\ RawEcdsaToDer(r \o s) \in Seq(Byte)
           /\ RawEcdsaToDer(r \o s) # <<>>
           /\ RawEcdsaToDer(r \o s)[1] = 48
           /\ DecodeSignature(RawEcdsaToDer(r \o s)) = {<<BytesValue(r), BytesValue(s)>>}
<1>1. PICK p \in Seq(Byte) :
             /\ EncodeInt(r) = <<2, Len(p)>> \o p
             /\ Len(p) > 0 /\ Len(p) <= 49
             /\ IsInteger(p)
             /\ BytesValue(p) = BytesValue(r)
  BY EncodedIntegers
<1>2. PICK t \in Seq(Byte) :
             /\ EncodeInt(s) = <<2, Len(t)>> \o t
             /\ Len(t) > 0 /\ Len(t) <= 49
             /\ IsInteger(t)
             /\ BytesValue(t) = BytesValue(s)
  BY EncodedIntegers
<1> DEFINE n == Len(p)
           k == Len(t)
           i1 == EncodeInt(r)
           i2 == EncodeInt(s)
           ints == i1 \o i2
           b == RawEcdsaToDer(r \o s)
<1>3. n \in Nat /\ k \in Nat /\ n \in Byte /\ k \in Byte /\ 2 \in Byte /\ 48 \in Byte
  <2>1. n \in Nat /\ k \in Nat /\ n < 256 /\ k < 256
    BY <1>1, <1>2
  <2> HIDE DEF n, k
  <2> QED
    BY <2>1, Bytes
<1>4. /\ i1 \in Seq(Byte) /\ Len(i1) = 2 + n /\ i1[1] = 2 /\ i1[2] = n
      /\ \A i \in 1..n : i1[2 + i] = p[i]
  BY <1>1, <1>3, WithHeader
<1>5. /\ i2 \in Seq(Byte) /\ Len(i2) = 2 + k /\ i2[1] = 2 /\ i2[2] = k
      /\ \A i \in 1..k : i2[2 + i] = t[i]
  BY <1>2, <1>3, WithHeader
<1>6. b = <<48, Len(ints) % 256>> \o ints
  BY Halves DEF RawEcdsaToDer
<1> HIDE DEF i1, i2
<1>7. /\ ints \in Seq(Byte) /\ Len(ints) = Len(i1) + Len(i2)
      /\ \A i \in 1..Len(i1) : ints[i] = i1[i]
      /\ \A i \in 1..Len(i2) : ints[Len(i1) + i] = i2[i]
  <2>1. i1 \in Seq(Byte) /\ i2 \in Seq(Byte)
    BY <1>4, <1>5
  <2> QED
    BY <2>1, Joined
<1>8. /\ Len(ints) = 4 + n + k /\ ints[1] = 2 /\ ints[2] = n /\ ints[3 + n] = 2 /\ ints[4 + n] = k
      /\ \A i \in 1..n : ints[2 + i] = p[i]
      /\ \A i \in 1..k : ints[4 + n + i] = t[i]
  <2> HIDE DEF ints, n, k
  <2>1. Len(ints) = 4 + n + k /\ Len(i1) = 2 + n /\ Len(i2) = 2 + k
    BY <1>3, <1>4, <1>5, <1>7
  <2>2. 1 \in 1..Len(i1) /\ 2 \in 1..Len(i1) /\ 1 \in 1..Len(i2) /\ 2 \in 1..Len(i2)
    BY <1>3, <2>1
  <2>3. ints[1] = 2 /\ ints[2] = n /\ ints[Len(i1) + 1] = 2 /\ ints[Len(i1) + 2] = k
    BY <1>4, <1>5, <1>7, <2>2
  <2>4. Len(i1) + 1 = 3 + n /\ Len(i1) + 2 = 4 + n
    BY <1>3, <2>1
  <2>5. ASSUME NEW i \in 1..n PROVE ints[2 + i] = p[i]
    <3>1. 2 + i \in 1..Len(i1)
      BY <1>3, <2>1
    <3> QED
      BY <1>4, <1>7, <3>1
  <2>6. ASSUME NEW i \in 1..k PROVE ints[4 + n + i] = t[i]
    <3>1. 2 + i \in 1..Len(i2) /\ Len(i1) + (2 + i) = 4 + n + i
      BY <1>3, <2>1
    <3>2. ints[Len(i1) + (2 + i)] = i2[2 + i]
      BY <1>7, <3>1
    <3> QED
      BY <1>5, <3>1, <3>2
  <2> QED
    BY <2>1, <2>3, <2>4, <2>5, <2>6
<1>9. Len(ints) % 256 = Len(ints) /\ Len(ints) \in Byte
  <2>1. Len(ints) \in Nat /\ Len(ints) < 256
    <3> HIDE DEF ints
    <3> QED
      BY <1>1, <1>2, <1>8
  <2> HIDE DEF ints
  <2> QED
    BY <2>1, FitsByte, Bytes
<1> HIDE DEF ints, b
<1>10. /\ b \in Seq(Byte) /\ Len(b) = 2 + Len(ints) /\ b[1] = 48 /\ b[2] = Len(ints)
       /\ \A i \in 1..Len(ints) : b[2 + i] = ints[i]
  <2> DEFINE len == Len(ints)
  <2>1. 48 \in Byte /\ len \in Byte /\ ints \in Seq(Byte) /\ b = <<48, len>> \o ints
    BY <1>3, <1>6, <1>7, <1>9
  <2> HIDE DEF len
  <2>2. /\ b \in Seq(Byte) /\ Len(b) = 2 + Len(ints) /\ b[1] = 48 /\ b[2] = len
        /\ \A i \in 1..Len(ints) : b[2 + i] = ints[i]
    BY <2>1, WithHeader
  <2> QED
    BY <2>2 DEF len
<1>11. /\ Len(b) = 6 + n + k /\ b[2] = 4 + n + k /\ b[3] = 2 /\ b[4] = n
       /\ b[5 + n] = 2 /\ b[6 + n] = k
       /\ \A i \in 1..n : b[4 + i] = p[i]
       /\ \A i \in 1..k : b[6 + n + i] = t[i]
  <2> HIDE DEF n, k
  <2>1. Len(b) = 6 + n + k /\ b[2] = 4 + n + k
    BY <1>3, <1>8, <1>10
  <2>2. /\ 1 \in 1..Len(ints) /\ 2 \in 1..Len(ints) /\ 3 + n \in 1..Len(ints) /\ 4 + n \in 1..Len(ints)
        /\ 2 + 1 = 3 /\ 2 + 2 = 4 /\ 2 + (3 + n) = 5 + n /\ 2 + (4 + n) = 6 + n
    BY <1>3, <1>8
  <2>3. b[3] = 2 /\ b[4] = n /\ b[5 + n] = 2 /\ b[6 + n] = k
    BY <1>8, <1>10, <2>2
  <2>4. ASSUME NEW i \in 1..n PROVE b[4 + i] = p[i]
    <3>1. 2 + i \in 1..Len(ints) /\ 2 + (2 + i) = 4 + i
      BY <1>3, <1>8
    <3>2. b[2 + (2 + i)] = ints[2 + i]
      BY <1>10, <3>1
    <3> QED
      BY <1>8, <3>1, <3>2
  <2>5. ASSUME NEW i \in 1..k PROVE b[6 + n + i] = t[i]
    <3>1. 4 + n + i \in 1..Len(ints) /\ 2 + (4 + n + i) = 6 + n + i
      BY <1>3, <1>8
    <3>2. b[2 + (4 + n + i)] = ints[4 + n + i]
      BY <1>10, <3>1
    <3> QED
      BY <1>8, <3>1, <3>2
  <2> QED
    BY <2>1, <2>3, <2>4, <2>5
<1>12. n + k < 124
  BY <1>1, <1>2
<1>13. DecodeSignature(b) = {<<BytesValue(p), BytesValue(t)>>}
  BY <1>1, <1>2, <1>10, <1>11, <1>12, DecodesPair
<1>14. b # <<>>
  BY <1>3, <1>10, <1>11
<1> QED
  BY <1>1, <1>2, <1>10, <1>13, <1>14 DEF b

\* The schemes of RSA keys.
LEMMA RsaSchemes ==
    /\ Len(AllRsaSchemes) = 6 /\ AllRsaSchemes[1] = "RSA_PSS_SHA512"
    /\ {AllRsaSchemes[n] : n \in 1..Len(AllRsaSchemes)} =
           {"RSA_PSS_SHA512", "RSA_PSS_SHA384", "RSA_PSS_SHA256",
            "RSA_PKCS1_SHA512", "RSA_PKCS1_SHA384", "RSA_PKCS1_SHA256"}
<1>1. /\ Len(AllRsaSchemes) = 6
      /\ AllRsaSchemes[1] = "RSA_PSS_SHA512" /\ AllRsaSchemes[2] = "RSA_PSS_SHA384"
      /\ AllRsaSchemes[3] = "RSA_PSS_SHA256" /\ AllRsaSchemes[4] = "RSA_PKCS1_SHA512"
      /\ AllRsaSchemes[5] = "RSA_PKCS1_SHA384" /\ AllRsaSchemes[6] = "RSA_PKCS1_SHA256"
  BY DEF AllRsaSchemes
<1>2. \A n \in 1..6 : n = 1 \/ n = 2 \/ n = 3 \/ n = 4 \/ n = 5 \/ n = 6
  OBVIOUS
<1> QED
  BY <1>1, <1>2

\* Whatever a client offers, a scheme that is chosen in TLS 1.3 is one of the key's,
\* and for RSA a PSS scheme.
LEMMA ChosenSchemes ==
    ASSUME NEW algorithm \in {"ECDSA", "RSA"}, NEW offered,
           NEW s \in ChooseTokenScheme(algorithm, offered \ Pkcs1Schemes)
    PROVE  s \in IF algorithm = "ECDSA" THEN EcdsaSchemes ELSE PssSchemes
<1> DEFINE schemes == PreferredSchemes(algorithm)
<1>1. PICK n \in 1..Len(schemes) : s = schemes[n] /\ schemes[n] \in offered \ Pkcs1Schemes
  <2> HIDE DEF schemes
  <2> QED
    BY DEF ChooseTokenScheme, schemes
<1>2. CASE algorithm = "ECDSA"
  <2>1. schemes = <<"ECDSA_NISTP384_SHA384", "ECDSA_NISTP256_SHA256">>
    BY <1>2 DEF PreferredSchemes
  <2> HIDE DEF schemes
  <2>2. n = 1 \/ n = 2
    BY <1>1, <2>1
  <2> QED
    BY <1>1, <1>2, <2>1, <2>2 DEF EcdsaSchemes
<1>3. CASE algorithm = "RSA"
  <2>1. schemes = AllRsaSchemes
    BY <1>3 DEF PreferredSchemes
  <2> HIDE DEF schemes
  <2>2. s \in {AllRsaSchemes[m] : m \in 1..Len(AllRsaSchemes)} /\ s \notin Pkcs1Schemes
    BY <1>1, <2>1
  <2>3. s \in PssSchemes
    BY <2>2, RsaSchemes DEF Pkcs1Schemes, PssSchemes
  <2> QED
    BY <1>3, <2>3
<1> QED
  BY <1>2, <1>3

\* A client with the certificate of a key on the scheme's curve accepts what that key
\* signs.
LEMMA OwnCurveVerifies ==
    ASSUME NEW cert, NEW signature, NEW scheme \in EcdsaSchemes, cert.alg = CurveOf(scheme),
           cert.spki = Spki(cert.alg), signature.form = SchemeToMechanism(scheme).form,
           signature.number = cert.number
    PROVE  VerifyHandshakeSignature("TLSv1_3", scheme, cert, signature)
<1> DEFINE mapping == Mapping(scheme)
<1>1. /\ Len(mapping) = 2
      /\ mapping[1] = <<Spki(cert.alg), signature.form>>
  <2>1. CASE scheme = "ECDSA_NISTP384_SHA384"
    <3>1. mapping = <<EcdsaVerifier("p384", 384), EcdsaVerifier("p256", 384)>>
      BY <2>1, RsaSchemes DEF Mapping
    <3>2. EcdsaVerifier("p384", 384) = <<"p384", "ecdsa-sha384">>
      BY DEF EcdsaVerifier
    <3>3. Spki("EcdsaP384") = "p384"
      BY DEF Spki, KeyType, OxiEcdsaP384Key
    <3>4. cert.alg = "EcdsaP384" /\ signature.form = "ecdsa-sha384"
      BY <2>1 DEF CurveOf, SchemeToMechanism, Pkcs1Schemes
    <3> HIDE DEF mapping
    <3> QED
      BY <3>1, <3>2, <3>3, <3>4
  <2>2. CASE scheme = "ECDSA_NISTP256_SHA256"
    <3>1. mapping = <<EcdsaVerifier("p256", 256), EcdsaVerifier("p384", 256)>>
      BY <2>2, RsaSchemes DEF Mapping
    <3>2. EcdsaVerifier("p256", 256) = <<"p256", "ecdsa-sha256">>
      BY DEF EcdsaVerifier
    <3>3. Spki("EcdsaP256") = "p256"
      BY DEF Spki, KeyType, OxiEcdsaP256Key
    <3>4. cert.alg = "EcdsaP256" /\ signature.form = "ecdsa-sha256"
      BY <2>2 DEF CurveOf, SchemeToMechanism, Pkcs1Schemes
    <3> HIDE DEF mapping
    <3> QED
      BY <3>1, <3>2, <3>3, <3>4
  <2> QED
    BY <2>1, <2>2 DEF EcdsaSchemes
<1> HIDE DEF mapping
<1>2. VerifySignature(mapping[1], cert, signature)
  BY <1>1 DEF VerifySignature
<1>3. 1 \in 1..Len(mapping)
  BY <1>1
<1> QED
  BY <1>2, <1>3 DEF VerifyHandshakeSignature, mapping

\* A signature that verifies was made with the key of the certificate.
LEMMA VerifiedNumber ==
    ASSUME NEW version, NEW scheme, NEW cert, NEW signature,
           VerifyHandshakeSignature(version, scheme, cert, signature)
    PROVE  signature.number = cert.number
  BY DEF VerifyHandshakeSignature, VerifySignature

\* What reaches the client is read as the numbers that the token computed, unless a
\* raw signature is taken for an encoded one.
LEMMA FinalizedIsRead ==
    ASSUME NEW q \in RawSignature, NEW encoded, encoded \/ q[1][1] # 48
    PROVE  DecodeSignature(FinalizeSignature(IF encoded THEN RawEcdsaToDer(q[1] \o q[2]) ELSE q[1] \o q[2])) =
             {<<BytesValue(q[1]), BytesValue(q[2])>>}
<1> DEFINE r == q[1]
           s == q[2]
           der == RawEcdsaToDer(r \o s)
           raw == r \o s
<1>1. r \in Seq(Byte) /\ s \in Seq(Byte) /\ Len(r) = Len(s) /\ Len(r) > 0 /\ Len(r) <= 48
  BY TokenServerAssumption
<1> HIDE DEF r, s
<1>2. /\ der \in Seq(Byte) /\ der # <<>> /\ der[1] = 48
      /\ DecodeSignature(der) = {<<BytesValue(r), BytesValue(s)>>}
  BY <1>1, EncodingIsRead
<1>3. Head(der) = 48
  <2> HIDE DEF der
  <2> QED
    BY <1>2
<1>4. raw \in Seq(Byte) /\ Len(raw) = Len(r) + Len(s) /\ \A i \in 1..Len(r) : raw[i] = r[i]
  BY <1>1, Joined
<1>5. Head(raw) = r[1]
  <2> HIDE DEF raw
  <2>1. Len(raw) > 0 /\ 1 \in 1..Len(r)
    BY <1>1, <1>4
  <2>2. raw # <<>>
    BY <1>4, <2>1
  <2>3. Head(raw) = raw[1]
    BY <1>4, <2>2
  <2> QED
    BY <1>4, <2>1, <2>3
<1>6. FinalizeSignature(der) = der
  <2> HIDE DEF der
  <2> QED
    BY <1>3 DEF FinalizeSignature
<1>7. ASSUME r[1] # 48 PROVE FinalizeSignature(raw) = der
  <2> HIDE DEF raw
  <2>1. FinalizeSignature(raw) = RawEcdsaToDer(raw)
    BY <1>5, <1>7 DEF FinalizeSignature
  <2> QED
    BY <2>1 DEF raw
<1> DEFINE bytes == FinalizeSignature(IF encoded THEN der ELSE raw)
<1>8. bytes = der
  <2> HIDE DEF der, raw
  <2>1. CASE encoded
    BY <1>6, <2>1
  <2>2. CASE ~encoded
    BY <1>7, <2>2 DEF r
  <2> QED
    BY <2>1, <2>2
<1>9. DecodeSignature(bytes) = {<<BytesValue(r), BytesValue(s)>>}
  <2> HIDE DEF bytes, der
  <2> QED
    BY <1>2, <1>8
<1> QED
  BY <1>9 DEF r, s

\* The entries that a resolver hands out serve, because those it was built with do.
LEMMA LookupServes ==
    ASSUME SigningInv, resolver # NoResolver, NEW name \in HostName \cup {NoName},
           NEW entry \in Lookup(name)
    PROVE  Serves(entry)
<1>1. /\ \A h \in DOMAIN resolver.map : Serves(resolver.map[h])
      /\ \A e \in resolver.default : Serves(e)
  BY DEF SigningInv, ResolverServes
<1> DEFINE map == resolver.map
           default == resolver.default
           strict == resolver.strict
           wild == {key \in DOMAIN map : WildcardMatches(key, name)}
<1>2. entry \in default \/ \E h \in DOMAIN map : entry = map[h]
  <2>1. CASE name = NoName
    <3>1. Lookup(name) = IF strict THEN {} ELSE default
      BY <2>1 DEF Lookup
    <3> HIDE DEF default, strict
    <3> QED
      BY <3>1
  <2>2. CASE name # NoName
    <3>1. Lookup(name) = MatchSni(map, name, strict, default)
      BY <2>2 DEF Lookup
    <3> HIDE DEF map, default, strict
    <3>2. MatchSni(map, name, strict, default) =
            IF name \in DOMAIN map THEN {map[name]}
            ELSE IF wild # {} THEN {map[key] : key \in wild}
            ELSE IF strict THEN {} ELSE default
      <4>1. \A key \in wild : key \in DOMAIN map
        OBVIOUS
      <4> HIDE DEF wild
      <4> QED
        BY DEF MatchSni, wild
    <3> QED
      BY <3>1, <3>2
  <2> QED
    BY <2>1, <2>2
<1> QED
  BY <1>1, <1>2

\* What is read from the token serves.
LEMMA CertifiedServes ==
    ASSUME SigningInv, NEW chain \in KeyLabel, NEW label \in KeyLabel,
           NEW entry \in CertifiedKey(chain, label)
    PROVE  Serves(entry)
<1>1. /\ tokenKeys \in [KeyLabel -> TokenKey \cup {NoKey}]
      /\ tokenCerts \in [KeyLabel -> TokenKey \cup {NoKey}]
  BY DEF SigningInv, TokenIsTyped
<1>2. PICK a \in IF NoKey \in {tokenKeys[label], tokenCerts[chain]} THEN {}
                 ELSE KeyTypeToAlgorithm(tokenKeys[label].alg) :
         entry = [cert |-> tokenCerts[chain], label |-> label, algorithm |-> a]
  BY DEF CertifiedKey
<1>3. tokenKeys[label] # NoKey /\ tokenCerts[chain] # NoKey /\ a \in KeyTypeToAlgorithm(tokenKeys[label].alg)
  BY <1>2
<1>4. tokenKeys[label] \in TokenKey /\ tokenCerts[chain] \in TokenKey
  BY <1>1, <1>3
<1>5. a \in {"ECDSA", "RSA"}
  <2>1. tokenKeys[label].alg \in Algorithms
    BY <1>4, TokenServerAssumption
  <2>2. \A alg \in Algorithms : KeyTypeToAlgorithm(alg) \subseteq {"ECDSA", "RSA"}
    BY DEF Algorithms, KeyTypeToAlgorithm
  <2> QED
    BY <1>3, <2>1, <2>2
<1> QED
  BY <1>2, <1>4, <1>5 DEF Serves

\* A step that leaves the token alone and does not end in a phase with a signature.
LEMMA SigningStutter ==
    ASSUME SigningInv, TokenInv', UNCHANGED <<tokenKeys, tokenCerts, resolver>>, EntryServes',
           shake'.phase \notin {"signed", "connected", "refused"}
    PROVE  SigningInv'
<1>1. SignaturesArriveIntact' /\ SignedAsChosen'
  BY DEF SignaturesArriveIntact, SignedAsChosen
<1>2. TokenIsTyped' /\ ResolverServes'
  BY DEF SigningInv, TokenIsTyped, ResolverServes
<1> QED
  BY <1>1, <1>2 DEF SigningInv

\* A step that changes what the token holds, or builds the server.
LEMMA AdministratorInv ==
    ASSUME SigningInv, TokenInv', UNCHANGED shake, TokenIsTyped', ResolverServes'
    PROVE  SigningInv'
<1>1. EntryServes'
  BY DEF SigningInv, EntryServes
<1>2. SignedAsChosen' /\ SignaturesArriveIntact'
  BY DEF SigningInv, SignedAsChosen, SignaturesArriveIntact
<1> QED
  BY <1>1, <1>2 DEF SigningInv

\* The token signs with the key that has the label now.
LEMMA SignInv ==
    ASSUME SigningInv, TokenInv', NEW q \in RawSignature, NEW encoded \in BOOLEAN,
           SignViaPool(q, encoded)
    PROVE  SigningInv'
<1> DEFINE key == tokenKeys[shake.entry.label]
           scheme == ChosenScheme
           mechanism == SchemeToMechanism(scheme)
           bytes == IF encoded THEN RawEcdsaToDer(q[1] \o q[2]) ELSE q[1] \o q[2]
           final == FinalizeSignature(bytes)
<1>1. /\ shake.phase = "chosen" /\ UNCHANGED <<tokenKeys, tokenCerts, resolver>>
      /\ Signs(key, mechanism)
      /\ shake' = [phase |-> "signed", name |-> shake.name,
                   entry |-> shake.entry, scheme |-> scheme, raw |-> q, encoded |-> encoded,
                   signature |-> [number |-> key.number, form |-> mechanism.form],
                   bytes |-> final]
  BY DEF SignViaPool
<1>2. /\ Serves(shake.entry) /\ shake.schemes # {}
      /\ shake.schemes \subseteq IF shake.entry.algorithm = "ECDSA" THEN EcdsaSchemes ELSE PssSchemes
  BY <1>1 DEF SigningInv, EntryServes
<1>3. key \in TokenKey /\ key.alg \in Algorithms
  <2>1. shake.entry.label \in KeyLabel /\ key # NoKey
    BY <1>1, <1>2 DEF Serves, Signs
  <2>2. tokenKeys \in [KeyLabel -> TokenKey \cup {NoKey}]
    BY DEF SigningInv, TokenIsTyped
  <2>3. key \in TokenKey
    BY <2>1, <2>2
  <2> QED
    BY <2>3, TokenServerAssumption
<1>4. scheme \in shake.schemes
  BY <1>2 DEF ChosenScheme
<1>5. scheme \in EcdsaSchemes /\ key.alg \in {"EcdsaP256", "EcdsaP384"}
  <2>1. scheme \in EcdsaSchemes \/ scheme \in PssSchemes
    BY <1>2, <1>4
  <2> HIDE DEF scheme, key
  <2>2. scheme \in PssSchemes => mechanism.hashes = FALSE
    BY DEF SchemeToMechanism, Pkcs1Schemes, PssSchemes
  <2>3. ASSUME scheme \in EcdsaSchemes PROVE mechanism.type = "ECDSA"
    <3>1. CASE scheme = "ECDSA_NISTP384_SHA384"
      BY <3>1 DEF SchemeToMechanism, Pkcs1Schemes
    <3>2. CASE scheme = "ECDSA_NISTP256_SHA256"
      BY <3>2 DEF SchemeToMechanism, Pkcs1Schemes
    <3> QED
      BY <2>3, <3>1, <3>2 DEF EcdsaSchemes
  <2> HIDE DEF mechanism
  <2>4. scheme \in EcdsaSchemes /\ "ECDSA" \in KeyTypeToAlgorithm(key.alg)
    BY <1>1, <2>1, <2>2, <2>3 DEF Signs
  <2>5. \A a \in Algorithms : "ECDSA" \in KeyTypeToAlgorithm(a) => a \in {"EcdsaP256", "EcdsaP384"}
    BY DEF Algorithms, KeyTypeToAlgorithm
  <2> QED
    BY <1>3, <2>4, <2>5
<1>6. mechanism = SchemeToMechanism(scheme)
  OBVIOUS
<1> HIDE DEF key, scheme, mechanism, final
<1>7. /\ shake'.phase = "signed"
      /\ shake'.entry = shake.entry /\ shake'.scheme = scheme /\ shake'.raw = q
      /\ shake'.encoded = encoded /\ shake'.bytes = final
      /\ shake'.signature.number = key.number /\ shake'.signature.form = mechanism.form
  BY <1>1
<1>8. SignedAsChosen'
  <2>1. shake'.bytes = FinalizeSignature(IF shake'.encoded THEN RawEcdsaToDer(shake'.raw[1] \o shake'.raw[2])
                                         ELSE shake'.raw[1] \o shake'.raw[2])
    BY <1>7 DEF final
  <2>2. \E k \in TokenKey : k.number = shake'.signature.number /\ k.alg \in {"EcdsaP256", "EcdsaP384"}
    BY <1>3, <1>5, <1>7
  <2>3. /\ shake'.raw \in RawSignature /\ shake'.scheme \in EcdsaSchemes
        /\ shake'.signature.form = SchemeToMechanism(shake'.scheme).form
    BY <1>5, <1>6, <1>7
  <2> QED
    BY <2>1, <2>2, <2>3 DEF SignedAsChosen
<1>9. EntryServes'
  BY <1>2, <1>7 DEF EntryServes
<1>10. SignaturesArriveIntact'
  BY <1>7 DEF SignaturesArriveIntact
<1>11. TokenIsTyped' /\ ResolverServes'
  BY <1>1 DEF SigningInv, TokenIsTyped, ResolverServes
<1> QED
  BY <1>8, <1>9, <1>10, <1>11 DEF SigningInv

\* The client's verdict.
LEMMA ClientVerifiesInv == SigningInv /\ TokenInv' /\ ClientVerifies => SigningInv'
<1> SUFFICES ASSUME SigningInv, TokenInv', ClientVerifies PROVE SigningInv'
  OBVIOUS
<1> DEFINE own == shake.entry.cert
           cert == [number |-> own.number, alg |-> own.alg, spki |-> Spki(own.alg)]
           q == shake.raw
           verifies == VerifyHandshakeSignature("TLSv1_3", shake.scheme, cert, shake.signature)
           reads == DecodeSignature(shake.bytes) = {<<BytesValue(q[1]), BytesValue(q[2])>>}
           verdict == IF verifies /\ reads THEN "connected" ELSE "refused"
<1>1. /\ shake.phase = "signed" /\ UNCHANGED <<tokenKeys, tokenCerts, resolver>>
      /\ shake' = [shake EXCEPT !.phase = verdict]
  BY DEF ClientVerifies
<1>2. /\ Serves(shake.entry) /\ own \in TokenKey /\ own.alg \in Algorithms
  BY <1>1, TokenServerAssumption DEF SigningInv, EntryServes, Serves
<1>3. /\ q \in RawSignature /\ shake.scheme \in EcdsaSchemes
      /\ shake.signature.form = SchemeToMechanism(shake.scheme).form
      /\ \E key \in TokenKey : key.number = shake.signature.number /\ key.alg \in {"EcdsaP256", "EcdsaP384"}
      /\ shake.bytes = FinalizeSignature(IF shake.encoded THEN RawEcdsaToDer(q[1] \o q[2]) ELSE q[1] \o q[2])
  BY <1>1 DEF SigningInv, SignedAsChosen
<1>4. cert.number = own.number /\ cert.alg = own.alg /\ cert.spki = Spki(own.alg)
  OBVIOUS
<1>5. verifies => shake.signature.number = own.number
  <2> HIDE DEF cert, own
  <2>1. verifies => shake.signature.number = cert.number
    BY VerifiedNumber
  <2> QED
    BY <1>4, <2>1
<1>6. ASSUME shake.signature.number = own.number, own.alg = CurveOf(shake.scheme) PROVE verifies
  <2> HIDE DEF cert, own
  <2> QED
    BY <1>3, <1>4, <1>6, OwnCurveVerifies
<1>7. ASSUME shake.encoded \/ q[1][1] # 48 PROVE reads
  <2> HIDE DEF q
  <2> QED
    BY <1>3, <1>7, FinalizedIsRead
<1> HIDE DEF verifies, reads, cert
<1>8. /\ "phase" \in DOMAIN shake
      /\ shake'.phase = verdict /\ shake'.entry = shake.entry /\ shake'.signature = shake.signature
      /\ shake'.encoded = shake.encoded /\ shake'.raw = shake.raw /\ shake'.scheme = shake.scheme
  BY <1>1 DEF SigningInv, TokenInv
<1>9. SignaturesArriveIntact'
  <2>1. shake'.phase = "connected" => shake.signature.number = own.number
    BY <1>5, <1>8
  <2>2. (shake'.phase = "refused" /\ shake.signature.number = own.number) =>
          \/ ~shake.encoded /\ q[1][1] = 48
          \/ own.alg # CurveOf(shake.scheme)
    BY <1>3, <1>6, <1>7, <1>8
  <2> QED
    BY <1>8, <2>1, <2>2 DEF SignaturesArriveIntact
<1>10. EntryServes' /\ SignedAsChosen'
  BY <1>8 DEF EntryServes, SignedAsChosen
<1>11. TokenIsTyped' /\ ResolverServes'
  BY <1>1 DEF SigningInv, TokenIsTyped, ResolverServes
<1> QED
  BY <1>9, <1>10, <1>11 DEF SigningInv

\* Every step keeps the invariant.
LEMMA SigningNextInv == SigningInv /\ [TokenNext]_tokenVars => SigningInv'
<1> SUFFICES ASSUME SigningInv, [TokenNext]_tokenVars PROVE SigningInv'
  OBVIOUS
<1>0. TokenInv' /\ TokenInv
  BY TokenNextInv DEF SigningInv
<1>1. /\ tokenKeys \in [KeyLabel -> TokenKey \cup {NoKey}]
      /\ tokenCerts \in [KeyLabel -> TokenKey \cup {NoKey}]
  BY DEF SigningInv, TokenIsTyped
<1>2. shake.phase # "waiting" => resolver # NoResolver
  BY <1>0 DEF TokenInv, Waiting
<1>3. ASSUME NEW l \in KeyLabel, NEW k \in TokenKey, Provision(l, k) \/ ReplaceKey(l, k)
      PROVE  SigningInv'
  <2>1. /\ tokenKeys' = [tokenKeys EXCEPT ![l] = k] /\ tokenCerts' = [tokenCerts EXCEPT ![l] = k]
        /\ UNCHANGED <<resolver, shake>>
    BY <1>3 DEF Provision, ReplaceKey
  <2>2. TokenIsTyped'
    <3>1. /\ tokenKeys' \in [KeyLabel -> TokenKey \cup {NoKey}]
          /\ tokenCerts' \in [KeyLabel -> TokenKey \cup {NoKey}]
      BY <1>1, <2>1
    <3> QED
      BY <3>1 DEF TokenIsTyped
  <2>3. ResolverServes'
    BY <2>1 DEF SigningInv, ResolverServes
  <2> QED
    BY <1>0, <2>1, <2>2, <2>3, AdministratorInv
<1>4. ASSUME NEW chain \in KeyLabel, NEW label \in KeyLabel, TokenServerConfig(chain, label)
      PROVE  SigningInv'
  <2>1. PICK ck \in CertifiedKey(chain, label) :
          resolver' = [built |-> TRUE, map |-> [h \in {} |-> ck], default |-> {ck}, strict |-> FALSE]
    BY <1>4 DEF TokenServerConfig
  <2>2. resolver'.default = {ck} /\ resolver'.map = [h \in {} |-> ck]
    BY <2>1
  <2>3. DOMAIN resolver'.map = {}
    BY <2>2
  <2>4. UNCHANGED <<tokenKeys, tokenCerts, shake>>
    BY <1>4 DEF TokenServerConfig
  <2>5. Serves(ck)
    BY CertifiedServes
  <2>6. ResolverServes'
    BY <2>2, <2>3, <2>4, <2>5 DEF ResolverServes
  <2>7. TokenIsTyped'
    BY <2>4 DEF SigningInv, TokenIsTyped
  <2> QED
    BY <1>0, <2>4, <2>6, <2>7, AdministratorInv
<1>5. ASSUME NEW hosts \in SUBSET HostPattern, NEW strict \in BOOLEAN,
             NEW labels \in [hosts -> KeyLabel \X KeyLabel], TokenServerConfigSni(labels, strict)
      PROVE  SigningInv'
  <2> DEFINE map == [h \in DOMAIN labels |-> CHOOSE ck \in CertifiedKey(labels[h][1], labels[h][2]) : TRUE]
  <2>1. resolver' = [built |-> TRUE, default |-> {}, strict |-> strict, map |-> map]
    BY <1>5 DEF TokenServerConfigSni
  <2>2. ASSUME NEW h \in DOMAIN labels PROVE Serves(map[h])
    <3>1. labels[h][1] \in KeyLabel /\ labels[h][2] \in KeyLabel
      OBVIOUS
    <3>2. map[h] \in CertifiedKey(labels[h][1], labels[h][2])
      <4>1. CertifiedKey(labels[h][1], labels[h][2]) # {}
        BY <1>5, <2>2 DEF TokenServerConfigSni
      <4> QED
        BY <4>1
    <3> HIDE DEF map
    <3> QED
      BY <3>1, <3>2, CertifiedServes
  <2>3. DOMAIN map = DOMAIN labels
    OBVIOUS
  <2> HIDE DEF map
  <2>4. resolver'.default = {} /\ resolver'.map = map
    BY <2>1
  <2>5. UNCHANGED <<tokenKeys, tokenCerts, shake>>
    BY <1>5 DEF TokenServerConfigSni
  <2>6. ResolverServes'
    BY <2>2, <2>3, <2>4, <2>5 DEF ResolverServes
  <2>7. TokenIsTyped'
    BY <2>5 DEF SigningInv, TokenIsTyped
  <2> QED
    BY <1>0, <2>5, <2>6, <2>7, AdministratorInv
<1>6. ASSUME NEW name \in HostName \cup {NoName}, Resolve(name) PROVE SigningInv'
  <2>1. resolver # NoResolver /\ UNCHANGED <<tokenKeys, tokenCerts, resolver>>
    BY <1>6 DEF Resolve
  <2>2. \/ \E ck \in Lookup(name) : shake' = [phase |-> "resolved", name |-> name, entry |-> ck]
        \/ shake' = [phase |-> "unresolved", name |-> name]
    BY <1>6 DEF Resolve
  <2>3. /\ shake'.phase \in {"resolved", "unresolved"}
        /\ shake'.phase = "resolved" => shake'.entry \in Lookup(name)
    BY <2>2
  <2>4. EntryServes'
    BY <2>1, <2>3, LookupServes DEF EntryServes
  <2> QED
    BY <1>0, <2>1, <2>3, <2>4, SigningStutter
<1>7. ASSUME NEW offered \in Offer, ChooseSigner(offered) PROVE SigningInv'
  <2> DEFINE schemes == ChooseTokenScheme(shake.entry.algorithm, offered \ Pkcs1Schemes)
  <2>1. /\ shake.phase = "resolved" /\ UNCHANGED <<tokenKeys, tokenCerts, resolver>>
        /\ shake' = [phase |-> IF schemes = {} THEN "noScheme" ELSE "chosen", name |-> shake.name,
                     entry |-> shake.entry, schemes |-> schemes]
    BY <1>7 DEF ChooseSigner
  <2>2. Serves(shake.entry) /\ shake.entry.algorithm \in {"ECDSA", "RSA"}
    BY <2>1 DEF SigningInv, EntryServes, Serves
  <2>3. schemes \subseteq IF shake.entry.algorithm = "ECDSA" THEN EcdsaSchemes ELSE PssSchemes
    BY <2>2, ChosenSchemes
  <2> HIDE DEF schemes
  <2>4. /\ shake'.phase \in {"noScheme", "chosen"} /\ shake'.entry = shake.entry
        /\ shake'.schemes = schemes /\ (shake'.phase = "chosen" => schemes # {})
    BY <2>1
  <2>5. EntryServes'
    BY <2>2, <2>3, <2>4 DEF EntryServes
  <2> QED
    BY <1>0, <2>1, <2>4, <2>5, SigningStutter
<1>8. ASSUME NEW q \in RawSignature, NEW encoded \in BOOLEAN, SignViaPool(q, encoded)
      PROVE  SigningInv'
  BY <1>0, <1>8, SignInv
<1>9. CASE PoolExhausted
  <2>1. UNCHANGED <<tokenKeys, tokenCerts, resolver>> /\ shake'.phase = "exhausted"
    BY <1>0, <1>9 DEF PoolExhausted, TokenInv
  <2> QED
    BY <1>0, <2>1, SigningStutter DEF EntryServes
<1>10. CASE ClientVerifies
  BY <1>0, <1>10, ClientVerifiesInv
<1>11. CASE Finished
  <2>1. UNCHANGED <<tokenKeys, tokenCerts, resolver>> /\ shake'.phase = "waiting"
    BY <1>11 DEF Finished, Waiting
  <2> QED
    BY <1>0, <2>1, SigningStutter DEF EntryServes
<1>12. ASSUME NEW l \in KeyLabel, DeleteKey(l) PROVE SigningInv'
  <2>1. /\ tokenKeys' = [tokenKeys EXCEPT ![l] = NoKey]
        /\ UNCHANGED <<tokenCerts, resolver, shake>>
    BY <1>12 DEF DeleteKey
  <2>2. TokenIsTyped'
    <3>1. tokenKeys' \in [KeyLabel -> TokenKey \cup {NoKey}]
      BY <1>1, <2>1
    <3> QED
      BY <1>1, <2>1, <3>1 DEF TokenIsTyped
  <2>3. ResolverServes'
    BY <2>1 DEF SigningInv, ResolverServes
  <2> QED
    BY <1>0, <2>1, <2>2, <2>3, AdministratorInv
<1>13. CASE SignFails
  <2>1. UNCHANGED <<tokenKeys, tokenCerts, resolver>> /\ shake'.phase = "signFailed"
    BY <1>0, <1>13 DEF SignFails, TokenInv
  <2> QED
    BY <1>0, <2>1, SigningStutter DEF EntryServes
<1>14. CASE UNCHANGED tokenVars
  BY <1>0, <1>14 DEF tokenVars, SigningInv, TokenIsTyped, ResolverServes, EntryServes, SignedAsChosen,
                     SignaturesArriveIntact
<1> QED
  BY <1>3, <1>4, <1>5, <1>6, <1>7, <1>8, <1>9, <1>10, <1>11, <1>12, <1>13, <1>14
     DEF TokenNext

(***************************************************************************)
(* For any keys, labels, renewals and deletions, any offers of clients and *)
(* raw signatures of up to 48 bytes a number: a client connects only with  *)
(* the key of its certificate, and what such a key signed is refused only  *)
(* if it is raw and its first byte is 48, or if its curve is not that of   *)
(* the scheme.                                                             *)
(***************************************************************************)
THEOREM SignaturesSurvive == TokenSpec => []SignaturesArriveIntact
<1>1. TokenInit => SigningInv
  <2> SUFFICES ASSUME TokenInit PROVE SigningInv
    OBVIOUS
  <2>1. TokenInv
    BY DEF TokenInit, TokenInv, TenantsAreSeparated, Waiting, NoResolver
  <2>2. TokenIsTyped /\ ResolverServes
    BY DEF TokenInit, TokenIsTyped, ResolverServes
  <2>3. shake.phase = "waiting"
    BY DEF TokenInit, Waiting
  <2> QED
    BY <2>1, <2>2, <2>3 DEF SigningInv, EntryServes, SignedAsChosen, SignaturesArriveIntact
<1>2. SigningInv /\ [TokenNext]_tokenVars => SigningInv'
  BY SigningNextInv
<1>3. SigningInv => SignaturesArriveIntact
  BY DEF SigningInv
<1> QED
  BY <1>1, <1>2, <1>3, PTL DEF TokenSpec
=============================================================================
