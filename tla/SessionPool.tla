----------------------------- MODULE SessionPool -----------------------------
(***************************************************************************)
(* Pkcs11SessionPool of oxitls-adapter-pkcs11/src/pool.rs and its callers  *)
(* (sign_via_pool and Pkcs11SigningKey::new in signer.rs, cert_chain in    *)
(* provider.rs): a queue of logged-in token sessions behind a mutex,       *)
(* guarded by a semaphore with one permit per session.  acquire() takes a  *)
(* permit and then, in a separate critical section, a session; dropping a  *)
(* PooledSession puts the session back and then, separately, releases the  *)
(* permit.  rustls calls sign() from many threads, which interleave        *)
(* between those steps.                                                    *)
(***************************************************************************)
EXTENDS Naturals, Sequences, FiniteSets

CONSTANTS Thread,    \* threads that sign
          Session,   \* the session handles that the token can hand out
          NoSession, \* a thread that holds none
          Capacity   \* number of sessions that new() opens

ASSUME SessionPoolAssumption ==
    /\ IsFiniteSet(Thread)
    /\ NoSession \notin Session
    /\ Capacity \in Nat \ {0}

VARIABLES phase,    \* "opening" while new() runs, then "ready" or "failed"
          queue,    \* sessions: the VecDeque
          permits,  \* available permits of the semaphore
          pc,       \* pc[t]: "idle", "permit", "using", "returned", "exhausted"
          held      \* held[t]: the session in t's PooledSession

vars == <<phase, queue, permits, pc, held>>

\* Threads that own a permit, and threads that own a session.
Permitted == {t \in Thread : pc[t] \in {"permit", "using", "returned"}}
Using     == {t \in Thread : pc[t] = "using"}
Queued    == {queue[i] : i \in 1..Len(queue)}

Init ==
    /\ phase = "opening"
    /\ queue = <<>>
    /\ permits = 0
    /\ pc = [t \in Thread |-> "idle"]
    /\ held = [t \in Thread |-> NoSession]

\* new(): one more session is opened and logged in.
OpenSession(s) ==
    /\ phase = "opening"
    /\ Len(queue) < Capacity
    /\ s \notin Queued
    /\ queue' = Append(queue, s)
    /\ UNCHANGED <<phase, permits, pc, held>>

\* new(): a session cannot be opened or its login fails; the sessions that
\* were opened are closed with the local queue.
OpenFails ==
    /\ phase = "opening"
    /\ Len(queue) < Capacity
    /\ phase' = "failed"
    /\ queue' = <<>>
    /\ UNCHANGED <<permits, pc, held>>

\* new(): Semaphore::new(cap).
FinishNew ==
    /\ phase = "opening"
    /\ Len(queue) = Capacity
    /\ phase' = "ready"
    /\ permits' = Capacity
    /\ UNCHANGED <<queue, pc, held>>

\* Faulty variant: a refused permit is not an error.
TryAcquireUnchecked(t) ==
    /\ phase = "ready"
    /\ pc[t] = "idle"
    /\ permits' = IF permits > 0 THEN permits - 1 ELSE 0
    /\ pc' = [pc EXCEPT ![t] = "permit"]
    /\ UNCHANGED <<phase, queue, held>>

\* acquire(): try_acquire_owned.
TryAcquire(t) ==
    /\ phase = "ready"
    /\ pc[t] = "idle"
    /\ IF permits > 0
       THEN permits' = permits - 1 /\ pc' = [pc EXCEPT ![t] = "permit"]
       ELSE pc' = [pc EXCEPT ![t] = "exhausted"] /\ UNCHANGED permits
    /\ UNCHANGED <<phase, queue, held>>

\* Faulty variant: the session stays in the queue.
PeekFront(t) ==
    /\ pc[t] = "permit"
    /\ queue # <<>>
    /\ held' = [held EXCEPT ![t] = Head(queue)]
    /\ pc' = [pc EXCEPT ![t] = "using"]
    /\ UNCHANGED <<phase, queue, permits>>

\* acquire(): pop_front, or give the permit back and report exhaustion.
PopFront(t) ==
    /\ pc[t] = "permit"
    /\ IF queue # <<>>
       THEN /\ held' = [held EXCEPT ![t] = Head(queue)]
            /\ queue' = Tail(queue)
            /\ pc' = [pc EXCEPT ![t] = "using"]
            /\ UNCHANGED permits
       ELSE /\ pc' = [pc EXCEPT ![t] = "exhausted"]
            /\ permits' = permits + 1
            /\ UNCHANGED <<queue, held>>
    /\ UNCHANGED phase

\* Faulty variants of PushBack: a waiter holds the queue's lock; a failed signature
\* loses the session.
PushBackBehindWaiter(t) ==
    /\ pc[t] = "using"
    /\ \A u \in Thread : pc[u] # "exhausted"
    /\ queue' = Append(queue, held[t])
    /\ held' = [held EXCEPT ![t] = NoSession]
    /\ pc' = [pc EXCEPT ![t] = "returned"]
    /\ UNCHANGED <<phase, permits>>

PushBackOrLose(t) ==
    /\ pc[t] = "using"
    /\ queue' \in {queue, Append(queue, held[t])}
    /\ held' = [held EXCEPT ![t] = NoSession]
    /\ pc' = [pc EXCEPT ![t] = "returned"]
    /\ UNCHANGED <<phase, permits>>

\* PooledSession::drop after the use, whether the token call returned a
\* signature, an error or unwound: the session goes back to the queue.
PushBack(t) ==
    /\ pc[t] = "using"
    /\ queue' = Append(queue, held[t])
    /\ held' = [held EXCEPT ![t] = NoSession]
    /\ pc' = [pc EXCEPT ![t] = "returned"]
    /\ UNCHANGED <<phase, permits>>

\* PooledSession::drop: the field _permit is dropped last.
ReleasePermit(t) ==
    /\ pc[t] = "returned"
    /\ permits' = permits + 1
    /\ pc' = [pc EXCEPT ![t] = "idle"]
    /\ UNCHANGED <<phase, queue, held>>

\* The caller got SessionPoolExhausted; it may try again later.
Retry(t) ==
    /\ pc[t] = "exhausted"
    /\ pc' = [pc EXCEPT ![t] = "idle"]
    /\ UNCHANGED <<phase, queue, permits, held>>

Next ==
    \/ \E s \in Session : OpenSession(s)
    \/ OpenFails
    \/ FinishNew
    \/ \E t \in Thread : \/ TryAcquire(t) \/ PopFront(t) \/ PushBack(t)
                         \/ ReleasePermit(t) \/ Retry(t)

\* A thread that owns a permit or a session runs on.
Fairness == \A t \in Thread : WF_vars(PopFront(t) \/ PushBack(t) \/ ReleasePermit(t))

Spec == Init /\ [][Next]_vars /\ Fairness

-----------------------------------------------------------------------------
TypeOK ==
    /\ phase \in {"opening", "ready", "failed"}
    /\ queue \in Seq(Session)
    /\ permits \in Nat
    /\ pc \in [Thread -> {"idle", "permit", "using", "returned", "exhausted"}]
    /\ held \in [Thread -> Session \cup {NoSession}]
    /\ \A t \in Thread : pc[t] = "using" <=> held[t] # NoSession

\* The semaphore and the queue are in step with the threads' progress.
PermitsMatch  == phase = "ready" => permits + Cardinality(Permitted) = Capacity
SessionsMatch == phase = "ready" => Len(queue) + Cardinality(Using) = Capacity
OnlyWhenReady == phase # "ready" => Permitted = {} /\ permits = 0

(***************************************************************************)
(* PKCS#11 sessions are not for concurrent use: a session is in the queue  *)
(* once or with one thread, never in two places.                           *)
(***************************************************************************)
SessionsAreExclusive ==
    /\ \A i, j \in 1..Len(queue) : i # j => queue[i] # queue[j]
    /\ \A t \in Thread : held[t] \notin Queued
    /\ \A t, u \in Thread : (t # u /\ held[t] # NoSession) => held[t] # held[u]

(***************************************************************************)
(* A permit is backed by a session: a thread that got past the semaphore   *)
(* finds the queue non-empty, so that the second SessionPoolExhausted in   *)
(* acquire() is never returned.  It holds because drop() pushes the        *)
(* session before it releases the permit.                                  *)
(***************************************************************************)
PermitsAreBacked ==
    \A t \in Thread : pc[t] = "permit" => queue # <<>>

(***************************************************************************)
(* Nothing leaks: whatever failed in between, when no thread owns a permit *)
(* the pool is complete again.                                             *)
(***************************************************************************)
IdlePoolIsComplete ==
    (phase = "ready" /\ Permitted = {}) => permits = Capacity /\ Len(queue) = Capacity

PoolInv ==
    /\ TypeOK
    /\ PermitsMatch
    /\ SessionsMatch
    /\ OnlyWhenReady
    /\ SessionsAreExclusive

(***************************************************************************)
(* Exhaustion is temporary: a thread that owns a permit gives it back, so  *)
(* that some permit becomes available again.                               *)
(***************************************************************************)
ExhaustionPasses ==
    (phase = "ready" /\ permits = 0) ~> permits > 0
=============================================================================
