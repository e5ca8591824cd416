----------------------------- MODULE H2Connection -----------------------------
(***************************************************************************)
(* H2Connection of oxitls-h2/src/connection.rs: the managed HTTP/2 client  *)
(* connection with its driver task, its keepalive task, the PingPong       *)
(* handle that keepalive and ping() share through a tokio mutex, and the   *)
(* three ways to end it (graceful_shutdown, abort, drop).  The application *)
(* holds SendRequest handles and opens streams; a caller of ping() may be  *)
(* cancelled at any await (a select or a timeout around it).               *)
(*                                                                         *)
(* The h2 crate is external and modelled by what this code relies on: the  *)
(* connection future completes when there are no SendRequest handles and   *)
(* no streams left, or when the peer closes; a PingPong carries one user   *)
(* ping at a time, and one that was sent stays outstanding until its pong  *)
(* is received by a poll of the same call.                                 *)
(***************************************************************************)
EXTENDS Naturals, Sequences, SequencesExt

CONSTANTS Caller,     \* tasks that call ping()
          Keepalive,  \* the keepalive task
          MaxClones,  \* bound: SendRequest handles of the application
          MaxStreams, \* bound: concurrent streams
          MaxCancels  \* bound: cancelled ping() calls

ASSUME H2ConnectionAssumption ==
    /\ Keepalive \notin Caller
    /\ MaxClones \in Nat \ {0}
    /\ MaxStreams \in Nat
    /\ MaxCancels \in Nat

VARIABLES driver,   \* the driver task: "running", "finished", "aborted"
          conn,     \* the H2Connection: "held", "closing" (in graceful_shutdown), "gone"
          outcome,  \* what graceful_shutdown returned: "none", "ok", "timeout"
          clones,   \* SendRequest handles of the application
          own,      \* TRUE while the H2Connection's own send_request field exists
          streams,  \* streams in flight
          ping,     \* h2's user ping: "empty", "sent", "answered", "closed"
          lock,     \* the mutex: its holder and the waiters behind it, in order
          pc,       \* pc[p]: "idle", "locking", "pinging", "ok", "err"; for the
                    \* keepalive task also "off" and "stopped"
          cancels   \* number of ping() calls that were cancelled

h2Vars == <<driver, conn, outcome, clones, own, streams, ping, lock, pc, cancels>>

Pinger == Caller \cup {Keepalive}
Holds(p) == lock # <<>> /\ Head(lock) = p
NoCallInFlight == \A c \in Caller : pc[c] \notin {"locking", "pinging"}

\* H2ClientBuilder::handshake and H2Connection::new, with and without keepalive.
H2Init ==
    /\ driver = "running"
    /\ conn = "held"
    /\ outcome = "none"
    /\ clones = 1
    /\ own = TRUE
    /\ streams = 0
    /\ ping = "empty"
    /\ lock = <<>>
    /\ pc \in [Pinger -> {"idle", "off"}]
    /\ \A c \in Caller : pc[c] = "idle"
    /\ cancels = 0

-----------------------------------------------------------------------------
\* The application and its SendRequest handles.
CloneHandle ==
    /\ clones \in 1..(MaxClones - 1)
    /\ clones' = clones + 1
    /\ UNCHANGED <<driver, conn, outcome, own, streams, ping, lock, pc, cancels>>

DropHandle ==
    /\ clones > 0
    /\ clones' = clones - 1
    /\ UNCHANGED <<driver, conn, outcome, own, streams, ping, lock, pc, cancels>>

OpenStream ==
    /\ clones > 0 /\ driver = "running" /\ streams < MaxStreams
    /\ streams' = streams + 1
    /\ UNCHANGED <<driver, conn, outcome, clones, own, ping, lock, pc, cancels>>

FinishStream ==
    /\ streams > 0
    /\ streams' = streams - 1
    /\ UNCHANGED <<driver, conn, outcome, clones, own, ping, lock, pc, cancels>>

-----------------------------------------------------------------------------
\* Nothing keeps the connection future from completing.
Drained == clones = 0 /\ ~own /\ streams = 0

\* The driver task ends: its streams are reset and a waiting ping is failed.
EndDriver(how) ==
    /\ driver = "running"
    /\ driver' = how
    /\ streams' = 0
    /\ ping' = "closed"

DriverFinishes ==
    /\ Drained
    /\ EndDriver("finished")
    /\ UNCHANGED <<conn, outcome, clones, own, lock, pc, cancels>>

PeerCloses ==
    /\ EndDriver("finished")
    /\ UNCHANGED <<conn, outcome, clones, own, lock, pc, cancels>>

\* The peer acknowledges the outstanding PING.
Pong ==
    /\ ping = "sent"
    /\ ping' = "answered"
    /\ UNCHANGED <<driver, conn, outcome, clones, own, streams, lock, pc, cancels>>

-----------------------------------------------------------------------------
\* ping() is called, or the keepalive interval ticks: wait for the mutex.
Call(p) ==
    /\ pc[p] \in {"idle", "ok", "err"}
    /\ p \in Caller => conn = "held"
    /\ pc' = [pc EXCEPT ![p] = "locking"]
    /\ lock' = Append(lock, p)
    /\ UNCHANGED <<driver, conn, outcome, clones, own, streams, ping, cancels>>

\* The call of p is over and its guard is dropped: ping() returns; the
\* keepalive loop goes back to its ticker, or breaks.
Leave(p, ok) ==
    /\ lock' = Tail(lock)
    /\ pc' = [pc EXCEPT ![p] = CASE p = Keepalive /\ ok  -> "idle"
                                 [] p = Keepalive /\ ~ok -> "stopped"
                                 [] p # Keepalive /\ ok  -> "ok"
                                 [] OTHER                -> "err"]

\* Faulty variant: the mutex is not used to wait.
SendPingUnlocked(p) ==
    /\ pc[p] = "locking"
    /\ IF ping = "empty"
       THEN /\ ping' = "sent"
            /\ pc' = [pc EXCEPT ![p] = "pinging"]
            /\ UNCHANGED lock
       ELSE /\ lock' = RemoveFirst(lock, p)
            /\ pc' = [pc EXCEPT ![p] = IF p = Keepalive THEN "stopped" ELSE "err"]
            /\ UNCHANGED ping
    /\ UNCHANGED <<driver, conn, outcome, clones, own, streams, cancels>>

\* p got the mutex: PingPong::ping sends a PING unless one is outstanding or
\* the connection is closed, which it reports as an error.
SendPing(p) ==
    /\ Holds(p) /\ pc[p] = "locking"
    /\ IF ping = "empty"
       THEN /\ ping' = "sent"
            /\ pc' = [pc EXCEPT ![p] = "pinging"]
            /\ UNCHANGED lock
       ELSE /\ Leave(p, FALSE)
            /\ UNCHANGED ping
    /\ UNCHANGED <<driver, conn, outcome, clones, own, streams, cancels>>

\* Faulty variant: a closed connection is not reported to a waiting ping.
PingReturnsOnPong(p) ==
    /\ Holds(p) /\ pc[p] = "pinging"
    /\ ping = "answered" /\ ping' = "empty" /\ Leave(p, TRUE)
    /\ UNCHANGED <<driver, conn, outcome, clones, own, streams, cancels>>

\* PingPong::ping completes: the pong is there, or the connection is closed.
PingReturns(p) ==
    /\ Holds(p) /\ pc[p] = "pinging"
    /\ \/ ping = "answered" /\ ping' = "empty" /\ Leave(p, TRUE)
       \/ ping = "closed" /\ UNCHANGED ping /\ Leave(p, FALSE)
    /\ UNCHANGED <<driver, conn, outcome, clones, own, streams, cancels>>

\* The future of ping() is dropped at an await: it gives up its place in the
\* mutex, but a PING that it sent stays outstanding.
CancelPing(c) ==
    /\ cancels < MaxCancels
    /\ pc[c] \in {"locking", "pinging"}
    /\ pc' = [pc EXCEPT ![c] = "err"]
    /\ lock' = RemoveFirst(lock, c)
    /\ cancels' = cancels + 1
    /\ UNCHANGED <<driver, conn, outcome, clones, own, streams, ping>>

-----------------------------------------------------------------------------
\* keepalive_handle.take().abort(): the task is dropped where it waits.
AbortKeepalive ==
    /\ pc' = [pc EXCEPT ![Keepalive] = IF @ = "off" THEN "off" ELSE "stopped"]
    /\ lock' = RemoveFirst(lock, Keepalive)

\* graceful_shutdown(self, timeout): no borrow of self is left.
GracefulShutdown ==
    /\ conn = "held" /\ NoCallInFlight
    /\ conn' = "closing"
    /\ AbortKeepalive
    /\ UNCHANGED <<driver, outcome, clones, own, streams, ping, cancels>>

\* The driver task was joined; self is dropped on return.
ShutdownReturns ==
    /\ conn = "closing" /\ driver # "running"
    /\ conn' = "gone"
    /\ own' = FALSE
    /\ outcome' = "ok"
    /\ UNCHANGED <<driver, clones, streams, ping, lock, pc, cancels>>

\* The timeout is longer than it takes to run a driver that is drained.
ShutdownTimesOut ==
    /\ conn = "closing" /\ ~Drained
    /\ EndDriver("aborted")
    /\ conn' = "gone"
    /\ own' = FALSE
    /\ outcome' = "timeout"
    /\ UNCHANGED <<clones, lock, pc, cancels>>

Abort ==
    /\ conn = "held" /\ NoCallInFlight
    /\ \/ EndDriver("aborted")
       \/ driver # "running" /\ UNCHANGED <<driver, streams, ping>>
    /\ conn' = "gone"
    /\ own' = FALSE
    /\ AbortKeepalive
    /\ UNCHANGED <<outcome, clones, cancels>>

\* Faulty variant: the keepalive task owns a SendRequest clone as well.
DropConnectionKeepingHandle ==
    /\ conn = "held" /\ NoCallInFlight
    /\ conn' = "gone"
    /\ own' = (pc[Keepalive] # "off")
    /\ UNCHANGED <<driver, outcome, clones, streams, ping, lock, pc, cancels>>

\* There is no Drop impl: dropping the handle leaves both tasks running.
DropConnection ==
    /\ conn = "held" /\ NoCallInFlight
    /\ conn' = "gone"
    /\ own' = FALSE
    /\ UNCHANGED <<driver, outcome, clones, streams, ping, lock, pc, cancels>>

H2Next ==
    \/ CloneHandle \/ DropHandle \/ OpenStream \/ FinishStream
    \/ DriverFinishes \/ PeerCloses \/ Pong
    \/ \E p \in Pinger : Call(p) \/ SendPing(p) \/ PingReturns(p)
    \/ \E c \in Caller : CancelPing(c)
    \/ GracefulShutdown \/ ShutdownReturns \/ ShutdownTimesOut \/ Abort \/ DropConnection

(***************************************************************************)
(* The runtime runs the tasks that can run and the keepalive interval      *)
(* ticks.  What the application does, and whether the peer closes, is not  *)
(* fair.                                                                   *)
(***************************************************************************)
TaskFairness ==
    /\ WF_h2Vars(DriverFinishes)
    /\ WF_h2Vars(Call(Keepalive))
    /\ \A p \in Pinger : WF_h2Vars(SendPing(p)) /\ WF_h2Vars(PingReturns(p))

\* A responsive peer answers PINGs and finishes streams.
PeerFairness == WF_h2Vars(Pong) /\ WF_h2Vars(FinishStream)

H2Spec == H2Init /\ [][H2Next]_h2Vars /\ TaskFairness /\ PeerFairness

-----------------------------------------------------------------------------
H2TypeOK ==
    /\ driver \in {"running", "finished", "aborted"}
    /\ conn \in {"held", "closing", "gone"}
    /\ outcome \in {"none", "ok", "timeout"}
    /\ clones \in 0..MaxClones
    /\ own \in BOOLEAN
    /\ streams \in 0..MaxStreams
    /\ ping \in {"empty", "sent", "answered", "closed"}
    /\ ping = "closed" <=> driver # "running"
    /\ lock \in Seq(Pinger) /\ IsInjective(lock)
    /\ \A p \in Pinger : pc[p] \in {"locking", "pinging"} <=> p \in ToSet(lock)
    /\ pc \in [Pinger -> {"idle", "locking", "pinging", "ok", "err", "off", "stopped"}]
    /\ cancels \in 0..MaxCancels

(***************************************************************************)
(* Sharing the PingPong does no harm: as long as no caller of ping() was   *)
(* cancelled, ping() does not fail on a connection that is alive, and the  *)
(* keepalive task stops only when the connection is gone (the comment in   *)
(* its loop, line 87) or when graceful_shutdown or abort stopped it.       *)
(***************************************************************************)
PingsFailOnlyWhenClosed ==
    cancels = 0 /\ driver = "running" =>
        /\ \A c \in Caller : pc[c] # "err"
        /\ pc[Keepalive] = "stopped" => conn = "closing"

\* A PING is outstanding only for the holder of the mutex, unless a call was
\* cancelled or the keepalive task was aborted with one.
PingHasOwner ==
    /\ \A p \in Pinger : pc[p] = "pinging" => Holds(p)
    /\ cancels = 0 /\ ping \in {"sent", "answered"} =>
         conn = "closing" \/ \E p \in Pinger : pc[p] = "pinging"
    /\ conn = "closing" => lock = <<>> /\ pc[Keepalive] \in {"off", "stopped"}

\* The inductive invariant.
PingInv == H2TypeOK /\ PingHasOwner /\ PingsFailOnlyWhenClosed

(***************************************************************************)
(* Every call of ping() returns although it shares the PingPong with the   *)
(* keepalive task and with other callers, as long as the peer answers.     *)
(***************************************************************************)
PingsReturn == \A c \in Caller : pc[c] = "locking" ~> pc[c] \in {"ok", "err"}

(***************************************************************************)
(* No task is left behind: when the H2Connection is dropped and the        *)
(* application has no SendRequest left, the driver ends once the streams   *)
(* have completed (lines 187-188), and the keepalive task ends after the   *)
(* driver.                                                                 *)
(***************************************************************************)
TasksEnd ==
    (conn = "gone" /\ clones = 0)
        ~> (driver # "running" /\ pc[Keepalive] \in {"off", "stopped"})

(***************************************************************************)
(* "The caller should have already dropped (or finished) all SendRequest   *)
(* clones so that the driver can exit once in-flight streams complete"     *)
(* (lines 143-145): graceful_shutdown does not time out on a caller that   *)
(* did.                                                                    *)
(***************************************************************************)
ShutdownDrains ==
    [][ShutdownTimesOut => clones > 0 \/ streams > 0]_h2Vars
=============================================================================
