------------------------------ MODULE SingleUse ------------------------------
(***************************************************************************)
(* What replay protection promises to the TLS server: presented tickets    *)
(* are answered Fresh or Replayed, a ticket that was answered Fresh is not *)
(* answered Fresh again for at least `Lower' more seconds, and it is only  *)
(* ever answered Replayed within `Upper' seconds of a Fresh answer.        *)
(* The doc comment of AntiReplayTicketer (anti_replay.rs, lines 175-177)   *)
(* and the one of check_and_record (lines 109-114) state this contract     *)
(* with Lower = Upper = the window; ReplayGuard.tla shows which Lower and  *)
(* Upper the code achieves with a real clock and a real scheduler.         *)
(***************************************************************************)
EXTENDS Integers

CONSTANTS Worker,   \* handshake threads that present tickets
          Ticket,   \* the tickets that can be presented
          NoTicket, \* the ticket of an idle worker
          Lower,    \* no second Fresh answer within this many seconds
          Upper,    \* no Replayed answer later than this after the last Fresh
          MaxTime   \* bound on the clock

VARIABLES now,      \* real time in seconds
          call,     \* call[w]: what w is doing: "idle", "busy", "fresh", "replayed"
          ticket,   \* ticket[w]: the ticket of w's call
          lastUse,  \* lastUse[t]: time of the last Fresh answer for t, or Never
          uses      \* uses[t]: number of Fresh answers for t

vars == <<now, call, ticket, lastUse, uses>>

Never == -1

Init ==
    /\ now = 0
    /\ call = [w \in Worker |-> "idle"]
    /\ ticket = [w \in Worker |-> NoTicket]
    /\ lastUse = [t \in Ticket |-> Never]
    /\ uses = [t \in Ticket |-> 0]

Present(w, t) ==
    /\ call[w] = "idle"
    /\ call' = [call EXCEPT ![w] = "busy"]
    /\ ticket' = [ticket EXCEPT ![w] = t]
    /\ UNCHANGED <<now, lastUse, uses>>

AnswerFresh(w) ==
    /\ call[w] = "busy"
    /\ \/ lastUse[ticket[w]] = Never
       \/ now - lastUse[ticket[w]] > Lower
    /\ call' = [call EXCEPT ![w] = "fresh"]
    /\ lastUse' = [lastUse EXCEPT ![ticket[w]] = now]
    /\ uses' = [uses EXCEPT ![ticket[w]] = @ + 1]
    /\ UNCHANGED <<now, ticket>>

AnswerReplayed(w) ==
    /\ call[w] = "busy"
    /\ lastUse[ticket[w]] # Never
    /\ now - lastUse[ticket[w]] <= Upper
    /\ call' = [call EXCEPT ![w] = "replayed"]
    /\ UNCHANGED <<now, ticket, lastUse, uses>>

Finish(w) ==
    /\ call[w] \in {"fresh", "replayed"}
    /\ call' = [call EXCEPT ![w] = "idle"]
    /\ ticket' = [ticket EXCEPT ![w] = NoTicket]
    /\ UNCHANGED <<now, lastUse, uses>>

Tick ==
    /\ now < MaxTime
    /\ now' = now + 1
    /\ UNCHANGED <<call, ticket, lastUse, uses>>

Next ==
    \/ \E w \in Worker, t \in Ticket : Present(w, t)
    \/ \E w \in Worker : AnswerFresh(w) \/ AnswerReplayed(w) \/ Finish(w)
    \/ Tick

Spec == Init /\ [][Next]_vars
=============================================================================
