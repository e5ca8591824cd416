--------------------------- MODULE TicketConstants ---------------------------
(***************************************************************************)
(* The parameters of the modules about session tickets: the threads and    *)
(* tickets that they share, and the bounds and times of each.              *)
(***************************************************************************)
EXTENDS Integers

CONSTANTS Worker,     \* handshake threads: they decrypt and consult the guard
          Rotator,    \* threads that call rotate
          Ticket,     \* presentable tickets
          NoTicket,   \* ticket of a worker that is in no call
          NoAnswer,   \* answer of a worker that has none
          Window,     \* window_secs of the replay guard
          MaxLag,     \* bound: seconds between clock reading and critical section
          ClockSkew,  \* bound: |SystemClock - real time| at any reading
          MaxKeys,    \* bound on the number of keys generated
          MaxTime     \* bound on the model's clock

ASSUME ReplayGuardAssumption ==
    /\ NoTicket \notin Ticket
    /\ Window \in Nat
    /\ MaxLag \in Nat
    /\ ClockSkew \in Nat
    /\ MaxTime \in Nat

ASSUME OxiTicketerAssumption ==
    /\ NoTicket \notin Ticket
    /\ NoAnswer \notin [ticket : Ticket, ok : BOOLEAN]
    /\ MaxKeys \in Nat
=============================================================================
