--------------------------- MODULE TotalOrderLog ----------------------------
(***************************************************************************)
(* What the sequencing pipeline promises about a room, without tasks,      *)
(* locks, caches or MLS: frames get consecutive positions in one order;    *)
(* the durable log follows that order without skipping; subscribers only   *)
(* see frames of the order; a crash takes the order back to the log.       *)
(***************************************************************************)
EXTENDS Naturals, Sequences

CONSTANT Rooms

VARIABLES
    order,      \* room -> frames in the order of their positions
    log,        \* room -> the durable part of the order
    seen        \* frames shown to subscribers

vars == <<order, log, seen>>

Init ==
    /\ order = [r \in Rooms |-> <<>>]
    /\ log = [r \in Rooms |-> <<>>]
    /\ seen = {}

\* Some frame of the room takes the next position, and carries it as its index.
Number(r) ==
    /\ Len(order'[r]) = Len(order[r]) + 1
    /\ LET f == order'[r][Len(order[r]) + 1] IN
          /\ f.room = r
          /\ f.log_index = Len(order[r])
          /\ order' = [order EXCEPT ![r] = Append(@, f)]
    /\ UNCHANGED <<log, seen>>

\* The first frame of the order that is not durable becomes durable.
Store(r) ==
    /\ Len(log[r]) < Len(order[r])
    /\ log' = [log EXCEPT ![r] = Append(@, order[r][Len(log[r]) + 1])]
    /\ UNCHANGED <<order, seen>>

Show(r, i) ==
    /\ seen' = seen \cup {order[r][i]}
    /\ UNCHANGED <<order, log>>

Crash ==
    /\ order' = log
    /\ UNCHANGED <<log, seen>>

Next ==
    \/ \E r \in Rooms :
          \/ Number(r)
          \/ Store(r)
          \/ \E i \in 1..Len(order[r]) : Show(r, i)
    \/ Crash

Spec == Init /\ [][Next]_vars
=============================================================================
