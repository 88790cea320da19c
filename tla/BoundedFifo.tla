----------------------------- MODULE BoundedFifo ----------------------------
(***************************************************************************)
(* What a ring buffer promises: a queue of at most Capacity values, first  *)
(* in, first out.  A value offered to a full queue is refused; the queue   *)
(* never changes in any other way.                                         *)
(***************************************************************************)
EXTENDS Integers, Sequences

CONSTANTS Value, Capacity

VARIABLE q

Init == q = << >>

Put ==
    /\ Len(q) < Capacity
    /\ \E v \in Value : q' = Append(q, v)

Get ==
    /\ q # << >>
    /\ q' = Tail(q)

Next == Put \/ Get

Spec == Init /\ [][Next]_q
=============================================================================
