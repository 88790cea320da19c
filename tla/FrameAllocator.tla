--------------------------- MODULE FrameAllocator ---------------------------
(***************************************************************************)
(* What the physical memory manager promises its clients, with no bitmap   *)
(* and no search order: a frame is either free or held by a client, an     *)
(* allocation hands out a run of adjacent free frames, and only the        *)
(* holder gives a frame back.                                              *)
(***************************************************************************)
EXTENDS Integers

VARIABLES free, held

Init == free \subseteq Nat /\ held = {}

Allocate ==
    \E first, last \in free :
        /\ first <= last
        /\ first .. last \subseteq free
        /\ free' = free \ (first .. last)
        /\ held' = held \cup (first .. last)

Release ==
    \E f \in held :
        /\ held' = held \ {f}
        /\ free' = free \cup {f}

Next == Allocate \/ Release

Spec == Init /\ [][Next]_<<free, held>>
=============================================================================
