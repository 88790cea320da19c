----------------------------- MODULE PmmPreempt -----------------------------
(***************************************************************************)
(* pmm_alloc called in task context (pid 1: shell, heap, file system),     *)
(* with interrupts enabled.  The timer interrupt can run schedule(), which *)
(* reaps terminated tasks and calls pmm_free, at any instruction boundary  *)
(* of the allocation.  bm_test and bm_set are a load and a store of a      *)
(* shared byte with no lock: the load of bm_test may be kept in a register *)
(* and written back by bm_set, which is what an optimising build does.     *)
(*                                                                         *)
(* Only pid 1 allocates in task context: task_a and task_b never allocate, *)
(* task_net only polls the network card.                                   *)
(***************************************************************************)
EXTENDS Pmm

CONSTANT BitsPerByte     \* frames per byte of g_bitmap (8)

ASSUME BitsAssumption == BitsPerByte \in Nat \ {0}

VARIABLES
    pos,     \* loop variable f of the interrupted pmm_alloc
    found,   \* bm_test(pos) has returned 0 and bm_set(pos) is still to come
    latch    \* the byte that bm_test loaded, as the set of its 1 bits

pvars == <<g_bitmap, g_total_frames, g_used_frames, e820, held, pos, found, latch>>

ByteOf(f) == {g \in Frame : g \div BitsPerByte = f \div BitsPerByte}

PInit == Init /\ pos = 0 /\ found = FALSE /\ latch = {}

\* One iteration of the for loop: bm_test(f) loads the byte.
TestFrame ==
    /\ ~found
    /\ pos < g_total_frames
    /\ IF pos \in g_bitmap
       THEN pos' = pos + 1 /\ UNCHANGED <<found, latch>>
       ELSE found' = TRUE /\ latch' = g_bitmap \cap ByteOf(pos) /\ UNCHANGED pos
    /\ UNCHANGED vars

\* The loop ran to the end: NULL.
Exhausted ==
    /\ ~found
    /\ pos = g_total_frames
    /\ pos' = 0
    /\ UNCHANGED <<found, latch, vars>>

Return ==
    /\ g_used_frames' = g_used_frames + 1
    /\ held' = held \cup {pos}
    /\ pos' = 0
    /\ found' = FALSE
    /\ latch' = {}
    /\ UNCHANGED <<g_total_frames, e820>>

\* Mutant: the byte is assigned instead of or-ed.
StoreAssigns ==
    /\ found
    /\ g_bitmap' = (g_bitmap \ ByteOf(pos)) \cup {pos}
    /\ Return

\* bm_set(f) writes the byte back, from the register or re-read from memory,
\* and the frame is returned.
StoreFrame ==
    /\ found
    /\ \E byte \in {latch, g_bitmap \cap ByteOf(pos)} :
          g_bitmap' = (g_bitmap \ ByteOf(pos)) \cup byte \cup {pos}
    /\ Return

\* The timer interrupt reaps a task that is not running: both of its frames go
\* back, one pmm_free each, with interrupts off.
ReapFrame == \E f \in held : pmm_free(f) /\ UNCHANGED <<pos, found, latch>>

PNext == TestFrame \/ Exhausted \/ StoreFrame \/ ReapFrame

PSpec == PInit /\ [][PNext]_pvars

-----------------------------------------------------------------------------
\* An interrupt-level free in the middle of an allocation never makes two
\* clients share a frame: whatever a client holds stays marked used, and the
\* frame about to be claimed is held by nobody.
HeldStaysMarked ==
    /\ held \subseteq g_bitmap
    /\ BootBitmap(e820) \subseteq g_bitmap
    /\ found => pos \notin held
=============================================================================
