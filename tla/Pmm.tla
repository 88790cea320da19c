-------------------------------- MODULE Pmm ---------------------------------
(***************************************************************************)
(* The physical memory manager, mm/pmm.c: one bit per 4 KiB frame, first   *)
(* fit, and a running count of the used frames.  Every operation is one    *)
(* action; that holds for the calls made with interrupts disabled (boot,   *)
(* int 0x80 handlers, the timer interrupt).  PmmPreempt treats the calls   *)
(* that can be preempted half way.                                         *)
(***************************************************************************)
EXTENDS Integers, FiniteSets

CONSTANTS
    PageSize,     \* PAGE_SIZE
    MaxFrames,    \* MAX_FRAMES, the capacity of g_bitmap
    ReserveLow,   \* RESERVE_LOW / PAGE_SIZE: BIOS, boot tables, kernel image
    E820Maps,     \* the firmware memory maps considered, sets of regions
    Counts        \* the run lengths callers ask pmm_alloc_contiguous for

Frame == 0 .. (MaxFrames - 1)

\* e820_entry; type 1 is usable RAM
Region == [base : Nat, len : Nat, type : Nat]

ASSUME PmmSizes ==
    /\ PageSize \in Nat \ {0}
    /\ MaxFrames \in Nat \ {0}
    /\ ReserveLow \in 1 .. MaxFrames
    /\ E820Maps \subseteq SUBSET Region
    /\ Counts \subseteq Nat

NULL == 0   \* (void *) 0; frame 0 is below ReserveLow and never handed out

-----------------------------------------------------------------------------
(* pmm_init: what the bitmap looks like after reading a memory map.        *)

\* Mutant: the first frame of a region is rounded down.
StartRoundsDown(r) == r.base \div PageSize

StartFrame(r) == (r.base + PageSize - 1) \div PageSize
StopFrame(r) == (r.base + r.len) \div PageSize

Usable(map) == {r \in map : r.type = 1}

\* Everything starts reserved; usable regions are cleared; the low frames are
\* set again.
BootBitmap(map) ==
    {f \in Frame :
        \/ f < ReserveLow
        \/ ~ \E r \in Usable(map) : StartFrame(r) <= f /\ f < StopFrame(r)}

\* g_total_frames is the highest StopFrame, cut off at MAX_FRAMES: as many
\* frames as lie below some StopFrame.
BootTotal(map) ==
    Cardinality({f \in Frame : \E r \in Usable(map) : f < StopFrame(r)})

\* Callers ask for 256 frames (heap) and 3 (network card) on a machine that
\* has loaded a 2 MiB kernel image, so total - count never wraps around.
ASSUME CountsFit == \A map \in E820Maps, c \in Counts : c <= BootTotal(map)

-----------------------------------------------------------------------------
VARIABLES
    g_bitmap,        \* the frames whose bit is 1 (used)
    g_total_frames,
    g_used_frames,
    e820,            \* the map read at boot; never changes
    held             \* history: the frames clients received and still own

vars == <<g_bitmap, g_total_frames, g_used_frames, e820, held>>

Managed == 0 .. (g_total_frames - 1)

Init ==
    /\ e820 \in E820Maps
    /\ g_bitmap = BootBitmap(e820)
    /\ g_total_frames = BootTotal(e820)
    /\ g_used_frames = Cardinality(g_bitmap \cap Managed)
    /\ held = {}

\* bm_set over a run of frames, and the bookkeeping both allocators do.
Take(run, count) ==
    /\ g_bitmap' = g_bitmap \cup run
    /\ g_used_frames' = g_used_frames + count
    /\ held' = held \cup run

\* First fit: the lowest managed frame whose bit is 0.
FirstFree(f) ==
    /\ f \in Managed \ g_bitmap
    /\ \A g \in Managed \ g_bitmap : f <= g

pmm_alloc ==
    /\ \/ \E f \in Managed : FirstFree(f) /\ Take({f}, 1)
       \/ Managed \subseteq g_bitmap /\ UNCHANGED <<g_bitmap, g_used_frames, held>>
    /\ UNCHANGED <<g_total_frames, e820>>

\* Mutant: only the first frame of the run is tested.
CandidateFirstOnly(f, count) ==
    /\ f < g_total_frames - count
    /\ f \notin g_bitmap

\* The for loop of pmm_alloc_contiguous stops before g_total_frames - count,
\* so the run that ends with the last frame is never considered.
Candidate(f, count) ==
    /\ f < g_total_frames - count
    /\ f .. (f + count - 1) \cap g_bitmap = {}

TakeFirstRun(count) ==
    \E f \in Managed :
        /\ Candidate(f, count)
        /\ \A g \in Managed : Candidate(g, count) => f <= g
        /\ Take(f .. (f + count - 1), count)
        /\ UNCHANGED <<g_total_frames, e820>>

pmm_alloc_contiguous(count) ==
    \/ count = 1 /\ pmm_alloc
    \/ count > 1 /\ TakeFirstRun(count)
    \/ /\ count # 1
       /\ count = 0 \/ \A f \in Managed : ~ Candidate(f, count)
       /\ UNCHANGED vars

\* Mutant: a second free of the same frame is not noticed.
FreeUnchecked(f) ==
    IF f < g_total_frames
    THEN /\ g_bitmap' = g_bitmap \ {f}
         /\ g_used_frames' = g_used_frames - 1
         /\ held' = held \ {f}
         /\ UNCHANGED <<g_total_frames, e820>>
    ELSE UNCHANGED vars

\* Mutant: a frame beyond the managed memory is freed like any other.
FreeOutOfRange(f) ==
    IF f \in g_bitmap
    THEN /\ g_bitmap' = g_bitmap \ {f}
         /\ g_used_frames' = g_used_frames - 1
         /\ held' = held \ {f}
         /\ UNCHANGED <<g_total_frames, e820>>
    ELSE UNCHANGED vars

\* A frame out of range, or one whose bit is already 0, is ignored.
pmm_free(f) ==
    IF f < g_total_frames /\ f \in g_bitmap
    THEN /\ g_bitmap' = g_bitmap \ {f}
         /\ g_used_frames' = g_used_frames - 1
         /\ held' = held \ {f}
         /\ UNCHANGED <<g_total_frames, e820>>
    ELSE UNCHANGED vars

\* Clients free frames they were given; one may also free a frame a second
\* time as long as nobody has received it since, or pass an address beyond the
\* managed memory.
Freed == held \cup (Frame \ g_bitmap) \cup (Frame \ Managed)

Next ==
    \/ pmm_alloc
    \/ \E c \in Counts : pmm_alloc_contiguous(c)
    \/ \E f \in Freed : pmm_free(f)

Spec == Init /\ [][Next]_vars

-----------------------------------------------------------------------------
TypeOK ==
    /\ e820 \in E820Maps
    /\ g_bitmap \subseteq Frame
    /\ g_total_frames \in 0 .. MaxFrames
    /\ g_used_frames \in Nat
    /\ held \subseteq Frame

\* The running count that pmm_free_bytes reports never drifts from the bitmap:
\* every path that sets or clears bits adjusts it by exactly the bits changed.
UsedFramesExact == g_used_frames = Cardinality(g_bitmap \cap Managed)

\* No frame is lost and none is handed out twice: below g_total_frames a bit is
\* 1 exactly for the frames reserved at boot and the frames a client holds, and
\* the two never overlap; above it every bit stays 1, so that a run found by
\* pmm_alloc_contiguous never leaves the managed memory.
FramesConserved ==
    /\ g_bitmap = BootBitmap(e820) \cup held
    /\ BootBitmap(e820) \cap held = {}
    /\ Frame \ Managed \subseteq BootBitmap(e820)

\* Clients only ever hold whole frames of RAM above the reserved low memory,
\* however the firmware's regions are aligned: the rounding of pmm_init never
\* lets in a frame that a region covers in part.
HeldIsRam ==
    \A f \in held :
        /\ f >= ReserveLow
        /\ \E r \in e820 :
              /\ r.type = 1
              /\ r.base <= f * PageSize
              /\ (f + 1) * PageSize <= r.base + r.len

\* First fit keeps the promise of the abstract allocator: each call takes a run
\* of frames that were all free, or returns one that its holder gave back.
Abstract == INSTANCE FrameAllocator WITH free <- Managed \ g_bitmap, held <- held

RefinesFrameAllocator == Abstract!Spec
=============================================================================
