---------------------------- MODULE MemoryProofs ----------------------------
(***************************************************************************)
(* The memory of the machine, for every memory map, table size, program    *)
(* and order of the calls.                                                 *)
(*                                                                         *)
(* First mm/pmm.c.  The inductive invariant is the conjunction of the      *)
(* three invariants of Pmm: none is inductive alone, because the count     *)
(* stays exact only when a run that is taken was free and managed, which   *)
(* is what FramesConserved says of the bits above g_total_frames.  An      *)
(* allocation interrupted by frees never shares a frame (PmmPreempt).      *)
(*                                                                         *)
(* Then mm/paging.c.  The invariant is that the tables form a tree: every  *)
(* table has a level, and all but those below a PML4 are entered once.     *)
(* Only then does writing one entry change one translation.  What is said  *)
(* of the tables holds while the kernel reaches them all (TablesReached);  *)
(* the last theorem says what alone can end that.                          *)
(***************************************************************************)
EXTENDS PmmPreempt, Paging, FiniteSetTheorems, SequenceTheorems, WellFoundedInduction, TLAPS

Inv == TypeOK /\ UsedFramesExact /\ FramesConserved

-----------------------------------------------------------------------------
(* Sets of frames are finite, and so is every part of them.                *)
LEMMA FramesFinite ==
    /\ IsFiniteSet(Frame)
    /\ Cardinality(Frame) = MaxFrames
    /\ \A S \in SUBSET Frame : IsFiniteSet(S) /\ Cardinality(S) \in 0 .. MaxFrames
<1>1. IsFiniteSet(Frame) /\ Cardinality(Frame) = MaxFrames
  <2>1. 0 \in Int /\ MaxFrames - 1 \in Int /\ MaxFrames - 1 >= 0
    BY PmmSizes
  <2>2. QED
    BY <2>1, FS_Interval, PmmSizes DEF Frame
<1>2. ASSUME NEW S \in SUBSET Frame
      PROVE  IsFiniteSet(S) /\ Cardinality(S) \in 0 .. MaxFrames
  <2>1. IsFiniteSet(S) /\ Cardinality(S) <= Cardinality(Frame)
    BY <1>1, FS_Subset
  <2>2. Cardinality(S) \in Nat
    BY <2>1, FS_CardinalityType
  <2>3. QED
    BY <1>1, <2>1, <2>2, PmmSizes
<1>3. QED
  BY <1>1, <1>2

(* Counting a run of frames.                                               *)
LEMMA RunCardinality ==
    ASSUME NEW a \in Nat, NEW n \in Nat, n > 0
    PROVE  /\ IsFiniteSet(a .. (a + n - 1))
           /\ Cardinality(a .. (a + n - 1)) = n
<1>1. a \in Int /\ a + n - 1 \in Int /\ a <= a + n - 1 /\ (a + n - 1) - a + 1 = n
  OBVIOUS
<1>2. QED
  BY <1>1, FS_Interval

(* BootTotal counts an initial segment of the frames, so no usable region  *)
(* reaches a frame at or above it.                                         *)
LEMMA NothingAboveTotal ==
    ASSUME NEW map \in E820Maps
    PROVE  /\ BootTotal(map) \in 0 .. MaxFrames
           /\ \A f \in Frame : f >= BootTotal(map) => f \in BootBitmap(map)
<1> DEFINE S == {f \in Frame : \E r \in Usable(map) : f < StopFrame(r)}
<1>1. IsFiniteSet(S) /\ Cardinality(S) \in 0 .. MaxFrames
  <2>1. S \in SUBSET Frame
    OBVIOUS
  <2>2. QED
    BY <2>1, FramesFinite
<1>2. ASSUME NEW f \in S
      PROVE  f < Cardinality(S)
  <2>1. 0 .. f \subseteq S
    <3>1. \A r \in Usable(map) : StopFrame(r) \in Int
      BY PmmSizes DEF Usable, StopFrame, Region
    <3>2. PICK r \in Usable(map) : f < StopFrame(r)
      OBVIOUS
    <3>3. \A g \in 0 .. f : g \in Frame /\ g < StopFrame(r)
      BY <3>1, <3>2, PmmSizes DEF Frame
    <3>4. QED
      BY <3>3
  <2>2. f \in Nat
    BY DEF Frame
  <2>3. IsFiniteSet(0 .. f) /\ Cardinality(0 .. f) = f + 1
    BY <2>2, RunCardinality, 0 + (f + 1) - 1 = f
  <2>4. Cardinality(0 .. f) <= Cardinality(S)
    BY <1>1, <2>1, FS_Subset
  <2>5. QED
    BY <1>1, <2>2, <2>3, <2>4
<1>3. ASSUME NEW f \in Frame, f >= Cardinality(S)
      PROVE  f \in BootBitmap(map)
  <2>1. f \notin S
    BY <1>1, <1>2, <1>3 DEF Frame
  <2>2. QED
    BY <2>1 DEF BootBitmap
<1>4. QED
  BY <1>1, <1>3 DEF BootTotal

-----------------------------------------------------------------------------
(* Taking a run of free, managed frames keeps the books.                   *)
LEMMA TakeKeepsBooks ==
    ASSUME Inv, NEW run, NEW count \in Nat,
           run \subseteq Managed \ g_bitmap,
           IsFiniteSet(run), Cardinality(run) = count,
           Take(run, count), UNCHANGED <<g_total_frames, e820>>
    PROVE  Inv'
<1> USE DEF Inv
<1>1. Managed \subseteq Frame /\ g_bitmap \cap Managed \in SUBSET Frame
  BY PmmSizes DEF TypeOK, Managed, Frame
<1>2. Managed' = Managed
  BY DEF Managed
<1>3. /\ IsFiniteSet(g_bitmap \cap Managed)
      /\ Cardinality(g_bitmap \cap Managed) \in Nat
  BY <1>1, FramesFinite
<1>4. TypeOK'
  BY <1>1 DEF TypeOK, Take
<1>5. UsedFramesExact'
  <2>1. (g_bitmap \cup run) \cap Managed = (g_bitmap \cap Managed) \cup run
    OBVIOUS
  <2>2. (g_bitmap \cap Managed) \cap run = {}
    OBVIOUS
  <2>3. Cardinality((g_bitmap \cap Managed) \cup run)
          = Cardinality(g_bitmap \cap Managed) + count
    BY <1>3, <2>2, FS_Union, FS_EmptySet
  <2>4. QED
    BY <1>2, <2>1, <2>3 DEF UsedFramesExact, Take
<1>6. FramesConserved'
  BY <1>2 DEF FramesConserved, Take
<1>7. QED
  BY <1>4, <1>5, <1>6

LEMMA AllocKeepsBooks == Inv /\ pmm_alloc => Inv'
<1> SUFFICES ASSUME Inv, pmm_alloc PROVE Inv'
  OBVIOUS
<1>1. CASE \E f \in Managed : FirstFree(f) /\ Take({f}, 1)
  <2>1. PICK f \in Managed : FirstFree(f) /\ Take({f}, 1)
    BY <1>1
  <2>2. {f} \subseteq Managed \ g_bitmap
    BY <2>1 DEF FirstFree
  <2>3. IsFiniteSet({f}) /\ Cardinality({f}) = 1
    BY FS_Singleton
  <2>4. QED
    BY <2>1, <2>2, <2>3, TakeKeepsBooks DEF pmm_alloc
<1>2. CASE UNCHANGED vars
  BY <1>2 DEF vars, Inv, TypeOK, UsedFramesExact, FramesConserved, Managed
<1>3. QED
  BY <1>1, <1>2 DEF pmm_alloc, vars

LEMMA TakeRunKeepsBooks ==
    ASSUME Inv, NEW count \in Nat, count > 1, TakeFirstRun(count)
    PROVE  Inv'
<1>1. PICK f \in Managed : /\ Candidate(f, count)
                           /\ Take(f .. (f + count - 1), count)
                           /\ UNCHANGED <<g_total_frames, e820>>
  BY DEF TakeFirstRun
<1>2. f \in Nat /\ g_total_frames \in Nat
  BY DEF Managed, Inv, TypeOK
<1>3. f .. (f + count - 1) \subseteq Managed \ g_bitmap
  BY <1>1, <1>2 DEF Candidate, Managed
<1>4. QED
  BY <1>1, <1>2, <1>3, RunCardinality, TakeKeepsBooks

LEMMA FreeKeepsBooks ==
    ASSUME Inv, NEW f \in Freed, pmm_free(f)
    PROVE  Inv'
<1>1. CASE f < g_total_frames /\ f \in g_bitmap
  <2>1. f \in held /\ f \in Managed
    BY <1>1 DEF Inv, TypeOK, Managed, Frame, Freed
  <2>2. Managed' = Managed
    BY <1>1 DEF Managed, pmm_free
  <2>3. (g_bitmap \ {f}) \cap Managed = (g_bitmap \cap Managed) \ {f}
    OBVIOUS
  <2>4. IsFiniteSet(g_bitmap \cap Managed) /\ g_bitmap \cap Managed \in SUBSET Frame
    BY FramesFinite DEF Inv, TypeOK
  <2>5. /\ Cardinality((g_bitmap \cap Managed) \ {f}) = g_used_frames - 1
        /\ Cardinality((g_bitmap \cap Managed) \ {f}) \in Nat
    <3>1. f \in g_bitmap \cap Managed
      BY <1>1, <2>1
    <3>2. IsFiniteSet((g_bitmap \cap Managed) \ {f})
      BY <2>4, FS_RemoveElement
    <3>3. QED
      BY <2>4, <3>1, <3>2, FS_RemoveElement, FS_CardinalityType DEF Inv, UsedFramesExact
  <2>6. TypeOK' /\ UsedFramesExact'
    BY <1>1, <2>2, <2>3, <2>5 DEF pmm_free, Inv, TypeOK, UsedFramesExact
  <2>7. FramesConserved'
    BY <1>1, <2>1, <2>2 DEF pmm_free, Inv, FramesConserved
  <2>8. QED
    BY <2>6, <2>7 DEF Inv
<1>2. CASE ~ (f < g_total_frames /\ f \in g_bitmap)
  BY <1>2 DEF pmm_free, vars, Inv, TypeOK, UsedFramesExact, FramesConserved, Managed
<1>3. QED
  BY <1>1, <1>2

LEMMA BootKeepsBooks == Init => Inv
<1> SUFFICES ASSUME Init PROVE Inv
  OBVIOUS
<1>1. e820 \in E820Maps /\ g_total_frames \in 0 .. MaxFrames
  BY NothingAboveTotal DEF Init
<1>2. g_bitmap \subseteq Frame /\ g_bitmap \cap Managed \in SUBSET Frame
  BY DEF Init, BootBitmap
<1>3. TypeOK
  BY <1>1, <1>2, FramesFinite DEF TypeOK, Init
<1>4. FramesConserved
  BY <1>1, NothingAboveTotal DEF FramesConserved, Init, Managed, Frame
<1>5. QED
  BY <1>3, <1>4 DEF Inv, UsedFramesExact, Init

LEMMA StepKeepsBooks == Inv /\ [Next]_vars => Inv'
<1> SUFFICES ASSUME Inv, [Next]_vars PROVE Inv'
  OBVIOUS
<1>1. CASE pmm_alloc
  BY <1>1, AllocKeepsBooks
<1>2. ASSUME NEW c \in Counts, pmm_alloc_contiguous(c)
      PROVE  Inv'
  <2>1. c \in Nat
    BY PmmSizes
  <2>2. CASE UNCHANGED vars
    BY <2>2 DEF vars, Inv, TypeOK, UsedFramesExact, FramesConserved, Managed
  <2>3. QED
    BY <1>2, <2>1, <2>2, AllocKeepsBooks, TakeRunKeepsBooks DEF pmm_alloc_contiguous
<1>3. ASSUME NEW f \in Freed, pmm_free(f)
      PROVE  Inv'
  BY <1>3, FreeKeepsBooks
<1>4. CASE UNCHANGED vars
  BY <1>4 DEF vars, Inv, TypeOK, UsedFramesExact, FramesConserved, Managed
<1>5. QED
  BY <1>1, <1>2, <1>3, <1>4 DEF Next

-----------------------------------------------------------------------------
(* For every memory map and every sequence of calls, the types of pmm.c's  *)
(* variables hold.                                                         *)
THEOREM PmmTypeCorrect == Spec => []TypeOK
<1>1. Inv => TypeOK
  BY DEF Inv
<1>2. QED
  BY <1>1, BootKeepsBooks, StepKeepsBooks, PTL DEF Spec

(* g_used_frames is the number of set bits below g_total_frames after      *)
(* every pmm_alloc, pmm_alloc_contiguous and pmm_free.                     *)
THEOREM PmmCountExact == Spec => []UsedFramesExact
<1>1. Inv => UsedFramesExact
  BY DEF Inv
<1>2. QED
  BY <1>1, BootKeepsBooks, StepKeepsBooks, PTL DEF Spec

(* pmm.c neither loses a frame nor gives one to two clients.               *)
THEOREM PmmConservesFrames == Spec => []FramesConserved
<1>1. Inv => FramesConserved
  BY DEF Inv
<1>2. QED
  BY <1>1, BootKeepsBooks, StepKeepsBooks, PTL DEF Spec

(* Every pmm.c call is a step of the abstract frame allocator, or changes  *)
(* nothing its clients can see.                                            *)
THEOREM PmmRefines == Spec => RefinesFrameAllocator
<1> DEFINE unused == Managed \ g_bitmap
<1>1. Init => Abstract!Init
  BY BootKeepsBooks DEF Init, Abstract!Init, Managed, Inv, TypeOK
<1>2. ASSUME Inv, pmm_alloc
      PROVE  [Abstract!Next]_<<unused, held>>
  <2>1. Managed' = Managed
    BY <1>2 DEF pmm_alloc, Managed
  <2>2. CASE \E f \in Managed : FirstFree(f) /\ Take({f}, 1)
    <3>1. PICK f \in Managed : FirstFree(f) /\ Take({f}, 1)
      BY <2>2
    <3>2. f \in unused /\ f \in Int /\ f .. f = {f}
      BY <3>1 DEF FirstFree, Managed
    <3>3. unused' = unused \ (f .. f) /\ held' = held \cup (f .. f)
      BY <2>1, <3>1, <3>2 DEF Take
    <3>4. f <= f /\ f .. f \subseteq unused
      BY <3>2
    <3>5. Abstract!Allocate
      BY <3>2, <3>3, <3>4 DEF Abstract!Allocate
    <3>6. QED
      BY <3>5 DEF Abstract!Next
  <2>3. CASE UNCHANGED <<g_bitmap, held>>
    BY <2>1, <2>3
  <2>4. QED
    BY <1>2, <2>2, <2>3 DEF pmm_alloc
<1>3. ASSUME Inv, NEW c \in Nat, c > 1, TakeFirstRun(c)
      PROVE  [Abstract!Next]_<<unused, held>>
  <2>1. PICK f \in Managed : /\ Candidate(f, c)
                             /\ Take(f .. (f + c - 1), c)
                             /\ UNCHANGED <<g_total_frames, e820>>
    BY <1>3 DEF TakeFirstRun
  <2>2. f \in Nat /\ g_total_frames \in Nat
    BY <1>3 DEF Managed, Inv, TypeOK
  <2>3. /\ f <= f + c - 1
        /\ f .. (f + c - 1) \subseteq unused
        /\ f \in unused /\ f + c - 1 \in unused
    BY <1>3, <2>1, <2>2 DEF Candidate, Managed
  <2>4. /\ unused' = unused \ (f .. (f + c - 1))
        /\ held' = held \cup (f .. (f + c - 1))
    BY <2>1 DEF Take, Managed
  <2>5. QED
    BY <2>3, <2>4 DEF Abstract!Allocate, Abstract!Next
<1>4. ASSUME Inv, NEW f \in Freed, pmm_free(f)
      PROVE  [Abstract!Next]_<<unused, held>>
  <2>1. CASE f < g_total_frames /\ f \in g_bitmap
    <3>1. f \in held /\ f \in Managed /\ Managed' = Managed
      BY <1>4, <2>1 DEF Inv, TypeOK, Managed, Frame, Freed, pmm_free
    <3>2. unused' = unused \cup {f} /\ held' = held \ {f}
      BY <1>4, <2>1, <3>1 DEF pmm_free
    <3>3. QED
      BY <3>1, <3>2 DEF Abstract!Release, Abstract!Next
  <2>2. CASE ~ (f < g_total_frames /\ f \in g_bitmap)
    BY <1>4, <2>2 DEF pmm_free, vars, Managed
  <2>3. QED
    BY <2>1, <2>2
<1>5. Inv /\ [Next]_vars => [Abstract!Next]_<<unused, held>>
  <2> SUFFICES ASSUME Inv, [Next]_vars PROVE [Abstract!Next]_<<unused, held>>
    OBVIOUS
  <2>1. CASE UNCHANGED vars
    BY <2>1 DEF vars, Managed
  <2>2. ASSUME NEW c \in Counts, pmm_alloc_contiguous(c)
        PROVE  [Abstract!Next]_<<unused, held>>
    BY <1>2, <1>3, <2>1, <2>2, PmmSizes DEF pmm_alloc_contiguous
  <2>3. QED
    BY <1>2, <1>4, <2>1, <2>2 DEF Next
<1>6. QED
  BY <1>1, <1>5, BootKeepsBooks, StepKeepsBooks, PTL
     DEF Spec, RefinesFrameAllocator, Abstract!Spec

(* What the rounding in pmm_init means for one frame. *)
LEMMA RoundingInside ==
    ASSUME NEW base \in Nat, NEW len \in Nat, NEW P \in Nat \ {0}, NEW f \in Nat,
           (base + P - 1) \div P <= f,
           f < (base + len) \div P
    PROVE  base <= f * P /\ (f + 1) * P <= base + len
<1> DEFINE q == (base + P - 1) \div P
           s == (base + len) \div P
<1>1. q \in Nat /\ s \in Nat
  OBVIOUS
<1>2. P * q > base + P - 1 - P /\ P * s <= base + len
  OBVIOUS
<1>3. P * q <= P * f /\ P * (f + 1) <= P * s
  BY <1>1
<1> QED BY <1>1, <1>2, <1>3

(* No client is given memory that is not RAM, or the low memory that holds
   the BIOS area, the boot page tables and the kernel image (mm/pmm.c
   pmm_init). *)
THEOREM PmmHandsOutRam == Spec => []HeldIsRam
<1>1. Inv => HeldIsRam
  <2> SUFFICES ASSUME Inv, NEW f \in held
               PROVE  /\ f >= ReserveLow
                      /\ \E r \in e820 : /\ r.type = 1
                                         /\ r.base <= f * PageSize
                                         /\ (f + 1) * PageSize <= r.base + r.len
    BY DEF HeldIsRam
  <2>1. f \in Frame /\ f \notin BootBitmap(e820) /\ e820 \in E820Maps
    BY DEF Inv, TypeOK, FramesConserved
  <2>2. f \in Nat /\ PageSize \in Nat \ {0} /\ ReserveLow \in Nat
    BY <2>1, PmmSizes DEF Frame
  <2>3. f >= ReserveLow
    BY <2>1, <2>2 DEF BootBitmap
  <2>4. PICK r \in Usable(e820) : StartFrame(r) <= f /\ f < StopFrame(r)
    BY <2>1 DEF BootBitmap
  <2>5. r \in e820 /\ r.type = 1 /\ r.base \in Nat /\ r.len \in Nat
    BY <2>1, <2>4, PmmSizes DEF Usable, Region
  <2>6. r.base <= f * PageSize /\ (f + 1) * PageSize <= r.base + r.len
    BY <2>2, <2>4, <2>5, RoundingInside DEF StartFrame, StopFrame
  <2> QED BY <2>3, <2>5, <2>6
<1>2. QED
  BY <1>1, BootKeepsBooks, StepKeepsBooks, PTL DEF Spec

-----------------------------------------------------------------------------
(* PmmPreempt.                                                             *)

\* Why it is inductive: what is held only shrinks while an allocation is under
\* way, so every held or reserved frame of the byte is still in the register
\* copy, even if that copy is out of date.
PInv ==
    /\ g_bitmap \subseteq Frame
    /\ held \subseteq g_bitmap
    /\ BootBitmap(e820) \subseteq g_bitmap
    /\ BootBitmap(e820) \cap held = {}
    /\ found => /\ pos \in Frame
                /\ pos \notin held
                /\ pos \notin BootBitmap(e820)
                /\ latch \subseteq ByteOf(pos)
                /\ held \cap ByteOf(pos) \subseteq latch
                /\ BootBitmap(e820) \cap ByteOf(pos) \subseteq latch
    /\ pos \in Nat
    /\ g_total_frames \in 0 .. MaxFrames
    /\ found \in BOOLEAN

LEMMA PInitHolds == PInit => PInv
<1> SUFFICES ASSUME PInit PROVE PInv
  OBVIOUS
<1>1. BootBitmap(e820) \subseteq Frame
  BY DEF BootBitmap
<1>2. g_total_frames \in 0 .. MaxFrames
  <2> DEFINE S == {f \in Frame : \E r \in Usable(e820) : f < StopFrame(r)}
  <2>1. IsFiniteSet(Frame) /\ Cardinality(Frame) = MaxFrames
    <3>1. MaxFrames \in Nat /\ MaxFrames > 0
      BY PmmSizes
    <3> QED BY <3>1, FS_Interval DEF Frame
  <2>2. Cardinality(S) \in Nat /\ Cardinality(S) <= Cardinality(Frame)
    <3>1. S \subseteq Frame
      OBVIOUS
    <3> QED BY <2>1, <3>1, FS_Subset, FS_CardinalityType
  <2> QED BY <2>1, <2>2, PmmSizes DEF PInit, Init, BootTotal
<1> QED BY <1>1, <1>2 DEF PInit, Init, PInv

LEMMA TestFrameSafe == PInv /\ TestFrame => PInv'
<1> SUFFICES ASSUME PInv, TestFrame PROVE PInv'
  OBVIOUS
<1> USE DEF PInv
<1>1. UNCHANGED <<g_bitmap, g_total_frames, e820, held>>
  BY DEF TestFrame, vars
<1>2. CASE pos \in g_bitmap
  BY <1>1, <1>2 DEF TestFrame
<1>3. CASE pos \notin g_bitmap
  <2>1. /\ found' = TRUE
        /\ latch' = g_bitmap \cap ByteOf(pos)
        /\ pos' = pos
    BY <1>3 DEF TestFrame
  <2>2. pos \in Frame
    BY PmmSizes DEF TestFrame, Frame
  <2>3. ByteOf(pos)' = ByteOf(pos)
    BY <2>1 DEF ByteOf
  <2> QED BY <1>1, <1>3, <2>1, <2>2, <2>3
<1> QED BY <1>2, <1>3

LEMMA StoreFrameSafe == PInv /\ StoreFrame => PInv'
<1> SUFFICES ASSUME PInv, StoreFrame PROVE PInv'
  OBVIOUS
<1> USE DEF PInv
<1>1. PICK byte \in {latch, g_bitmap \cap ByteOf(pos)} :
          g_bitmap' = (g_bitmap \ ByteOf(pos)) \cup byte \cup {pos}
  BY DEF StoreFrame
<1>2. /\ held \cap ByteOf(pos) \subseteq byte
      /\ BootBitmap(e820) \cap ByteOf(pos) \subseteq byte
      /\ byte \subseteq Frame
  BY DEF StoreFrame, ByteOf
<1>3. /\ held' = held \cup {pos} /\ pos' = 0 /\ found' = FALSE
      /\ UNCHANGED <<g_total_frames, e820>>
  BY DEF StoreFrame, Return
<1>4. g_bitmap' \subseteq Frame
  BY <1>1, <1>2 DEF StoreFrame
<1>5. held' \subseteq g_bitmap' /\ BootBitmap(e820) \subseteq g_bitmap'
  BY <1>1, <1>2, <1>3
<1>6. BootBitmap(e820) \cap held' = {}
  BY <1>3 DEF StoreFrame
<1> QED BY <1>3, <1>4, <1>5, <1>6

LEMMA ReapFrameSafe == PInv /\ ReapFrame => PInv'
<1> SUFFICES ASSUME PInv, ReapFrame PROVE PInv'
  OBVIOUS
<1> USE DEF PInv
<1>1. PICK f \in held : pmm_free(f) /\ UNCHANGED <<pos, found, latch>>
  BY DEF ReapFrame
<1>2. \/ UNCHANGED vars
      \/ /\ g_bitmap' = g_bitmap \ {f} /\ held' = held \ {f}
         /\ UNCHANGED <<g_total_frames, e820>>
  BY <1>1 DEF pmm_free
<1>3. ByteOf(pos)' = ByteOf(pos)
  BY <1>1 DEF ByteOf
<1> QED BY <1>1, <1>2, <1>3 DEF vars

LEMMA PStepHolds == PInv /\ [PNext]_pvars => PInv'
<1> SUFFICES ASSUME PInv, [PNext]_pvars PROVE PInv'
  OBVIOUS
<1>1. CASE Exhausted
  BY <1>1 DEF Exhausted, PInv, vars, ByteOf
<1>2. CASE UNCHANGED pvars
  BY <1>2 DEF pvars, PInv, ByteOf
<1> QED BY <1>1, <1>2, TestFrameSafe, StoreFrameSafe, ReapFrameSafe DEF PNext

(* An interrupt-level pmm_free in the middle of a pmm_alloc (mm/pmm.c) never *)
(* makes two clients share a frame, whichever way the compiler keeps the     *)
(* bitmap byte between bm_test and bm_set.                                   *)
THEOREM PreemptedAllocSafe == PSpec => []HeldStaysMarked
<1>1. PInv => HeldStaysMarked
  BY DEF PInv, HeldStaysMarked
<1>2. QED
  BY <1>1, PInitHolds, PStepHolds, PTL DEF PSpec

-----------------------------------------------------------------------------
(* Page tables.                                                            *)

\* What paging.c keeps in a table, and a call under way.
PTE == [present : BOOLEAN, huge : BOOLEAN, user : BOOLEAN, frame : Nat]
Table == [Index -> PTE]
Memories == UNION {[D -> Table] : D \in SUBSET Nat}
Calls == [memory : Memories, free : SUBSET Nat, at : Nat, ok : BOOLEAN,
          mapped : SUBSET (Page \X Nat)]

\* An entry that leads to a table of the next level.
Points(mem, lev, x, i) == lev[x] > 1 /\ mem[x][i].present /\ ~mem[x][i].huge

\* The tables form a tree below the address spaces S: every table has a level,
\* and all but those below a PML4 are entered once; the PML4s are alike.
Tree(mem, lev, S) ==
    /\ mem \in Memories /\ lev \in [DOMAIN mem -> 1 .. 4]
    /\ S = {x \in DOMAIN mem : lev[x] = 4} /\ Boot \in S
    /\ \A x \in DOMAIN mem, i \in Index :
          /\ mem[x][i].huge => mem[x][i].present /\ lev[x] = 2
          /\ Points(mem, lev, x, i) =>
                mem[x][i].frame \in DOMAIN mem /\ lev[mem[x][i].frame] = lev[x] - 1
    /\ \A x, y \in DOMAIN mem, i, j \in Index :
          Points(mem, lev, x, i) /\ Points(mem, lev, y, j) /\ mem[x][i].frame = mem[y][j].frame
             => i = j /\ (x = y \/ lev[x] = 4)
    /\ \A s \in S, i \in Index : /\ mem[s][i].present = mem[Boot][i].present
                                 /\ mem[s][i].frame = mem[Boot][i].frame

\* Two memories translate alike.
Same(mem, n, S) ==
    \A s \in S, w \in Page : paging_get_phys_on(n, s, w) = paging_get_phys_on(mem, s, w)

-----------------------------------------------------------------------------
(* Tables.                                                                 *)

\* The tables of a memory and their entries.
LEMMA MemoryIs ==
    ASSUME NEW mem \in Memories
    PROVE  /\ DOMAIN mem \in SUBSET Nat /\ mem \in [DOMAIN mem -> Table]
           /\ \A x \in DOMAIN mem : mem[x] \in Table
           /\ \A x \in DOMAIN mem, i \in Index : mem[x][i] \in PTE
<1>1. PICK D \in SUBSET Nat : mem \in [D -> Table]
  BY DEF Memories
<1>2. DOMAIN mem = D
  BY <1>1
<1>3. \A x \in D : mem[x] \in Table
  BY <1>1
<1>4. \A x \in D, i \in Index : mem[x][i] \in PTE
  BY <1>3 DEF Table
<1> QED BY <1>1, <1>2, <1>3, <1>4

\* A function from frames to tables is a memory.
LEMMA IsMemory ==
    ASSUME NEW D \in SUBSET Nat, NEW mem \in [D -> Table]
    PROVE  mem \in Memories
BY DEF Memories

\* The entries the kernel writes.
LEMMA EntryIs ==
    /\ Absent \in PTE /\ ~Absent.present /\ ~Absent.huge
    /\ Empty \in Table /\ \A i \in Index : Empty[i] = Absent
    /\ \A f \in Nat, h, u \in BOOLEAN :
          /\ Entry(f, h, u) \in PTE /\ Entry(f, h, u).present
          /\ Entry(f, h, u).huge = h /\ Entry(f, h, u).frame = f
<1>1. Absent \in PTE /\ ~Absent.present /\ ~Absent.huge
  BY DEF Absent, PTE, NoFrame
<1>2. Empty \in Table /\ \A i \in Index : Empty[i] = Absent
  BY <1>1 DEF Empty, Table
<1>3. \A f \in Nat, h, u \in BOOLEAN :
         /\ Entry(f, h, u) \in PTE /\ Entry(f, h, u).present
         /\ Entry(f, h, u).huge = h /\ Entry(f, h, u).frame = f
  BY DEF Entry, PTE
<1> QED BY <1>1, <1>2, <1>3

\* A page is four indices.
LEMMA PageIs ==
    ASSUME NEW v \in Page
    PROVE  /\ v[1] \in Index /\ v[2] \in Index /\ v[3] \in Index /\ v[4] \in Index
           /\ v = <<v[1], v[2], v[3], v[4]>>
BY DEF Page

\* The tables a walk passes, and how far it gets.
T3(mem, s, v) == mem[s][v[1]].frame
T2(mem, s, v) == mem[T3(mem, s, v)][v[2]].frame
T1(mem, s, v) == mem[T2(mem, s, v)][v[3]].frame
To3(mem, s, v) == mem[s][v[1]].present
To2(mem, s, v) == To3(mem, s, v) /\ mem[T3(mem, s, v)][v[2]].present
To1(mem, s, v) == /\ To2(mem, s, v) /\ mem[T2(mem, s, v)][v[3]].present
                  /\ ~mem[T2(mem, s, v)][v[3]].huge
ToHuge(mem, s, v) == To2(mem, s, v) /\ mem[T2(mem, s, v)][v[3]].huge

\* paging_get_phys_on in these words.
LEMMA Looks ==
    ASSUME NEW mem, NEW s, NEW v
    PROVE  paging_get_phys_on(mem, s, v) =
              IF ToHuge(mem, s, v) THEN mem[T2(mem, s, v)][v[3]].frame + v[4]
              ELSE IF To1(mem, s, v) /\ mem[T1(mem, s, v)][v[4]].present
                   THEN mem[T1(mem, s, v)][v[4]].frame ELSE NoFrame
BY DEF paging_get_phys_on, ToHuge, To1, To2, To3, T1, T2, T3

\* The levels of these tables.
LEMMA Path ==
    ASSUME NEW mem, NEW lev, NEW S, Tree(mem, lev, S), NEW s \in S, NEW v \in Page
    PROVE  /\ s \in DOMAIN mem /\ lev[s] = 4
           /\ To3(mem, s, v) => /\ Points(mem, lev, s, v[1])
                                /\ T3(mem, s, v) \in DOMAIN mem /\ lev[T3(mem, s, v)] = 3
           /\ To2(mem, s, v) => /\ Points(mem, lev, T3(mem, s, v), v[2])
                                /\ T2(mem, s, v) \in DOMAIN mem /\ lev[T2(mem, s, v)] = 2
           /\ To1(mem, s, v) => /\ Points(mem, lev, T2(mem, s, v), v[3])
                                /\ T1(mem, s, v) \in DOMAIN mem /\ lev[T1(mem, s, v)] = 1
<1> DEFINE a == T3(mem, s, v)
           b == T2(mem, s, v)
           c == T1(mem, s, v)
<1>0. v[1] \in Index /\ v[2] \in Index /\ v[3] \in Index
  BY PageIs
<1>1. s \in DOMAIN mem /\ lev[s] = 4
  BY DEF Tree
<1>2. \A x \in DOMAIN mem, i \in Index :
          /\ mem[x][i].huge => mem[x][i].present /\ lev[x] = 2
          /\ Points(mem, lev, x, i) =>
                mem[x][i].frame \in DOMAIN mem /\ lev[mem[x][i].frame] = lev[x] - 1
  BY DEF Tree
<1>3. ASSUME To3(mem, s, v)
      PROVE  Points(mem, lev, s, v[1]) /\ a \in DOMAIN mem /\ lev[a] = 3
  <2>1. Points(mem, lev, s, v[1])
    BY <1>0, <1>1, <1>2, <1>3 DEF Points, To3
  <2>2. a \in DOMAIN mem /\ lev[a] = 4 - 1
    BY <1>0, <1>1, <1>2, <2>1 DEF T3
  <2> QED BY <2>1, <2>2
<1> HIDE DEF a
<1>4. ASSUME To2(mem, s, v)
      PROVE  Points(mem, lev, a, v[2]) /\ b \in DOMAIN mem /\ lev[b] = 2
  <2>0. To3(mem, s, v) /\ mem[a][v[2]].present
    BY <1>4 DEF To2, a
  <2>1. Points(mem, lev, a, v[2])
    BY <1>0, <1>2, <1>3, <2>0 DEF Points
  <2>2. mem[a][v[2]].frame \in DOMAIN mem /\ lev[mem[a][v[2]].frame] = 3 - 1
    BY <1>0, <1>2, <1>3, <2>0, <2>1
  <2>3. b = mem[a][v[2]].frame
    BY DEF T2, a
  <2> QED BY <2>1, <2>2, <2>3
<1> HIDE DEF b
<1>5. ASSUME To1(mem, s, v)
      PROVE  Points(mem, lev, b, v[3]) /\ c \in DOMAIN mem /\ lev[c] = 1
  <2>0. To2(mem, s, v) /\ mem[b][v[3]].present /\ ~mem[b][v[3]].huge
    BY <1>5 DEF To1, b
  <2>1. Points(mem, lev, b, v[3])
    BY <1>0, <1>2, <1>4, <2>0 DEF Points
  <2>2. mem[b][v[3]].frame \in DOMAIN mem /\ lev[mem[b][v[3]].frame] = 2 - 1
    BY <1>0, <1>2, <1>4, <2>0, <2>1
  <2>3. c = mem[b][v[3]].frame
    BY DEF T1, b
  <2> QED BY <2>1, <2>2, <2>3
<1> QED BY <1>1, <1>3, <1>4, <1>5 DEF a, b

\* Two memories translate a page alike if they agree on the way to it.
LEMMA SameWay ==
    ASSUME NEW mem, NEW lev, NEW S, Tree(mem, lev, S), NEW n, NEW s \in S, NEW w \in Page,
           NEW L \in SUBSET (2 .. 4), 4 \in L,
           \A y \in DOMAIN mem, j \in Index :
              lev[y] \in L => /\ n[y][j].present = mem[y][j].present
                              /\ n[y][j].huge = mem[y][j].huge
                              /\ n[y][j].frame = mem[y][j].frame
    PROVE  /\ To3(n, s, w) = To3(mem, s, w) /\ T3(n, s, w) = T3(mem, s, w)
           /\ 3 \in L => /\ To2(n, s, w) = To2(mem, s, w)
                         /\ To2(mem, s, w) => T2(n, s, w) = T2(mem, s, w)
           /\ {2, 3} \subseteq L => /\ To1(n, s, w) = To1(mem, s, w)
                                    /\ ToHuge(n, s, w) = ToHuge(mem, s, w)
                                    /\ To1(mem, s, w) => T1(n, s, w) = T1(mem, s, w)
                                    /\ ToHuge(mem, s, w) =>
                                          n[T2(n, s, w)][w[3]].frame = mem[T2(mem, s, w)][w[3]].frame
<1>1. w[1] \in Index /\ w[2] \in Index /\ w[3] \in Index /\ w[4] \in Index
  BY PageIs
<1>2. To3(n, s, w) = To3(mem, s, w) /\ T3(n, s, w) = T3(mem, s, w)
  <2>1. s \in DOMAIN mem /\ lev[s] = 4
    BY Path
  <2> QED BY <1>1, <2>1 DEF To3, T3
<1> DEFINE a == T3(mem, s, w)
           b == T2(mem, s, w)
           c == T1(mem, s, w)
<1>3. ASSUME 3 \in L
      PROVE  /\ To2(n, s, w) = To2(mem, s, w)
             /\ To2(mem, s, w) => T2(n, s, w) = b
  <2>1. CASE To3(mem, s, w)
    <3>1. a \in DOMAIN mem /\ lev[a] = 3
      BY <2>1, Path
    <3> HIDE DEF a
    <3>2. n[a][w[2]].present = mem[a][w[2]].present /\ n[a][w[2]].frame = mem[a][w[2]].frame
      BY <1>1, <1>3, <3>1
    <3> QED BY <1>2, <3>2 DEF To2, T2, a
  <2>2. CASE ~To3(mem, s, w)
    BY <1>2, <2>2 DEF To2
  <2> QED BY <2>1, <2>2
<1>4. ASSUME {2, 3} \subseteq L
      PROVE  /\ To1(n, s, w) = To1(mem, s, w) /\ ToHuge(n, s, w) = ToHuge(mem, s, w)
             /\ To1(mem, s, w) => T1(n, s, w) = c
             /\ ToHuge(mem, s, w) => n[T2(n, s, w)][w[3]].frame = mem[b][w[3]].frame
  <2>1. CASE To2(mem, s, w)
    <3>1. b \in DOMAIN mem /\ lev[b] = 2
      BY <2>1, Path
    <3>2. T2(n, s, w) = b /\ To2(n, s, w) = To2(mem, s, w)
      BY <1>3, <1>4, <2>1
    <3> HIDE DEF b
    <3>3. /\ n[b][w[3]].present = mem[b][w[3]].present /\ n[b][w[3]].huge = mem[b][w[3]].huge
          /\ n[b][w[3]].frame = mem[b][w[3]].frame
      BY <1>1, <1>4, <3>1
    <3> QED BY <3>2, <3>3 DEF To1, ToHuge, T1, b
  <2>2. CASE ~To2(mem, s, w)
    <3>1. To2(n, s, w) = To2(mem, s, w)
      BY <1>3, <1>4
    <3> QED BY <2>2, <3>1 DEF To1, ToHuge
  <2> QED BY <2>1, <2>2
<1> QED BY <1>2, <1>3, <1>4

\* Two memories that agree on all tables of the one translate alike.
LEMMA SameOn ==
    ASSUME NEW mem, NEW lev, NEW S, Tree(mem, lev, S), NEW n,
           \A y \in DOMAIN mem, j \in Index : /\ n[y][j].present = mem[y][j].present
                                              /\ n[y][j].huge = mem[y][j].huge
                                              /\ n[y][j].frame = mem[y][j].frame
    PROVE  Same(mem, n, S)
<1> SUFFICES ASSUME NEW s \in S, NEW w \in Page
             PROVE  paging_get_phys_on(n, s, w) = paging_get_phys_on(mem, s, w)
  BY DEF Same
<1> DEFINE L == 2 .. 4
           b == T2(mem, s, w)
           c == T1(mem, s, w)
<1>1. L \in SUBSET (2 .. 4) /\ 4 \in L /\ 3 \in L /\ {2, 3} \subseteq L
  OBVIOUS
<1>2. \A y \in DOMAIN mem, j \in Index :
            lev[y] \in L => /\ n[y][j].present = mem[y][j].present
                            /\ n[y][j].huge = mem[y][j].huge
                            /\ n[y][j].frame = mem[y][j].frame
  OBVIOUS
<1> HIDE DEF L
<1>3. /\ To1(n, s, w) = To1(mem, s, w) /\ ToHuge(n, s, w) = ToHuge(mem, s, w)
      /\ To1(mem, s, w) => T1(n, s, w) = c
      /\ ToHuge(mem, s, w) => n[T2(n, s, w)][w[3]].frame = mem[b][w[3]].frame
  BY <1>1, <1>2, SameWay
<1>4. To1(mem, s, w) => /\ n[c][w[4]].present = mem[c][w[4]].present
                        /\ n[c][w[4]].frame = mem[c][w[4]].frame
  <2>1. To1(mem, s, w) => c \in DOMAIN mem
    BY Path
  <2>2. w[4] \in Index
    BY PageIs
  <2> HIDE DEF c
  <2> QED BY <2>1, <2>2
<1> QED BY <1>3, <1>4, Looks

\* A change of the user bits alone changes no translation.
LEMMA UserKeeps ==
    ASSUME NEW mem, NEW lev, NEW S, Tree(mem, lev, S), NEW n \in Memories, DOMAIN n = DOMAIN mem,
           \A y \in DOMAIN mem, j \in Index : /\ n[y][j].present = mem[y][j].present
                                              /\ n[y][j].huge = mem[y][j].huge
                                              /\ n[y][j].frame = mem[y][j].frame
    PROVE  Tree(n, lev, S) /\ Same(mem, n, S)
<1>1. \A y \in DOMAIN mem, j \in Index : Points(n, lev, y, j) <=> Points(mem, lev, y, j)
  BY DEF Points
<1>2. Boot \in DOMAIN mem /\ S \subseteq DOMAIN mem
  BY DEF Tree
<1>3. Tree(n, lev, S)
  <2>1. lev \in [DOMAIN n -> 1 .. 4] /\ S = {x \in DOMAIN n : lev[x] = 4} /\ Boot \in S
    BY DEF Tree
  <2>2. \A x \in DOMAIN n, i \in Index :
           /\ n[x][i].huge => n[x][i].present /\ lev[x] = 2
           /\ Points(n, lev, x, i) => n[x][i].frame \in DOMAIN n /\ lev[n[x][i].frame] = lev[x] - 1
    BY <1>1 DEF Tree
  <2>3. \A x, y \in DOMAIN n, i, j \in Index :
           Points(n, lev, x, i) /\ Points(n, lev, y, j) /\ n[x][i].frame = n[y][j].frame
              => i = j /\ (x = y \/ lev[x] = 4)
    <3>1. \A x, y \in DOMAIN mem, i, j \in Index :
             Points(mem, lev, x, i) /\ Points(mem, lev, y, j) /\ mem[x][i].frame = mem[y][j].frame
                => i = j /\ (x = y \/ lev[x] = 4)
      BY DEF Tree
    <3> QED BY <1>1, <3>1
  <2>4. \A s \in S, i \in Index : /\ n[s][i].present = n[Boot][i].present
                                  /\ n[s][i].frame = n[Boot][i].frame
    BY <1>2 DEF Tree
  <2> QED BY <2>1, <2>2, <2>3, <2>4 DEF Tree
<1>4. Same(mem, n, S)
  BY SameOn
<1> QED BY <1>3, <1>4

\* A new table at frame f, entered at an index i of x that led nowhere or to a
\* huge page: it translates nothing, or what the huge page did.
Linked(mem, n, x, i, f, u) ==
    /\ n \in Memories /\ DOMAIN n = DOMAIN mem \cup {f}
    /\ n[x][i] = Entry(f, FALSE, u)
    /\ \A y \in DOMAIN mem, j \in Index : y # x \/ j # i => n[y][j] = mem[y][j]
    /\ \A j \in Index : n[f][j] = IF mem[x][i].huge THEN Entry(mem[x][i].frame + j, FALSE, u)
                                                    ELSE Absent

\* No translation changes.
LEMMA LinkSame ==
    ASSUME NEW mem, NEW lev, NEW S, Tree(mem, lev, S), NEW x \in DOMAIN mem, NEW i \in Index,
           lev[x] > 1, ~Points(mem, lev, x, i), NEW f \in Nat \ DOMAIN mem, NEW u \in BOOLEAN,
           NEW n, Linked(mem, n, x, i, f, u)
    PROVE  Same(mem, n, S)
<1> SUFFICES ASSUME NEW s \in S, NEW w \in Page
             PROVE  paging_get_phys_on(n, s, w) = paging_get_phys_on(mem, s, w)
  BY DEF Same
<1> DEFINE a == T3(mem, s, w)
           b == T2(mem, s, w)
           c == T1(mem, s, w)
<1>1. w[1] \in Index /\ w[2] \in Index /\ w[3] \in Index /\ w[4] \in Index
  BY PageIs
<1>2. /\ n[x][i].present /\ ~n[x][i].huge /\ n[x][i].frame = f
      /\ \A j \in Index : ~mem[x][i].huge => ~n[f][j].present /\ ~n[f][j].huge
  <2>1. n[x][i] = Entry(f, FALSE, u)
    BY DEF Linked
  <2>2. n[x][i].present /\ ~n[x][i].huge /\ n[x][i].frame = f
    BY <2>1 DEF Entry
  <2>3. \A j \in Index : ~mem[x][i].huge => n[f][j] = Absent
    BY DEF Linked
  <2> QED BY <2>2, <2>3, EntryIs
<1>3. /\ s \in DOMAIN mem /\ lev[s] = 4
      /\ To3(mem, s, w) => a \in DOMAIN mem /\ lev[a] = 3
      /\ To2(mem, s, w) => b \in DOMAIN mem /\ lev[b] = 2
      /\ To1(mem, s, w) => c \in DOMAIN mem /\ lev[c] = 1
  BY Path
<1>4. mem[x][i].huge => mem[x][i].present /\ lev[x] = 2
  BY DEF Tree
<1>5. \A y \in DOMAIN mem, j \in Index : y # x \/ j # i => n[y][j] = mem[y][j]
  BY DEF Linked
<1>6. CASE s = x /\ w[1] = i
  <2>1. ~mem[x][i].present /\ ~mem[x][i].huge
    BY <1>3, <1>4, <1>6 DEF Points
  <2>2. ~To3(mem, s, w)
    BY <1>6, <2>1 DEF To3
  <2>3. T3(n, s, w) = f
    BY <1>2, <1>6 DEF T3
  <2>4. ~To2(n, s, w)
    BY <1>1, <1>2, <2>1, <2>3 DEF To2
  <2> QED BY <2>2, <2>4, Looks DEF To2, To1, ToHuge
<1>7. CASE ~(s = x /\ w[1] = i)
  <2>1. n[s][w[1]] = mem[s][w[1]]
    BY <1>1, <1>3, <1>5, <1>7
  <2>2. To3(n, s, w) = To3(mem, s, w) /\ T3(n, s, w) = a
    BY <2>1 DEF To3, T3
  <2>3. CASE ~To3(mem, s, w)
    BY <2>2, <2>3, Looks DEF To2, To1, ToHuge
  <2>4. CASE To3(mem, s, w) /\ a = x /\ w[2] = i
    <3>1. ~mem[x][i].present /\ ~mem[x][i].huge
      BY <1>3, <1>4, <2>4 DEF Points
    <3>2. ~To2(mem, s, w)
      BY <2>4, <3>1 DEF To2
    <3>3. T2(n, s, w) = f
      BY <1>2, <2>2, <2>4 DEF T2
    <3>4. ~To1(n, s, w) /\ ~ToHuge(n, s, w)
      BY <1>1, <1>2, <3>1, <3>3 DEF To1, ToHuge
    <3> QED BY <3>2, <3>4, Looks DEF To1, ToHuge
  <2>5. CASE To3(mem, s, w) /\ ~(a = x /\ w[2] = i)
    <3>1. n[a][w[2]] = mem[a][w[2]]
      <4> HIDE DEF a
      <4> QED BY <1>1, <1>3, <1>5, <2>5
    <3>2. To2(n, s, w) = To2(mem, s, w) /\ T2(n, s, w) = b
      BY <2>2, <3>1 DEF To2, T2
    <3>3. CASE ~To2(mem, s, w)
      BY <3>2, <3>3, Looks DEF To1, ToHuge
    <3>4. CASE To2(mem, s, w) /\ b = x /\ w[3] = i
      <4>1. To1(n, s, w) /\ T1(n, s, w) = f /\ ~ToHuge(n, s, w)
        BY <1>2, <3>2, <3>4 DEF To1, T1, ToHuge
      <4>2. CASE mem[x][i].huge
        <5>1. n[f][w[4]].present /\ n[f][w[4]].frame = mem[x][i].frame + w[4]
          <6>1. n[f][w[4]] = Entry(mem[x][i].frame + w[4], FALSE, u)
            BY <1>1, <4>2 DEF Linked
          <6> QED BY <6>1 DEF Entry
        <5>2. ToHuge(mem, s, w)
          BY <3>4, <4>2 DEF ToHuge
        <5>3. paging_get_phys_on(mem, s, w) = mem[x][i].frame + w[4]
          <6>1. paging_get_phys_on(mem, s, w) = mem[b][w[3]].frame + w[4]
            BY <5>2, Looks
          <6> QED BY <3>4, <6>1
        <5>4. paging_get_phys_on(n, s, w) = n[f][w[4]].frame
          BY <4>1, <5>1, Looks
        <5> QED BY <5>1, <5>3, <5>4
      <4>3. CASE ~mem[x][i].huge
        <5>1. ~mem[x][i].present
          BY <1>3, <3>4, <4>3 DEF Points
        <5>2. ~To1(mem, s, w) /\ ~ToHuge(mem, s, w)
          BY <3>4, <4>3, <5>1 DEF To1, ToHuge
        <5>3. ~n[f][w[4]].present
          BY <1>1, <1>2, <4>3
        <5> QED BY <4>1, <5>2, <5>3, Looks
      <4> QED BY <4>2, <4>3
    <3>5. CASE To2(mem, s, w) /\ ~(b = x /\ w[3] = i)
      <4>1. n[b][w[3]] = mem[b][w[3]]
        <5> HIDE DEF b
        <5> QED BY <1>1, <1>3, <1>5, <3>5
      <4>2. To1(n, s, w) = To1(mem, s, w) /\ ToHuge(n, s, w) = ToHuge(mem, s, w) /\ T1(n, s, w) = c
        BY <3>2, <4>1 DEF To1, ToHuge, T1
      <4>3. To1(mem, s, w) => n[c][w[4]] = mem[c][w[4]]
        <5>1. To1(mem, s, w) => c # x
          BY <1>3
        <5> HIDE DEF c
        <5> QED BY <1>1, <1>3, <1>5, <5>1
      <4> QED BY <3>2, <4>1, <4>2, <4>3, Looks
    <3> QED BY <3>3, <3>4, <3>5
  <2> QED BY <2>3, <2>4, <2>5
<1> QED BY <1>6, <1>7

\* The level of a new table.
Levels(mem, lev, x, f) == [y \in DOMAIN mem \cup {f} |-> IF y = f THEN lev[x] - 1 ELSE lev[y]]

\* It extends the tree.  A new entry in a PML4 would be missing in its copies,
\* so there must be none yet.
LEMMA LinkTree ==
    ASSUME NEW mem, NEW lev, NEW S, Tree(mem, lev, S), NEW x \in DOMAIN mem, NEW i \in Index,
           lev[x] > 1, ~Points(mem, lev, x, i), NEW f \in Nat \ DOMAIN mem, NEW u \in BOOLEAN,
           NEW n, Linked(mem, n, x, i, f, u), lev[x] = 4 => S = {x}
    PROVE  Tree(n, Levels(mem, lev, x, f), S)
<1> DEFINE D == DOMAIN mem
           l == Levels(mem, lev, x, f)
<1>1. /\ lev \in [D -> 1 .. 4] /\ S = {y \in D : lev[y] = 4} /\ Boot \in S
      /\ \A y \in D, j \in Index :
            /\ mem[y][j].huge => mem[y][j].present /\ lev[y] = 2
            /\ Points(mem, lev, y, j) =>
                  mem[y][j].frame \in D /\ lev[mem[y][j].frame] = lev[y] - 1
  BY DEF Tree
<1>2. /\ l \in [D \cup {f} -> 1 .. 4] /\ l[f] = lev[x] - 1 /\ \A y \in D : l[y] = lev[y]
  <2>1. lev[x] - 1 \in 1 .. 4
    BY <1>1
  <2> QED BY <1>1, <2>1 DEF Levels
<1> HIDE DEF l
<1>3. /\ n \in Memories /\ DOMAIN n = D \cup {f}
      /\ \A y \in D, j \in Index : y # x \/ j # i => n[y][j] = mem[y][j]
  BY DEF Linked
<1>4. n[x][i].present /\ ~n[x][i].huge /\ n[x][i].frame = f
  BY DEF Linked, Entry
<1>5. \A j \in Index : ~n[f][j].huge /\ (n[f][j].present => l[f] = 1)
  <2> SUFFICES ASSUME NEW j \in Index PROVE ~n[f][j].huge /\ (n[f][j].present => l[f] = 1)
    OBVIOUS
  <2>1. CASE mem[x][i].huge
    <3>1. l[f] = 1
      BY <1>1, <1>2, <2>1
    <3>2. n[f][j] = Entry(mem[x][i].frame + j, FALSE, u)
      BY <2>1 DEF Linked
    <3> QED BY <3>1, <3>2 DEF Entry
  <2>2. CASE ~mem[x][i].huge
    <3>1. n[f][j] = Absent
      BY <2>2 DEF Linked
    <3> QED BY <3>1 DEF Absent
  <2> QED BY <2>1, <2>2
<1>6. ASSUME NEW y \in D \cup {f}, NEW j \in Index, Points(n, l, y, j)
      PROVE  /\ y \in D
             /\ (y = x /\ j = i) \/ (~(y = x /\ j = i) /\ Points(mem, lev, y, j)
                                   /\ n[y][j].frame = mem[y][j].frame)
  <2>1. y # f
    BY <1>2, <1>5, <1>6 DEF Points
  <2>2. y \in D /\ l[y] = lev[y]
    BY <1>2, <2>1
  <2>3. CASE ~(y = x /\ j = i)
    BY <1>3, <1>6, <2>2, <2>3 DEF Points
  <2> QED BY <2>2, <2>3
<1>7. \A y \in D \cup {f}, j \in Index :
         /\ n[y][j].huge => n[y][j].present /\ l[y] = 2
         /\ Points(n, l, y, j) => n[y][j].frame \in D \cup {f} /\ l[n[y][j].frame] = l[y] - 1
  <2> SUFFICES ASSUME NEW y \in D \cup {f}, NEW j \in Index
               PROVE  /\ n[y][j].huge => n[y][j].present /\ l[y] = 2
                      /\ Points(n, l, y, j) => /\ n[y][j].frame \in D \cup {f}
                                               /\ l[n[y][j].frame] = l[y] - 1
    OBVIOUS
  <2>1. n[y][j].huge => n[y][j].present /\ l[y] = 2
    <3>1. CASE y = f
      BY <1>5, <3>1
    <3>2. CASE y # f /\ ~(y = x /\ j = i)
      BY <1>1, <1>2, <1>3, <3>2
    <3>3. CASE y = x /\ j = i
      BY <1>4, <3>3
    <3> QED BY <3>1, <3>2, <3>3
  <2>2. ASSUME Points(n, l, y, j)
        PROVE  n[y][j].frame \in D \cup {f} /\ l[n[y][j].frame] = l[y] - 1
    <3>1. CASE y = x /\ j = i
      BY <1>2, <1>4, <3>1
    <3>2. CASE ~(y = x /\ j = i)
      <4>1. y \in D /\ Points(mem, lev, y, j) /\ n[y][j].frame = mem[y][j].frame
        BY <1>6, <2>2, <3>2
      <4>2. mem[y][j].frame \in D /\ lev[mem[y][j].frame] = lev[y] - 1
        BY <1>1, <4>1
      <4> QED BY <1>2, <4>1, <4>2
    <3> QED BY <3>1, <3>2
  <2> QED BY <2>1, <2>2
<1>8. ASSUME NEW y \in D \cup {f}, NEW z \in D \cup {f}, NEW j \in Index, NEW k \in Index,
             Points(n, l, y, j), Points(n, l, z, k), n[y][j].frame = n[z][k].frame
      PROVE  j = k /\ (y = z \/ l[y] = 4)
  <2>1. \A t \in D, m \in Index : Points(mem, lev, t, m) => mem[t][m].frame # f
    BY <1>1
  <2>2. CASE y = x /\ j = i
    <3>1. n[z][k].frame = f
      BY <1>4, <1>8, <2>2
    <3>2. z = x /\ k = i
      BY <1>6, <1>8, <2>1, <3>1
    <3> QED BY <2>2, <3>2
  <2>3. CASE ~(y = x /\ j = i)
    <3>1. y \in D /\ Points(mem, lev, y, j) /\ n[y][j].frame = mem[y][j].frame
      BY <1>6, <1>8, <2>3
    <3>2. n[z][k].frame # f
      BY <1>8, <2>1, <3>1
    <3>3. z \in D /\ Points(mem, lev, z, k) /\ n[z][k].frame = mem[z][k].frame
      BY <1>4, <1>6, <1>8, <3>2
    <3>4. j = k /\ (y = z \/ lev[y] = 4)
      <4>1. \A t, m \in D, a, b \in Index :
               Points(mem, lev, t, a) /\ Points(mem, lev, m, b) /\ mem[t][a].frame = mem[m][b].frame
                  => a = b /\ (t = m \/ lev[t] = 4)
        BY DEF Tree
      <4> QED BY <1>8, <3>1, <3>3, <4>1
    <3> QED BY <1>2, <3>1, <3>4
  <2> QED BY <2>2, <2>3
<1>9. S = {y \in D \cup {f} : l[y] = 4}
  <2>1. l[f] # 4
    BY <1>1, <1>2
  <2> QED BY <1>1, <1>2, <2>1
<1>10. \A s \in S, j \in Index : /\ n[s][j].present = n[Boot][j].present
                                 /\ n[s][j].frame = n[Boot][j].frame
  <2>1. CASE lev[x] = 4
    BY <1>1, <2>1
  <2>2. CASE lev[x] # 4
    <3>1. \A s \in S : s \in D /\ s # x
      <4> HIDE DEF D
      <4> QED BY <1>1, <2>2
    <3>2. \A s \in S, j \in Index : n[s][j] = mem[s][j]
      BY <1>3, <3>1
    <3>3. \A s \in S, j \in Index : /\ mem[s][j].present = mem[Boot][j].present
                                    /\ mem[s][j].frame = mem[Boot][j].frame
      BY DEF Tree
    <3> QED BY <1>1, <3>2, <3>3
  <2> QED BY <2>1, <2>2
<1>11. l \in [DOMAIN n -> 1 .. 4]
  BY <1>2, <1>3
<1> HIDE DEF D
<1>12. Tree(n, l, S)
  BY <1>1, <1>3, <1>7, <1>8, <1>9, <1>10, <1>11 DEF Tree
<1> QED BY <1>12 DEF l

\* The entry of a page, at the end of its walk.
Moved(mem, n, S, v, f) ==
    \A s \in S, w \in Page :
       paging_get_phys_on(n, s, w) = IF w = v THEN f ELSE paging_get_phys_on(mem, s, w)

Leaf(mem, n, x, i, e) ==
    /\ n \in Memories /\ DOMAIN n = DOMAIN mem /\ n[x][i] = e
    /\ \A y \in DOMAIN mem, j \in Index : y # x \/ j # i => n[y][j] = mem[y][j]

\* It maps that page in every address space, and leaves the others.
LEMMA LeafMaps ==
    ASSUME NEW mem, NEW lev, NEW S, Tree(mem, lev, S), NEW p \in S, NEW v \in Page,
           To1(mem, p, v), NEW f \in Nat, NEW u, u \in BOOLEAN, NEW n, Leaf(mem, n, T1(mem, p, v), v[4], Entry(f, FALSE, u))
    PROVE  Tree(n, lev, S) /\ Moved(mem, n, S, v, f)
<1> DEFINE D == DOMAIN mem
           c == T1(mem, p, v)
           L == 2 .. 4
<1> USE DEF Leaf
<1>0. v[1] \in Index /\ v[2] \in Index /\ v[3] \in Index /\ v[4] \in Index
  BY PageIs
<1>1. c \in D /\ lev[c] = 1
  BY Path
<1> HIDE DEF c
<1>2. \A y \in D, j \in Index : lev[y] \in L => n[y][j] = mem[y][j]
  BY <1>1 DEF c
<1>3. n[c][v[4]].present /\ ~n[c][v[4]].huge /\ n[c][v[4]].frame = f
  BY DEF Entry, c
<1>4. \A y \in D, j \in Index : Points(n, lev, y, j) <=> Points(mem, lev, y, j)
  <2>1. lev \in [D -> 1 .. 4]
    BY DEF Tree
  <2>2. \A y \in D : lev[y] > 1 => lev[y] \in L
    BY <2>1
  <2> QED BY <1>2, <2>2 DEF Points
<1>5. \A y \in D, j \in Index : Points(mem, lev, y, j) => n[y][j] = mem[y][j]
  <2>1. lev \in [D -> 1 .. 4]
    BY DEF Tree
  <2>2. \A y \in D : lev[y] > 1 => lev[y] \in L
    BY <2>1
  <2> QED BY <1>2, <2>2 DEF Points
<1>6. Tree(n, lev, S)
  <2>1. lev \in [DOMAIN n -> 1 .. 4] /\ S = {x \in DOMAIN n : lev[x] = 4} /\ Boot \in S
    BY DEF Tree
  <2>2. \A x \in DOMAIN n, i \in Index :
           /\ n[x][i].huge => n[x][i].present /\ lev[x] = 2
           /\ Points(n, lev, x, i) => n[x][i].frame \in DOMAIN n /\ lev[n[x][i].frame] = lev[x] - 1
    <3> SUFFICES ASSUME NEW x \in D, NEW i \in Index
                 PROVE  /\ n[x][i].huge => n[x][i].present /\ lev[x] = 2
                        /\ Points(n, lev, x, i) =>
                             n[x][i].frame \in D /\ lev[n[x][i].frame] = lev[x] - 1
      OBVIOUS
    <3>1. n[x][i].huge => n[x][i].present /\ lev[x] = 2
      <4>1. CASE x = c /\ i = v[4]
        BY <1>3, <4>1
      <4>2. CASE ~(x = c /\ i = v[4])
        <5>1. n[x][i] = mem[x][i]
          BY <4>2 DEF c
        <5> QED BY <5>1 DEF Tree
      <4> QED BY <4>1, <4>2
    <3>2. Points(n, lev, x, i) => n[x][i].frame \in D /\ lev[n[x][i].frame] = lev[x] - 1
      BY <1>4, <1>5 DEF Tree
    <3> QED BY <3>1, <3>2
  <2>3. \A x, y \in DOMAIN n, i, j \in Index :
           Points(n, lev, x, i) /\ Points(n, lev, y, j) /\ n[x][i].frame = n[y][j].frame
              => i = j /\ (x = y \/ lev[x] = 4)
    <3>1. \A x, y \in DOMAIN mem, i, j \in Index :
             Points(mem, lev, x, i) /\ Points(mem, lev, y, j) /\ mem[x][i].frame = mem[y][j].frame
                => i = j /\ (x = y \/ lev[x] = 4)
      BY DEF Tree
    <3> QED BY <1>4, <1>5, <3>1
  <2>4. \A s \in S, i \in Index : /\ n[s][i].present = n[Boot][i].present
                                  /\ n[s][i].frame = n[Boot][i].frame
    <3>1. \A s \in S : s \in D /\ lev[s] \in L
      BY DEF Tree
    <3>2. \A s \in S, i \in Index : n[s][i] = mem[s][i]
      BY <1>2, <3>1
    <3>3. \A s \in S, i \in Index : /\ mem[s][i].present = mem[Boot][i].present
                                    /\ mem[s][i].frame = mem[Boot][i].frame
      BY DEF Tree
    <3> QED BY <2>1, <3>2, <3>3
  <2> QED BY <2>1, <2>2, <2>3, <2>4 DEF Tree
<1>7. ASSUME NEW s \in S, NEW w \in Page
      PROVE  paging_get_phys_on(n, s, w) = IF w = v THEN f ELSE paging_get_phys_on(mem, s, w)
  <2> DEFINE d == T1(mem, s, w)
             b == T2(mem, s, w)
  <2>0. w[4] \in Index
    BY PageIs
  <2>1. /\ To1(n, s, w) = To1(mem, s, w) /\ ToHuge(n, s, w) = ToHuge(mem, s, w)
        /\ To1(mem, s, w) => T1(n, s, w) = d
        /\ ToHuge(mem, s, w) => n[T2(n, s, w)][w[3]].frame = mem[b][w[3]].frame
    <3>1. L \in SUBSET (2 .. 4) /\ 4 \in L /\ 3 \in L /\ {2, 3} \subseteq L
      OBVIOUS
    <3>2. \A y \in DOMAIN mem, j \in Index :
                lev[y] \in L => /\ n[y][j].present = mem[y][j].present
                                /\ n[y][j].huge = mem[y][j].huge
                                /\ n[y][j].frame = mem[y][j].frame
      BY <1>2
    <3> HIDE DEF L
    <3> QED BY <3>1, <3>2, SameWay
  <2>2. w = v => To1(mem, s, w) /\ d = c
    <3> SUFFICES ASSUME w = v PROVE To1(mem, s, v) /\ T1(mem, s, v) = T1(mem, p, v)
      BY DEF c
    <3>1. mem[s][v[1]].present = mem[p][v[1]].present /\ mem[s][v[1]].frame = mem[p][v[1]].frame
      BY <1>0 DEF Tree
    <3> QED BY <3>1 DEF To1, To2, To3, T1, T2, T3
  <2>3. To1(mem, s, w) /\ d = c /\ w[4] = v[4] => w = v
    <3> SUFFICES ASSUME To1(mem, s, w), d = c, w[4] = v[4] PROVE w = v
      OBVIOUS
    <3> DEFINE b2 == T2(mem, p, v)
               a == T3(mem, s, w)
               a2 == T3(mem, p, v)
    <3>0. /\ To3(mem, s, w) /\ To2(mem, s, w) /\ To3(mem, p, v) /\ To2(mem, p, v)
      BY DEF To1, To2
    <3>1. /\ Points(mem, lev, s, w[1]) /\ Points(mem, lev, a, w[2]) /\ Points(mem, lev, b, w[3])
          /\ s \in D /\ a \in D /\ b \in D /\ lev[a] = 3 /\ lev[b] = 2
      BY <3>0, Path
    <3>2. /\ Points(mem, lev, p, v[1]) /\ Points(mem, lev, a2, v[2]) /\ Points(mem, lev, b2, v[3])
          /\ p \in D /\ a2 \in D /\ b2 \in D /\ lev[a2] = 3 /\ lev[b2] = 2
      BY <3>0, Path
    <3>3. w[1] \in Index /\ w[2] \in Index /\ w[3] \in Index
      BY PageIs
    <3>4. /\ mem[b][w[3]].frame = d /\ mem[b2][v[3]].frame = c /\ mem[a][w[2]].frame = b
          /\ mem[a2][v[2]].frame = b2 /\ mem[s][w[1]].frame = a /\ mem[p][v[1]].frame = a2
      BY DEF T1, T2, T3, c
    <3>5. \A x, y \in D, i, j \in Index :
             Points(mem, lev, x, i) /\ Points(mem, lev, y, j) /\ mem[x][i].frame = mem[y][j].frame
                => i = j /\ (x = y \/ lev[x] = 4)
      BY DEF Tree
    <3> HIDE DEF a, a2, b, b2, d, D
    <3>6. w[3] = v[3] /\ b = b2
      BY <1>0, <3>1, <3>2, <3>3, <3>4, <3>5
    <3>7. w[2] = v[2] /\ a = a2
      BY <1>0, <3>1, <3>2, <3>3, <3>4, <3>5, <3>6
    <3>8. w[1] = v[1]
      BY <1>0, <3>1, <3>2, <3>3, <3>4, <3>5, <3>7
    <3>9. w = <<w[1], w[2], w[3], w[4]>> /\ v = <<v[1], v[2], v[3], v[4]>>
      BY PageIs
    <3> QED BY <3>6, <3>7, <3>8, <3>9
  <2>4. CASE w = v
    <3>1. To1(n, s, w) /\ T1(n, s, w) = c /\ w[4] = v[4]
      BY <2>1, <2>2, <2>4
    <3>2. ~ToHuge(n, s, w)
      BY <3>1 DEF To1, ToHuge
    <3> QED BY <1>3, <2>4, <3>1, <3>2, Looks
  <2>5. CASE w # v
    <3>1. To1(mem, s, w) => n[d][w[4]] = mem[d][w[4]]
      <4>1. To1(mem, s, w) => d \in D /\ (d # c \/ w[4] # v[4])
        BY <2>3, <2>5, Path
      <4> HIDE DEF d
      <4> QED BY <2>0, <4>1 DEF c
    <3> QED BY <2>1, <2>5, <3>1, Looks
  <2> QED BY <2>4, <2>5
<1> QED BY <1>6, <1>7 DEF Moved

-----------------------------------------------------------------------------
(* One call of paging_map_page_on.                                         *)

\* Every set of natural numbers that is not empty has a least element.
LEMMA LeastNat ==
    ASSUME NEW S \in SUBSET Nat, S # {}
    PROVE  \E x \in S : \A y \in S : x <= y
<1> DEFINE R == OpToRel(<, Nat)
<1>1. IsWellFoundedOn(R, Nat)
  BY NatLessThanWellFounded
<1>2. \A x, y \in Nat : <<x, y>> \in R <=> x < y
  BY DEF OpToRel
<1> HIDE DEF R
<1>3. PICK x \in S : \A y \in S : ~ (<<y, x>> \in R)
  BY <1>1, WFMin
<1>4. \A y \in S : ~ (y < x)
  BY <1>2, <1>3
<1> QED BY <1>4

\* Induction over the natural numbers, for a set of them.
LEMMA Induction ==
    ASSUME NEW S, 0 \in S, \A n \in Nat : n \in S => n + 1 \in S
    PROVE  Nat \subseteq S
<1> SUFFICES ASSUME Nat \ S # {} PROVE FALSE
  OBVIOUS
<1>1. PICK x \in Nat \ S : \A y \in Nat \ S : x <= y
  <2>1. Nat \ S \in SUBSET Nat
    OBVIOUS
  <2> QED BY <2>1, LeastNat
<1>2. x # 0 /\ x - 1 \in Nat /\ x - 1 \in S
  BY <1>1
<1>3. (x - 1) + 1 \in S
  BY <1>2
<1> QED BY <1>1, <1>3

\* pmm_alloc finds a free frame if there is one.
LEMMA LowestIn ==
    ASSUME NEW S \in SUBSET Nat, S # {}
    PROVE  Lowest(S) \in S /\ Lowest(S) \in Nat
<1>1. \E f \in S : \A g \in S : f <= g
  BY LeastNat
<1> QED BY <1>1 DEF Lowest

\* An entry of a memory is changed.
LEMMA SetEntry ==
    ASSUME NEW mem \in Memories, NEW x \in DOMAIN mem, NEW i \in Index, NEW e \in PTE
    PROVE  LET n == [mem EXCEPT ![x] = [mem[x] EXCEPT ![i] = e]]
           IN  /\ n \in Memories /\ DOMAIN n = DOMAIN mem /\ n[x][i] = e
               /\ \A y \in DOMAIN mem, j \in Index : y # x \/ j # i => n[y][j] = mem[y][j]
<1> DEFINE row == [mem[x] EXCEPT ![i] = e]
           n == [mem EXCEPT ![x] = row]
           D == DOMAIN mem
<1>1. D \in SUBSET Nat /\ mem \in [D -> Table] /\ mem[x] \in Table
  BY MemoryIs
<1>2. row \in Table /\ row[i] = e /\ \A j \in Index : j # i => row[j] = mem[x][j]
  BY <1>1 DEF Table
<1> HIDE DEF row
<1>3. n \in [D -> Table] /\ n[x] = row /\ \A y \in D : y # x => n[y] = mem[y]
  BY <1>1, <1>2
<1>4. n \in Memories /\ DOMAIN n = D
  BY <1>1, <1>3, IsMemory
<1> HIDE DEF n
<1>5. n[x][i] = e /\ \A y \in D, j \in Index : y # x \/ j # i => n[y][j] = mem[y][j]
  BY <1>2, <1>3
<1> QED BY <1>4, <1>5 DEF n, row

\* A frame becomes a table.
Gains(mem, f, c, n) ==
    /\ n \in Memories /\ DOMAIN n = DOMAIN mem \cup {f} /\ n[f] = c
    /\ \A y \in DOMAIN mem : n[y] = mem[y]

\* So Filled gives it.
LEMMA FilledIs ==
    ASSUME NEW mem \in Memories, NEW f \in Nat, f \notin DOMAIN mem, NEW c \in Table,
           NEW n, n = Filled(mem, f, c)
    PROVE  Gains(mem, f, c, n)
<1> DEFINE D == DOMAIN mem
<1>1. D \in SUBSET Nat /\ \A y \in D : mem[y] \in Table
  BY MemoryIs
<1>2. n = [x \in D \cup {f} |-> IF x = f THEN c ELSE mem[x]]
  BY DEF Filled
<1>3. n \in [D \cup {f} -> Table] /\ n[f] = c /\ \A y \in D : n[y] = mem[y]
  BY <1>1, <1>2
<1>4. D \cup {f} \in SUBSET Nat
  BY <1>1
<1> HIDE DEF D
<1>5. n \in Memories /\ DOMAIN n = D \cup {f}
  BY <1>3, <1>4, IsMemory
<1> QED BY <1>3, <1>5 DEF D, Gains

\* The fields of a call, and what changes of them leave.
LEMMA CallFields ==
    ASSUME NEW m \in Calls
    PROVE  /\ m.memory \in Memories /\ m.free \in SUBSET Nat /\ m.at \in Nat /\ m.ok \in BOOLEAN
           /\ m.mapped \in SUBSET (Page \X Nat)
BY DEF Calls

\* Descend moves the call to the next table.
LEMMA CallGoes ==
    ASSUME NEW m \in Calls, NEW a \in Nat, NEW n, n = [m EXCEPT !.at = a]
    PROVE  /\ n \in Calls /\ n.memory = m.memory /\ n.free = m.free /\ n.at = a
           /\ n.ok = m.ok /\ n.mapped = m.mapped
BY DEF Calls

\* Failed changes the verdict alone.
LEMMA CallFails ==
    ASSUME NEW m \in Calls
    PROVE  /\ Failed(m) \in Calls /\ Failed(m).memory = m.memory /\ Failed(m).free = m.free
           /\ Failed(m).mapped = m.mapped /\ ~Failed(m).ok /\ Failed(m).at = m.at
BY DEF Calls, Failed

\* NewTable enters a free frame.
Entered(m, i, u, c, f, q) ==
    /\ f \in m.free /\ f \in Nat \ DOMAIN m.memory
    /\ q \in Calls /\ q.free = m.free \ {f} /\ q.at = m.at /\ q.ok = m.ok
    /\ q.mapped = m.mapped
    /\ DOMAIN q.memory = DOMAIN m.memory \cup {f} /\ q.memory[f] = c
    /\ q.memory[m.at][i] = Entry(f, FALSE, u)
    /\ \A y \in DOMAIN m.memory, j \in Index :
          y # m.at \/ j # i => q.memory[y][j] = m.memory[y][j]

\* So NewTable does, if there is one.
LEMMA NewTableIs ==
    ASSUME NEW m \in Calls, m.free \cap DOMAIN m.memory = {}, m.free # {}, m.at \in DOMAIN m.memory,
           NEW i \in Index, NEW u, u \in BOOLEAN, NEW c \in Table,
           NEW f, f = Lowest(m.free), NEW q, q = NewTable(m, i, u, c)
    PROVE  Entered(m, i, u, c, f, q)
<1> DEFINE x == m.at
           mem == m.memory
           e == Entry(f, FALSE, u)
           M == [mem EXCEPT ![x] = [mem[x] EXCEPT ![i] = e]]
           N == Filled(M, f, c)
           F == m.free \ {f}
<1>1. mem \in Memories /\ m.free \in SUBSET Nat
  BY CallFields
<1>2. f \in m.free /\ f \in Nat \ DOMAIN mem
  BY <1>1, LowestIn
<1>3. q = [m EXCEPT !.memory = N, !.free = F]
  <2>1. [mem EXCEPT ![x][i] = e] = M
    OBVIOUS
  <2>2. q = [m EXCEPT !.memory = Filled([mem EXCEPT ![x][i] = e], f, c), !.free = F]
    BY DEF NewTable, Calls
  <2> QED BY <2>1, <2>2
<1>4. e \in PTE
  BY <1>2 DEF Entry, PTE
<1> HIDE DEF e
<1>5. /\ M \in Memories /\ DOMAIN M = DOMAIN mem /\ M[x][i] = e
      /\ \A y \in DOMAIN mem, j \in Index : y # x \/ j # i => M[y][j] = mem[y][j]
  BY <1>1, <1>4, SetEntry
<1> HIDE DEF M
<1>6. /\ N \in Memories /\ DOMAIN N = DOMAIN M \cup {f} /\ N[f] = c
      /\ \A y \in DOMAIN M : N[y] = M[y]
  <2>1. f \in Nat /\ f \notin DOMAIN M
    BY <1>2, <1>5
  <2>2. M \in Memories
    BY <1>5
  <2>3. N = Filled(M, f, c)
    OBVIOUS
  <2> HIDE DEF mem, x, F, N
  <2>4. Gains(M, f, c, N)
    BY <2>1, <2>2, <2>3, FilledIs
  <2> QED BY <2>4 DEF Gains
<1> HIDE DEF N
<1>7. F \in SUBSET Nat
  BY <1>1
<1> HIDE DEF F
<1>8. q \in Calls /\ q.memory = N /\ q.free = F /\ q.at = m.at /\ q.ok = m.ok /\ q.mapped = m.mapped
  BY <1>3, <1>6, <1>7 DEF Calls
<1>9. /\ q \in Calls /\ q.free = F /\ q.at = x /\ q.ok = m.ok /\ q.mapped = m.mapped
      /\ DOMAIN q.memory = DOMAIN mem \cup {f} /\ q.memory[f] = c /\ q.memory[x][i] = e
      /\ \A y \in DOMAIN mem, j \in Index : y # x \/ j # i => q.memory[y][j] = mem[y][j]
  BY <1>5, <1>6, <1>8
<1> QED BY <1>2, <1>9 DEF e, F, Entered

\* A call that may go on, and what it has left as it was.
Ready(m, S) ==
    m \in Calls /\ (\E lev : Tree(m.memory, lev, S)) /\ m.free \cap DOMAIN m.memory = {}

Kept(m, r, S) ==
    /\ r \in Calls /\ \E lev : Tree(r.memory, lev, S)
    /\ r.free \subseteq m.free /\ DOMAIN r.memory = DOMAIN m.memory \cup (m.free \ r.free)
    /\ Same(m.memory, r.memory, S) /\ r.mapped = m.mapped
    /\ \A y \in DOMAIN m.memory, j \in Index :
          m.memory[y][j].present => r.memory[y][j].present

\* Such a call may go on.
LEMMA KeptReady ==
    ASSUME NEW m, NEW r, NEW S, Ready(m, S), Kept(m, r, S)
    PROVE  Ready(r, S)
BY DEF Ready, Kept

\* Two such steps are one.
LEMMA KeptAgain ==
    ASSUME NEW m, NEW q, NEW r, NEW S, Kept(m, q, S), Kept(q, r, S), Ready(m, S)
    PROVE  Kept(m, r, S)
<1>1. r \in Calls /\ (\E lev : Tree(r.memory, lev, S)) /\ r.mapped = m.mapped
  BY DEF Kept
<1>2. r.free \subseteq m.free /\ DOMAIN r.memory = DOMAIN m.memory \cup (m.free \ r.free)
  BY DEF Kept
<1>3. Same(m.memory, r.memory, S)
  BY DEF Kept, Same
<1>4. \A y \in DOMAIN m.memory, j \in Index :
          m.memory[y][j].present => r.memory[y][j].present
  BY DEF Kept
<1> QED BY <1>1, <1>2, <1>3, <1>4 DEF Kept

\* Only the position and the verdict of a call change.
LEMMA KeptSame ==
    ASSUME NEW m, NEW r \in Calls, NEW S, Ready(m, S),
           r.memory = m.memory, r.free = m.free, r.mapped = m.mapped
    PROVE  Kept(m, r, S)
<1>1. (m.free \ r.free) = {}
  OBVIOUS
<1> QED BY <1>1 DEF Kept, Ready, Same

\* What Descend and Split change of the tables.
Only(m, i, r) == \A y \in DOMAIN m.memory, j \in Index :
                    y # m.at \/ j # i => r.memory[y][j] = m.memory[y][j]

\* A new table leaves every translation as it was.
Added(m, i, q, S) ==
    /\ Kept(m, q, S) /\ Only(m, i, q) /\ q.at = m.at /\ q.ok = m.ok
    /\ q.memory[m.at][i].present /\ ~q.memory[m.at][i].huge

\* So it does when it is empty or holds the pages of a huge page.
LEMMA LinkKept ==
    ASSUME NEW m, NEW lev, NEW S, Ready(m, S), Tree(m.memory, lev, S), m.free # {},
           m.at \in DOMAIN m.memory, NEW i \in Index, NEW u, u \in BOOLEAN, NEW c \in Table,
           lev[m.at] > 1, ~Points(m.memory, lev, m.at, i), lev[m.at] = 4 => S = {m.at},
           \A j \in Index :
              c[j] = IF m.memory[m.at][i].huge THEN Entry(m.memory[m.at][i].frame + j, FALSE, u)
                                               ELSE Absent,
           NEW q, q = NewTable(m, i, u, c)
    PROVE  Added(m, i, q, S)
<1> DEFINE x == m.at
           mem == m.memory
           n == q.memory
           f == Lowest(m.free)
<1>1. /\ f \in m.free /\ f \in Nat \ DOMAIN mem
      /\ q \in Calls /\ q.free = m.free \ {f} /\ q.at = x /\ q.ok = m.ok
      /\ q.mapped = m.mapped
      /\ DOMAIN n = DOMAIN mem \cup {f} /\ n[f] = c
      /\ n[x][i] = Entry(f, FALSE, u)
      /\ \A y \in DOMAIN mem, j \in Index : y # x \/ j # i => n[y][j] = mem[y][j]
  <2>1. m \in Calls /\ m.free \cap DOMAIN m.memory = {}
    BY DEF Ready
  <2>2. f = Lowest(m.free) /\ u \in BOOLEAN
    OBVIOUS
  <2> HIDE DEF f
  <2>3. Entered(m, i, u, c, f, q)
    BY <2>1, <2>2, NewTableIs
  <2> QED BY <2>3 DEF Entered
<1> HIDE DEF f
<1>2. n \in Memories
  BY <1>1, CallFields
<1>3. Linked(mem, n, x, i, f, u)
  BY <1>1, <1>2 DEF Linked
<1>4. n[x][i].present /\ ~n[x][i].huge
  BY <1>1 DEF Entry
<1>5. Same(mem, n, S)
  BY <1>1, <1>3, LinkSame
<1>6. Tree(n, Levels(mem, lev, x, f), S)
  BY <1>1, <1>3, LinkTree
<1>7. \A y \in DOMAIN mem, j \in Index : mem[y][j].present => n[y][j].present
  BY <1>1, <1>4
<1>8. q.free \subseteq m.free /\ DOMAIN n = DOMAIN mem \cup (m.free \ q.free)
  BY <1>1
<1>9. Kept(m, q, S)
  BY <1>1, <1>5, <1>6, <1>7, <1>8 DEF Kept
<1>10. Only(m, i, q)
  BY <1>1 DEF Only
<1> QED BY <1>1, <1>4, <1>9, <1>10 DEF Added

\* What Descend and Split do to a call that has come to m.at: index i of that
\* table leads to a table then, or the frames have run out.
Down(m, i, r, S) ==
    /\ Kept(m, r, S) /\ Only(m, i, r)
    /\ r.ok => /\ m.ok /\ r.memory[m.at][i].present /\ ~r.memory[m.at][i].huge
               /\ r.at = r.memory[m.at][i].frame
    /\ m.ok /\ ~r.ok => m.free = {}
Unhuge(m, i, r, S) ==
    /\ Kept(m, r, S) /\ Only(m, i, r) /\ r.at = m.at
    /\ r.ok => m.ok /\ ~r.memory[m.at][i].huge
    /\ m.ok /\ ~r.ok => m.free = {}

\* A call that fails has changed nothing.
LEMMA FailedIs ==
    ASSUME NEW m, NEW S, Ready(m, S), NEW i
    PROVE  /\ Kept(m, Failed(m), S) /\ Only(m, i, Failed(m))
           /\ ~Failed(m).ok /\ Failed(m).at = m.at
<1>1. m \in Calls
  BY DEF Ready
<1>2. /\ Failed(m) \in Calls /\ Failed(m).memory = m.memory /\ Failed(m).free = m.free
      /\ Failed(m).mapped = m.mapped /\ ~Failed(m).ok /\ Failed(m).at = m.at
  BY <1>1, CallFails
<1>3. Kept(m, Failed(m), S)
  BY <1>2, KeptSame
<1> QED BY <1>2, <1>3 DEF Only

\* An entry that is there gets the user bit.
Marked(m, i, n, S) ==
    /\ Kept(m, n, S) /\ Only(m, i, n) /\ n.ok = m.ok /\ n.at = m.at
    /\ n.memory[m.at][i].present = m.memory[m.at][i].present
    /\ n.memory[m.at][i].huge = m.memory[m.at][i].huge
    /\ n.memory[m.at][i].frame = m.memory[m.at][i].frame

\* So AddUser does.
LEMMA UserIs ==
    ASSUME NEW m, NEW lev, NEW S, Ready(m, S), Tree(m.memory, lev, S),
           m.at \in DOMAIN m.memory, NEW i \in Index, NEW u, u \in BOOLEAN,
           NEW n, n = AddUser(m, i, u)
    PROVE  Marked(m, i, n, S)
<1> DEFINE x == m.at
           mem == m.memory
           e == mem[x][i]
           d == [e EXCEPT !.user = e.user \/ u]
           M == [mem EXCEPT ![x] = [mem[x] EXCEPT ![i] = d]]
<1>1. m \in Calls /\ mem \in Memories
  BY CallFields DEF Ready
<1>2. e \in PTE
  BY <1>1, MemoryIs
<1>3. d \in PTE /\ d.present = e.present /\ d.huge = e.huge /\ d.frame = e.frame
  <2> HIDE DEF e
  <2> QED BY <1>2 DEF PTE
<1>4. n = [m EXCEPT !.memory = M]
  <2>1. [mem EXCEPT ![x][i].user = @ \/ u] = M
    OBVIOUS
  <2>2. n = [m EXCEPT !.memory = [mem EXCEPT ![x][i].user = @ \/ u]]
    BY DEF AddUser
  <2> QED BY <2>1, <2>2
<1> HIDE DEF d
<1>5. /\ M \in Memories /\ DOMAIN M = DOMAIN mem /\ M[x][i] = d
      /\ \A y \in DOMAIN mem, j \in Index : y # x \/ j # i => M[y][j] = mem[y][j]
  BY <1>1, <1>3, SetEntry
<1> HIDE DEF M
<1>6. /\ n \in Calls /\ n.memory = M /\ n.free = m.free /\ n.at = m.at
      /\ n.ok = m.ok /\ n.mapped = m.mapped
  BY <1>1, <1>4, <1>5 DEF Calls
<1>7. \A y \in DOMAIN mem, j \in Index : /\ M[y][j].present = mem[y][j].present
                                         /\ M[y][j].huge = mem[y][j].huge
                                         /\ M[y][j].frame = mem[y][j].frame
  BY <1>3, <1>5
<1>8. Tree(M, lev, S) /\ Same(mem, M, S)
  BY <1>5, <1>7, UserKeeps
<1>9. n.free \subseteq m.free /\ DOMAIN n.memory = DOMAIN mem \cup (m.free \ n.free)
  BY <1>5, <1>6
<1>10. Kept(m, n, S)
  <2>1. \E l : Tree(n.memory, l, S)
    BY <1>6, <1>8
  <2>2. \A y \in DOMAIN mem, j \in Index : mem[y][j].present => n.memory[y][j].present
    BY <1>6, <1>7
  <2>3. Same(m.memory, n.memory, S)
    BY <1>6, <1>8
  <2> QED BY <1>6, <1>9, <2>1, <2>2, <2>3 DEF Kept
<1>11. Only(m, i, n)
  BY <1>5, <1>6 DEF Only
<1>12. /\ n.memory[x][i].present = mem[x][i].present /\ n.memory[x][i].huge = mem[x][i].huge
       /\ n.memory[x][i].frame = mem[x][i].frame
  BY <1>6, <1>7
<1> QED BY <1>6, <1>10, <1>11, <1>12 DEF Marked

\* paging_get_or_create_table at a table of level 2 or more, not at a huge page.
MayDescend(m, i, lev, S) ==
    m.ok => /\ m.at \in DOMAIN m.memory /\ lev[m.at] > 1 /\ ~m.memory[m.at][i].huge
            /\ lev[m.at] = 4 => m.memory[m.at][i].present \/ S = {m.at}

\* It ends at the table that index i leads to.
LEMMA DescendIs ==
    ASSUME NEW m, NEW lev, NEW S, Ready(m, S), Tree(m.memory, lev, S),
           NEW i \in Index, NEW u, u \in BOOLEAN, NEW r, r = Descend(m, i, u),
           MayDescend(m, i, lev, S)
    PROVE  Down(m, i, r, S)
<1> DEFINE e == m.memory[m.at][i]
           p == AddUser(m, i, u)
           q == NewTable(m, i, u, Empty)
           n == IF e.present THEN p ELSE q
<1>1. r = IF ~m.ok \/ (~e.present /\ m.free = {}) THEN Failed(m)
          ELSE [n EXCEPT !.at = n.memory[m.at][i].frame]
  BY DEF Descend
<1>2. m.ok => /\ m.at \in DOMAIN m.memory /\ lev[m.at] > 1 /\ ~m.memory[m.at][i].huge
              /\ lev[m.at] = 4 => m.memory[m.at][i].present \/ S = {m.at}
  BY DEF MayDescend
<1>3. CASE ~m.ok \/ (~e.present /\ m.free = {})
  <2>1. r = Failed(m)
    <3> HIDE DEF n, e
    <3> QED BY <1>1, <1>3
  <2>2. /\ Kept(m, r, S) /\ Only(m, i, r) /\ ~r.ok
    BY <2>1, FailedIs
  <2> QED BY <1>3, <2>2 DEF Down
<1>4. ASSUME m.ok, e.present \/ m.free # {}
      PROVE  r = [n EXCEPT !.at = n.memory[m.at][i].frame]
  <2> HIDE DEF n, e
  <2> QED BY <1>1, <1>4
<1>5. CASE m.ok /\ e.present
  <2>1. r = [p EXCEPT !.at = p.memory[m.at][i].frame]
    <3>1. n = p
      BY <1>5
    <3> HIDE DEF n
    <3> QED BY <1>5, <1>4, <3>1
  <2>2. Marked(m, i, p, S)
    <3>1. p = AddUser(m, i, u)
      OBVIOUS
    <3> HIDE DEF p, q, n
    <3> QED BY <1>5, <1>2, <3>1, UserIs
  <2> HIDE DEF p, q, n
  <2>3. /\ Kept(m, p, S) /\ Only(m, i, p) /\ p.ok = m.ok /\ p.at = m.at
        /\ p.memory[m.at][i].present /\ ~p.memory[m.at][i].huge
        /\ p.memory[m.at][i].frame = m.memory[m.at][i].frame
    BY <1>5, <1>2, <2>2 DEF Marked
  <2>4. Ready(p, S) /\ p \in Calls
    <3>1. Ready(p, S)
      BY <2>3, KeptReady
    <3> QED BY <3>1 DEF Ready
  <2>5. p.memory[m.at][i].frame \in Nat
    <3>1. e \in PTE
      BY <1>5, <1>2, MemoryIs, CallFields DEF Ready
    <3> HIDE DEF e
    <3>2. e.frame \in Nat
      BY <3>1 DEF PTE
    <3> QED BY <2>3, <3>2 DEF e
  <2>6. /\ r \in Calls /\ r.memory = p.memory /\ r.free = p.free /\ r.ok = p.ok
        /\ r.at = p.memory[m.at][i].frame /\ r.mapped = p.mapped
    BY <2>1, <2>4, <2>5, CallGoes
  <2>7. Kept(m, r, S)
    <3>1. Kept(p, r, S)
      BY <2>4, <2>6, KeptSame
    <3> QED BY <2>3, <3>1, KeptAgain
  <2>8. Only(m, i, r)
    BY <2>3, <2>6 DEF Only
  <2> QED BY <1>5, <2>3, <2>6, <2>7, <2>8 DEF Down
<1>6. CASE m.ok /\ ~e.present /\ m.free # {}
  <2>1. r = [q EXCEPT !.at = q.memory[m.at][i].frame]
    <3>1. n = q
      BY <1>6
    <3> HIDE DEF n
    <3> QED BY <1>6, <1>4, <3>1
  <2>2. Added(m, i, q, S)
    <3>1. \A j \in Index :
             Empty[j] = IF m.memory[m.at][i].huge THEN Entry(m.memory[m.at][i].frame + j, FALSE, u)
                                                  ELSE Absent
      BY <1>6, <1>2 DEF Empty
    <3>2. Empty \in Table
      BY EntryIs
    <3>3. ~Points(m.memory, lev, m.at, i)
      BY <1>6, <1>2 DEF Points
    <3>4. lev[m.at] = 4 => S = {m.at}
      BY <1>6, <1>2
    <3>5. q = NewTable(m, i, u, Empty)
      OBVIOUS
    <3> HIDE DEF q, p, n
    <3> QED BY <1>6, <1>2, <3>1, <3>2, <3>3, <3>4, <3>5, LinkKept
  <2> HIDE DEF q, p, n
  <2>3. /\ Kept(m, q, S) /\ Only(m, i, q) /\ q.at = m.at /\ q.ok = m.ok
        /\ q.memory[m.at][i].present /\ ~q.memory[m.at][i].huge
    BY <2>2 DEF Added
  <2>4. Ready(q, S) /\ q \in Calls
    <3>1. Ready(q, S)
      BY <2>3, KeptReady
    <3> QED BY <3>1 DEF Ready
  <2>5. q.memory[m.at][i].frame \in Nat
    <3>1. m.at \in DOMAIN q.memory /\ q.memory \in Memories
      BY <1>6, <1>2, <2>3, <2>4, CallFields DEF Kept
    <3>2. q.memory[m.at][i] \in PTE
      BY <3>1, MemoryIs
    <3> QED BY <3>2 DEF PTE
  <2>6. /\ r \in Calls /\ r.memory = q.memory /\ r.free = q.free /\ r.ok = q.ok
        /\ r.at = q.memory[m.at][i].frame /\ r.mapped = q.mapped
    BY <2>1, <2>4, <2>5, CallGoes
  <2>7. Kept(m, r, S)
    <3>1. Kept(q, r, S)
      BY <2>4, <2>6, KeptSame
    <3> QED BY <2>3, <3>1, KeptAgain
  <2>8. Only(m, i, r)
    BY <2>3, <2>6 DEF Only
  <2> QED BY <1>6, <2>3, <2>6, <2>7, <2>8 DEF Down
<1> QED BY <1>3, <1>5, <1>6

\* The huge page of an entry becomes a table of pages.
LEMMA SplitIs ==
    ASSUME NEW m, NEW lev, NEW S, Ready(m, S), Tree(m.memory, lev, S),
           NEW i \in Index, NEW u, u \in BOOLEAN, NEW r, r = Split(m, i, u),
           m.ok => m.at \in DOMAIN m.memory
    PROVE  Unhuge(m, i, r, S)
<1> DEFINE e == m.memory[m.at][i]
           c == [j \in Index |-> Entry(e.frame + j, FALSE, u)]
           q == NewTable(m, i, u, c)
<1>0. r = IF ~m.ok \/ ~e.huge THEN m ELSE IF m.free = {} THEN Failed(m) ELSE q
  BY DEF Split
<1>1. CASE ~m.ok \/ ~e.huge
  <2>1. r = m /\ r \in Calls
    <3> HIDE DEF q, e
    <3> QED BY <1>0, <1>1 DEF Ready
  <2>2. Kept(m, r, S) /\ Only(m, i, r)
    BY <2>1, KeptSame DEF Only
  <2> QED BY <1>1, <2>1, <2>2 DEF Unhuge
<1>2. CASE m.ok /\ e.huge /\ m.free = {}
  <2>1. r = Failed(m)
    <3> HIDE DEF q, e
    <3> QED BY <1>0, <1>2
  <2>2. Kept(m, r, S) /\ Only(m, i, r) /\ ~r.ok /\ r.at = m.at
    BY <2>1, FailedIs
  <2> QED BY <1>2, <2>2 DEF Unhuge
<1>3. CASE m.ok /\ e.huge /\ m.free # {}
  <2>1. r = q
    <3> HIDE DEF q, e
    <3> QED BY <1>0, <1>3
  <2>2. e.present /\ lev[m.at] = 2
    BY <1>3 DEF Tree
  <2>3. c \in Table
    <3>1. e \in PTE
      BY <1>3, MemoryIs, CallFields DEF Ready
    <3> HIDE DEF e
    <3>2. e.frame \in Nat
      BY <3>1 DEF PTE
    <3>3. \A j \in Index : e.frame + j \in Nat
      BY <3>2 DEF Index
    <3>4. \A j \in Index : Entry(e.frame + j, FALSE, u) \in PTE
      BY <3>3 DEF Entry, PTE
    <3> QED BY <3>4 DEF Table
  <2>4. Added(m, i, q, S)
    <3>1. \A j \in Index :
             c[j] = IF m.memory[m.at][i].huge THEN Entry(m.memory[m.at][i].frame + j, FALSE, u)
                                              ELSE Absent
      BY <1>3
    <3>2. ~Points(m.memory, lev, m.at, i)
      BY <1>3 DEF Points
    <3>3. lev[m.at] > 1 /\ lev[m.at] # 4
      BY <2>2
    <3>4. q = NewTable(m, i, u, c)
      OBVIOUS
    <3> HIDE DEF q, c
    <3> QED BY <1>3, <2>3, <3>1, <3>2, <3>3, <3>4, LinkKept
  <2> HIDE DEF q, c
  <2> QED BY <1>3, <2>1, <2>4 DEF Added, Unhuge
<1> QED BY <1>1, <1>2, <1>3

\* Where a walk has come to stays so when an entry further on changes.
LEMMA Stay3 ==
    ASSUME NEW m, NEW lev, NEW S, Tree(m.memory, lev, S), NEW p \in S, NEW v \in Page,
           NEW i, NEW r, Only(m, i, r), To3(m.memory, p, v), m.at # p
    PROVE  To3(r.memory, p, v) /\ T3(r.memory, p, v) = T3(m.memory, p, v)
<1>1. v[1] \in Index /\ p \in DOMAIN m.memory
  BY PageIs, Path
<1>2. r.memory[p][v[1]] = m.memory[p][v[1]]
  BY <1>1 DEF Only
<1> QED BY <1>2 DEF To3, T3

\* The same, one level down.
LEMMA Stay2 ==
    ASSUME NEW m, NEW lev, NEW S, Tree(m.memory, lev, S), NEW p \in S, NEW v \in Page,
           NEW i, NEW r, Only(m, i, r), To2(m.memory, p, v), lev[m.at] = 2
    PROVE  To2(r.memory, p, v) /\ T2(r.memory, p, v) = T2(m.memory, p, v)
<1> DEFINE a == T3(m.memory, p, v)
<1>1. To3(m.memory, p, v) /\ m.memory[a][v[2]].present
  BY DEF To2
<1>2. m.at # p /\ a \in DOMAIN m.memory /\ a # m.at /\ v[2] \in Index
  BY <1>1, Path, PageIs
<1>3. To3(r.memory, p, v) /\ T3(r.memory, p, v) = a
  BY <1>1, <1>2, Stay3
<1>4. r.memory[a][v[2]] = m.memory[a][v[2]]
  <2> HIDE DEF a
  <2> QED BY <1>2 DEF Only
<1> QED BY <1>1, <1>3, <1>4 DEF To2, T2

\* The walk of paging_map_page_on ends at the table of the page, or the frames
\* have run out; a new entry of the PML4 is there even then.
Walked(m, p, v, S, r) ==
    /\ Kept(m, r, S)
    /\ r.ok => To1(r.memory, p, v) /\ r.at = T1(r.memory, p, v)
    /\ m.free # {} => r.memory[p][v[1]].present

\* Descend, Descend, Split and Descend walk so.
LEMMA Walk ==
    ASSUME NEW m, NEW S, Ready(m, S), NEW p \in S, NEW v \in Page, NEW u, u \in BOOLEAN,
           m.memory[p][v[1]].present \/ S = {p}, p \in Nat,
           NEW m0, m0 \in Calls, m0.memory = m.memory, m0.free = m.free,
           m0.mapped = m.mapped, m0.at = p, m0.ok,
           NEW m3, m3 = Descend(m0, v[1], u), NEW m2, m2 = Descend(m3, v[2], u),
           NEW ms, ms = Split(m2, v[3], u), NEW m1, m1 = Descend(ms, v[3], u)
    PROVE  Walked(m, p, v, S, m1)
<1>0. v[1] \in Index /\ v[2] \in Index /\ v[3] \in Index
  BY PageIs
<1>2. Kept(m, m0, S) /\ Ready(m0, S)
  BY KeptSame, KeptReady
<1>3. Down(m0, v[1], m3, S)
  <2>1. PICK lev : Tree(m0.memory, lev, S)
    BY <1>2 DEF Ready
  <2>2. p \in DOMAIN m0.memory /\ lev[p] = 4
    BY <2>1, Path
  <2>3. ~m0.memory[p][v[1]].huge
    BY <1>0, <2>1, <2>2 DEF Tree
  <2>4. MayDescend(m0, v[1], lev, S)
    BY <2>2, <2>3 DEF MayDescend
  <2> QED BY <1>0, <1>2, <2>1, <2>4, DescendIs
<1>4. /\ Kept(m0, m3, S) /\ Ready(m3, S)
      /\ m3.ok => To3(m3.memory, p, v) /\ m3.at = T3(m3.memory, p, v)
      /\ m.free # {} => m3.memory[p][v[1]].present
  <2>1. Kept(m0, m3, S)
    BY <1>3 DEF Down
  <2>2. Ready(m3, S)
    BY <1>2, <2>1, KeptReady
  <2>3. m3.ok => To3(m3.memory, p, v) /\ m3.at = T3(m3.memory, p, v)
    BY <1>3 DEF Down, To3, T3
  <2>4. m.free # {} => m3.memory[p][v[1]].present
    BY <1>3 DEF Down
  <2> QED BY <2>1, <2>2, <2>3, <2>4
<1>5. PICK l3 : Tree(m3.memory, l3, S)
  BY <1>4 DEF Ready
<1>6. m3.ok => m3.at \in DOMAIN m3.memory /\ l3[m3.at] = 3 /\ m3.at # p
  BY <1>4, <1>5, Path
<1>7. Down(m3, v[2], m2, S)
  <2>1. m3.ok => ~m3.memory[m3.at][v[2]].huge
    BY <1>0, <1>5, <1>6 DEF Tree
  <2>2. m3.ok => l3[m3.at] > 1 /\ l3[m3.at] # 4
    BY <1>6
  <2>3. MayDescend(m3, v[2], l3, S)
    BY <1>6, <2>1, <2>2 DEF MayDescend
  <2> QED BY <1>0, <1>4, <1>5, <2>3, DescendIs
<1>8. /\ Kept(m3, m2, S) /\ Ready(m2, S)
      /\ m2.ok => To2(m2.memory, p, v) /\ m2.at = T2(m2.memory, p, v)
  <2>1. Kept(m3, m2, S)
    BY <1>7 DEF Down
  <2>2. Ready(m2, S)
    BY <1>4, <2>1, KeptReady
  <2>3. ASSUME m2.ok
        PROVE  To2(m2.memory, p, v) /\ m2.at = T2(m2.memory, p, v)
    <3>1. /\ m3.ok /\ m2.memory[m3.at][v[2]].present
          /\ m2.at = m2.memory[m3.at][v[2]].frame /\ Only(m3, v[2], m2)
      BY <1>7, <2>3 DEF Down
    <3>2. To3(m2.memory, p, v) /\ T3(m2.memory, p, v) = T3(m3.memory, p, v)
      <4>1. To3(m3.memory, p, v) /\ m3.at # p /\ Only(m3, v[2], m2)
        BY <1>4, <1>6, <3>1
      <4> QED BY <1>5, <4>1, Stay3
    <3> QED BY <1>4, <3>1, <3>2 DEF To2, T2
  <2> QED BY <2>1, <2>2, <2>3
<1>9. PICK l2 : Tree(m2.memory, l2, S)
  BY <1>8 DEF Ready
<1>10. m2.ok => /\ m2.at \in DOMAIN m2.memory /\ l2[m2.at] = 2
  BY <1>8, <1>9, Path
<1>11. Unhuge(m2, v[3], ms, S)
  BY <1>0, <1>8, <1>9, <1>10, SplitIs
<1>12. /\ Kept(m2, ms, S) /\ Ready(ms, S)
       /\ ms.ok => /\ To2(ms.memory, p, v) /\ ms.at = T2(ms.memory, p, v)
                   /\ ~ms.memory[ms.at][v[3]].huge
  <2>1. Kept(m2, ms, S)
    BY <1>11 DEF Unhuge
  <2>2. Ready(ms, S)
    BY <1>8, <2>1, KeptReady
  <2>3. ASSUME ms.ok
        PROVE  /\ To2(ms.memory, p, v) /\ ms.at = T2(ms.memory, p, v)
               /\ ~ms.memory[ms.at][v[3]].huge
    <3>1. /\ m2.ok /\ ms.at = m2.at /\ ~ms.memory[m2.at][v[3]].huge /\ Only(m2, v[3], ms)
      BY <1>11, <2>3 DEF Unhuge
    <3>2. To2(ms.memory, p, v) /\ T2(ms.memory, p, v) = T2(m2.memory, p, v)
      <4>1. To2(m2.memory, p, v) /\ l2[m2.at] = 2 /\ Only(m2, v[3], ms)
        BY <1>8, <1>10, <3>1
      <4> QED BY <1>9, <4>1, Stay2
    <3> QED BY <1>8, <3>1, <3>2
  <2> QED BY <2>1, <2>2, <2>3
<1>13. PICK l1 : Tree(ms.memory, l1, S)
  BY <1>12 DEF Ready
<1>14. ms.ok => /\ ms.at \in DOMAIN ms.memory /\ l1[ms.at] = 2
  BY <1>12, <1>13, Path
<1>15. Down(ms, v[3], m1, S)
  <2>1. ms.ok => l1[ms.at] > 1 /\ l1[ms.at] # 4
    BY <1>14
  <2>2. MayDescend(ms, v[3], l1, S)
    BY <1>12, <1>14, <2>1 DEF MayDescend
  <2> QED BY <1>0, <1>12, <1>13, <2>2, DescendIs
<1>16. /\ Kept(ms, m1, S)
       /\ m1.ok => To1(m1.memory, p, v) /\ m1.at = T1(m1.memory, p, v)
  <2>1. Kept(ms, m1, S)
    BY <1>15 DEF Down
  <2>2. ASSUME m1.ok
        PROVE  To1(m1.memory, p, v) /\ m1.at = T1(m1.memory, p, v)
    <3>1. /\ ms.ok /\ m1.memory[ms.at][v[3]].present /\ ~m1.memory[ms.at][v[3]].huge
          /\ m1.at = m1.memory[ms.at][v[3]].frame /\ Only(ms, v[3], m1)
      BY <1>15, <2>2 DEF Down
    <3>2. To2(m1.memory, p, v) /\ T2(m1.memory, p, v) = ms.at
      <4>1. To2(m1.memory, p, v) /\ T2(m1.memory, p, v) = T2(ms.memory, p, v)
        <5>1. To2(ms.memory, p, v) /\ l1[ms.at] = 2 /\ Only(ms, v[3], m1)
          BY <1>12, <1>14, <3>1
        <5> QED BY <1>13, <5>1, Stay2
      <4> QED BY <1>12, <3>1, <4>1
    <3> QED BY <3>1, <3>2 DEF To1, T1
  <2> QED BY <2>1, <2>2
<1>17. Kept(m3, m1, S)
  <2>1. Kept(m2, m1, S)
    BY <1>8, <1>12, <1>16, KeptAgain
  <2> QED BY <1>4, <1>8, <2>1, KeptAgain
<1>18. Kept(m, m1, S)
  <2>1. Kept(m, m3, S)
    BY <1>2, <1>4, KeptAgain
  <2> QED BY <1>17, <2>1, KeptAgain
<1>19. m.free # {} => m1.memory[p][v[1]].present
  <2>1. p \in DOMAIN m3.memory
    BY <1>5, Path
  <2> QED BY <1>0, <1>4, <1>17, <2>1 DEF Kept
<1> QED BY <1>16, <1>18, <1>19 DEF Walked

\* paging_map_page_on maps its page to the frame in every address space, or
\* changes no translation.
Maps(m, p, v, f, S, r) ==
    /\ r \in Calls /\ \E lev : Tree(r.memory, lev, S)
    /\ r.free \subseteq m.free /\ DOMAIN r.memory = DOMAIN m.memory \cup (m.free \ r.free)
    /\ \A s \in S, w \in Page : paging_get_phys_on(r.memory, s, w) =
                                   IF r.ok /\ w = v THEN f ELSE paging_get_phys_on(m.memory, s, w)
    /\ r.mapped = IF r.ok THEN m.mapped \cup {<<v, f>>} ELSE m.mapped
    /\ \A y \in DOMAIN m.memory, j \in Index :
          m.memory[y][j].present => r.memory[y][j].present
    /\ m.free # {} => r.memory[p][v[1]].present

\* So it does, if the PML4 has the entry or is the only one.
LEMMA MapPage ==
    ASSUME NEW m, NEW S, Ready(m, S), NEW p \in S, NEW v \in Page, NEW f \in Nat,
           NEW u, u \in BOOLEAN, m.memory[p][v[1]].present \/ S = {p},
           NEW r, r = paging_map_page_on(m, p, v, f, u)
    PROVE  Maps(m, p, v, f, S, r)
<1> DEFINE m0 == [m EXCEPT !.at = p, !.ok = TRUE]
           m3 == Descend(m0, v[1], u)
           m2 == Descend(m3, v[2], u)
           ms == Split(m2, v[3], u)
           q == Descend(ms, v[3], u)
           M == [q.memory EXCEPT ![q.at][v[4]] = Entry(f, FALSE, u)]
<1>0. v[1] \in Index /\ v[4] \in Index /\ m \in Calls /\ p \in Nat
  <2>1. PICK lev : Tree(m.memory, lev, S)
    BY DEF Ready
  <2>2. p \in DOMAIN m.memory /\ m.memory \in Memories
    BY <2>1, Path DEF Tree
  <2> QED BY <2>2, PageIs, MemoryIs DEF Ready
<1>1. r = IF ~q.ok THEN q ELSE [q EXCEPT !.memory = M, !.mapped = @ \cup {<<v, f>>}]
  <2> HIDE DEF m0
  <2> QED BY DEF paging_map_page_on, m0
<1>2. Walked(m, p, v, S, q)
  <2>1. /\ m0 \in Calls /\ m0.memory = m.memory /\ m0.free = m.free
        /\ m0.mapped = m.mapped /\ m0.at = p /\ m0.ok
    BY <1>0 DEF Calls
  <2>2. /\ m3 = Descend(m0, v[1], u) /\ m2 = Descend(m3, v[2], u) /\ ms = Split(m2, v[3], u)
        /\ q = Descend(ms, v[3], u)
    OBVIOUS
  <2> HIDE DEF m0, m3, m2, ms, q, M
  <2> QED BY <1>0, <2>1, <2>2, Walk
<1> HIDE DEF m0, m3, m2, ms, q
<1>3. CASE ~q.ok
  <2>1. r = q
    BY <1>1, <1>3
  <2> QED BY <1>2, <1>3, <2>1 DEF Walked, Kept, Same, Maps
<1>4. CASE q.ok
  <2>1. r = [q EXCEPT !.memory = M, !.mapped = @ \cup {<<v, f>>}]
    <3> HIDE DEF M
    <3> QED BY <1>1, <1>4
  <2> DEFINE e == Entry(f, FALSE, u)
             x == q.at
  <2>2. /\ Kept(m, q, S) /\ To1(q.memory, p, v) /\ x = T1(q.memory, p, v)
        /\ m.free # {} => q.memory[p][v[1]].present
    BY <1>2, <1>4 DEF Walked
  <2>3. PICK lev : Tree(q.memory, lev, S)
    BY <2>2 DEF Kept
  <2>4. q \in Calls /\ q.memory \in Memories /\ x \in DOMAIN q.memory /\ p \in DOMAIN q.memory
    <3>1. q \in Calls /\ q.memory \in Memories
      BY <2>2, CallFields DEF Kept
    <3>2. T1(q.memory, p, v) \in DOMAIN q.memory /\ p \in DOMAIN q.memory
      BY <2>2, <2>3, Path
    <3> QED BY <2>2, <3>1, <3>2
  <2>5. e \in PTE
    BY DEF Entry, PTE
  <2>6. /\ M \in Memories /\ DOMAIN M = DOMAIN q.memory /\ M[x][v[4]] = e
        /\ \A y \in DOMAIN q.memory, j \in Index : y # x \/ j # v[4] => M[y][j] = q.memory[y][j]
    <3>1. M = [q.memory EXCEPT ![x] = [q.memory[x] EXCEPT ![v[4]] = e]]
      OBVIOUS
    <3> HIDE DEF M, e, x
    <3> QED BY <1>0, <2>4, <2>5, <3>1, SetEntry
  <2> HIDE DEF M
  <2>7. /\ r \in Calls /\ r.memory = M /\ r.free = q.free /\ r.ok = q.ok
        /\ r.mapped = q.mapped \cup {<<v, f>>}
    <3> DEFINE W == q.mapped \cup {<<v, f>>}
    <3>1. W \in SUBSET (Page \X Nat)
      BY <2>4, CallFields
    <3>2. r = [q EXCEPT !.memory = M, !.mapped = W]
      BY <2>1
    <3> HIDE DEF x, e, W
    <3>3. /\ r \in Calls /\ r.memory = M /\ r.free = q.free /\ r.ok = q.ok /\ r.mapped = W
      <4>1. M \in Memories
        BY <2>6
      <4> QED BY <2>4, <3>1, <3>2, <4>1 DEF Calls
    <3> QED BY <3>3 DEF W
  <2>8. Tree(M, lev, S) /\ Moved(q.memory, M, S, v, f)
    <3> HIDE DEF x
    <3>1. Leaf(q.memory, M, T1(q.memory, p, v), v[4], Entry(f, FALSE, u))
      BY <2>2, <2>6 DEF Leaf
    <3> QED BY <2>2, <2>3, <3>1, LeafMaps
  <2>9. \A s \in S, w \in Page : paging_get_phys_on(r.memory, s, w) =
                                   IF r.ok /\ w = v THEN f ELSE paging_get_phys_on(m.memory, s, w)
    BY <1>4, <2>2, <2>7, <2>8 DEF Kept, Same, Moved
  <2>10. \A y \in DOMAIN q.memory, j \in Index : q.memory[y][j].present => M[y][j].present
    <3>1. e.present
      BY DEF Entry
    <3> HIDE DEF e
    <3> QED BY <2>6, <3>1
  <2>11. r.mapped = m.mapped \cup {<<v, f>>}
    BY <2>2, <2>7 DEF Kept
  <2>12. r.free \subseteq m.free /\ DOMAIN r.memory = DOMAIN m.memory \cup (m.free \ r.free)
    BY <2>2, <2>6, <2>7 DEF Kept
  <2>13. \A y \in DOMAIN m.memory, j \in Index :
            m.memory[y][j].present => r.memory[y][j].present
    BY <2>2, <2>7, <2>10 DEF Kept
  <2>14. m.free # {} => r.memory[p][v[1]].present
    BY <1>0, <2>2, <2>4, <2>7, <2>10
  <2>15. r.ok
    BY <1>4, <2>7
  <2> QED BY <2>7, <2>8, <2>9, <2>11, <2>12, <2>13, <2>14, <2>15 DEF Maps
<1> QED BY <1>3, <1>4

-----------------------------------------------------------------------------
(* The frames a step may hand out.                                         *)

HeapPages == {v \in Page : v[1] = 1}
UserStack == {StackPages[i] : i \in DOMAIN StackPages}
LowPages == {v \in Page : v[1] = 0}
\* Pages that programs, their stacks and the frame buffer may take.
ProgramPages ==
    {v \in LowPages : v[2] # 0 \/ \E s \in Segments : \E i \in DOMAIN s : s[i] = v}
Covered == HeapPages \cup ProgramPages

\* The assumptions on the constants, one by one.
LEMMA Constants ==
    /\ Entries \in Nat /\ Entries > 1 /\ 0 \in Index /\ 1 \in Index /\ Index \subseteq Nat
    /\ HeapInitial \in Nat \ {0} /\ HeapMax \in Nat \ {0} /\ GrowPages \in Nat \ {0}
    /\ HeapInitial <= HeapMax /\ HeapMax <= Entries * Entries
    /\ LastFrames \subseteq Nat /\ \A f \in LastFrames : f >= HeapInitial + 6
    /\ FbPage \in LowPages /\ FbPage \notin UserStack /\ FbPage[2] # 0
    /\ Segments \subseteq Seq(LowPages) /\ StackPages \in Seq(LowPages) /\ StackPages # << >>
    /\ UserStack \subseteq LowPages /\ \A v \in UserStack : v[2] # 0
<1> DEFINE Above == {v \in LowPages : v[2] # 0}
<1>1. /\ Entries \in Nat /\ Entries > 1 /\ LastFrames \subseteq Frames
      /\ {HeapInitial, HeapMax, GrowPages} \subseteq Nat \ {0}
      /\ HeapInitial <= HeapMax /\ HeapMax <= Entries * Entries
      /\ \A f \in LastFrames : f >= HeapInitial + 6
      /\ FbPage \in Above /\ Segments \subseteq Seq(LowPages)
      /\ StackPages \in Seq(Above \ {FbPage}) \ {<< >>}
  BY PagingSizes DEF LowPages
<1>2. 0 \in Index /\ 1 \in Index /\ Index \subseteq Nat
  BY <1>1 DEF Index
<1>3. LastFrames \subseteq Nat
  BY <1>1 DEF Frames
<1>4. \A i \in DOMAIN StackPages : StackPages[i] \in Above \ {FbPage}
  <2>1. StackPages \in [1 .. Len(StackPages) -> Above \ {FbPage}]
    BY <1>1, SeqDef
  <2> QED BY <2>1
<1>5. /\ \A v \in UserStack : v \in Above \ {FbPage}
      /\ StackPages \in Seq(LowPages)
  <2>1. \A v \in UserStack : v \in Above \ {FbPage}
    <3> HIDE DEF Above
    <3> QED BY <1>4 DEF UserStack
  <2>2. StackPages \in Seq(LowPages)
    <3>1. StackPages \in [1 .. Len(StackPages) -> Above \ {FbPage}] /\ Len(StackPages) \in Nat
      BY <1>1, SeqDef, LenProperties
    <3>2. StackPages \in [1 .. Len(StackPages) -> LowPages]
      BY <3>1
    <3> QED BY <3>1, <3>2, SeqDef
  <2> QED BY <2>1, <2>2
<1> QED BY <1>1, <1>2, <1>3, <1>5

\* Every page that elf_load and fb_init_from_vbe map is one of those.
LEMMA ProgramsIn ==
    /\ \A s \in Segments : s \in Seq(ProgramPages)
    /\ StackPages \in Seq(ProgramPages) /\ FbPage \in ProgramPages
    /\ ProgramPages \subseteq LowPages
<1>1. ASSUME NEW s \in Segments PROVE s \in Seq(ProgramPages)
  <2>1. s \in [1 .. Len(s) -> LowPages] /\ Len(s) \in Nat
    <3>1. s \in Seq(LowPages)
      BY Constants
    <3> QED BY <3>1, SeqDef, LenProperties
  <2>2. \A i \in 1 .. Len(s) : s[i] \in ProgramPages
    BY <2>1 DEF ProgramPages
  <2>3. s \in [1 .. Len(s) -> ProgramPages]
    BY <2>1, <2>2
  <2> QED BY <2>1, <2>3, SeqDef
<1>2. StackPages \in Seq(ProgramPages)
  <2>1. StackPages \in [1 .. Len(StackPages) -> LowPages] /\ Len(StackPages) \in Nat
    BY Constants, SeqDef, LenProperties
  <2>2. \A i \in 1 .. Len(StackPages) : StackPages[i] \in ProgramPages
    <3>1. \A i \in 1 .. Len(StackPages) : StackPages[i] \in UserStack
      BY <2>1 DEF UserStack
    <3> QED BY <3>1, Constants DEF ProgramPages
  <2>3. StackPages \in [1 .. Len(StackPages) -> ProgramPages]
    BY <2>1, <2>2
  <2> QED BY <2>1, <2>3, SeqDef
<1>3. FbPage \in ProgramPages /\ ProgramPages \subseteq LowPages
  BY Constants DEF ProgramPages
<1> QED BY <1>1, <1>2, <1>3

\* The state of the tables: they form a tree, and neither a heap page nor a page
\* of a program's stack is in a frame that is free, a table or held (X).
Sound(mem, F, S, X) ==
    /\ \E lev : Tree(mem, lev, S)
    /\ F \in SUBSET (Nat \ {0}) /\ F \cap DOMAIN mem = {} /\ X \cap (F \cup DOMAIN mem) = {}
    /\ mem[Boot][0].present
    /\ \A v \in HeapPages \cup UserStack :
          \/ paging_get_phys_on(mem, Boot, v) = NoFrame
          \/ paging_get_phys_on(mem, Boot, v) \notin F \cup X \cup DOMAIN mem
    /\ \A v \in HeapPages, w \in UserStack :
          paging_get_phys_on(mem, Boot, v) = paging_get_phys_on(mem, Boot, w)
             => paging_get_phys_on(mem, Boot, v) = NoFrame

\* A call on such tables may go on.
LEMMA SoundReady ==
    ASSUME NEW m \in Calls, NEW S, NEW X, Sound(m.memory, m.free, S, X)
    PROVE  Ready(m, S)
BY DEF Sound, Ready

\* One page is mapped to a frame that was held for it.
LEMMA SoundMap ==
    ASSUME NEW m \in Calls, NEW S, NEW X, Sound(m.memory, m.free, S, X),
           NEW p \in S, NEW v \in Page, NEW f \in Nat, v \in HeapPages \cup UserStack => f \in X,
           NEW u, u \in BOOLEAN, m.memory[p][v[1]].present \/ S = {p},
           NEW r, r = paging_map_page_on(m, p, v, f, u)
    PROVE  Maps(m, p, v, f, S, r) /\ Sound(r.memory, r.free, S, X \ {f})
<1>1. Maps(m, p, v, f, S, r)
  <2>1. Ready(m, S)
    BY SoundReady
  <2> QED BY <2>1, MapPage
<1> DEFINE get(w) == paging_get_phys_on(m.memory, Boot, w)
           new(w) == paging_get_phys_on(r.memory, Boot, w)
           Q == m.free \cup DOMAIN m.memory
<1>2. PICK lev : Tree(m.memory, lev, S)
  BY DEF Sound
<1>3. Boot \in S /\ Boot \in DOMAIN m.memory
  BY <1>2 DEF Tree
<1>4. \A w \in Page : new(w) = IF r.ok /\ w = v THEN f ELSE get(w)
  BY <1>1, <1>3 DEF Maps
<1>5. /\ r.free \subseteq m.free /\ DOMAIN r.memory = DOMAIN m.memory \cup (m.free \ r.free)
      /\ \E l : Tree(r.memory, l, S)
      /\ \A y \in DOMAIN m.memory, j \in Index : m.memory[y][j].present => r.memory[y][j].present
  BY <1>1 DEF Maps
<1>6. r.free \cup DOMAIN r.memory = Q
  BY <1>5
<1>7. /\ m.free \in SUBSET (Nat \ {0}) /\ m.free \cap DOMAIN m.memory = {} /\ X \cap Q = {}
      /\ m.memory[Boot][0].present
      /\ \A w \in HeapPages \cup UserStack : get(w) = NoFrame \/ get(w) \notin Q \cup X
      /\ \A a \in HeapPages, b \in UserStack : get(a) = get(b) => get(a) = NoFrame
  BY DEF Sound
<1>8. r.memory[Boot][0].present
  BY <1>3, <1>5, <1>7, Constants
<1>9. /\ HeapPages \subseteq Page /\ UserStack \subseteq Page /\ HeapPages \cap UserStack = {}
  BY Constants DEF HeapPages, LowPages
<1> HIDE DEF get, new, Q
<1>10. ASSUME NEW w \in HeapPages \cup UserStack
       PROVE  new(w) = NoFrame \/ new(w) \notin Q \cup (X \ {f})
  BY <1>4, <1>7, <1>9
<1>11. ASSUME NEW a \in HeapPages, NEW b \in UserStack, new(a) = new(b)
       PROVE  new(a) = NoFrame
  <2>1. a \in Page /\ b \in Page /\ a # b
    BY <1>9
  <2>2. (a = v \/ b = v) => f \in X
    OBVIOUS
  <2> QED BY <1>4, <1>7, <1>11, <2>1, <2>2
<1>12. /\ r.free \in SUBSET (Nat \ {0}) /\ r.free \cap DOMAIN r.memory = {}
       /\ (X \ {f}) \cap (r.free \cup DOMAIN r.memory) = {}
  <2>1. r.free \in SUBSET (Nat \ {0}) /\ r.free \cap DOMAIN r.memory = {}
    BY <1>5, <1>7
  <2> QED BY <1>6, <1>7, <2>1
<1>13. \A w \in HeapPages \cup UserStack :
          new(w) = NoFrame \/ new(w) \notin r.free \cup (X \ {f}) \cup DOMAIN r.memory
  BY <1>6, <1>10
<1> QED BY <1>1, <1>5, <1>8, <1>11, <1>12, <1>13 DEF Sound, new

\* All address spaces of a tree translate alike.
LEMMA Agree ==
    ASSUME NEW mem, NEW lev, NEW S, Tree(mem, lev, S), NEW s \in S, NEW v \in Page
    PROVE  paging_get_phys_on(mem, s, v) = paging_get_phys_on(mem, Boot, v)
<1>1. v[1] \in Index
  BY PageIs
<1>2. mem[s][v[1]].present = mem[Boot][v[1]].present /\ mem[s][v[1]].frame = mem[Boot][v[1]].frame
  BY <1>1 DEF Tree
<1> QED BY <1>2 DEF paging_get_phys_on

\* paging_clone_current: a copy of the boot PML4 is an address space like it.
CloneLevels(mem, lev, f) == [y \in DOMAIN mem \cup {f} |-> IF y = f THEN 4 ELSE lev[y]]

\* It belongs to the tree.
LEMMA CloneTree ==
    ASSUME NEW mem, NEW lev, NEW S, Tree(mem, lev, S), NEW f \in Nat, f \notin DOMAIN mem,
           NEW n, n = Filled(mem, f, mem[Boot])
    PROVE  /\ Tree(n, CloneLevels(mem, lev, f), S \cup {f}) /\ Same(mem, n, S)
           /\ n[Boot] = mem[Boot] /\ DOMAIN n = DOMAIN mem \cup {f}
<1> DEFINE D == DOMAIN mem
           l == CloneLevels(mem, lev, f)
<1>1. /\ mem \in Memories /\ lev \in [D -> 1 .. 4] /\ S = {x \in D : lev[x] = 4} /\ Boot \in S
      /\ \A x \in D, i \in Index :
            /\ mem[x][i].huge => mem[x][i].present /\ lev[x] = 2
            /\ Points(mem, lev, x, i) =>
                  mem[x][i].frame \in D /\ lev[mem[x][i].frame] = lev[x] - 1
      /\ \A s \in S, i \in Index : /\ mem[s][i].present = mem[Boot][i].present
                                   /\ mem[s][i].frame = mem[Boot][i].frame
  BY DEF Tree
<1>2. \A x, y \in D, i, j \in Index :
          Points(mem, lev, x, i) /\ Points(mem, lev, y, j) /\ mem[x][i].frame = mem[y][j].frame
             => i = j /\ (x = y \/ lev[x] = 4)
  BY DEF Tree
<1>3. Boot \in D /\ lev[Boot] = 4
  BY <1>1
<1>4. /\ n \in Memories /\ DOMAIN n = D \cup {f} /\ n[f] = mem[Boot]
      /\ \A y \in D : n[y] = mem[y]
  <2>1. mem[Boot] \in Table
    BY <1>1, <1>3, MemoryIs
  <2>2. Gains(mem, f, mem[Boot], n)
    BY <1>1, <2>1, FilledIs
  <2> QED BY <2>2 DEF Gains
<1>5. /\ l \in [D \cup {f} -> 1 .. 4] /\ l[f] = 4 /\ \A y \in D : l[y] = lev[y]
  BY <1>1 DEF CloneLevels
<1> HIDE DEF D, l
<1> DEFINE o(y) == IF y = f THEN Boot ELSE y
<1>6. \A y \in D \cup {f} : /\ o(y) \in D /\ lev[o(y)] = l[y] /\ n[y] = mem[o(y)]
  BY <1>3, <1>4, <1>5
<1>7. \A y \in D \cup {f} : l[y] # 4 => o(y) = y
  BY <1>5
<1>8. \A y \in D \cup {f}, j \in Index : Points(n, l, y, j) <=> Points(mem, lev, o(y), j)
  <2> HIDE DEF o
  <2> QED BY <1>6 DEF Points
<1>9. f \notin D
  BY DEF D
<1>10. \A x, y \in D \cup {f} : o(x) = o(y) => x = y \/ l[x] = 4
  BY <1>3, <1>5, <1>9
<1> HIDE DEF o
<1>11. \A x \in D \cup {f}, i \in Index :
         /\ n[x][i].huge => n[x][i].present /\ l[x] = 2
         /\ Points(n, l, x, i) => n[x][i].frame \in D \cup {f} /\ l[n[x][i].frame] = l[x] - 1
  <2> SUFFICES ASSUME NEW x \in D \cup {f}, NEW i \in Index
               PROVE  /\ n[x][i].huge => n[x][i].present /\ l[x] = 2
                      /\ Points(n, l, x, i) => /\ n[x][i].frame \in D \cup {f}
                                               /\ l[n[x][i].frame] = l[x] - 1
    OBVIOUS
  <2>1. n[x][i] = mem[o(x)][i] /\ o(x) \in D /\ lev[o(x)] = l[x]
    BY <1>6
  <2>2. n[x][i].huge => n[x][i].present /\ l[x] = 2
    BY <1>1, <2>1
  <2>3. ASSUME Points(n, l, x, i)
        PROVE  n[x][i].frame \in D \cup {f} /\ l[n[x][i].frame] = l[x] - 1
    <3>1. Points(mem, lev, o(x), i)
      BY <1>8, <2>3
    <3>2. mem[o(x)][i].frame \in D /\ lev[mem[o(x)][i].frame] = lev[o(x)] - 1
      BY <1>1, <2>1, <3>1
    <3> QED BY <1>5, <2>1, <3>2
  <2> QED BY <2>2, <2>3
<1>12. ASSUME NEW x \in D \cup {f}, NEW y \in D \cup {f}, NEW i \in Index, NEW j \in Index,
              Points(n, l, x, i), Points(n, l, y, j), n[x][i].frame = n[y][j].frame
       PROVE  i = j /\ (x = y \/ l[x] = 4)
  <2>1. Points(mem, lev, o(x), i) /\ Points(mem, lev, o(y), j)
    BY <1>8, <1>12
  <2>2. o(x) \in D /\ o(y) \in D /\ lev[o(x)] = l[x]
        /\ mem[o(x)][i].frame = mem[o(y)][j].frame
    BY <1>6, <1>12
  <2>3. i = j /\ (o(x) = o(y) \/ lev[o(x)] = 4)
    BY <1>2, <2>1, <2>2
  <2> QED BY <1>10, <2>2, <2>3
<1>13. S \cup {f} = {x \in D \cup {f} : l[x] = 4}
  BY <1>1, <1>5
<1>14. \A s \in S \cup {f}, i \in Index : /\ n[s][i].present = n[Boot][i].present
                                          /\ n[s][i].frame = n[Boot][i].frame
  <2>1. \A s \in S : s \in D
    BY <1>1
  <2> QED BY <1>1, <1>3, <1>4, <2>1
<1>15. Tree(n, l, S \cup {f})
  BY <1>1, <1>4, <1>5, <1>11, <1>12, <1>13, <1>14 DEF Tree
<1>16. Same(mem, n, S)
  <2>1. \A y \in DOMAIN mem, j \in Index : /\ n[y][j].present = mem[y][j].present
                                           /\ n[y][j].huge = mem[y][j].huge
                                           /\ n[y][j].frame = mem[y][j].frame
    BY <1>4 DEF D
  <2> QED BY <2>1, SameOn
<1> QED BY <1>3, <1>4, <1>15, <1>16 DEF l, D

\* pmm_alloc takes a free frame, pmm_free gives one back.
LEMMA SoundTake ==
    ASSUME NEW mem, NEW F, NEW S, NEW X, Sound(mem, F, S, X), F # {}, NEW f, f = Lowest(F)
    PROVE  f \in F /\ f \in Nat \ {0} /\ Sound(mem, F \ {f}, S, X \cup {f})
<1>1. f \in F /\ f \in Nat \ {0}
  BY LowestIn DEF Sound
<1>2. (X \cup {f}) \cap ((F \ {f}) \cup DOMAIN mem) = {} /\ F \ {f} \in SUBSET (Nat \ {0})
      /\ (F \ {f}) \cap DOMAIN mem = {}
  BY <1>1 DEF Sound
<1>3. (F \ {f}) \cup (X \cup {f}) \cup DOMAIN mem = F \cup X \cup DOMAIN mem
  BY <1>1
<1> QED BY <1>1, <1>2, <1>3 DEF Sound

\* The same for a frame that was held.
LEMMA SoundFree ==
    ASSUME NEW mem, NEW F, NEW S, NEW X, Sound(mem, F, S, X), NEW f \in X, f \in Nat \ {0}
    PROVE  Sound(mem, F \cup {f}, S, X \ {f})
<1>1. (X \ {f}) \cap ((F \cup {f}) \cup DOMAIN mem) = {} /\ F \cup {f} \in SUBSET (Nat \ {0})
      /\ (F \cup {f}) \cap DOMAIN mem = {}
  BY DEF Sound
<1>2. (F \cup {f}) \cup (X \ {f}) \cup DOMAIN mem = F \cup X \cup DOMAIN mem
  OBVIOUS
<1> QED BY <1>1, <1>2 DEF Sound

\* A new address space.
LEMMA SoundClone ==
    ASSUME NEW mem, NEW F, NEW S, NEW X, Sound(mem, F, S, X), F # {}, NEW f, f = Lowest(F),
           NEW n, n = Filled(mem, f, mem[Boot])
    PROVE  Sound(n, F \ {f}, S \cup {f}, X) /\ Same(mem, n, S) /\ n[Boot] = mem[Boot]
<1>1. f \in F /\ f \in Nat /\ f \notin DOMAIN mem
  BY LowestIn DEF Sound
<1>2. PICK lev : Tree(mem, lev, S)
  BY DEF Sound
<1>3. /\ Tree(n, CloneLevels(mem, lev, f), S \cup {f}) /\ Same(mem, n, S)
      /\ n[Boot] = mem[Boot] /\ DOMAIN n = DOMAIN mem \cup {f}
  BY <1>1, <1>2, CloneTree
<1>4. \A w \in Page : paging_get_phys_on(n, Boot, w) = paging_get_phys_on(mem, Boot, w)
  <2>1. Boot \in S
    BY <1>2 DEF Tree
  <2> QED BY <1>3, <2>1 DEF Same
<1>5. HeapPages \subseteq Page /\ UserStack \subseteq Page
  BY Constants DEF HeapPages, LowPages
<1>6. (F \ {f}) \cup DOMAIN n = F \cup DOMAIN mem /\ (F \ {f}) \cap DOMAIN n = {}
      /\ F \ {f} \in SUBSET (Nat \ {0})
  BY <1>1, <1>3 DEF Sound
<1>7. (F \ {f}) \cup X \cup DOMAIN n = F \cup X \cup DOMAIN mem
      /\ X \cap ((F \ {f}) \cup DOMAIN n) = {}
  BY <1>6 DEF Sound
<1>8. /\ \A v \in HeapPages \cup UserStack :
            \/ paging_get_phys_on(n, Boot, v) = NoFrame
            \/ paging_get_phys_on(n, Boot, v) \notin (F \ {f}) \cup X \cup DOMAIN n
      /\ \A v \in HeapPages, w \in UserStack :
            paging_get_phys_on(n, Boot, v) = paging_get_phys_on(n, Boot, w)
               => paging_get_phys_on(n, Boot, v) = NoFrame
  <2>1. \A v \in HeapPages \cup UserStack :
            \/ paging_get_phys_on(mem, Boot, v) = NoFrame
            \/ paging_get_phys_on(mem, Boot, v) \notin F \cup X \cup DOMAIN mem
    BY DEF Sound
  <2>2. \A v \in HeapPages, w \in UserStack :
            paging_get_phys_on(mem, Boot, v) = paging_get_phys_on(mem, Boot, w)
               => paging_get_phys_on(mem, Boot, v) = NoFrame
    BY DEF Sound
  <2> QED BY <1>4, <1>5, <1>7, <2>1, <2>2
<1>9. n[Boot][0].present
  BY <1>3 DEF Sound
<1>10. \E l : Tree(n, l, S \cup {f})
  BY <1>3
<1>11. Sound(n, F \ {f}, S \cup {f}, X)
  BY <1>6, <1>7, <1>8, <1>9, <1>10 DEF Sound
<1> QED BY <1>3, <1>11

-----------------------------------------------------------------------------
(* The growth of the heap.                                                 *)

\* The two indices of a page number.
LEMMA Divided ==
    ASSUME NEW i \in Nat, NEW E \in Nat \ {0}, i < E * E
    PROVE  i \div E \in 0 .. E - 1 /\ i % E \in 0 .. E - 1
<1> DEFINE d == i \div E
           e == i % E
<1>1. d \in Nat /\ e \in 0 .. E - 1 /\ i = E * d + e
  OBVIOUS
<1> HIDE DEF d, e
<1>2. ASSUME d >= E PROVE FALSE
  <2>1. E * d >= E * E
    BY <1>1, <1>2
  <2> QED BY <1>1, <2>1
<1>3. d \in 0 .. E - 1
  BY <1>1, <1>2
<1> QED BY <1>1, <1>3 DEF d, e

\* The pages of the heap.
LEMMA HeapPageIn ==
    ASSUME NEW i \in Nat, i < HeapMax
    PROVE  HeapPage(i) \in HeapPages
<1>1. /\ Entries \in Nat \ {0} /\ 0 \in Index /\ 1 \in Index /\ i < Entries * Entries
  BY Constants
<1>4. i \div Entries \in Index /\ i % Entries \in Index
  BY <1>1, Divided DEF Index
<1>5. HeapPage(i) \in Page
  BY <1>1, <1>4 DEF HeapPage, Page
<1> QED BY <1>5 DEF HeapPages, HeapPage

\* A growth under way: the calls so far account for every change since mem.
Grows(S, X, mem) ==
    {m \in Calls : /\ Sound(m.memory, m.free, S, X) /\ m.memory[Boot][1].present
                   /\ DOMAIN m.memory \cup m.free \subseteq DOMAIN mem \cup free
                   /\ \A w \in Page \ Covered :
                         paging_get_phys_on(m.memory, Boot, w) = paging_get_phys_on(mem, Boot, w)
                   /\ \A s \in S, w \in Page :
                         \/ paging_get_phys_on(m.memory, s, w) = paging_get_phys_on(mem, s, w)
                         \/ <<w, paging_get_phys_on(m.memory, s, w)>> \in m.mapped}

\* kmalloc forgets a failure.
LEMMA CallDone ==
    ASSUME NEW m \in Calls, NEW n, n = [m EXCEPT !.ok = TRUE]
    PROVE  n \in Calls /\ n.memory = m.memory /\ n.free = m.free /\ n.mapped = m.mapped
BY DEF Calls

\* pmm_alloc changes the free frames of a call.
LEMMA CallFrees ==
    ASSUME NEW m \in Calls, NEW F, F \in SUBSET Nat, NEW n, n = [m EXCEPT !.free = F]
    PROVE  /\ n \in Calls /\ n.memory = m.memory /\ n.free = F /\ n.mapped = m.mapped
           /\ n.ok = m.ok
BY DEF Calls

\* One page of the growth, also when its mapping fails.
LEMMA GrowPageIs ==
    ASSUME NEW S, NEW X, NEW mem, NEW m \in Grows(S, X, mem), NEW i \in Nat, i < HeapMax
    PROVE  GrowPage(m, i) \in Grows(S, X, mem)
<1>1. /\ m \in Calls /\ Sound(m.memory, m.free, S, X) /\ m.memory[Boot][1].present
      /\ DOMAIN m.memory \cup m.free \subseteq DOMAIN mem \cup free
      /\ \A w \in Page \ Covered :
            paging_get_phys_on(m.memory, Boot, w) = paging_get_phys_on(mem, Boot, w)
      /\ \A s \in S, w \in Page :
            \/ paging_get_phys_on(m.memory, s, w) = paging_get_phys_on(mem, s, w)
            \/ <<w, paging_get_phys_on(m.memory, s, w)>> \in m.mapped
  BY DEF Grows
<1> DEFINE f == Lowest(m.free)
           F == m.free \ {f}
           n == [m EXCEPT !.free = F]
           v == HeapPage(i)
           r == paging_map_page_on(n, Boot, v, f, FALSE)
           q == [r EXCEPT !.ok = TRUE]
<1>2. GrowPage(m, i) = IF ~m.ok \/ m.free = {} THEN Failed(m) ELSE q
  BY DEF GrowPage
<1> HIDE DEF q
<1>3. CASE ~m.ok \/ m.free = {}
  <2>1. GrowPage(m, i) = Failed(m)
    BY <1>2, <1>3
  <2>2. /\ Failed(m) \in Calls /\ Failed(m).memory = m.memory /\ Failed(m).free = m.free
        /\ Failed(m).mapped = m.mapped
    BY <1>1, CallFails
  <2> QED BY <1>1, <2>1, <2>2 DEF Grows
<1>4. CASE m.ok /\ m.free # {}
  <2>1. GrowPage(m, i) = q
    BY <1>2, <1>4
  <2>2. f \in m.free /\ f \in Nat \ {0} /\ Sound(m.memory, F, S, X \cup {f})
    BY <1>1, <1>4, SoundTake
  <2> HIDE DEF f
  <2>3. F \in SUBSET Nat /\ F \subseteq m.free
    BY <1>1, CallFields
  <2> HIDE DEF F
  <2>4. n \in Calls /\ n.memory = m.memory /\ n.free = F /\ n.mapped = m.mapped
    BY <1>1, <2>3, CallFrees
  <2> HIDE DEF n
  <2>5. v \in Page /\ v[1] = 1 /\ v \in Covered
    BY HeapPageIn DEF HeapPages, Covered
  <2> HIDE DEF v
  <2>6. Boot \in S /\ Boot \in DOMAIN m.memory
    BY <1>1 DEF Sound, Tree
  <2>7. Maps(n, Boot, v, f, S, r) /\ Sound(r.memory, r.free, S, (X \cup {f}) \ {f})
    <3>1. Sound(n.memory, n.free, S, X \cup {f})
      BY <2>2, <2>4
    <3>2. n.memory[Boot][v[1]].present
      BY <1>1, <2>4, <2>5
    <3>3. r = paging_map_page_on(n, Boot, v, f, FALSE) /\ f \in Nat /\ f \in X \cup {f}
      BY <2>2
    <3>4. FALSE \in BOOLEAN
      OBVIOUS
    <3> HIDE DEF r
    <3> QED BY <2>4, <2>5, <2>6, <3>1, <3>2, <3>3, <3>4, SoundMap
  <2> HIDE DEF r
  <2>8. (X \cup {f}) \ {f} = X
    BY <1>1, <2>2 DEF Sound
  <2>9. r \in Calls /\ Sound(r.memory, r.free, S, X)
    BY <2>7, <2>8 DEF Maps
  <2>10. r.memory[Boot][1].present
    BY <1>1, <2>4, <2>6, <2>7, Constants DEF Maps
  <2>11. ASSUME NEW s \in S, NEW w \in Page
         PROVE  \/ paging_get_phys_on(r.memory, s, w) = paging_get_phys_on(mem, s, w)
                \/ <<w, paging_get_phys_on(r.memory, s, w)>> \in r.mapped
    <3>1. paging_get_phys_on(r.memory, s, w) =
             IF r.ok /\ w = v THEN f ELSE paging_get_phys_on(m.memory, s, w)
      BY <2>4, <2>7 DEF Maps
    <3>2. r.mapped = IF r.ok THEN m.mapped \cup {<<v, f>>} ELSE m.mapped
      BY <2>4, <2>7 DEF Maps
    <3> QED BY <1>1, <3>1, <3>2
  <2>12. q \in Calls /\ q.memory = r.memory /\ q.free = r.free /\ q.mapped = r.mapped
    BY <2>9, CallDone DEF q
  <2>13. DOMAIN r.memory \cup r.free \subseteq DOMAIN mem \cup free
    BY <1>1, <2>3, <2>4, <2>7 DEF Maps
  <2>14. ASSUME NEW w \in Page \ Covered
         PROVE  paging_get_phys_on(r.memory, Boot, w) = paging_get_phys_on(mem, Boot, w)
    <3>1. w # v /\ w \in Page
      BY <2>5
    <3>2. paging_get_phys_on(r.memory, Boot, w) = paging_get_phys_on(m.memory, Boot, w)
      BY <2>4, <2>6, <2>7, <3>1 DEF Maps
    <3> QED BY <1>1, <3>2
  <2> QED BY <2>1, <2>9, <2>10, <2>11, <2>12, <2>13, <2>14 DEF Grows
<1> QED BY <1>3, <1>4

\* The whole growth: the calls after each page.
LEMMA GrowIs ==
    ASSUME NEW S, NEW X, NEW mem, NEW m \in Grows(S, X, mem), NEW i \in Nat,
           i + GrowPages <= HeapMax
    PROVE  Grow(m, i) \in Grows(S, X, mem)
<1> DEFINE N == GrowPages
           G == Grows(S, X, mem)
           Steps(h, l) == h[0] = m /\ \A k \in 1 .. l : h[k] = GrowPage(h[k - 1], i + k - 1)
           Good == {l \in Nat : l <= N => \E h \in [0 .. l -> G] : Steps(h, l)}
           Is(h) == h = [k \in 0 .. N |-> IF k = 0 THEN m ELSE GrowPage(h[k - 1], i + k - 1)]
           F == CHOOSE h : Is(h)
<1>1. N \in Nat /\ N >= 1 /\ HeapMax \in Nat
  BY Constants
<1>2. ASSUME NEW g \in G, NEW k \in 1 .. N PROVE GrowPage(g, i + k - 1) \in G
  <2>1. i + k - 1 \in Nat /\ i + k - 1 < HeapMax
    BY <1>1
  <2> QED BY <2>1, GrowPageIs
<1>3. m \in G
  OBVIOUS
<1> HIDE DEF G, N
<1>4. 0 \in Good
  <2>1. [k \in 0 .. 0 |-> m] \in [0 .. 0 -> G] /\ Steps([k \in 0 .. 0 |-> m], 0)
    BY <1>3
  <2> HIDE DEF Steps
  <2> QED BY <2>1
<1>5. ASSUME NEW l \in Nat, l \in Good PROVE l + 1 \in Good
  <2> SUFFICES ASSUME l + 1 <= N PROVE \E h \in [0 .. l + 1 -> G] : Steps(h, l + 1)
    OBVIOUS
  <2>1. PICK h \in [0 .. l -> G] : Steps(h, l)
    BY <1>1, <1>5
  <2> DEFINE e == GrowPage(h[l], i + (l + 1) - 1)
             d == [k \in 0 .. l + 1 |-> IF k = l + 1 THEN e ELSE h[k]]
  <2>2. e \in G
    <3>1. h[l] \in G /\ l + 1 \in 1 .. N
      BY <1>1
    <3> QED BY <1>2, <3>1
  <2> HIDE DEF e
  <2>3. d \in [0 .. l + 1 -> G] /\ d[l + 1] = e /\ \A k \in 0 .. l : d[k] = h[k]
    BY <2>2
  <2> HIDE DEF d
  <2>4. ASSUME NEW k \in 1 .. l + 1 PROVE d[k] = GrowPage(d[k - 1], i + k - 1)
    <3>1. CASE k = l + 1
      BY <2>3, <3>1 DEF e
    <3>2. CASE k # l + 1
      <4>1. k \in 1 .. l /\ k \in 0 .. l /\ k - 1 \in 0 .. l
        BY <3>2
      <4> QED BY <2>1, <2>3, <4>1
    <3> QED BY <3>1, <3>2
  <2>5. Steps(d, l + 1)
    BY <2>1, <2>3, <2>4
  <2> HIDE DEF Steps
  <2> QED BY <2>3, <2>5
<1>6. N \in Good
  <2> HIDE DEF Good
  <2> QED BY <1>1, <1>4, <1>5, Induction
<1>7. PICK h \in [0 .. N -> G] : Steps(h, N)
  BY <1>1, <1>6
<1>8. Is(h)
  <2>1. \A k \in 0 .. N : h[k] = IF k = 0 THEN m ELSE GrowPage(h[k - 1], i + k - 1)
    BY <1>1, <1>7
  <2> QED BY <2>1
<1>9. Grow(m, i) = F[N]
  BY DEF Grow, N
<1>10. Is(F)
  <2> HIDE DEF Is
  <2> QED BY <1>8
<1> HIDE DEF F
<1>11. F[0] = m /\ \A k \in 1 .. N : F[k] = GrowPage(F[k - 1], i + k - 1)
  BY <1>1, <1>10
<1> DEFINE In == {l \in Nat : l <= N => F[l] \in G}
<1>12. 0 \in In
  BY <1>3, <1>11
<1>13. ASSUME NEW l \in Nat, l \in In PROVE l + 1 \in In
  <2> SUFFICES ASSUME l + 1 <= N PROVE F[l + 1] \in G
    OBVIOUS
  <2>1. F[l] \in G /\ l + 1 \in 1 .. N
    BY <1>1, <1>13
  <2>2. F[l + 1] = GrowPage(F[l], i + (l + 1) - 1)
    BY <1>11, <2>1
  <2> QED BY <1>2, <2>1, <2>2
<1>14. N \in In
  <2> HIDE DEF In
  <2> QED BY <1>1, <1>12, <1>13, Induction
<1> QED BY <1>1, <1>9, <1>14 DEF G

-----------------------------------------------------------------------------
(* The invariant.                                                          *)

\* The frames heap_init has still to map, taken before it starts.
Reserved == IF phase = "heap_init" THEN 4 + top .. 3 + HeapInitial ELSE {}

\* Once there are copies of the boot PML4, its entries for the heap and for the
\* low memory are there, and no call makes a new one.
PagingInv ==
    /\ Sound(memory, free, spaces, others \cup Reserved)
    /\ others \in SUBSET (Nat \ {0}) /\ top \in Nat /\ top <= HeapMax
    /\ phase \in {"heap_init", "framebuffer", "up"}
    /\ phase # "up" => spaces = {Boot} /\ load = Idle /\ others = {}
    /\ phase = "heap_init" => /\ top < HeapInitial /\ (top = 0 => free # {})
                              /\ (top > 0 => memory[Boot][1].present)
    /\ phase # "heap_init" => memory[Boot][1].present
    /\ load = Idle \/ load \in [pml4 : spaces, todo : Seq(ProgramPages) \ {<< >>}]

\* What MapsOnlyItsPage says of a step.
Traced ==
    \A s \in spaces, v \in Page :
        \/ paging_get_phys_on(memory', s, v) = paging_get_phys_on(memory, s, v)
        \/ <<v, paging_get_phys_on(memory', s, v)>> \in mapped'

\* And no step moves a page that is neither of the heap nor of a program, or makes
\* frames.
Accounted ==
    /\ Traced
    /\ \A w \in Page \ Covered :
          paging_get_phys_on(memory', Boot, w) = paging_get_phys_on(memory, Boot, w)
    /\ DOMAIN memory' \cup free' \cup others' \subseteq DOMAIN memory \cup free \cup others

\* The tables of boot.
LEMMA BootIs ==
    /\ BootTables \in Memories /\ DOMAIN BootTables = 1 .. 3
    /\ BootTables[1][0] = Entry(2, FALSE, FALSE) /\ BootTables[2][0] = Entry(3, FALSE, FALSE)
    /\ \A x \in {1, 2}, i \in Index : i # 0 => BootTables[x][i] = Absent
    /\ \A i \in Index : BootTables[3][i] = Entry(i * Entries, TRUE, FALSE)
<1> DEFINE low(f) == [Empty EXCEPT ![0] = Entry(f + 1, FALSE, FALSE)]
           pd == [i \in Index |-> Entry(i * Entries, TRUE, FALSE)]
<1>0. 0 \in Index /\ Empty \in [Index -> PTE] /\ \A i \in Index : Empty[i] = Absent
  BY Constants, EntryIs DEF Table
<1>1. ASSUME NEW f \in 1 .. 2
      PROVE  /\ low(f) \in Table /\ low(f)[0] = Entry(f + 1, FALSE, FALSE)
             /\ \A i \in Index : i # 0 => low(f)[i] = Absent
  <2>1. Entry(f + 1, FALSE, FALSE) \in PTE
    BY DEF Entry, PTE
  <2> QED BY <1>0, <2>1 DEF Table
<1>2. pd \in Table
  <2>1. \A i \in Index : i * Entries \in Nat
    BY Constants
  <2>2. \A i \in Index : Entry(i * Entries, TRUE, FALSE) \in PTE
    BY <2>1 DEF Entry, PTE
  <2> QED BY <2>2 DEF Table
<1>3. BootTables = [f \in 1 .. 3 |-> IF f = 3 THEN pd ELSE low(f)]
  BY DEF BootTables
<1>4. pd = [i \in Index |-> Entry(i * Entries, TRUE, FALSE)]
  OBVIOUS
<1> HIDE DEF low, pd
<1>5. BootTables \in [1 .. 3 -> Table]
  <2>1. \A f \in 1 .. 3 : f # 3 => f \in 1 .. 2
    OBVIOUS
  <2> QED BY <1>1, <1>2, <1>3, <2>1
<1>6. BootTables \in Memories
  <2>1. 1 .. 3 \in SUBSET Nat
    OBVIOUS
  <2> QED BY <1>5, <2>1, IsMemory
<1>7. BootTables[1] = low(1) /\ BootTables[2] = low(2) /\ BootTables[3] = pd /\ DOMAIN BootTables = 1 .. 3
  BY <1>3
<1>8. 1 \in 1 .. 2 /\ 2 \in 1 .. 2 /\ 1 + 1 = 2 /\ 2 + 1 = 3
  OBVIOUS
<1>9. low(1)[0] = Entry(1 + 1, FALSE, FALSE) /\ low(2)[0] = Entry(2 + 1, FALSE, FALSE)
      /\ \A i \in Index : i # 0 => low(1)[i] = Absent /\ low(2)[i] = Absent
  BY <1>1, <1>8
<1> QED BY <1>4, <1>6, <1>7, <1>8, <1>9

\* They form a tree below g_pml4.
LEMMA BootTree == Tree(BootTables, [f \in 1 .. 3 |-> 5 - f], {Boot})
<1> DEFINE mem == BootTables
           lev == [f \in 1 .. 3 |-> 5 - f]
<1>1. /\ mem \in Memories /\ DOMAIN mem = 1 .. 3
      /\ mem[1][0] = Entry(2, FALSE, FALSE) /\ mem[2][0] = Entry(3, FALSE, FALSE)
      /\ \A x \in {1, 2}, i \in Index : i # 0 => mem[x][i] = Absent
      /\ \A i \in Index : mem[3][i] = Entry(i * Entries, TRUE, FALSE)
  BY BootIs
<1> HIDE DEF mem
<1>2. /\ lev \in [1 .. 3 -> 1 .. 4] /\ lev[1] = 4 /\ lev[2] = 3 /\ lev[3] = 2
      /\ {Boot} = {x \in 1 .. 3 : lev[x] = 4}
  BY DEF Boot
<1> HIDE DEF lev
<1>3. /\ \A i \in Index : mem[3][i].present /\ mem[3][i].huge
      /\ mem[1][0].present /\ ~mem[1][0].huge /\ mem[1][0].frame = 2
      /\ mem[2][0].present /\ ~mem[2][0].huge /\ mem[2][0].frame = 3
      /\ \A x \in {1, 2}, i \in Index : i # 0 => ~mem[x][i].present /\ ~mem[x][i].huge
  <2>1. \A i \in Index : mem[3][i].present /\ mem[3][i].huge
    <3>1. \A i \in Index : Entry(i * Entries, TRUE, FALSE).present /\ Entry(i * Entries, TRUE, FALSE).huge
      BY DEF Entry
    <3> QED BY <1>1, <3>1
  <2>2. /\ mem[1][0].present /\ ~mem[1][0].huge /\ mem[1][0].frame = 2
        /\ mem[2][0].present /\ ~mem[2][0].huge /\ mem[2][0].frame = 3
    <3>1. /\ Entry(2, FALSE, FALSE).present /\ ~Entry(2, FALSE, FALSE).huge
          /\ Entry(2, FALSE, FALSE).frame = 2
      BY DEF Entry
    <3>2. /\ Entry(3, FALSE, FALSE).present /\ ~Entry(3, FALSE, FALSE).huge
          /\ Entry(3, FALSE, FALSE).frame = 3
      BY DEF Entry
    <3> QED BY <1>1, <3>1, <3>2
  <2>3. \A x \in {1, 2}, i \in Index : i # 0 => ~mem[x][i].present /\ ~mem[x][i].huge
    BY <1>1, EntryIs
  <2> QED BY <2>1, <2>2, <2>3
<1>4. \A x \in 1 .. 3, i \in Index :
         Points(mem, lev, x, i) => i = 0 /\ x \in {1, 2} /\ mem[x][i].frame = x + 1
  <2> SUFFICES ASSUME NEW x \in 1 .. 3, NEW i \in Index, Points(mem, lev, x, i)
               PROVE  i = 0 /\ x \in {1, 2} /\ mem[x][i].frame = x + 1
    OBVIOUS
  <2>1. mem[x][i].present /\ ~mem[x][i].huge
    BY DEF Points
  <2>2. x \in {1, 2}
    BY <1>3, <2>1
  <2>3. i = 0
    BY <1>3, <2>1, <2>2
  <2> QED BY <1>3, <2>2, <2>3
<1>5. \A x \in 1 .. 3, i \in Index :
         /\ mem[x][i].huge => mem[x][i].present /\ lev[x] = 2
         /\ Points(mem, lev, x, i) => mem[x][i].frame \in 1 .. 3 /\ lev[mem[x][i].frame] = lev[x] - 1
  <2> SUFFICES ASSUME NEW x \in 1 .. 3, NEW i \in Index
               PROVE  /\ mem[x][i].huge => mem[x][i].present /\ lev[x] = 2
                      /\ Points(mem, lev, x, i) => /\ mem[x][i].frame \in 1 .. 3
                                                   /\ lev[mem[x][i].frame] = lev[x] - 1
    OBVIOUS
  <2>1. mem[x][i].huge => mem[x][i].present /\ lev[x] = 2
    <3>1. CASE x = 3
      BY <1>2, <1>3, <3>1
    <3>2. CASE x # 3
      BY <1>3, <3>2
    <3> QED BY <3>1, <3>2
  <2>2. ASSUME Points(mem, lev, x, i)
        PROVE  mem[x][i].frame \in 1 .. 3 /\ lev[mem[x][i].frame] = lev[x] - 1
    BY <1>2, <1>4, <2>2
  <2> QED BY <2>1, <2>2
<1>6. \A x, y \in 1 .. 3, i, j \in Index :
         Points(mem, lev, x, i) /\ Points(mem, lev, y, j) /\ mem[x][i].frame = mem[y][j].frame
            => i = j /\ (x = y \/ lev[x] = 4)
  BY <1>4
<1>7. \A s \in {Boot}, i \in Index : /\ mem[s][i].present = mem[Boot][i].present
                                     /\ mem[s][i].frame = mem[Boot][i].frame
  OBVIOUS
<1>8. Tree(mem, lev, {Boot})
  <2>1. lev \in [DOMAIN mem -> 1 .. 4] /\ {Boot} = {x \in DOMAIN mem : lev[x] = 4}
    BY <1>1, <1>2
  <2> QED BY <1>1, <1>5, <1>6, <1>7, <2>1 DEF Tree
<1> QED BY <1>8 DEF mem, lev

\* The machine starts so.
LEMMA PagingStarts == PagingInit => PagingInv
<1> SUFFICES ASSUME PagingInit PROVE PagingInv
  OBVIOUS
<1>1. /\ memory = BootTables /\ spaces = {Boot} /\ top = 0 /\ load = Idle /\ others = {}
      /\ phase = "heap_init"
  BY DEF PagingInit
<1>2. PICK last \in LastFrames : free = 4 + HeapInitial .. last
  BY DEF PagingInit
<1>3. last \in Nat /\ last >= HeapInitial + 6 /\ HeapInitial \in Nat /\ HeapInitial > 0
  BY Constants
<1>4. /\ free \in SUBSET (Nat \ {0}) /\ free # {} /\ free \cap (1 .. 3) = {}
      /\ Reserved = 4 .. 3 + HeapInitial /\ Reserved \cap (free \cup (1 .. 3)) = {}
  <2>1. Reserved = 4 .. 3 + HeapInitial
    BY <1>1, <1>3 DEF Reserved
  <2>2. 4 + HeapInitial \in free
    BY <1>2, <1>3
  <2>3. \A x \in free : x \in Nat /\ x >= 4 + HeapInitial
    BY <1>2, <1>3
  <2>4. \A x \in Reserved : x \in Nat /\ x >= 4 /\ x <= 3 + HeapInitial
    BY <1>3, <2>1
  <2>5. free \in SUBSET (Nat \ {0}) /\ free # {} /\ free \cap (1 .. 3) = {}
    BY <1>3, <2>2, <2>3
  <2>6. Reserved \cap (free \cup (1 .. 3)) = {}
    BY <1>3, <2>3, <2>4
  <2> QED BY <2>1, <2>5, <2>6
<1>5. \A v \in HeapPages \cup UserStack : paging_get_phys_on(memory, Boot, v) = NoFrame
  <2> SUFFICES ASSUME NEW v \in HeapPages \cup UserStack
               PROVE  paging_get_phys_on(memory, Boot, v) = NoFrame
    OBVIOUS
  <2>1. v \in Page /\ (v[1] = 1 \/ (v[1] = 0 /\ v[2] # 0))
    BY Constants DEF HeapPages, LowPages
  <2>2. v[1] \in Index /\ v[2] \in Index
    BY <2>1, PageIs
  <2>3. CASE v[1] = 1
    <3>1. memory[1][1] = Absent
      BY <1>1, BootIs, Constants
    <3>2. ~memory[Boot][v[1]].present
      BY <2>3, <3>1, EntryIs DEF Boot
    <3> QED BY <3>2 DEF paging_get_phys_on
  <2>4. CASE v[1] = 0 /\ v[2] # 0
    <3>1. memory[1][0].frame = 2
      BY <1>1, BootIs DEF Entry
    <3>2. memory[2][v[2]] = Absent
      BY <1>1, <2>2, <2>4, BootIs
    <3>3. ~memory[memory[Boot][v[1]].frame][v[2]].present
      BY <2>4, <3>1, <3>2, EntryIs DEF Boot
    <3> QED BY <3>3 DEF paging_get_phys_on
  <2> QED BY <2>1, <2>3, <2>4
<1>6. memory[Boot][0].present
  BY <1>1, BootIs DEF Entry, Boot
<1>7. DOMAIN memory = 1 .. 3 /\ \E lev : Tree(memory, lev, spaces)
  BY <1>1, BootIs, BootTree
<1>8. others \cup Reserved = Reserved
  BY <1>1
<1>9. Sound(memory, free, spaces, others \cup Reserved)
  BY <1>4, <1>5, <1>6, <1>7, <1>8 DEF Sound
<1> QED BY <1>1, <1>3, <1>4, <1>9, Constants DEF PagingInv

\* A call at its start.
LEMMA CallIs ==
    ASSUME NEW S, NEW X, Sound(memory, free, S, X)
    PROVE  /\ Call \in Calls /\ Call.memory = memory /\ Call.free = free /\ Call.mapped = {}
           /\ Call.ok
<1>1. memory \in Memories /\ free \in SUBSET Nat
  BY DEF Sound, Tree
<1> QED BY <1>1 DEF Call, Calls, Boot

\* What a call leaves to the next step.
After(X, p, v, F) ==
    /\ Sound(memory', free', spaces, X) /\ Traced
    /\ \A w \in Page \ {v} :
          paging_get_phys_on(memory', Boot, w) = paging_get_phys_on(memory, Boot, w)
    /\ DOMAIN memory' \cup free' \subseteq DOMAIN memory \cup F
    /\ \A j \in Index : memory[Boot][j].present => memory'[Boot][j].present
    /\ F # {} => memory'[p][v[1]].present

\* Then the step is accounted for.
LEMMA AfterAccounts ==
    ASSUME NEW X, NEW p, NEW v, NEW F, After(X, p, v, F), v \in Covered, F \subseteq free,
           others' = others
    PROVE  Accounted
<1>1. \A w \in Page \ Covered :
          paging_get_phys_on(memory', Boot, w) = paging_get_phys_on(memory, Boot, w)
  BY DEF After
<1>2. DOMAIN memory' \cup free' \cup others' \subseteq DOMAIN memory \cup free \cup others
  BY DEF After
<1> QED BY <1>1, <1>2 DEF After, Accounted

\* So does every call whose page may be mapped.
LEMMA Applied ==
    ASSUME NEW m \in Calls, NEW X, m.memory = memory, m.mapped = {},
           Sound(m.memory, m.free, spaces, X),
           NEW p \in spaces, NEW v \in Page, NEW f \in Nat, v \in HeapPages \cup UserStack => f \in X,
           NEW u, u \in BOOLEAN, memory[p][v[1]].present \/ spaces = {p},
           NEW r, r = paging_map_page_on(m, p, v, f, u), Apply(r)
    PROVE  After(X \ {f}, p, v, m.free)
<1>1. Maps(m, p, v, f, spaces, r) /\ Sound(r.memory, r.free, spaces, X \ {f})
  BY SoundMap
<1>2. memory' = r.memory /\ free' = r.free /\ mapped' = r.mapped
  BY DEF Apply
<1>3. Boot \in DOMAIN memory
  BY DEF Sound, Tree
<1>4. ASSUME NEW s \in spaces, NEW w \in Page
      PROVE  \/ paging_get_phys_on(memory', s, w) = paging_get_phys_on(memory, s, w)
             \/ <<w, paging_get_phys_on(memory', s, w)>> \in mapped'
  <2>1. paging_get_phys_on(r.memory, s, w) =
             IF r.ok /\ w = v THEN f ELSE paging_get_phys_on(m.memory, s, w)
    BY <1>1 DEF Maps
  <2>2. r.mapped = IF r.ok THEN m.mapped \cup {<<v, f>>} ELSE m.mapped
    BY <1>1 DEF Maps
  <2> QED BY <1>2, <2>1, <2>2
<1>5. \A j \in Index : memory[Boot][j].present => memory'[Boot][j].present
  BY <1>1, <1>2, <1>3 DEF Maps
<1>6. m.free # {} => memory'[p][v[1]].present
  BY <1>1, <1>2 DEF Maps
<1>7. \A w \in Page \ {v} :
          paging_get_phys_on(memory', Boot, w) = paging_get_phys_on(memory, Boot, w)
  <2>1. Boot \in spaces
    BY DEF Sound, Tree
  <2> QED BY <1>1, <1>2, <2>1 DEF Maps
<1>8. DOMAIN memory' \cup free' \subseteq DOMAIN memory \cup m.free
  BY <1>1, <1>2 DEF Maps
<1> QED BY <1>1, <1>2, <1>4, <1>5, <1>6, <1>7, <1>8 DEF After, Traced

\* Each action keeps the invariant, and accounts for what it maps.
LEMMA HeapInitKeeps == PagingInv /\ heap_init => PagingInv' /\ Accounted
<1> SUFFICES ASSUME PagingInv, heap_init PROVE PagingInv' /\ Accounted
  OBVIOUS
<1> DEFINE f == 4 + top
           v == HeapPage(top)
           r == paging_map_page_on(Call, Boot, v, f, FALSE)
           X == 4 + top .. 3 + HeapInitial
<1>1. /\ phase = "heap_init" /\ Apply(r) /\ top' = top + 1
      /\ phase' = IF top + 1 = HeapInitial THEN "framebuffer" ELSE phase
      /\ spaces' = spaces /\ load' = load /\ others' = others
  BY DEF heap_init
<1>2. /\ spaces = {Boot} /\ load = Idle /\ others = {} /\ top \in Nat /\ top < HeapInitial
      /\ (top = 0 => free # {}) /\ (top > 0 => memory[Boot][1].present)
      /\ Sound(memory, free, spaces, X)
  <2>1. Reserved = X /\ others \cup Reserved = X
    BY <1>1 DEF Reserved, PagingInv
  <2> QED BY <1>1, <2>1 DEF PagingInv
<1>3. HeapInitial \in Nat /\ HeapMax \in Nat /\ HeapInitial <= HeapMax
  BY Constants
<1>4. v \in HeapPages /\ v \in Page /\ v[1] = 1
  <2>1. v \in HeapPages
    BY <1>2, <1>3, HeapPageIn
  <2> QED BY <2>1 DEF HeapPages
<1>5. f \in Nat /\ f \in X /\ X \ {f} = 4 + (top + 1) .. 3 + HeapInitial
  BY <1>2, <1>3
<1>6. /\ Call \in Calls /\ Call.memory = memory /\ Call.free = free /\ Call.mapped = {}
  BY <1>2, CallIs
<1>7. After(X \ {f}, Boot, v, Call.free)
  <2>1. r = paging_map_page_on(Call, Boot, v, f, FALSE) /\ FALSE \in BOOLEAN /\ Boot \in spaces
    BY <1>2
  <2>2. Sound(Call.memory, Call.free, spaces, X)
    BY <1>2, <1>6
  <2> HIDE DEF r, v, f, X
  <2> QED BY <1>1, <1>2, <1>4, <1>5, <1>6, <2>1, <2>2, Applied
<1> HIDE DEF r, v, f, X
<1>8. memory'[Boot][1].present
  <2>1. CASE top = 0
    <3>1. memory'[Boot][v[1]].present
      BY <1>2, <1>6, <1>7, <2>1 DEF After
    <3> QED BY <1>4, <3>1
  <2>2. CASE top # 0
    <3>1. memory[Boot][1].present
      BY <1>2, <2>2
    <3> QED BY <1>7, <3>1, Constants DEF After
  <2> QED BY <2>1, <2>2
<1>9. others' \cup Reserved' = X \ {f}
  <2>1. CASE top + 1 = HeapInitial
    <3>1. phase' = "framebuffer" /\ X \ {f} = {}
      BY <1>1, <1>2, <1>3, <1>5, <2>1
    <3> QED BY <1>1, <1>2, <3>1 DEF Reserved
  <2>2. CASE top + 1 # HeapInitial
    <3>1. phase' = "heap_init" /\ top' = top + 1
      BY <1>1, <2>2
    <3>2. Reserved' = 4 + (top + 1) .. 3 + HeapInitial
      BY <3>1 DEF Reserved
    <3> QED BY <1>1, <1>2, <1>5, <3>2
  <2> QED BY <2>1, <2>2
<1>10. Sound(memory', free', spaces', others' \cup Reserved') /\ Accounted
  <2>1. v \in Covered /\ Call.free \subseteq free
    BY <1>4, <1>6 DEF Covered
  <2>2. Accounted
    BY <1>1, <1>7, <2>1, AfterAccounts
  <2> QED BY <1>1, <1>7, <1>9, <2>2 DEF After
<1>11. top' \in Nat /\ top' <= HeapMax /\ top' > 0 /\ (phase' = "heap_init" => top' < HeapInitial)
  BY <1>1, <1>2, <1>3
<1>12. others' = {} /\ spaces' = {Boot} /\ load' = Idle /\ phase' \in {"heap_init", "framebuffer"}
  BY <1>1, <1>2
<1>13. PagingInv'
  BY <1>8, <1>10, <1>11, <1>12 DEF PagingInv
<1> QED BY <1>10, <1>13

\* The frame buffer's page is neither of the heap nor of a stack.
LEMMA FrameBufferKeeps == PagingInv /\ fb_init_from_vbe => PagingInv' /\ Accounted
<1> SUFFICES ASSUME PagingInv, fb_init_from_vbe PROVE PagingInv' /\ Accounted
  OBVIOUS
<1> DEFINE f == FrameAt(FbPage)
           r == paging_map_page_on(Call, Boot, FbPage, f, FALSE)
           X == {}
<1>1. /\ phase = "framebuffer" /\ phase' = "up" /\ Apply(r)
      /\ spaces' = spaces /\ top' = top /\ load' = load /\ others' = others
  BY DEF fb_init_from_vbe
<1>2. /\ spaces = {Boot} /\ load = Idle /\ others = {} /\ top \in Nat /\ top <= HeapMax
      /\ memory[Boot][1].present /\ Sound(memory, free, spaces, X)
  <2>1. others \cup Reserved = X
    BY <1>1 DEF Reserved, PagingInv
  <2> QED BY <1>1, <2>1 DEF PagingInv
<1>3. FbPage \in Page /\ FbPage \notin HeapPages \cup UserStack
  BY Constants DEF LowPages, HeapPages
<1>4. f \in Nat
  <2>1. FbPage[2] \in Nat /\ FbPage[3] \in Nat /\ FbPage[4] \in Nat /\ Entries \in Nat
    BY <1>3, PageIs, Constants
  <2>2. FbPage[2] * Entries \in Nat
    BY <2>1
  <2>3. (FbPage[2] * Entries + FbPage[3]) * Entries \in Nat
    BY <2>1, <2>2
  <2> QED BY <2>1, <2>3 DEF FrameAt
<1>5. /\ Call \in Calls /\ Call.memory = memory /\ Call.free = free /\ Call.mapped = {}
  BY <1>2, CallIs
<1>6. After(X \ {f}, Boot, FbPage, Call.free)
  <2>1. r = paging_map_page_on(Call, Boot, FbPage, f, FALSE) /\ FALSE \in BOOLEAN /\ Boot \in spaces
    BY <1>2
  <2>2. Sound(Call.memory, Call.free, spaces, X)
    BY <1>2, <1>5
  <2> HIDE DEF r, f, X
  <2> QED BY <1>1, <1>2, <1>3, <1>4, <1>5, <2>1, <2>2, Applied
<1>7. others' \cup Reserved' = X \ {f}
  BY <1>1, <1>2 DEF Reserved
<1> HIDE DEF r, f, X
<1>8. Sound(memory', free', spaces', others' \cup Reserved') /\ Accounted
  <2>1. FbPage \in Covered /\ Call.free \subseteq free
    BY <1>5, ProgramsIn DEF Covered
  <2>2. Accounted
    BY <1>1, <1>6, <2>1, AfterAccounts
  <2> QED BY <1>1, <1>6, <1>7, <2>2 DEF After
<1>9. memory'[Boot][1].present
  BY <1>2, <1>6, Constants DEF After
<1>10. PagingInv'
  BY <1>1, <1>2, <1>8, <1>9 DEF PagingInv
<1> QED BY <1>8, <1>10

\* A growth is a sequence of calls.
LEMMA GrowKeeps == PagingInv /\ kmalloc_grow => PagingInv' /\ Accounted
<1> SUFFICES ASSUME PagingInv, kmalloc_grow PROVE PagingInv' /\ Accounted
  OBVIOUS
<1> DEFINE m == Grow(Call, top)
           G == Grows(spaces, others, memory)
<1>1. /\ phase = "up" /\ load = Idle /\ top + GrowPages <= HeapMax
      /\ memory' = m.memory /\ free' = m.free /\ mapped' = m.mapped
      /\ top' = IF m.ok THEN top + GrowPages ELSE top
      /\ spaces' = spaces /\ load' = load /\ others' = others /\ phase' = phase
  BY DEF kmalloc_grow, Apply
<1>2. /\ top \in Nat /\ top <= HeapMax /\ memory[Boot][1].present /\ others \in SUBSET (Nat \ {0})
      /\ Sound(memory, free, spaces, others)
  <2>1. others \cup Reserved = others
    BY <1>1 DEF Reserved
  <2> QED BY <1>1, <2>1 DEF PagingInv
<1>3. /\ Call \in Calls /\ Call.memory = memory /\ Call.free = free /\ Call.mapped = {}
  BY <1>2, CallIs
<1>4. Call \in G
  BY <1>2, <1>3 DEF Grows
<1>5. m \in G
  BY <1>1, <1>2, <1>4, GrowIs
<1> HIDE DEF m
<1>6. /\ Sound(m.memory, m.free, spaces, others) /\ m.memory[Boot][1].present
      /\ DOMAIN m.memory \cup m.free \subseteq DOMAIN memory \cup free
      /\ \A w \in Page \ Covered :
            paging_get_phys_on(m.memory, Boot, w) = paging_get_phys_on(memory, Boot, w)
      /\ \A s \in spaces, w \in Page :
            \/ paging_get_phys_on(m.memory, s, w) = paging_get_phys_on(memory, s, w)
            \/ <<w, paging_get_phys_on(m.memory, s, w)>> \in m.mapped
  BY <1>5 DEF Grows
<1>7. Accounted
  <2>1. Traced
    BY <1>1, <1>6 DEF Traced
  <2>2. DOMAIN memory' \cup free' \cup others' \subseteq DOMAIN memory \cup free \cup others
    BY <1>1, <1>6
  <2> QED BY <1>1, <1>6, <2>1, <2>2 DEF Accounted
<1>8. others' \cup Reserved' = others
  BY <1>1 DEF Reserved
<1>9. Sound(memory', free', spaces', others' \cup Reserved') /\ memory'[Boot][1].present
  BY <1>1, <1>6, <1>8
<1>10. top' \in Nat /\ top' <= HeapMax
  BY <1>1, <1>2, Constants
<1>11. PagingInv'
  BY <1>1, <1>2, <1>9, <1>10 DEF PagingInv
<1> QED BY <1>7, <1>11

\* A copy of the boot PML4, for elf_load and for fork.
LEMMA CloneKeeps ==
    ASSUME PagingInv, phase = "up", Clone, others' = others, phase' = phase
    PROVE  /\ Sound(memory', free', spaces', others' \cup Reserved') /\ Accounted
           /\ memory'[Boot][1].present /\ Lowest(free) \in spaces' /\ spaces \subseteq spaces'
<1> DEFINE f == Lowest(free)
<1>1. /\ free # {} /\ memory' = Filled(memory, f, memory[Boot]) /\ free' = free \ {f}
      /\ spaces' = spaces \cup {f} /\ mapped' = {}
  BY DEF Clone, CloneOf
<1>2. Sound(memory, free, spaces, others) /\ memory[Boot][1].present
      /\ others' \cup Reserved' = others
  <2>1. others \cup Reserved = others /\ others' \cup Reserved' = others
    BY DEF Reserved
  <2> QED BY <2>1 DEF PagingInv
<1>3. /\ Sound(memory', free \ {f}, spaces \cup {f}, others) /\ Same(memory, memory', spaces)
      /\ memory'[Boot] = memory[Boot]
  <2>1. f = Lowest(free)
    OBVIOUS
  <2> HIDE DEF f
  <2> QED BY <1>1, <1>2, <2>1, SoundClone
<1> HIDE DEF f
<1>4. Accounted
  <2>1. Traced
    BY <1>3 DEF Same, Traced
  <2>2. \A w \in Page \ Covered :
           paging_get_phys_on(memory', Boot, w) = paging_get_phys_on(memory, Boot, w)
    <3>1. Boot \in spaces
      BY <1>2 DEF Sound, Tree
    <3> QED BY <1>3, <3>1 DEF Same
  <2>3. f \in free
    BY <1>1, <1>2, SoundTake DEF f
  <2>4. DOMAIN memory' = DOMAIN memory \cup {f}
    BY <1>1 DEF Filled
  <2>5. DOMAIN memory' \cup free' \cup others' \subseteq DOMAIN memory \cup free \cup others
    BY <1>1, <2>3, <2>4
  <2> QED BY <2>1, <2>2, <2>5 DEF Accounted
<1> QED BY <1>1, <1>2, <1>3, <1>4 DEF f

\* elf_load makes its address space.
LEMMA ElfLoadKeeps == PagingInv /\ elf_load => PagingInv' /\ Accounted
<1> SUFFICES ASSUME PagingInv, elf_load PROVE PagingInv' /\ Accounted
  OBVIOUS
<1>1. /\ phase = "up" /\ Clone /\ top' = top /\ others' = others /\ phase' = phase
  BY DEF elf_load
<1>2. PICK s \in Segments : load' = [pml4 |-> Lowest(free), todo |-> s \o StackPages]
  BY DEF elf_load
<1>3. /\ Sound(memory', free', spaces', others' \cup Reserved') /\ Accounted
      /\ memory'[Boot][1].present /\ Lowest(free) \in spaces'
  BY <1>1, CloneKeeps
<1>4. s \o StackPages \in Seq(ProgramPages) \ {<< >>}
  <2>1. s \in Seq(ProgramPages) /\ StackPages \in Seq(ProgramPages) /\ StackPages # << >>
    BY Constants, ProgramsIn
  <2>2. s \o StackPages \in Seq(ProgramPages) /\ Len(s \o StackPages) = Len(s) + Len(StackPages)
    BY <2>1, ConcatProperties
  <2>3. Len(StackPages) > 0 /\ Len(s) >= 0 /\ Len(s) \in Nat /\ Len(StackPages) \in Nat
    BY <2>1, EmptySeq, LenProperties
  <2>4. s \o StackPages # << >>
    BY <2>2, <2>3
  <2> QED BY <2>2, <2>4
<1>5. load' \in [pml4 : spaces', todo : Seq(ProgramPages) \ {<< >>}]
  BY <1>2, <1>3, <1>4
<1>6. PagingInv'
  BY <1>1, <1>3, <1>5 DEF PagingInv
<1> QED BY <1>3, <1>6

\* fork makes one.
LEMMA ForkKeeps == PagingInv /\ sys_fork => PagingInv' /\ Accounted
<1> SUFFICES ASSUME PagingInv, sys_fork PROVE PagingInv' /\ Accounted
  OBVIOUS
<1>1. /\ phase = "up" /\ load = Idle /\ Clone /\ top' = top /\ others' = others /\ phase' = phase
      /\ load' = load
  BY DEF sys_fork
<1>2. /\ Sound(memory', free', spaces', others' \cup Reserved') /\ Accounted
      /\ memory'[Boot][1].present
  BY <1>1, CloneKeeps
<1>3. PagingInv'
  BY <1>1, <1>2 DEF PagingInv
<1> QED BY <1>2, <1>3

\* Nothing is mapped and no table changes.
LEMMA QuietAccounts ==
    ASSUME memory' = memory, free' \cup others' \subseteq free \cup others
    PROVE  Accounted
<1>1. DOMAIN memory' \cup free' \cup others' \subseteq DOMAIN memory \cup free \cup others
  OBVIOUS
<1> QED BY <1>1 DEF Accounted, Traced

\* A program's page goes below the low entry, which all PML4s share.
LEMMA LoadPageKeeps == PagingInv /\ LoadPage => PagingInv' /\ Accounted
<1> SUFFICES ASSUME PagingInv, LoadPage PROVE PagingInv' /\ Accounted
  OBVIOUS
<1>1. /\ load # Idle /\ spaces' = spaces /\ top' = top /\ others' = others /\ phase' = phase
  BY DEF LoadPage
<1>2. /\ phase = "up" /\ load \in [pml4 : spaces, todo : Seq(ProgramPages) \ {<< >>}]
      /\ memory[Boot][1].present
  BY <1>1 DEF PagingInv
<1>3. /\ Sound(memory, free, spaces, others) /\ others \cup Reserved = others
      /\ others' \cup Reserved' = others
  <2>1. others \cup Reserved = others /\ others' \cup Reserved' = others
    BY <1>1, <1>2 DEF Reserved
  <2> QED BY <2>1 DEF PagingInv
<1>4. CASE free = {}
  <2>1. load' = Idle /\ memory' = memory /\ free' = free
    BY <1>4 DEF LoadPage
  <2>2. PagingInv'
    BY <1>1, <1>2, <1>3, <2>1 DEF PagingInv
  <2> QED BY <1>1, <2>1, <2>2, QuietAccounts
<1>5. CASE free # {}
  <2> DEFINE f == Lowest(free)
             F == free \ {f}
             n == [Call EXCEPT !.free = F]
             p == load.pml4
             v == Head(load.todo)
             r == paging_map_page_on(n, p, v, f, TRUE)
  <2>1. Apply(r) /\ load' = IF r.ok /\ Len(load.todo) > 1 THEN [load EXCEPT !.todo = Tail(@)] ELSE Idle
    <3>1. [Call EXCEPT !.free = @ \ {f}] = n
      BY DEF Call
    <3> QED BY <1>5, <3>1 DEF LoadPage
  <2>2. f \in free /\ f \in Nat \ {0} /\ Sound(memory, F, spaces, others \cup {f})
    BY <1>3, <1>5, SoundTake
  <2> HIDE DEF f
  <2>3. /\ Call \in Calls /\ Call.memory = memory /\ Call.free = free /\ Call.mapped = {}
    BY <1>3, CallIs
  <2>4. F \in SUBSET Nat /\ F \subseteq free
    BY <2>3, CallFields
  <2> HIDE DEF F
  <2>5. n \in Calls /\ n.memory = memory /\ n.free = F /\ n.mapped = {}
    BY <2>3, <2>4, CallFrees
  <2>6. p \in spaces /\ load.todo \in Seq(ProgramPages) /\ load.todo # << >>
    BY <1>2
  <2>7. v \in LowPages /\ v \in Covered
    <3>1. v \in ProgramPages
      BY <2>6, HeadTailProperties
    <3> QED BY <3>1, ProgramsIn DEF Covered
  <2>8. v \in Page /\ v[1] = 0 /\ memory[p][v[1]].present
    <3>1. memory[p][0].present = memory[Boot][0].present
      <4>1. PICK lev : Tree(memory, lev, spaces)
        BY <1>3 DEF Sound
      <4>2. \A s \in spaces, i \in Index : memory[s][i].present = memory[Boot][i].present
        BY <4>1 DEF Tree
      <4> HIDE DEF p
      <4> QED BY <2>6, <4>2, Constants
    <3>2. memory[Boot][0].present
      BY <1>3 DEF Sound
    <3> HIDE DEF v
    <3> QED BY <2>7, <3>1, <3>2 DEF LowPages
  <2>9. After((others \cup {f}) \ {f}, p, v, n.free)
    <3>1. r = paging_map_page_on(n, p, v, f, TRUE) /\ TRUE \in BOOLEAN /\ f \in others \cup {f}
      OBVIOUS
    <3>2. Sound(n.memory, n.free, spaces, others \cup {f})
      BY <2>2, <2>5
    <3> HIDE DEF r, v, n, p
    <3> QED BY <2>1, <2>2, <2>5, <2>6, <2>8, <3>1, <3>2, Applied
  <2> HIDE DEF n, r, v, p
  <2>10. (others \cup {f}) \ {f} = others
    BY <1>3, <2>2 DEF Sound
  <2>11. Sound(memory', free', spaces', others' \cup Reserved') /\ Accounted
    <3>1. n.free \subseteq free
      BY <2>4, <2>5
    <3>2. Accounted
      BY <1>1, <2>7, <2>9, <3>1, AfterAccounts
    <3> QED BY <1>1, <1>3, <2>9, <2>10, <3>2 DEF After
  <2>12. memory'[Boot][1].present
    BY <1>2, <2>9, Constants DEF After
  <2>13. load' = Idle \/ load' \in [pml4 : spaces', todo : Seq(ProgramPages) \ {<< >>}]
    <3>1. CASE r.ok /\ Len(load.todo) > 1
      <4> DEFINE t == Tail(load.todo)
      <4>1. load' = [load EXCEPT !.todo = t]
        BY <2>1, <3>1
      <4>2. t \in Seq(ProgramPages) /\ Len(t) = Len(load.todo) - 1 /\ Len(load.todo) \in Nat
        <5> DEFINE q == load.todo
        <5>1. q \in Seq(ProgramPages) /\ q # << >>
          BY <2>6
        <5> HIDE DEF q
        <5>2. Tail(q) \in Seq(ProgramPages) /\ Len(Tail(q)) = Len(q) - 1 /\ Len(q) \in Nat
          BY <5>1, HeadTailProperties, LenProperties
        <5> QED BY <5>2 DEF q
      <4>3. t # << >>
        <5>1. Len(t) > 0
          BY <3>1, <4>2
        <5> HIDE DEF t
        <5> QED BY <5>1
      <4> HIDE DEF t
      <4> QED BY <1>1, <1>2, <4>1, <4>2, <4>3
    <3>2. CASE ~(r.ok /\ Len(load.todo) > 1)
      BY <2>1, <3>2
    <3> QED BY <3>1, <3>2
  <2>14. PagingInv'
    BY <1>1, <1>2, <2>11, <2>12, <2>13 DEF PagingInv
  <2> QED BY <2>11, <2>14
<1> QED BY <1>4, <1>5

\* A frame goes to another user.
LEMMA OtherAllocKeeps == PagingInv /\ OtherAlloc => PagingInv' /\ Accounted
<1> SUFFICES ASSUME PagingInv, OtherAlloc PROVE PagingInv' /\ Accounted
  OBVIOUS
<1> DEFINE f == Lowest(free)
<1>1. /\ phase = "up" /\ load = Idle /\ free # {} /\ others' = others \cup {f} /\ free' = free \ {f}
      /\ memory' = memory /\ spaces' = spaces /\ top' = top /\ load' = load /\ phase' = phase
  BY DEF OtherAlloc
<1>2. /\ Sound(memory, free, spaces, others) /\ others' \cup Reserved' = others \cup {f}
  <2>1. others \cup Reserved = others /\ others' \cup Reserved' = others \cup {f}
    BY <1>1 DEF Reserved
  <2> QED BY <2>1 DEF PagingInv
<1>3. f \in Nat \ {0} /\ Sound(memory, free \ {f}, spaces, others \cup {f})
  BY <1>1, <1>2, SoundTake
<1> HIDE DEF f
<1>4. Sound(memory', free', spaces', others' \cup Reserved') /\ others' \in SUBSET (Nat \ {0})
  BY <1>1, <1>2, <1>3 DEF PagingInv
<1>5. PagingInv'
  BY <1>1, <1>4 DEF PagingInv
<1>6. free' \cup others' \subseteq free \cup others
  BY <1>1, <1>2, SoundTake DEF f
<1> QED BY <1>1, <1>5, <1>6, QuietAccounts

\* A frame comes back.
LEMMA OtherFreeKeeps == PagingInv /\ OtherFree => PagingInv' /\ Accounted
<1> SUFFICES ASSUME PagingInv, OtherFree PROVE PagingInv' /\ Accounted
  OBVIOUS
<1>1. /\ load = Idle /\ memory' = memory /\ spaces' = spaces /\ top' = top /\ load' = load
      /\ phase' = phase
  BY DEF OtherFree
<1>2. PICK f \in others : others' = others \ {f} /\ free' = free \cup {f}
  BY DEF OtherFree
<1>3. phase = "up" /\ f \in Nat \ {0}
  BY <1>2 DEF PagingInv
<1>4. /\ Sound(memory, free, spaces, others) /\ others' \cup Reserved' = others \ {f}
  <2>1. others \cup Reserved = others /\ others' \cup Reserved' = others \ {f}
    BY <1>1, <1>2, <1>3 DEF Reserved
  <2> QED BY <2>1 DEF PagingInv
<1>5. Sound(memory, free \cup {f}, spaces, others \ {f})
  BY <1>3, <1>4, SoundFree
<1>6. Sound(memory', free', spaces', others' \cup Reserved') /\ others' \in SUBSET (Nat \ {0})
  BY <1>1, <1>2, <1>4, <1>5 DEF PagingInv
<1>7. PagingInv'
  BY <1>1, <1>3, <1>6 DEF PagingInv
<1>8. free' \cup others' \subseteq free \cup others
  BY <1>2
<1> QED BY <1>1, <1>7, <1>8, QuietAccounts

\* A step that changes none of this.
LEMMA StandStill ==
    ASSUME PagingInv, UNCHANGED <<memory, free, spaces, top, load, others, phase>>
    PROVE  PagingInv' /\ Accounted
<1>1. PagingInv'
  BY DEF PagingInv, Reserved
<1> QED BY <1>1, QuietAccounts

\* All actions together.
LEMMA PagingKeeps == PagingInv /\ [PagingNext]_pagingVars => PagingInv' /\ Accounted
<1> SUFFICES ASSUME PagingInv, [PagingNext]_pagingVars PROVE PagingInv' /\ Accounted
  OBVIOUS
<1>1. CASE heap_init \/ fb_init_from_vbe \/ kmalloc_grow
  BY <1>1, HeapInitKeeps, FrameBufferKeeps, GrowKeeps
<1>2. CASE elf_load \/ LoadPage \/ sys_fork
  BY <1>2, ElfLoadKeeps, LoadPageKeeps, ForkKeeps
<1>3. CASE OtherAlloc \/ OtherFree
  BY <1>3, OtherAllocKeeps, OtherFreeKeeps
<1>4. CASE OutOfMemory
  BY <1>4, StandStill DEF OutOfMemory
<1>5. CASE Astray \/ UNCHANGED pagingVars
  BY <1>5, StandStill DEF Astray, pagingVars
<1> QED BY <1>1, <1>2, <1>3, <1>4, <1>5 DEF PagingNext

-----------------------------------------------------------------------------
(***************************************************************************)
(* The tables of paging.c are a tree below the address spaces, and every   *)
(* step leaves what it does not map.                                       *)
(***************************************************************************)
THEOREM PagingInvariant == PagingSpec => []PagingInv
<1>1. PagingInit => PagingInv
  BY PagingStarts
<1>2. PagingInv /\ [PagingNext]_pagingVars => PagingInv'
  BY PagingKeeps
<1> QED BY <1>1, <1>2, PTL DEF PagingSpec

(***************************************************************************)
(* While the kernel reaches all tables, all address spaces translate every *)
(* page alike: what paging_map_page puts below g_pml4 appears in every     *)
(* copy paging_clone_current made.                                         *)
(***************************************************************************)
THEOREM SpacesAlwaysAgree == PagingSpec => []SpacesAgree
<1>1. PagingInv => SpacesAgree
  <2> SUFFICES ASSUME PagingInv PROVE SpacesAgree
    OBVIOUS
  <2>1. PICK lev : Tree(memory, lev, spaces)
    BY DEF PagingInv, Sound
  <2> QED BY <2>1, Agree DEF SpacesAgree, paging_get_phys
<1> QED BY <1>1, PagingInvariant, PTL

(***************************************************************************)
(* paging_map_page_on, which finds every table it needs and leaves every   *)
(* table within reach, changes the translation of its own page and of no   *)
(* other, in every address space, also when it runs out of frames.         *)
(***************************************************************************)
THEOREM MappingIsLocal == PagingSpec => MapsOnlyItsPage
<1>1. PagingInv /\ [PagingNext]_pagingVars =>
         [TablesReached' =>
             \A s \in spaces, v \in Page :
                LET new == paging_get_phys_on(memory', s, v)
                IN new = paging_get_phys_on(memory, s, v) \/ <<v, new>> \in mapped']_pagingVars
  BY PagingKeeps DEF Accounted, Traced
<1> QED BY <1>1, PagingInvariant, PTL DEF PagingSpec, MapsOnlyItsPage

(***************************************************************************)
(* While the kernel reaches all tables: tables, heap pages, program        *)
(* stacks, other kernel data and free frames are apart, however the        *)
(* allocations of paging.c, heap.c and elf.c fail.                         *)
(***************************************************************************)
THEOREM FramesAlwaysApart == PagingSpec => []FramesApart
<1>1. PagingInv => FramesApart
  <2> SUFFICES ASSUME PagingInv PROVE FramesApart
    OBVIOUS
  <2> DEFINE get(v) == paging_get_phys_on(memory, Boot, v)
             heap == {get(HeapPage(i)) : i \in 0 .. top - 1} \ {NoFrame}
             stack == {get(StackPages[i]) : i \in DOMAIN StackPages} \ {NoFrame}
  <2>1. /\ \A v \in HeapPages \cup UserStack :
              get(v) = NoFrame \/ get(v) \notin free \cup (others \cup Reserved) \cup DOMAIN memory
        /\ \A v \in HeapPages, w \in UserStack : get(v) = get(w) => get(v) = NoFrame
        /\ free \cap DOMAIN memory = {} /\ (others \cup Reserved) \cap (free \cup DOMAIN memory) = {}
    BY DEF PagingInv, Sound
  <2>2. top \in Nat /\ top <= HeapMax /\ HeapMax \in Nat
    BY Constants DEF PagingInv
  <2>3. \A i \in 0 .. top - 1 : HeapPage(i) \in HeapPages
    <3> SUFFICES ASSUME NEW i \in 0 .. top - 1 PROVE HeapPage(i) \in HeapPages
      OBVIOUS
    <3>1. i \in Nat /\ i < HeapMax
      BY <2>2
    <3> QED BY <3>1, HeapPageIn
  <2>4. \A i \in DOMAIN StackPages : StackPages[i] \in UserStack
    BY DEF UserStack
  <2> HIDE DEF get
  <2>5. \A x \in heap : /\ x # NoFrame /\ \E v \in HeapPages : x = get(v)
    BY <2>3
  <2>6. \A x \in stack : /\ x # NoFrame /\ \E v \in UserStack : x = get(v)
    BY <2>4
  <2> HIDE DEF heap, stack
  <2>7. \A x \in heap \cup stack : x \notin free \cup (others \cup Reserved) \cup DOMAIN memory
    BY <2>1, <2>5, <2>6
  <2>8. heap \cap stack = {}
    BY <2>1, <2>5, <2>6
  <2>9. /\ DOMAIN memory \cap (heap \cup stack) = {}
        /\ (free \cup others) \cap (DOMAIN memory \cup heap \cup stack) = {}
    BY <2>1, <2>7
  <2> QED BY <2>8, <2>9 DEF FramesApart, paging_get_phys, heap, stack, get
<1> QED BY <1>1, PagingInvariant, PTL

\* What keeps tables within reach: the kernel has only frames of the boot mapping,
\* and every page there that no program may take still has its own address.
Near ==
    /\ DOMAIN memory \cup free \cup others \subseteq Frames
    /\ \A f \in Frames : PageAt(f) \notin ProgramPages => paging_get_phys(PageAt(f)) = f

\* The address of a frame and its page.
LEMMA AtItsPage ==
    ASSUME NEW f \in Frames
    PROVE  /\ PageAt(f) \in LowPages /\ PageAt(f)[2] = 0 /\ PageAt(f) \notin HeapPages
           /\ PageAt(f)[1] = 0 /\ PageAt(f)[3] * Entries + PageAt(f)[4] = f
<1>1. /\ Entries \in Nat \ {0} /\ 0 \in Index /\ f \in Nat /\ f < Entries * Entries
  <2>1. Entries \in Nat \ {0} /\ 0 \in Index
    BY Constants
  <2> HIDE DEF Index
  <2>2. Entries * Entries \in Nat
    BY <2>1
  <2> QED BY <2>1, <2>2 DEF Frames
<1>2. f \div Entries \in Index /\ f % Entries \in Index
  BY <1>1, Divided DEF Index
<1>3. (f \div Entries) * Entries + (f % Entries) = f
  BY <1>1
<1>4. PageAt(f) = <<0, 0, f \div Entries, f % Entries>>
  BY DEF PageAt
<1>5. PageAt(f) \in Page
  BY <1>1, <1>2, <1>4 DEF Page
<1> QED BY <1>3, <1>4, <1>5 DEF LowPages, HeapPages

\* The boot tables map the low memory onto itself.
LEMMA NearStarts == PagingInit => Near
<1> SUFFICES ASSUME PagingInit PROVE Near
  OBVIOUS
<1>1. memory = BootTables /\ others = {}
  BY DEF PagingInit
<1>2. PICK last \in LastFrames : free = 4 + HeapInitial .. last
  BY DEF PagingInit
<1>3. DOMAIN memory \cup free \cup others \subseteq Frames
  <2>1. last \in Frames /\ last \in Nat /\ last >= HeapInitial + 6 /\ HeapInitial \in Nat
    BY Constants, PagingSizes
  <2>2. Entries * Entries \in Nat
    BY Constants
  <2>3. \A f \in 0 .. last : f \in Frames
    <3> DEFINE n == Entries * Entries
    <3>1. Frames = 0 .. n - 1
      BY DEF Frames
    <3>2. n \in Nat
      BY <2>2
    <3> HIDE DEF n
    <3> QED BY <2>1, <3>1, <3>2
  <2>4. DOMAIN memory = 1 .. 3
    BY <1>1, BootIs
  <2>5. DOMAIN memory \subseteq 0 .. last /\ free \subseteq 0 .. last
    BY <1>2, <2>1, <2>4
  <2> QED BY <1>1, <2>3, <2>5
<1>4. ASSUME NEW f \in Frames PROVE paging_get_phys(PageAt(f)) = f
  <2> DEFINE v == PageAt(f)
  <2>1. v[1] = 0 /\ v[2] = 0 /\ v[3] \in Index /\ v[3] * Entries + v[4] = f
    BY AtItsPage, PageIs DEF LowPages
  <2> HIDE DEF v
  <2>2. /\ memory[Boot][0] = Entry(2, FALSE, FALSE) /\ memory[2][0] = Entry(3, FALSE, FALSE)
        /\ memory[3][v[3]] = Entry(v[3] * Entries, TRUE, FALSE)
    BY <1>1, <2>1, BootIs DEF Boot
  <2>3. /\ memory[Boot][0].present /\ memory[Boot][0].frame = 2
        /\ memory[2][0].present /\ memory[2][0].frame = 3
    BY <2>2 DEF Entry
  <2>4. /\ memory[3][v[3]].huge /\ memory[3][v[3]].frame = v[3] * Entries
    BY <2>2 DEF Entry
  <2>5. paging_get_phys(v) = v[3] * Entries + v[4]
    BY <2>1, <2>3, <2>4 DEF paging_get_phys, paging_get_phys_on
  <2> QED BY <2>1, <2>5 DEF v
<1> QED BY <1>3, <1>4 DEF Near

\* No step moves such a page or finds a frame elsewhere.
LEMMA NearKeeps == Near /\ Accounted => Near'
<1> SUFFICES ASSUME Near, Accounted PROVE Near'
  OBVIOUS
<1>1. (DOMAIN memory \cup free \cup others)' \subseteq Frames
  BY DEF Near, Accounted
<1>2. ASSUME NEW f \in Frames, PageAt(f) \notin ProgramPages
      PROVE  paging_get_phys_on(memory', Boot, PageAt(f)) = f
  <2>1. PageAt(f) \in Page \ Covered
    BY <1>2, AtItsPage DEF LowPages, Covered
  <2>2. paging_get_phys(PageAt(f)) = f
    BY <1>2 DEF Near
  <2> QED BY <2>1, <2>2 DEF Accounted, paging_get_phys
<1> QED BY <1>1, <1>2 DEF Near, paging_get_phys

(***************************************************************************)
(* Nothing but a page of a program's segment ever takes a table out of the *)
(* kernel's reach (elf.c:77-96): the heap, the frame buffer, the stacks    *)
(* and the splits of huge pages leave the addresses of tables alone, and   *)
(* every table is in a frame that the boot tables map.                     *)
(***************************************************************************)
THEOREM OnlyProgramsDo == PagingSpec => []OnlyProgramsHide
<1>1. PagingInit => PagingInv /\ Near
  BY PagingStarts, NearStarts
<1>2. PagingInv /\ Near /\ [PagingNext]_pagingVars => PagingInv' /\ Near'
  BY PagingKeeps, NearKeeps
<1>3. Near => OnlyProgramsHide
  <2> SUFFICES ASSUME Near, NEW f \in DOMAIN memory, paging_get_phys(PageAt(f)) # f
               PROVE  \E s \in Segments : \E i \in DOMAIN s : s[i] = PageAt(f)
    BY DEF OnlyProgramsHide
  <2>1. f \in Frames /\ PageAt(f) \in ProgramPages
    BY DEF Near
  <2>2. PageAt(f)[2] = 0
    BY <2>1, AtItsPage
  <2> QED BY <2>1, <2>2 DEF ProgramPages
<1> QED BY <1>1, <1>2, <1>3, PTL DEF PagingSpec
=============================================================================
