-------------------------------- MODULE Heap --------------------------------
(***************************************************************************)
(* The kernel heap, mm/heap.c: a doubly linked chain of blocks, each with  *)
(* its header in front, first fit with splitting, coalescing on free, and  *)
(* growth by whole pages at the top of the heap's address range.           *)
(*                                                                         *)
(* Addresses and sizes are in abstract units.  What clients write into     *)
(* their blocks is not modelled; a header that a merge has swallowed reads *)
(* as blank, unless g_heap_end still points at it.                         *)
(***************************************************************************)
EXTENDS Integers, FiniteSets, FiniteSetsExt

CONSTANTS
    Align,       \* HEAP_ALIGN
    HeaderSize,  \* HEADER_SIZE
    MinBlock,    \* MIN_BLOCK
    PageSize,    \* PAGE_SIZE
    Initial,     \* 256 * PAGE_SIZE, mapped by heap_init
    GrowMin,     \* 0x10000: a growth asks for at least this much
    Frames,      \* frames pmm_alloc can still give for growth
    Sizes        \* the request sizes of this instance

ASSUME HeapSizes ==
    /\ {Align, HeaderSize, MinBlock, PageSize, Initial, GrowMin} \subseteq Nat \ {0}
    /\ HeaderSize < MinBlock /\ MinBlock <= Initial
    /\ Frames \in Nat
    /\ Sizes \subseteq Nat

Null == -1                                 \* no header is at this address
MaxTop == Initial + Frames * PageSize
Addr == 0 .. (MaxTop - 1)

Blank == [size |-> 0, free |-> FALSE, next |-> Null, prev |-> Null]

VARIABLES
    hdr,        \* the memory, seen as headers: every header ever written
    heap_end,   \* g_heap_end (g_heap_start is 0 for ever)
    top,        \* g_heap_virt_top
    frames,     \* frames left
    live        \* history: what clients hold, as records [at, total]

vars == <<hdr, heap_end, top, frames, live>>

Fresh(size) == [size |-> size, free |-> TRUE, next |-> Null, prev |-> Null]

\* heap_init
Init ==
    /\ hdr = [a \in Addr |-> IF a = 0 THEN Fresh(Initial) ELSE Blank]
    /\ heap_end = 0
    /\ top = Initial
    /\ frames = Frames
    /\ live = {}

-----------------------------------------------------------------------------
(* kmalloc.                                                                *)

RoundUp(n, unit) == ((n + unit - 1) \div unit) * unit

\* What a request of size occupies, header included.
Total(size) == Max({RoundUp(size, Align) + HeaderSize, MinBlock})

\* The chain of a memory m: its k-th header, Null past the end.
ChainOf(m) ==
    LET Nth[k \in 0 .. MaxTop \div MinBlock] ==
            IF k = 0 THEN 0
            ELSE LET before == Nth[k - 1]
                 IN  IF before = Null THEN Null ELSE m[before].next
    IN  Nth

Suits(h, total) == h.free /\ h.size >= total

\* Mutant: the block behind the new one keeps pointing back at the old one.
SplitForgetsPrev(m, a, total) ==
    IF m[a].size < total + MinBlock THEN m
    ELSE [m EXCEPT ![a + total] = [size |-> m[a].size - total, free |-> TRUE,
                                   next |-> m[a].next, prev |-> a],
                   ![a].next = a + total,
                   ![a].size = total]

\* Mutant: the remainder is given the size of the whole block.
SplitKeepsSize(m, a, total) ==
    IF m[a].size < total + MinBlock THEN m
    ELSE [m EXCEPT ![a + total] = [size |-> m[a].size, free |-> TRUE,
                                   next |-> m[a].next, prev |-> a],
                   ![a].next = a + total,
                   ![a].size = total]

\* A block much larger than asked for is cut in two.
Split(m, a, total) ==
    IF m[a].size < total + MinBlock THEN m
    ELSE LET rest == [size |-> m[a].size - total, free |-> TRUE,
                      next |-> m[a].next, prev |-> a]
             cut == [m EXCEPT ![a + total] = rest,
                              ![a].next = a + total,
                              ![a].size = total]
         IN  IF rest.next = Null THEN cut
             ELSE [cut EXCEPT ![rest.next].prev = a + total]

Claim(m, a, total) == [Split(m, a, total) EXCEPT ![a].free = FALSE]

\* The result of kmalloc as a record: the block's address or Null, the memory,
\* and what growth changes.
Found(a, total) ==
    [at |-> a, hdr |-> Claim(hdr, a, total), end |-> heap_end, top |-> top, frames |-> frames]

\* Growth: one pmm_alloc per page; what was obtained is not returned when they
\* run out.  The new block is linked behind g_heap_end, wherever that is.
Grown(total) ==
    LET pages == RoundUp(Max({total, GrowMin}), PageSize) \div PageSize
        linked == [hdr EXCEPT
                      ![top] = [Fresh(pages * PageSize) EXCEPT !.prev = heap_end],
                      ![heap_end].next = top]
    IN  IF frames < pages
        THEN [at |-> Null, hdr |-> hdr, end |-> heap_end, top |-> top, frames |-> 0]
        ELSE [at |-> top, hdr |-> Claim(linked, top, total), end |-> top,
              top |-> top + pages * PageSize, frames |-> frames - pages]

Allocated(total) ==
    LET nth == ChainOf(hdr)
        fits == {k \in DOMAIN nth : nth[k] # Null /\ Suits(hdr[nth[k]], total)}
    IN  IF fits = {} THEN Grown(total) ELSE Found(nth[Min(fits)], total)

\* kmalloc, and kcalloc, which also clears the block.
kmalloc(size) ==
    /\ size # 0
    /\ LET r == Allocated(Total(size))
       IN  /\ hdr' = r.hdr /\ heap_end' = r.end /\ top' = r.top /\ frames' = r.frames
           /\ live' = IF r.at = Null THEN live
                      ELSE live \cup {[at |-> r.at, total |-> Total(size)]}

-----------------------------------------------------------------------------
(* kfree and krealloc.                                                     *)

\* A free successor is merged into a block.
Coalesce(m, a) ==
    LET n == m[a].next
    IN  IF n = Null THEN m
        ELSE IF ~m[n].free THEN m
        ELSE LET merged == [m EXCEPT ![a].size = @ + m[n].size, ![a].next = m[n].next,
                                     ![n] = IF n = heap_end THEN @ ELSE Blank]
             IN  IF m[n].next = Null THEN merged
                 ELSE [merged EXCEPT ![m[n].next].prev = a]

\* With a free predecessor only that merge is made, so the block and a free
\* successor may stay two blocks.
Freed(m, a) ==
    LET m1 == [m EXCEPT ![a].free = TRUE]
        p == m1[a].prev
    IN  Coalesce(m1, IF p = Null THEN a ELSE IF m1[p].free THEN p ELSE a)

kfree(b) ==
    /\ hdr' = Freed(hdr, b.at)
    /\ live' = live \ {b}
    /\ UNCHANGED <<heap_end, top, frames>>

\* A new block first; the old one is freed only when there is one.
krealloc(b, size) ==
    \/ size = 0 /\ kfree(b)
    \/ /\ size # 0
       /\ LET r == Allocated(Total(size))
          IN  /\ heap_end' = r.end /\ top' = r.top /\ frames' = r.frames
              /\ \/ r.at = Null /\ UNCHANGED <<hdr, live>>
                 \/ /\ r.at # Null
                    /\ hdr' = Freed(r.hdr, b.at)
                    /\ live' = (live \ {b}) \cup {[at |-> r.at, total |-> Total(size)]}

Next ==
    \/ \E size \in Sizes : kmalloc(size)
    \/ \E b \in live : kfree(b)
    \/ \E b \in live, size \in Sizes : krealloc(b, size)

Spec == Init /\ [][Next]_vars

-----------------------------------------------------------------------------
InChain == {a \in Addr : \E k \in DOMAIN ChainOf(hdr) : ChainOf(hdr)[k] = a}

\* As long as the heap has not grown, the chain covers all of it without gaps:
\* each block ends where the next begins, the links agree in both directions,
\* and the blocks not free are exactly those clients hold, at least as large as
\* asked for.  Splits, merges and moves lose no memory.
ChainCovers ==
    /\ \A a \in InChain :
         IF hdr[a].next = Null THEN a + hdr[a].size = top
         ELSE hdr[a].next = a + hdr[a].size /\ hdr[hdr[a].next].prev = a
    /\ {a \in InChain : ~hdr[a].free} = {b.at : b \in live}
    /\ \A b \in live : b.total <= hdr[b.at].size

\* The bytes of a client's block, header included.
Span(b) == b.at .. (b.at + b.total - 1)

\* As long as the heap has not grown, no two clients share a byte, headers
\* included, and no client's block runs past the mapped heap.
BlocksDisjoint ==
    /\ \A b, c \in live : b # c => Span(b) \cap Span(c) = {}
    /\ \A b \in live : Span(b) \subseteq 0 .. (top - 1)
=============================================================================
