------------------------------- MODULE Paging -------------------------------
(***************************************************************************)
(* Page tables: mm/paging.c and its callers.  The kernel heap maps its     *)
(* pages through g_pml4 (heap.c), gpu.c maps the frame buffer, elf_load    *)
(* maps a program into a copy of g_pml4 and fork copies it too.            *)
(*                                                                         *)
(* A virtual page is its four table indices <<pml4, pdpt, pd, pt>>, a      *)
(* physical address the number of a frame, and memory gives every frame    *)
(* that holds a table its Entries entries.  The boot tables are frames 1,  *)
(* 2 and 3 and map the low memory onto itself with huge pages.             *)
(*                                                                         *)
(* The processor walks tables by frame, but the kernel reads and writes    *)
(* them at their physical address used as a virtual one (paging.c:19-25,   *)
(* 58-67, 208-212), and elf_load maps programs over that part of the       *)
(* address space, for all spaces.  When the page at a table's address is   *)
(* one of a program, what the kernel takes for the table is the program's  *)
(* memory.  TablesReached says that this is not so; the module follows the *)
(* code for as long as it holds and no further (Astray).                   *)
(*                                                                         *)
(* Flags other than present, huge and user are the same in every call.     *)
(* paging_unmap_page and paging_add_flags have no caller and are left out, *)
(* and so is the TLB: every change is followed by invlpg or a load of cr3. *)
(***************************************************************************)
EXTENDS Integers, Sequences, FiniteSets

CONSTANTS
    Entries,     \* PAGE_TABLE_ENTRIES
    LastFrames,  \* the frames pmm.c manages are 4 .. last, one last for each machine
    FbPage,      \* page of the frame buffer, above the boot mapping
    Segments,    \* pages of a program's segments: a set of sequences of pages
    StackPages,  \* pages of the user stack, lowest first
    HeapInitial, \* pages heap_init maps
    GrowPages,   \* pages of one growth of the heap
    HeapMax,     \* bound: pages the heap grows to
    MaxOthers,   \* bound: frames the rest of the kernel holds
    MaxClones    \* bound: address spaces made by elf_load and fork

Index == 0 .. Entries - 1
Page == Index \X Index \X Index \X Index
Frames == 0 .. Entries * Entries - 1
FrameAt(v) == (v[2] * Entries + v[3]) * Entries + v[4]  \* what v means as a physical address
PageAt(f) == <<0, 0, f \div Entries, f % Entries>>      \* the page at a frame's own address
HeapPage(i) == <<1, 0, i \div Entries, i % Entries>>
NoFrame == 0
Boot == 1                                    \* frame of the boot PML4

ASSUME PagingSizes ==
    LET Low == {v \in Page : v[1] = 0}          \* programs are linked at 4 MiB
        Above == {v \in Low : v[2] # 0}         \* past the GiB the boot tables map
    IN /\ Entries \in Nat /\ Entries > 1 /\ LastFrames \subseteq Frames
       /\ {HeapInitial, HeapMax, GrowPages} \subseteq Nat \ {0}
       /\ HeapInitial <= HeapMax /\ HeapMax <= Entries * Entries
       /\ \A f \in LastFrames : f >= HeapInitial + 6    \* a machine that boots
       /\ FbPage \in Above /\ Segments \subseteq Seq(Low)
       /\ StackPages \in Seq(Above \ {FbPage}) \ {<< >>}

VARIABLES
    memory,    \* the tables: frame -> index -> entry
    free,      \* frames pmm.c has left
    spaces,    \* PML4 frames: g_pml4 and its copies
    top,       \* g_heap_virt_top, in pages above HEAP_START
    load,      \* elf_load under way: its PML4 and the pages still to map
    others,    \* frames held by the kernel's other users of pmm.c
    phase,     \* "heap_init", "framebuffer", "up"
    mapped     \* history: the calls of the last step that returned 0, <<page, frame>>

pagingVars == <<memory, free, spaces, top, load, others, phase, mapped>>

-----------------------------------------------------------------------------
Absent == [present |-> FALSE, huge |-> FALSE, user |-> FALSE, frame |-> NoFrame]
Entry(f, huge, user) == [present |-> TRUE, huge |-> huge, user |-> user, frame |-> f]
Empty == [i \in Index |-> Absent]
Idle == [pml4 |-> NoFrame, todo |-> << >>]

\* setup_paging: one PML4 entry, one PDPT entry, a PD of huge pages
BootTables ==
    [f \in 1 .. 3 |-> IF f = 3 THEN [i \in Index |-> Entry(i * Entries, TRUE, FALSE)]
                              ELSE [Empty EXCEPT ![0] = Entry(f + 1, FALSE, FALSE)]]

PagingInit ==
    /\ memory = BootTables
    /\ \E f \in LastFrames : free = 4 + HeapInitial .. f   \* after pmm_alloc_contiguous
    /\ spaces = {Boot} /\ top = 0 /\ load = Idle /\ others = {}
    /\ phase = "heap_init" /\ mapped = {}

-----------------------------------------------------------------------------
\* A call works on a record of memory, free frames, the table it has come to,
\* whether it has succeeded so far and the mappings it has made.

Lowest(S) == CHOOSE f \in S : \A g \in S : f <= g
Call == [memory |-> memory, free |-> free, at |-> Boot, ok |-> TRUE, mapped |-> {}]
Failed(m) == [m EXCEPT !.ok = FALSE]

\* frame f becomes a table filled with c
Filled(mem, f, c) == [x \in DOMAIN mem \cup {f} |-> IF x = f THEN c ELSE mem[x]]

\* pmm_alloc for a table, filled with c and entered at index i of the current one
NewTable(m, i, user, c) ==
    LET f == Lowest(m.free)
    IN [m EXCEPT !.memory = Filled([@ EXCEPT ![m.at][i] = Entry(f, FALSE, user)], f, c),
                 !.free = @ \ {f}]

\* the PAGE_USER the caller of paging_get_or_create_table adds to an entry
AddUser(m, i, user) == [m EXCEPT !.memory[m.at][i].user = @ \/ user]

\* paging_get_or_create_table, with the user bit added
Descend(m, i, user) ==
    LET e == m.memory[m.at][i]
        n == IF e.present THEN AddUser(m, i, user) ELSE NewTable(m, i, user, Empty)
    IN IF ~m.ok \/ (~e.present /\ m.free = {}) THEN Failed(m)
       ELSE [n EXCEPT !.at = n.memory[m.at][i].frame]

\* Mutant: every page of the split maps the first frame
SplitSameFrame(m, i, user) ==
    LET e == m.memory[m.at][i]
    IN IF ~m.ok \/ ~e.huge THEN m
       ELSE IF m.free = {} THEN Failed(m)
       ELSE NewTable(m, i, user, [j \in Index |-> Entry(e.frame, FALSE, user)])

Split(m, i, user) ==
    LET e == m.memory[m.at][i]
    IN IF ~m.ok \/ ~e.huge THEN m
       ELSE IF m.free = {} THEN Failed(m)
       ELSE NewTable(m, i, user, [j \in Index |-> Entry(e.frame + j, FALSE, user)])

paging_map_page_on(m, pml4, v, f, user) ==
    LET pdpt == Descend([m EXCEPT !.at = pml4, !.ok = TRUE], v[1], user)
        pd   == Descend(pdpt, v[2], user)
        pt   == Descend(Split(pd, v[3], user), v[3], user)
    IN IF ~pt.ok THEN pt
       ELSE [pt EXCEPT !.memory[pt.at][v[4]] = Entry(f, FALSE, user),
                       !.mapped = @ \cup {<<v, f>>}]

paging_get_phys_on(mem, pml4, v) ==
    LET e4 == mem[pml4][v[1]]
        e3 == mem[e4.frame][v[2]]
        e2 == mem[e3.frame][v[3]]
        e1 == mem[e2.frame][v[4]]
    IN IF ~e4.present \/ ~e3.present THEN NoFrame
       ELSE IF e2.huge THEN e2.frame + v[4]
       ELSE IF ~e2.present \/ ~e1.present THEN NoFrame
       ELSE e1.frame

\* paging_get_phys: through g_pml4, the tables of boot
paging_get_phys(v) == paging_get_phys_on(memory, Boot, v)

\* every table lies where the kernel looks for it
TablesReached == \A f \in DOMAIN memory : paging_get_phys(PageAt(f)) = f

Apply(m) == memory' = m.memory /\ free' = m.free /\ mapped' = m.mapped

-----------------------------------------------------------------------------
\* heap_init maps the frames 4 .. HeapInitial + 3 one by one
heap_init ==
    /\ phase = "heap_init"
    /\ Apply(paging_map_page_on(Call, Boot, HeapPage(top), 4 + top, FALSE))
    /\ top' = top + 1
    /\ phase' = IF top + 1 = HeapInitial THEN "framebuffer" ELSE phase
    /\ UNCHANGED <<spaces, load, others>>

fb_init_from_vbe ==
    /\ phase = "framebuffer" /\ phase' = "up"
    /\ Apply(paging_map_page_on(Call, Boot, FbPage, FrameAt(FbPage), FALSE))
    /\ UNCHANGED <<spaces, top, load, others>>

\* Mutant: the frame is mapped before it is taken
GrowPageTakesLate(m, i) ==
    IF ~m.ok \/ m.free = {} THEN Failed(m)
    ELSE LET f == Lowest(m.free)
         IN [paging_map_page_on(m, Boot, HeapPage(i), f, FALSE)
             EXCEPT !.ok = TRUE, !.free = @ \ {f}]

\* kmalloc takes and maps one page of a growth; it does not look at the result
GrowPage(m, i) ==
    IF ~m.ok \/ m.free = {} THEN Failed(m)
    ELSE LET f == Lowest(m.free)
         IN [paging_map_page_on([m EXCEPT !.free = @ \ {f}], Boot, HeapPage(i), f, FALSE)
             EXCEPT !.ok = TRUE]

\* one growth, from page i of the heap on
Grow(m, i) ==
    LET Grown[k \in 0 .. GrowPages] == IF k = 0 THEN m ELSE GrowPage(Grown[k - 1], i + k - 1)
    IN Grown[GrowPages]

kmalloc_grow ==
    /\ phase = "up" /\ load = Idle /\ top + GrowPages <= HeapMax
    /\ LET m == Grow(Call, top)
       IN Apply(m) /\ top' = IF m.ok THEN top + GrowPages ELSE top
    /\ UNCHANGED <<spaces, load, others, phase>>

\* Mutant: only the low half is copied
CloneLowHalf(pml4) == [memory[pml4] EXCEPT ![1] = Absent]

\* paging_clone_current
CloneOf(pml4) == memory[pml4]
Clone ==
    /\ free # {} /\ Cardinality(spaces) <= MaxClones
    /\ LET f == Lowest(free)
       IN /\ memory' = Filled(memory, f, CloneOf(Boot))
          /\ free' = free \ {f}
          /\ spaces' = spaces \cup {f}
    /\ mapped' = {}

elf_load ==
    /\ phase = "up" /\ load = Idle
    /\ Clone
    /\ \E s \in Segments : load' = [pml4 |-> Lowest(free), todo |-> s \o StackPages]
    /\ UNCHANGED <<top, others, phase>>

\* one page of a segment or of the stack; out of memory ends the load, and what
\* it has taken stays taken
LoadPage ==
    /\ load # Idle
    /\ IF free = {}
       THEN mapped' = {} /\ load' = Idle /\ UNCHANGED <<memory, free>>
       ELSE LET f == Lowest(free)
                m == paging_map_page_on([Call EXCEPT !.free = @ \ {f}], load.pml4,
                                        Head(load.todo), f, TRUE)
            IN /\ Apply(m)
               /\ load' = IF m.ok /\ Len(load.todo) > 1
                          THEN [load EXCEPT !.todo = Tail(@)] ELSE Idle
    /\ UNCHANGED <<spaces, top, others, phase>>

sys_fork ==
    /\ phase = "up" /\ load = Idle
    /\ Clone
    /\ UNCHANGED <<top, load, others, phase>>

\* task structures and stacks come and go in between
OtherAlloc ==
    /\ phase = "up" /\ load = Idle /\ free # {} /\ Cardinality(others) < MaxOthers
    /\ others' = others \cup {Lowest(free)} /\ free' = free \ {Lowest(free)} /\ mapped' = {}
    /\ UNCHANGED <<memory, spaces, top, load, phase>>

OtherFree ==
    /\ load = Idle /\ mapped' = {}
    /\ \E f \in others : others' = others \ {f} /\ free' = free \cup {f}
    /\ UNCHANGED <<memory, spaces, top, load, phase>>

\* with no frame left every call returns an error
OutOfMemory ==
    /\ phase = "up" /\ load = Idle /\ free = {} /\ mapped' = {}
    /\ UNCHANGED <<memory, free, spaces, top, load, others, phase>>

\* a table is behind a page of a program: what the kernel reads there, and what
\* its writes hit, is not followed
Astray == ~TablesReached /\ UNCHANGED pagingVars

PagingNext ==
    \/ /\ TablesReached
       /\ \/ heap_init \/ fb_init_from_vbe \/ kmalloc_grow
          \/ elf_load \/ LoadPage \/ sys_fork
          \/ OtherAlloc \/ OtherFree \/ OutOfMemory
    \/ Astray

PagingSpec == PagingInit /\ [][PagingNext]_pagingVars

-----------------------------------------------------------------------------
(***************************************************************************)
(* A table is lost to the kernel only behind a program: as long as no page *)
(* of a segment (elf.c:77-96) has the address of a table, no split of a    *)
(* huge page, growth of the heap, stack or copy of the tables takes one    *)
(* away from paging_get_or_create_table, which finds it by that address.   *)
(***************************************************************************)
OnlyProgramsHide ==
    \A f \in DOMAIN memory :
        \/ paging_get_phys(PageAt(f)) = f
        \/ \E s \in Segments : \E i \in DOMAIN s : s[i] = PageAt(f)

(***************************************************************************)
(* A mapping changes the translation of its own page and of no other, in   *)
(* every address space there is: not of the neighbours when it splits a    *)
(* huge page, not when it creates tables, and a call that runs out of      *)
(* frames on the way changes none (paging_map_page_on).  The call must     *)
(* leave every table within reach, the ones it made included.              *)
(***************************************************************************)
MapsOnlyItsPage ==
    [][TablesReached' =>
          \A s \in spaces, v \in Page :
             LET new == paging_get_phys_on(memory', s, v)
             IN new = paging_get_phys_on(memory, s, v) \/ <<v, new>> \in mapped']_pagingVars

(***************************************************************************)
(* All address spaces translate every page alike, for the processor and,   *)
(* as long as the tables are within reach, for the kernel.  System calls   *)
(* run on a program's tables while paging_get_phys, for validate_user_ptr, *)
(* and paging_map_page, for the heap, go through g_pml4: what the one      *)
(* allows must be there for the other, and a heap page mapped later must   *)
(* appear in the copies paging_clone_current made earlier.                 *)
(***************************************************************************)
SpacesAgree ==
    TablesReached =>
        \A s \in spaces, v \in Page :
            paging_get_phys_on(memory, s, v) = paging_get_phys(v)

(***************************************************************************)
(* No two owners share a frame: tables, heap pages, program stacks, other  *)
(* kernel data and free frames are apart, however allocations fail         *)
(* (paging.c, heap.c and elf.c use each frame they take only once).  The   *)
(* frames of a program's segments, which the next program maps over and    *)
(* nobody frees, are not among the owners.                                 *)
(***************************************************************************)
FramesApart ==
    LET heap == {paging_get_phys(HeapPage(i)) : i \in 0 .. top - 1} \ {NoFrame}
        stack == {paging_get_phys(StackPages[i]) : i \in DOMAIN StackPages} \ {NoFrame}
    IN TablesReached =>
          /\ DOMAIN memory \cap (heap \cup stack) = {}
          /\ heap \cap stack = {}
          /\ (free \cup others) \cap (DOMAIN memory \cup heap \cup stack) = {}

=============================================================================
