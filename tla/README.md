# A TLA+ model of eponaOS

eponaOS is a small 64-bit operating system: a boot loader, a kernel with physical memory, paging,
heap, preemptive tasks, system calls, a FAT file system, a network stack, PS/2 input and a GUI, and
a handful of ring-3 programs. This directory holds TLA+ modules translated from its source, TLC
configurations that check them on small instances, and TLAPS proofs of what holds for every
instance.

## 1. The system

| Component | Source | State | Operations | What makes it correct |
|---|---|---|---|---|
| Frame allocator | `mm/pmm.c` | bitmap, total, used count | init, alloc, alloc_contiguous, free | no frame twice, none lost, only RAM, exact count |
| Paging | `mm/paging.c` | page tables | map, lookup, clone | a mapping changes one page only; no frame has two owners; copies stay alike |
| Heap | `mm/heap.c` | chain of blocks, `g_heap_end`, top | kmalloc, kfree, krealloc, growth | blocks disjoint, nothing lost |
| Tasks | `kernel/scheduler.c`, `isr.c`, `switch.asm` | ring of task structs, `g_current`, signals | create, schedule, tick, sleep, destroy | ring intact, round robin, right page tables, frames returned |
| System calls | `kernel/syscall.c`, `syscall_asm.asm` | pipe table, saved shell context | exit, fork, wait, kill, exec, open, close, pipe, dup2, read, write ... | descriptors never refer to freed objects; failures undo what they did |
| ELF loader | `kernel/elf.c` | - | load | pages hold the segments; failures return the frames |
| Files | `fs/vfs.c`, `fs/fat.c` | mounts, node cache, FAT on disk | open, create, read, write, mkdir, unlink | chains disjoint whatever write the machine stops after; cache and disk agree |
| Keyboard | `drivers/keyboard.c` | ring, decoder | IRQ1, getc | what is typed arrives, once, in order, in the case of the shift keys |
| Mouse | `drivers/mouse.c` | packet phase | IRQ12 | stays in phase |
| Network | `net/net.c`, `drivers/rtl8139.c` | addresses, TCP state, body, rings | poll, DHCP, ARP, DNS, HTTP | body is a prefix of what was sent; retries end |
| Console | `kernel/shell.c`, `term.c`, `drivers/gpu.c` | line, history, parser, screen | keys, commands, program output | the screen shows the line; the cursor stays on it |
| GUI | `kernel/gui.c` | window table, stacking order, focus, drag | clicks, drags, Escape | stacking order, windows and buffers agree |

How they interact. Everything runs on one processor. The boot thread becomes task 1: it runs the
shell and, through `cmd_run`, one ring-3 program at a time, and it is the only task that makes
system calls. Three kernel tasks (`task_a`, `task_b`, `task_net`) run beside it. The gates of
interrupts and of `int 0x80` clear the interrupt flag, so handlers are atomic; code of the shell and
of the kernel tasks can be preempted at any instruction by IRQ 0, whose handler calls `schedule()`,
which reaps dead tasks and so frees frames and file handles. There are no locks.

The hard parts are therefore: state shared between preemptible code and the timer interrupt (frame
bitmap, heap, network card, keyboard ring); states of a task changed under `schedule()`'s feet;
error paths that keep what they obtained; reference counts spread over several calls; and the
unreliable network. `PROJECT.json` lists these hazards line by line.

## 2. The modules

**FrameAllocator** is the abstract promise of a frame allocator: a set of free frames and a set of
held ones; `Allocate` moves a run of consecutive free frames, `Release` gives one back.

**Pmm** is `mm/pmm.c`. `g_bitmap` is the set of frames whose bit is 1; `pmm_init` is `Init`, with
`StartFrame`, `StopFrame`, `BootBitmap` and `BootTotal` for its loops. First fit is "the lowest";
the loops disappear. `held` is a history variable: the frames clients have. A client frees what it
holds, frees again what nobody received since, or passes an address beyond the managed memory
(`Freed`). `CountsFit` states the one thing callers must respect: `g_total_frames - count` is
unsigned, and callers ask for 256 and 3 frames.

**PmmPreempt** splits `pmm_alloc` at the point where the timer interrupt can come between `bm_test`
and `bm_set`. `latch` is the byte `bm_test` loaded. `StoreFrame` may write back that byte or a fresh
one: both are what a compiler may make of `g_bitmap[f >> 3] |= ...` after the test.

**Heap** is `mm/heap.c` in abstract units. `hdr` is memory seen as headers. `Allocated` is `kmalloc`
as a function of the state (first fit, split, or growth), `Freed` is `kfree`; `krealloc` composes
the two in the code's order. `kcalloc` is `kmalloc` plus clearing. The proportions of the constants
are the code's: header 25, minimum block 64, alignment 16 bytes become 2, 4, 1.

**Scheduler** is `kernel/scheduler.c` with the process calls, IRQ 0 and `cmd_run`. A slot is a task
struct; `next` are the list pointers; `Follow(t, n)` follows them from `t`, and `Walk` is all the
way round from `g_current`. `Schedule(T)` is all of `schedule()`: skip, reap behind the chosen task,
switch, load page tables. `TickTask` is one task's share of `scheduler_tick`; sleeping counts down
instead of comparing ticks. `free` and `spent` count frames: two per task, and those of programs and
page tables, which nothing returns. Registers are reduced to where the saved stack pointer points.
`Programs` are two values for the page tables of programs: `exec` goes from one to the other, so a
program entered on the tables of the one before would show. No kernel task of the shipped kernel
calls `task_sleep`; `Sleepers` names tasks that do, because the function is part of the scheduler's
interface. Fork is modelled as it is: every child has pid 0 and a stack pointer computed from a
stack the parent does not run on, so the machine stops at the first switch to one ("crashed";
"halted" if the parent had never been preempted, since the copied frame starts `idle_task` with
interrupts disabled).

**FdTable** is the per-task descriptor table, the pipe counts and the file handles. `calls`, fixed
at the start, says what kind of programs run. `sys_open` is also the call that finds the table full
after it has obtained a handle, `sys_exec` also the load that fails after it has opened the program.
One forked child is enough: tables do not interact except through handles and pipes. The child makes
no calls (it never runs); it is reaped by `schedule()`, which closes its files, or destroyed by
`SYS_WAIT`, which does not. Two history variables name what the code does not keep account of:
`leaked`, the handles failed loads forgot, and `shared`, the pipes of which `dup2` or `fork` copied
an end uncounted.

**BoundedFifo** is a bounded queue that drops when full. **Keyboard** is `drivers/keyboard.c`:
`keyboard_irq` decodes one byte; `keyboard_getc` is split between reading the slot and moving the
head, because IRQ1 can come in between. The two shift keys are two scancodes that set and clear one
flag; `Capital` says when that gives upper case. The keyboard, the user and the controller's byte
queue are the environment. `typed` is a history of the codes owed to the reader; `CodeOf` is what
the key maps make of a key, for both.

**Paging** is `mm/paging.c` with the four callers that map pages. `memory` gives every frame that
holds a table its entries, and a virtual page is its four indices, so walking, creating and
splitting tables are as in the code. A call is a function from a record (memory, free frames,
success so far) to the record it leaves: `paging_map_page_on` is three `Descend`s with a `Split`
before the last. `elf_load` takes one page per step, so other allocations do not come between but
failures may come anywhere. `OtherAlloc` and `OtherFree` are the task structures that make frames of
any number come and go. `mapped` is a history of what the last step reported as mapped.

The processor walks tables by frame. The kernel reads and writes them at their physical address used
as a virtual one, and programs are mapped over that part of the address space. `TablesReached` says
that every table has its own address still; then both are the same, and the module follows the code.
A load that maps a page over a table's address leads to a state without `TablesReached`, in which
nothing more happens (`Astray`): what the kernel would read and overwrite from there on is a
program's memory. `OnlyProgramsHide` says that nothing else leads there.

**Net** is `net/net.c`. `net` is a record with one field per global, and the handlers are functions
on it, named as in the code; one call of `net_poll` is one step. `Replies(net)` is every packet that
could be an answer to something sent, ever: taking any of them, any number of times, is a network
that loses, repeats, delays and reorders. `conns` are the connections opened; a server numbers the
bytes of its n-th connection from `Isn(n)`, so the model can tell where a byte came from. `Crlf` are
the units that are half a blank line; the code takes the first two of them that lie in one payload
for the end of the header, and `split` notes that a payload ended inside the header's own. Boot,
`task_net` and the loops of `ping`, `dns` and `fetch` all poll.

**Fs** is `fs/vfs.c` over `fs/fat.c`. The disk is the FAT (`fat`) and the directory entries (`dir`);
the memory is the node cache (`nodes`) and the open files. A call computes the sector writes it
makes, in order, as `todo`; `DiskWrite` performs one (`ata_write_sectors`), and `Crash` may come
between any two, after which only the disk is left. Contents of files are abstracted away, sizes and
positions are kept. During a call the heap has room for some number of nodes in all (`Rooms`):
`fat_readdir` makes nodes while there is room and skips the other entries, and `Make` may write an
entry and have no room for its node; `short` notes that this happened. `Fold` gives for each name
the one its 8.3 entry is read back under; `mixed` notes that an entry was made or deleted by another
spelling than that.

**Console** joins the line editor and history of `kernel/shell.c`, the text screen of
`drivers/gpu.c` and the parser of `kernel/term.c`, because they share the cursor. A program is a
bounded sequence of bytes; every byte the parser treats differently is in `Bytes`. The messages the
kernel prints when a program starts (`shell.c:664`) and exits (`syscall.c:189`) are left out, since
a program may print anything, and so is the conversion of coordinates to `uint16_t` (`term.c:79`,
`:83`), which are clamped to the screen afterwards. `entered` is a history of the lines entered.
`gpu_print` is a recursive function over the prefixes of its text; `Controls` are the characters
`gpu_putc` acts on and does not draw.

**Gui** is the window management of `kernel/gui.c`: each branch of the click handling is an action.
Only the horizontal coordinate is kept; vertically any window of the column may be the one hit,
which allows more than the code does and nothing less. `Pixels` is what `kmalloc` may return for a
window's buffer, `NULL` among it. `Closing[k]` is the desk after the first `k` rounds of the loop
with which Escape closes the windows.

## 3. The runs

| Run | Checks | Shows |
|---|---|---|
| `pmm` | `UsedFramesExact`, `FramesConserved`, `HeldIsRam`, `RefinesFrameAllocator` | books exact, frames conserved under any frees, only whole RAM frames, abstract allocator implemented; four memory maps with holes, unaligned ends and more RAM than the bitmap |
| `pmm_preempt` | `HeldStaysMarked` | frees inside an allocation never cause sharing |
| `heap` | `ChainCovers`, `BlocksDisjoint` | split, merge and move are right while the heap has its initial size, also when growth fails |
| `paging` | `OnlyProgramsHide`, `SpacesAgree`, `FramesApart`, `MapsOnlyItsPage` | splits, clones and failures never move another page or share a frame, and only a program's segment can hide a table from the kernel |
| `scheduler` | `TypeOK`, `RingWellFormed`, `ShellLostOnlyToSignal`, `AddressSpaceRight`, `FramesAccounted` | see below |
| `scheduler_live` | `NoStarvation`, `ZombiesReaped` | round robin and clean-up |
| `fd_table` | `HandlesSound`, `PipeNotRecycled`, `NoHandleLost` | no dangling or shared handle, no pipe reused under a descriptor that was not copied, no lost handle but those of failed loads |
| `keyboard` | `TypeOK`, `NothingLostOrDoubled`, `RefinesFifo` | typed codes arrive in order until the ring overflows; ring, interrupt and reader are one queue |
| `net` | `TypeOK`, `BodyInOrder`, `AckedWasReceived`, `LeaseIsOurs`, `TimeoutMeansStalled`, `HandshakeEnds`, `CommandEnds` | downloads are pieces of one response, in order, from behind a blank line; every wait ends |
| `fs` | `DiskSound`, `NoClusterLost`, `CacheRight`, `OffsetInFile` | the order of sector writes is safe against a stop at any point; cache and disk agree, also when nodes are missing; nothing leaks; no handle stands behind the end of its file |
| `console` | `TypeOK`, `LineShown`, `HistoryRight` | the cursor never leaves the screen, the edited line is what is shown, Up and Down give the last lines |
| `gui` | `WindowsSound`, `PointersOpen` | windows, stacking order and buffers agree, whichever buffers `kmalloc` refuses; focus and drag name open windows |

`ShellLostOnlyToSignal` is worth a word. `SYS_EXIT` marks task 1 itself terminated, and the shell
goes on in the same task. It survives only because `schedule()` overwrites the state of the outgoing
task (see "Known divergences"): mending that assignment alone kills the shell, which is the mutant
of this property.

`SpacesAgree` says that all address spaces are alike: programs have no space of their own. A clone
copies the top table only and everything is mapped below entries that exist at boot, so a program's
pages appear in the kernel's tables and in those of every other program. The system relies on it
(`validate_user_ptr` looks in the boot tables, `kmalloc` maps heap pages there), which is why it is
stated as a property. The same sharing is why a program at 4 MiB takes the place of the kernel's own
mapping of that memory.

`TimeoutMeansStalled` ties two counters of two files together: `cmd_fetch` polls 5000000 times and
gives up on an idle connection only after 100000, `tcp_poll_retransmit` gives up after
`(TCP_MAX_RETRIES + 1) * TCP_RETRY_TICKS` polls of either of two waits. The assumption `NetSizes`
states the inequality the constants of the code satisfy.

### Bounds

- Pmm: 8 frames of 4 bytes, runs of 0 to 3. All relations between a region's ends, a page and the
  bitmap's end occur. 2 frames per byte in PmmPreempt, so that neighbours in and outside the byte
  exist.
- Heap: 24 units, blocks of 4 to 9: up to six blocks, every order of splits and merges. One spare
  frame, too few for a growth, so growth is tried and fails.
- Paging: tables of five entries, machines of several sizes, so that memory runs out in every step
  of a growth, a load and a split; heap growth crosses a table; programs share a huge page with the
  identity mapping, the stack and the frame buffer need new tables. Two programs lie above all
  memory; the third covers the address of a frame that all but the smallest machine hand out, as a
  table or as something else.
- Scheduler: two kernel tasks, one of which sleeps; 3 frames (task creation fails) or 8 (program,
  fork, failing fork, an exec that succeeds or fails). SIGKILL and SIGTERM cover the three ways
  `scheduler_tick` treats a signal. The live run has three kernel tasks, as the kernel does, and one
  signal.
- FdTable: descriptors 3 to 5 allocatable, so the table fills, also under `open`; three handles, so
  `kmalloc` fails during a fork and a load; two pipes. Four kinds of program: one that forks and
  three that duplicate descriptors, two of these with pipes. A copied pipe end can be closed any
  number of times, so the search stops when a count falls below zero or both pipes were copied from
  (`CountsBounded`). Handle addresses are interchangeable (symmetry).
- Keyboard: a ring of 3 holds 2 codes and `MaxTyped` = 3 overflows it; three bytes wait in the
  controller, so prefix and code may be apart, with mouse bytes between. Two shift keys, which are
  interchangeable (symmetry). The two other keys have different scancodes: `g_pressed` is indexed by
  the scancode without the prefix, and keys that share one (keypad 8 and Up) do swallow each other.
- Net: a response of four units in segments of one or two, of which the first two are the header's
  blank line and the third, the first of the body, can be the second half of another: the blank line
  may be split over segments, another be found in the body, and the body split over two; room for
  two body units; one retry; one command after boot, which itself opens a connection, so that
  segments of two connections to the same server, and answers to two DNS queries, are under way at
  once.
- Fs: two names, of which one may be a directory that holds the other, a second spelling of one, and
  one that has no 8.3 form; three clusters besides the root's and two entries to a directory, so
  disk and directories fill up and freed clusters are reused; room for one node or for all. A
  cluster holds one unit: files of two clusters lie beside others. The search does not go beyond the
  first mixture of cases, after which the properties say nothing, and a second handle, on the same
  file or another, is used only while there is no directory, no crash and no missing node yet
  (`Bounds`): without that bound the states number several million.
- Console: 2 rows of 5 columns with a prompt of 1; lines up to 4 letters, one more than fit; a
  history of 2 for 3 lines; programs of 4 bytes, enough for a move with a parameter. There is one
  letter, so lines differ by their length only and an error in the order of letters would not show;
  with two letters the state space is out of reach of a short run.
- Gui: three window slots, so the table fills; windows overlap and reach the edge; two buffers,
  which are interchangeable (symmetry), so `kmalloc` may fail for any window and must for the third.

### Fairness

`scheduler_live`: boot proceeds, and IRQ 0 keeps coming while the machine runs (the PIT is periodic,
ring-3 code and the kernel tasks run with interrupts enabled). Nothing is assumed of programs. A
program that waits in `read` from stdin with interrupts disabled breaks this assumption; that call
is not in the model.

`net`: `WF(Shell)`, the foreground loop of boot or of a command goes on, and `WF(TaskNet)`,
`task_net` gets its turns, which is what `NoStarvation` establishes for the scheduler. Nothing is
assumed of the network: a server may never answer.

## 4. The proofs

**MemoryProofs**, first part (Pmm), for every memory map, page size, bitmap size and set of run
lengths that satisfy `PmmSizes` and `CountsFit`. The inductive invariant is the conjunction `TypeOK
/\ UsedFramesExact /\ FramesConserved`. None is inductive alone: `g_used_frames` stays a natural
number only because it equals a cardinality; the count stays exact only because a run found free
lies below `g_total_frames`; and that follows from the last conjunct of `FramesConserved`, that
every bit above the managed memory is 1. The lemmas go operation by operation (`AllocKeepsBooks`,
`TakeRunKeepsBooks`, `FreeKeepsBooks`, `BootKeepsBooks`) over one lemma on taking a run
(`TakeKeepsBooks`). Theorems: `PmmTypeCorrect`, `PmmCountExact`, `PmmConservesFrames`,
`PmmHandsOutRam` (from the invariant and the rounding lemma `RoundingInside`), `PmmRefines` (each
call is a step of FrameAllocator or a stutter). Then PmmPreempt: `PreemptedAllocSafe`,
`HeldStaysMarked` for every instance. The invariant `PInv` adds what makes an out-of-date byte
harmless: while an allocation is under way what is held only shrinks, so every held or reserved
frame of the byte is in the copy.

**MemoryProofs**, second part (Paging), for every table size, memory size, set of programs and
number of address spaces: `SpacesAlwaysAgree`, `MappingIsLocal`, `FramesAlwaysApart`, each as long
as the kernel finds every table at its own address (`TablesReached`), and `OnlyProgramsDo`, that
nothing but a program's segment ever ends this. None of the first three is inductive. `PagingInv`
says that the tables form a tree (`Tree`): each has a level, an entry leads one level down, and no
table is entered from two places except from the PML4s, which are copies of each other. Only then
does writing one entry change one translation. It also says that entries 0 and 1 of the PML4s are
present once copies exist (boot makes the first, `heap_init` the second, before any program),
because a top-level entry created later would be missing in the copies; that the frames behind heap
and stack pages are neither free, nor tables, nor held by others; and that the two sets are apart.
`Walk` follows the `Descend`s and the `Split` of a call, each of which leaves every translation
alone (`LinkSame`), to the write of the last entry, which changes one (`LeafMaps`); a call that
fails has done only the former. `MapPage` states this of `paging_map_page_on`, the `...Keeps` lemmas
use it action by action, and a growth of the heap is an induction over its pages (`GrowKeeps`).
Assumed (`PagingSizes`): a machine with frames enough to boot; programs and their stacks within the
first top-level entry (`user/link.ld` links at 4 MiB, `elf.c:144` puts the stack at 0x70000000);
stack and frame buffer above the GiB that stage 2 maps, and apart. `OnlyProgramsDo` needs `Near`:
all frames in use lie in the memory that stage 2 maps onto itself, and every page there that no
program may take still has its own address. It follows step by step from what the proof of the
others shows of each call: no page moves but those of the heap and of programs, and a frame in use
was one before (`Accounted`).

**KeyboardProofs**: `KeyboardRefines`, the ring refines BoundedFifo for every buffer size, key set
and byte sequence. The invariant `RInv` adds to the ring's type that the slots in use hold codes and
that a reader between its load and its advance finds the ring non-empty (only it moves the head, and
`put_key` never makes a ring that holds something look empty). `KeyboardTypes` and `TypedIsRead`
relate both ends. Their invariant `KInv` says that the bytes waiting in the controller, decoded from
the decoder's present state, lead to the state the user is in (`Way`) and put exactly those codes
into the ring which the reader is owed beyond the ring's contents. A key press extends that run at
its end, an interrupt takes its first step, and neither sees the other. The decoder's flag, once
those bytes are read, is `Capital`, which is why the case holds although the flag does not count the
shift keys. `TypedIsRead` assumes `Plain \cap Ext = {}`: keys that share a scancode shadow each
other in `g_pressed`. `KeyboardTypes` does not.

**SchedulerProofs**, for every number of kernel tasks, every memory size and set of signals.
`TaskInv` is the types, the ring, the books of frames and the place of task 1. The ring is stated as
the existence of a walk of some length that starts at `g_current`, returns there and meets each
struct once (`Circle`): inserting, unlinking any set of structs and moving `g_current` each give a
new walk, and `Follow` is shown to compute it. `RingStaysWhole`, `FramesKept` and `SchedulerTypes`
follow. `RightAddressSpace` adds what is saved: no task but task 1 has a program's tables, of either
program (`OtherTables`), a clone belongs to a task that stops the machine, and task 1, while
switched out, has saved the tables of what it was doing. `ShellSurvives` adds that task 1, while off
the processor, is marked terminated only if a fatal signal reached it.

**FileProofs**, first part (FdTable), for every table size, number of handles and pipes, and kind of
program. `DescriptorsSound`: entries of both tables are allocated and pairwise different, which is
stated entry by entry and turned into the cardinalities of `HandlesSound` by injectivity; `fork`
gives the child a new handle for each file, and leaves the entry unused when `kmalloc` fails.
`PipesNotRecycled` adds that no end of a pipe outside `shared` is twice in the tables, so a close
lowers a count by what the tables lose. `HandlesNotLost` is inductive with the types.

**FileProofs**, second part (Fs), for every number of clusters, entries in a directory, paths and
open files: `DiskAlwaysSound`, `ClustersAlwaysKept`, `CacheAlwaysRight`, `OffsetsAlwaysInFile`. None
is inductive while writes are pending, and the invariant is about these writes: `Pending` says that
the disks they lead to one by one (`Runs`) are all sound, and that the last is the one the cache
shows (`Settled`), which also has no cluster without an entry unless there was a crash. All of it is
`FsCore`, and the invariant is `mixed \/ FsCore`: after a mixture of cases nothing is claimed.
`Good`, `Sound` and `Cache` take `short` as a parameter, since names are apart and directories whole
in the cache only until an allocation fails. So `DiskWrite` only moves along the run and `Crash`
only forgets it; what needs an argument is that the calls of `fs/vfs.c` produce such a run
(`CreateRun`, `WriteRun`, `UnlinkRun`). A disk is `Good` with an assignment of a chain to each live
entry: linked to its end, long enough for the size (`EntryOK`), no two with a cluster in common
(`Apart`), and no name twice in a directory (`NamesApart`). Each write changes this in one way: a
free cluster becomes used and belongs to nobody (`FatUnowned`), a used one that belongs to nobody is
linked behind a chain (`LinkCluster`), cleared (`ZeroUnowned`), entered (`NewEntry`) or freed, an
entry gets a size (`SetSize`) or is deleted (`DeleteEntry`). That order is why `fat_unlink` must
delete the entry before it frees the chain. `ChainIs` shows that `Chain`, which follows the table
from an entry, computes the chain assigned to it. `Cache` gives each node the place of its entry,
and `FilesOK` each open file its node. Assumed (`FsSizes`): there is a cluster besides the root's,
clusters and directories are not empty, and paths have one or two names.

**GuiProofs**, for every number of windows and every size: `WindowsAccounted`, `FocusAndDragOpen`.
The stacking order lists each open window once (`DeskSound`); raising is a rotation of a suffix,
closing a removal, the buffers allocated are those the open windows name (`Owned`, which a window
without a buffer does not disturb), and the positions in `focus` and `drag` are followed through
both. Escape is a loop, by induction on its rounds.

**NetProofs**, for any hosts, any number of commands, connections and packets, and every length of
response, segment and buffer that satisfies `NetSizes`. `LeaseKeptOurs`: every request ever sent
asked for the offered address, so an answer to any of them is harmless. `AcknowledgesReceived`,
`ShowsOneBody`, `NetTypes`: `Socket` says of an open connection that there is a number `c` of a
connection opened such that the acknowledgement number and the body received lie in the bytes of `c`
(`Download`, `Piece`). A segment is only taken when its sequence number is the expected one, and the
numbers of different connections do not overlap, so a late segment of another connection cannot
match. Where the body shown begins is a blank line that lies in one payload, and one other than the
header's own only if the first payload of the connection ended inside that (`Ends`). `TimesOutLast`:
the loop counter of `fetch` never exceeds what the two retransmission timers have used up
(`InTime`).

**HeapProofs**, for every size of heap, header, alignment, page and request: `ChainKept`,
`ClientsDisjoint`, each `[](top = Initial => ...)`, the condition that the properties' comments
state and that the divergence at `mm/heap.c:99` makes necessary. `Sound` says that there is a set of
block addresses from 0 to the end of the heap, each block ending where the next begins, doubly
linked, those in use being the clients'. Splitting adds an address, merging removes one, and what
`kmalloc` finds by following the links is a member (`ChainIn`, `ChainReaches`: the chain passes
every block within `MaxTop \div MinBlock` steps). When the heap grows nothing more is claimed.

**ConsoleProofs**, for every screen, prompt, buffer and history size, and any output:
`ConsoleTypes`, `LineAlwaysShown`, `HistoryKept`. `PutcScreen` shows that every character leaves the
cursor on the screen, `PrintJoined` that printing two texts is printing one after the other, and
`PrintRow` that a text which fits behind the cursor is drawn there and nowhere else; `Redraw`
follows `shell_redraw_line` through its seven pieces with them, whatever was on the row before.
`LineShown` is then inductive with the types alone, because only a redraw marks the line as drawn
and every other step of the screen ends that. `HistoryRight` is inductive because two of `HIST_MAX`
consecutive lines have different places in the ring (`PlacesApart`), and because the repetition test
and the history of lines entered look at the same last line. Assumed (`ConsoleSizes`): the prompt
leaves room for a letter, and prompt and letters are characters that are drawn.

How induction is done. The library's induction theorems cannot be instantiated, but that the order
of the natural numbers is well founded can be used for sets, so that every non-empty set has a least
element (`LeastNat`) and induction is the absence of a least counterexample (`Induction`). What a
recursive function such as `Walk`, `ChainOf` or `Closing` computes is shown by proving, for each
length, that some function satisfies its equation; the definition is a CHOOSE of such a function.

Only model-checked: liveness under fairness (`NoStarvation`, `ZombiesReaped`, `HandshakeEnds`,
`CommandEnds`), which the prover does not handle. Every invariant and every other action property of
the runs is a theorem.

## 5. Known divergences

Noted while modelling. The models follow the code in each of them, and a property that the
divergence would break is stated for the part where it holds.

- `kernel/scheduler.c:195`: `schedule()` sets the outgoing task to READY whatever its state, so a
  task terminated or put to sleep while on the processor runs again; the comment at line 161 says
  "Skip terminated and sleeping tasks". Modelled (`Preempted`).
- `kernel/scheduler.c:75`: one 4 KiB frame for a stack, the stack pointer 16 KiB above it;
  `include/scheduler.h:7` says 16 KiB. Not modelled: Scheduler has no stack contents.
- `mm/pmm.c:66`: a free by the timer interrupt between `bm_test` and `bm_set` of a neighbouring
  frame can be overwritten, and the frame is lost. Modelled (`StoreFrame`); `HeldStaysMarked` is the
  half that holds.
- `mm/heap.c:99`: `g_heap_end` does not follow splits, so a growth unlinks the blocks behind it and
  a later merge covers live memory. Modelled (`Grown`); the `heap` run gives growth too few frames
  to succeed.
- `mm/heap.c:93`: the result of `paging_map_page` is ignored, so the heap can advance over a page
  that is not mapped. Modelled (`GrowPage`).
- `kernel/scheduler.c:54` "pipe refcounting handled by caller": no caller does it, so pipes open at
  exit stay in use. Modelled (`AfterCloseAll`).
- `kernel/syscall.c:447`, `:551`: `fork` and `dup2` copy pipe ends without counting them, so a
  program that forks and closes both ends frees the slot which the child's table still names, and
  the next `pipe` takes it. Modelled (`shared`); `PipeNotRecycled` excepts such slots. Calls of the
  child are not modelled, since it never runs.
- `kernel/elf.c:66`: a load that cannot copy the address space returns without closing the program's
  file. Modelled (`leaked`); `NoHandleLost` excepts these handles.
- `mm/paging.c:19`, `:58`, `:208`: page tables are read and written at their physical address used
  as a virtual one, and so are new frames when `elf_load` clears them (`kernel/elf.c:89`).
  `user/link.ld:10` puts programs at 0x400000, `elf_load` maps them into page directories that all
  address spaces share, and `pmm.c` hands out the frames at those addresses: a table in one of them
  is then hidden behind the program, walks read the program's memory as entries and changes go to
  the program. Modelled up to there (`TablesReached`, `Astray`). Nor is memory above the GiB that
  stage 2 maps within reach of these accesses; `Near`, in the proof, rests on `LastFrames` lying
  below it.
- `kernel/syscall.c:445`, `:438`: every forked child has pid 0 and a stack pointer that means
  nothing. Modelled as a stopped machine.
- `kernel/elf.c:161`: the page offset is added twice, so the initial `argc` and `argv` land in the
  frame after the stack's. Not modelled (contents).
- `fs/vfs.c:146` "Free old FAT clusters": the chain is kept and only the size in memory is reset,
  until the next write. Modelled (`vfs_create_existing`), which is why `CacheRight` allows size 0. A
  read through another handle behind the new end wraps (line 210); `OffsetInFile` excepts that case,
  and a write on a full disk.
- `fs/fat.c:375`: names are upper-cased on the way to the disk and lower-cased on the way back,
  while `vfs_resolve` compares them as written. After `FOO`, creating `foo` makes a second entry of
  the same name, and removing `foo` deletes the first, `FOO`'s, whose node stays cached: writes
  through it reach clusters that may belong to another file. Modelled (`Fold`, `Named`); the
  properties except what follows (`mixed`), and TLC finds them violated without that.
- `fs/fat.c:346`, `:482`: when `kmalloc` fails, `fat_readdir` skips one entry and goes on, and
  `fat_create` returns with the entry on the disk and no node. The directory has cached children, is
  not read again, and the name can be made a second time. Modelled (`Made`, `Make`); what
  `DiskSound` and `CacheRight` say of names and missing nodes excepts this (`short`). For a real
  subdirectory the node of its "." entry also counts as a child; "." and ".." are not modelled.
- `fs/fat.c:478`: an error of `ata_write_sectors` makes `fat_create` return with the new cluster
  taken and not entered, and no caller of `fat_set_cluster` looks at its result. Not modelled: a
  sector is written or the machine stops.
- `fs/fat.c:233`: a file whose first cluster is 0 gets one at its first write. Left out: every file
  this system makes has a cluster; empty files made by others have not.
- `fs/vfs.c:145`: `vfs_create` of an existing directory makes a second entry of its name. Left out,
  as is the removal of a file that is open, whose clusters another file may get.
- `net/net.c:614`: all DNS queries have one identifier, so a late answer to an earlier query is
  taken for the current one and `fetch` downloads from the earlier host. Modelled.
- `net/net.c:348`: the blank line behind the header is looked for in each payload alone. If a
  segment boundary cuts it, the next one inside the body is taken for it and what precedes is not
  stored. Modelled (`BlankLines`, `split`); `BodyInOrder` says which blank line it may be.
- `net/net.c:987`, `:1009`: `task_net` may be scheduled between two assignments of `net_http_fetch`
  or `net_http_reset`; a late DNS answer or segment handled there finds some globals reset and some
  not, and what it sets is reset after it. Not modelled: the start of a command is one step.
- `drivers/keyboard.c:86`: both shift keys set and clear one flag, so letting go of one while the
  other is held gives lower case until a shift key repeats. Modelled (`ShiftKey`, `Capital`).
- `drivers/rtl8139.c:123`: ROK is acknowledged and one packet handled, however many wait. Modelled.
  Two pollers inside `rtl8139_poll` at once are not.
- `include/term.h`: each consumer is said to keep its own parser; programs share one, so a program
  that ends in an unfinished sequence swallows the start of the next one's output. Modelled.
  `ESC[;5H` puts 5 into the first parameter. Modelled (`param_sep`).
- `kernel/shell.c:104`: Up reaches entries the ring has overwritten. `HistoryRight` is about the
  last `HIST_MAX`.
- `kernel/gui.c:132`: the result of `kmalloc` is not tested, `win_close` tests it at line 151. A
  window without a buffer is modelled (`NoBuf`); that drawing it (`gui.c:171`) writes from address 0
  on, where the page tables of boot lie at 0x1000 to 0x3FFF (`boot/stage2.asm:118`), is not.
- `kernel/gui.c:655`: a window made by an icon or the menu is on top but does not get the focus; the
  menu stays open across Escape. Both modelled.
- `kernel/syscall.c:275`: `read` from stdin spins with interrupts disabled. `SYS_WAIT` returns -1
  where its comment says it blocks. `dup2` of a descriptor onto itself keeps a freed handle.

## 6. What is not modelled

- Mouse driver, pipe contents and blocking, the stdin loop of `SYS_READ`.
- Preemption inside `rtl8139_poll`, `net_http_fetch` and `kmalloc`: every handler would have to be
  split at its assignments, and the product with the rest of the state is beyond TLC.
- The frames of a program's segments, in `FramesApart`: the next program is mapped over them and
  nobody frees them. What the kernel does after a program has hidden a page table.
- File system: write errors, "." and "..", removal of open files, directories of several clusters,
  what follows a mixture of upper and lower case.
- Contents of files and pages, packet layouts and checksums, colours and pixels.
- `paging_unmap_page` and `paging_add_flags`, which nothing calls, and the TLB.
- The commands `gui` inside a GUI terminal and `Shut Down`; path normalisation.
- Boot sectors, descriptor tables, serial, PCI, ACPI and clock drivers: straight-line set-up of
  registers. User programs and their library: sequential code whose calls are the inputs of the
  modules above.

## 7. Plan

Done: all modules of section 2; the proofs of section 4. Left:

1. Pipe contents and blocking (refining BoundedFifo) and stdin, composed with Scheduler.
2. Mouse and keyboard on one controller.
