--------------------------------- MODULE Fs ---------------------------------
(***************************************************************************)
(* The file system: fs/vfs.c with its cache of nodes over the FAT32        *)
(* driver fs/fat.c, and the sectors drivers/ata.c writes one at a time.    *)
(*                                                                         *)
(* A call runs alone (system calls run with interrupts off), so everything *)
(* it reads is fixed when it starts: an action computes the writes the     *)
(* call makes, in the code's order, and its effect on memory; DiskWrite    *)
(* then carries the writes out one by one and a Crash may come between any *)
(* two, after which the disk is mounted again with an empty cache.         *)
(*                                                                         *)
(* Paths are absolute, normalised and at most two names deep; "." and ".." *)
(* entries are left out.  A program may not remove a file it has open.     *)
(* kmalloc may fail under every call; sectors are always read and written. *)
(* File contents are left out: positions and sizes count units of which    *)
(* a cluster holds CSize.  The first FAT copy, the only one read, is kept. *)
(***************************************************************************)
EXTENDS Integers, Sequences, FiniteSets, SequencesExt

CONSTANTS
    Paths,       \* what programs name: sequences of one or two names
    BadNames,    \* names fat_name_to_83 refuses
    Fold,        \* for each name, the one its entry is read back under: lower case
    NClusters,   \* clusters are 2 .. NClusters + 1; the root directory is 2
    CSize,       \* units in a cluster
    Slots,       \* entries in a directory cluster
    MaxSize,     \* bound: size of a file
    MaxFiles,    \* bound: open files
    Rooms        \* how many nodes the heap may have room for during a call

Names == UNION {Range(p) : p \in Paths}

ASSUME FsSizes ==
    /\ {NClusters, CSize, Slots, MaxSize, MaxFiles} \cup Rooms \subseteq Nat
    /\ NClusters > 1 /\ CSize > 0 /\ Slots > 0
    /\ \A p \in Paths : p \in Seq(Names) /\ Len(p) \in {1, 2}
    /\ \A n \in Names : Fold[n] \in Names

Cluster == 2 .. NClusters + 1
Root == 2
Free == 0
Eoc == NClusters + 2

VARIABLES
    fat,       \* disk: the file allocation table
    dir,       \* disk: entries of each cluster, read as a directory
    todo,      \* writes the call under way has still to make
    nodes,     \* the cached vfs_node_t's, by path
    open,      \* open file_t's
    lost,      \* history: there was a crash, or a directory was removed with entries
    past,      \* history: a write found the disk full, or an open file was truncated
    short,     \* history: kmalloc failed for a node
    mixed      \* history: an entry was written or deleted by another name than its own

fsVars == <<fat, dir, todo, nodes, open, lost, past, short, mixed>>

End == [st |-> "end"]
Del == [st |-> "del"]
NoEntries == [k \in 1 .. Slots |-> End]
NoFile == [path |-> << >>, off |-> 0]

FsInit ==
    /\ fat = [c \in Cluster |-> IF c = Root THEN Eoc ELSE Free]
    /\ dir = [c \in Cluster |-> NoEntries]
    /\ todo = << >>
    /\ nodes = << >>
    /\ open = [f \in 1 .. MaxFiles |-> NoFile]
    /\ lost = FALSE /\ past = FALSE /\ short = FALSE /\ mixed = FALSE

-----------------------------------------------------------------------------
(* Cluster chains.                                                         *)

\* fat_next_cluster, from c to the end of its chain.
Chain(c) ==
    LET at[k \in 0 .. NClusters] ==
            IF k = 0 THEN c
            ELSE IF at[k - 1] \in Cluster THEN fat[at[k - 1]] ELSE Eoc
    IN  [k \in 1 .. Cardinality({i \in 1 .. NClusters : at[i - 1] \in Cluster}) |-> at[k - 1]]

\* fat_alloc_cluster scans upwards: the clusters n calls in a row would find.
FreeClusters == {c \in Cluster : fat[c] = Free}
Allocatable(n) ==
    LET first(S) == CHOOSE c \in S : \A d \in S : c <= d
        all == Cardinality(FreeClusters)
        left[k \in 0 .. all] ==
            IF k = 0 THEN FreeClusters ELSE left[k - 1] \ {first(left[k - 1])}
    IN  [k \in 1 .. (IF n < all THEN n ELSE all) |-> first(left[k - 1])]

FatSet(c, v) == [w |-> "fat", c |-> c, v |-> v]
DirSet(c, k, e) == [w |-> "dir", c |-> c, k |-> k, e |-> e]
ZeroCluster(c) == [w |-> "zero", c |-> c]

-----------------------------------------------------------------------------
(* The node cache.                                                         *)

Parent(p) == SubSeq(p, 1, Len(p) - 1)
Name(p) == p[Len(p)]

DirEntry(n) == dir[n.dc][n.slot]
Cached(ns, p) == p \in DOMAIN ns
IsDir(ns, p) == p = << >> \/ (Cached(ns, p) /\ ns[p].kind = "dir")
DirCluster(ns, p) == IF p = << >> THEN Root ELSE ns[p].cl
Children(ns, p) == {q \in DOMAIN ns : Parent(q) = p}

\* The slots of the entries fat_readdir makes nodes for: the first of each name,
\* in order, as far as kmalloc finds room, that is while there are less than max nodes.
First(dc) ==
    {k \in 1 .. Slots : /\ dir[dc][k].st = "live"
                        /\ \A j \in 1 .. k - 1 : dir[dc][j].st = "live" =>
                                                  dir[dc][j].name # dir[dc][k].name}
Made(ns, dc, max) ==
    {k \in First(dc) : Cardinality(DOMAIN ns) + Cardinality({j \in First(dc) : j < k}) < max}

\* vfs.c calls fat_readdir for a directory of which no child is cached.
Unread(ns, p) == IsDir(ns, p) /\ Children(ns, p) = {}
Missed(ns, p, max) ==
    Unread(ns, p) /\ Made(ns, DirCluster(ns, p), max) # First(DirCluster(ns, p))
Readdir(ns, p, max) ==
    IF ~Unread(ns, p) THEN ns
    ELSE LET dc == DirCluster(ns, p)
             made == Made(ns, dc, max)
             at(q) == CHOOSE k \in made : dir[dc][k].name = Name(q)
             new == {Append(p, dir[dc][k].name) : k \in made}
         IN  [q \in DOMAIN ns \cup new |->
                IF q \in new
                THEN LET e == dir[dc][at(q)] IN
                     [kind |-> e.kind, size |-> e.size, cl |-> e.cl, dc |-> dc, slot |-> at(q)]
                ELSE ns[q]]

\* vfs_resolve reads the directories on the way to p.
Resolve(ns, p, max) ==
    LET r == Readdir(ns, << >>, max)
    IN  IF Len(p) = 2 THEN Readdir(r, Parent(p), max) ELSE r
ResolveMissed(ns, p, max) ==
    \/ Missed(ns, << >>, max)
    \/ Len(p) = 2 /\ Missed(Readdir(ns, << >>, max), Parent(p), max)

-----------------------------------------------------------------------------
(* The calls of fat.c: the writes they make.                               *)

\* fat_alloc_cluster, then fat_set_cluster on the last cluster of the chain.
AllocAndLink(prev, new) == <<FatSet(new, Eoc), FatSet(prev, new)>>

FatUpdateDirentSize(n, size) ==
    <<DirSet(n.dc, n.slot, [DirEntry(n) EXCEPT !.size = size, !.cl = n.cl])>>

\* How many units fat_write can place: it stops, with the chain as long as it
\* got, when no cluster is left.
Extension(n, off, size) ==
    LET chain == Chain(n.cl)
        need == (off + size - 1) \div CSize + 1
        new == IF need > Len(chain) THEN Allocatable(need - Len(chain)) ELSE << >>
        room == (Len(chain) + Len(new)) * CSize - off
    IN  [new |-> new, last |-> chain[Len(chain)],
         done |-> IF room < 0 THEN 0 ELSE IF room < size THEN room ELSE size]

\* Mutant: the file ends where the write ended, even inside it.
FatWriteSizeEnd(n, x, off, size) == off + x.done

\* node->size after a write that went through.
FatWriteSize(n, x, off, size) == IF off + x.done > n.size THEN off + x.done ELSE n.size

FatWrite(n, off, size) ==
    LET x == Extension(n, off, size)
        before(k) == IF k = 1 THEN x.last ELSE x.new[k - 1]
        links == [i \in 1 .. 2 * Len(x.new) |->
                    LET k == (i + 1) \div 2 IN AllocAndLink(before(k), x.new[k])[2 - (i % 2)]]
    IN  links
        \o IF x.done < size THEN << >>
           ELSE FatUpdateDirentSize(n, FatWriteSize(n, x, off, size))

\* How many of want units fat_read finds from off on: it stops at the end of
\* the chain, and fails (-1) when it starts beyond it.
FatRead(n, off, want) ==
    LET room == Len(Chain(n.cl)) * CSize - off
    IN  IF room <= 0 THEN -1 ELSE IF want < room THEN want ELSE room

\* The first entry that is free or was deleted.
FreeSlot(dc) ==
    LET s == {k \in 1 .. Slots : dir[dc][k].st # "live"}
    IN  IF s = {} THEN 0 ELSE CHOOSE k \in s : \A j \in s : k <= j

FatCanCreate(dc, name) ==
    name \notin BadNames /\ FreeSlot(dc) # 0 /\ FreeClusters # {}

\* Mutant: the entry is written before the cluster is taken.
FatCreateEntryFirst(dc, name, kind, c) ==
    <<DirSet(dc, FreeSlot(dc), [st |-> "live", name |-> name, kind |-> kind,
                                cl |-> c, size |-> 0]),
      FatSet(c, Eoc), ZeroCluster(c)>>

FatCreate(dc, name, kind, c) ==
    <<FatSet(c, Eoc), ZeroCluster(c),
      DirSet(dc, FreeSlot(dc), [st |-> "live", name |-> name, kind |-> kind,
                                cl |-> c, size |-> 0])>>

\* Mutant: only the first cluster is freed.
FreeFirstOnly(c) == <<FatSet(c, Free)>>

FatFreeClusterChain(c) ==
    LET chain == Chain(c) IN [k \in 1 .. Len(chain) |-> FatSet(chain[k], Free)]

\* fat_unlink deletes the first entry that has the name.
Named(dc, name) == {k \in First(dc) : dir[dc][k].name = Fold[name] /\ name \notin BadNames}
FatUnlink(dc, k) == <<DirSet(dc, k, Del)>> \o FatFreeClusterChain(dir[dc][k].cl)

-----------------------------------------------------------------------------
(* The calls of vfs.c.                                                     *)

Ready == todo = << >>
Unused == {f \in 1 .. MaxFiles : open[f] = NoFile}
OpenPaths == {open[f].path : f \in 1 .. MaxFiles} \ {<< >>}

\* A file_t at offset 0, the lowest unused one for kmalloc's choice; without
\* one, kmalloc fails.
OpenFile(p) ==
    \/ /\ Unused # {}
       /\ open' = [open EXCEPT ![CHOOSE f \in Unused : \A g \in Unused : f <= g] =
                      [path |-> p, off |-> 0]]
    \/ UNCHANGED open

vfs_open(p, max) ==
    LET ns == Resolve(nodes, p, max) IN
    /\ Ready
    /\ nodes' = ns /\ short' = (short \/ ResolveMissed(nodes, p, max))
    /\ IF Cached(ns, p) /\ ns[p].kind = "file" THEN OpenFile(p) ELSE UNCHANGED open
    /\ UNCHANGED <<fat, dir, todo, lost, past, mixed>>

\* An existing file: only the size in the node is reset.
vfs_create_existing(p, max) ==
    LET ns == Resolve(nodes, p, max) IN
    /\ Ready
    /\ Cached(ns, p) /\ ns[p].kind = "file"
    /\ nodes' = [ns EXCEPT ![p].size = 0]
    /\ short' = (short \/ ResolveMissed(nodes, p, max))
    /\ past' = (past \/ p \in OpenPaths)
    /\ OpenFile(p)
    /\ UNCHANGED <<fat, dir, todo, lost, mixed>>

\* A node for the entry that fat_create writes.
NewNode(ns, p, kind, c) ==
    LET dc == DirCluster(ns, Parent(p)) IN
    [q \in DOMAIN ns \cup {p} |->
        IF q = p THEN [kind |-> kind, size |-> 0, cl |-> c, dc |-> dc, slot |-> FreeSlot(dc)]
        ELSE ns[q]]

\* vfs_mkdir, and vfs_create of a file that does not exist.  For an existing
\* directory vfs_create goes on to make a second entry of that name; programs
\* are not taken to do that.
\* The entry is written before the node is made: without room for a node
\* the call fails and the entry stays.
Make(p, kind, max) ==
    LET ns == Resolve(nodes, p, max)
        dc == DirCluster(ns, Parent(p))
        c == Allocatable(1)[1]
        room == Cardinality(DOMAIN ns) < max
        missed == short \/ ResolveMissed(nodes, p, max) IN
    /\ Ready /\ ~Cached(ns, p)
    /\ IF IsDir(ns, Parent(p)) /\ FatCanCreate(dc, Name(p))
       THEN /\ nodes' = IF room THEN NewNode(ns, p, kind, c) ELSE ns
            /\ todo' = FatCreate(dc, Fold[Name(p)], kind, c)
            /\ IF room /\ kind = "file" THEN OpenFile(p) ELSE UNCHANGED open
            /\ short' = (missed \/ ~room)
            /\ mixed' = (mixed \/ Fold[Name(p)] # Name(p))
       ELSE nodes' = ns /\ short' = missed /\ UNCHANGED <<todo, open, mixed>>
    /\ UNCHANGED <<fat, dir, lost, past>>

vfs_create_new(p, max) == Make(p, "file", max)
vfs_mkdir(p, max) == Len(p) = 1 /\ Make(p, "dir", max)

vfs_write(f, size) ==
    LET p == open[f].path
        off == open[f].off
        n == nodes[p]
        x == Extension(n, off, size) IN
    /\ Ready /\ open[f] # NoFile /\ off + size <= MaxSize
    /\ todo' = FatWrite(n, off, size)
    /\ open' = [open EXCEPT ![f].off = @ + x.done]
    /\ nodes' = IF x.done < size THEN nodes
                ELSE [nodes EXCEPT ![p].size = FatWriteSize(n, x, off, size)]
    /\ past' = (past \/ x.done < size)
    /\ UNCHANGED <<fat, dir, lost, short, mixed>>

\* remain = size - offset is unsigned: past the end it is huge.
vfs_read(f, size) ==
    LET n == nodes[open[f].path]
        off == open[f].off
        want == IF off <= n.size /\ size > n.size - off THEN n.size - off ELSE size
        ret == FatRead(n, off, want) IN
    /\ Ready /\ open[f] # NoFile
    /\ open' = [open EXCEPT ![f].off = IF ret > 0 THEN @ + ret ELSE @]
    /\ UNCHANGED <<fat, dir, todo, nodes, lost, past, short, mixed>>

vfs_close(f) ==
    /\ Ready /\ open[f] # NoFile
    /\ open' = [open EXCEPT ![f] = NoFile]
    /\ UNCHANGED <<fat, dir, todo, nodes, lost, past, short, mixed>>

\* Mutant: the node stays in the cache.
DroppedNothing(ns, p) == ns

\* The node is unlinked from its parent, and with it all below it.
Dropped(ns, p) == [q \in {x \in DOMAIN ns : ~IsPrefix(p, x)} |-> ns[q]]

\* Removes files and directories alike, directories that hold entries too: the
\* first entry of the name on the disk, and the node p if there is one.
vfs_unlink(p, max) ==
    LET ns == Resolve(nodes, p, max)
        dc == DirCluster(ns, Parent(p))
        found == IF IsDir(ns, Parent(p)) THEN Named(dc, Name(p)) ELSE {} IN
    /\ Ready
    /\ ~ \E q \in OpenPaths : IsPrefix(p, q)
    /\ short' = (short \/ ResolveMissed(nodes, p, max))
    /\ \/ \E k \in found :
             /\ nodes' = Dropped(ns, p)
             /\ todo' = FatUnlink(dc, k)
             /\ lost' = (lost \/ (dir[dc][k].kind = "dir"
                              /\ \E j \in 1 .. Slots : dir[dir[dc][k].cl][j].st = "live"))
             /\ mixed' = (mixed \/ Fold[Name(p)] # Name(p))
       \/ found = {} /\ nodes' = ns /\ UNCHANGED <<todo, lost, mixed>>
    /\ UNCHANGED <<fat, dir, open, past>>

\* vfs_stat and vfs_readdir only fill the cache.
vfs_readdir(p, max) ==
    LET ns == Resolve(nodes, p, max) IN
    /\ Ready
    /\ nodes' = Readdir(ns, p, max)
    /\ short' = (short \/ ResolveMissed(nodes, p, max) \/ Missed(ns, p, max))
    /\ UNCHANGED <<fat, dir, todo, open, lost, past, mixed>>

\* ata_write_sectors, one sector.
DiskWrite ==
    /\ todo # << >>
    /\ LET w == Head(todo) IN
       /\ fat' = IF w.w = "fat" THEN [fat EXCEPT ![w.c] = w.v] ELSE fat
       /\ dir' = CASE w.w = "dir" -> [dir EXCEPT ![w.c][w.k] = w.e]
                   [] w.w = "zero" -> [dir EXCEPT ![w.c] = NoEntries]
                   [] OTHER -> dir
    /\ todo' = Tail(todo)
    /\ UNCHANGED <<nodes, open, lost, past, short, mixed>>

\* The machine stops between two writes; fat_mount starts with a root node.
Crash ==
    /\ todo' = << >> /\ nodes' = << >>
    /\ open' = [f \in 1 .. MaxFiles |-> NoFile]
    /\ lost' = TRUE /\ past' = FALSE
    /\ UNCHANGED <<fat, dir, short, mixed>>

Call ==
    \/ \E p \in Paths, max \in Rooms :
          \/ vfs_open(p, max) \/ vfs_create_existing(p, max) \/ vfs_create_new(p, max)
          \/ vfs_mkdir(p, max) \/ vfs_unlink(p, max) \/ vfs_readdir(p, max)
    \/ \E f \in 1 .. MaxFiles : \/ \E n \in 1 .. MaxSize : vfs_write(f, n) \/ vfs_read(f, n)
                                \/ vfs_close(f)

FsNext == Call \/ DiskWrite \/ Crash

FsSpec == FsInit /\ [][FsNext]_fsVars

-----------------------------------------------------------------------------
(* Properties.                                                             *)

\* Where the live entries are: in the root and in the directories it lists.
LiveIn(dc) == {<<dc, k>> : k \in {j \in 1 .. Slots : dir[dc][j].st = "live"}}
Live == LiveIn(Root) \cup
        UNION {LiveIn(dir[Root][x[2]].cl) : x \in {y \in LiveIn(Root) : dir[Root][y[2]].kind = "dir"}}
At(x) == dir[x[1]][x[2]]

\* Whatever write the machine stops after, the disk is sound: every entry's
\* chain is allocated and ends, no two entries share a cluster, no file is
\* longer than its chain and, unless a node could not be allocated, no name
\* occurs twice in a directory (the order of the writes in fat_create,
\* fat_write and fat_unlink).  Only while all names are lower case: fat_unlink
\* of foo deletes FOO's entry and leaves FOO's node to be written through.
DiskSound ==
    ~mixed =>
        /\ \A x \in Live :
             LET c == Chain(At(x).cl) IN
             /\ c # << >> /\ fat[c[Len(c)]] = Eoc
             /\ Root \notin Range(c)
             /\ At(x).kind = "file" => At(x).size <= Len(c) * CSize
        /\ \A x, y \in Live : x # y =>
             /\ Range(Chain(At(x).cl)) \cap Range(Chain(At(y).cl)) = {}
             /\ ~short /\ x[1] = y[1] => At(x).name # At(y).name

\* Between calls, if the machine never stopped half way and no directory was
\* removed with entries in it, every cluster in use belongs to some entry:
\* nothing is lost by growing, failing, truncating or removing files.
NoClusterLost ==
    Ready /\ ~lost /\ ~mixed =>
        Cluster \ FreeClusters = {Root} \cup UNION {Range(Chain(At(x).cl)) : x \in Live}

\* Between calls the cached nodes say what the disk says: a node is at the
\* place of its entry and has its chain and its size (or size 0, truncated by
\* vfs_create), also after kmalloc failed in the middle of fat_readdir or
\* fat_create; until it does, a directory with a cached child has all of them
\* cached, so that a name that is not found is not on the disk.
CacheRight ==
    Ready /\ ~mixed =>
        /\ \A p \in DOMAIN nodes :
             LET n == nodes[p]  e == dir[n.dc][n.slot] IN
             /\ e.st = "live" /\ e.name = Name(p) /\ e.kind = n.kind /\ e.cl = n.cl
             /\ n.size \in {0, e.size}
        /\ ~short =>
             \A x \in Live : \A q \in DOMAIN nodes :
                nodes[q].dc = x[1] => \E p \in DOMAIN nodes :
                                        nodes[p].dc = x[1] /\ nodes[p].slot = x[2]

\* No file_t stands past the end of its file, where vfs_read would take
\* size - offset for a huge number, unless the disk filled up under a write or
\* the file was truncated through another handle.
OffsetInFile ==
    ~past /\ ~mixed =>
        \A f \in 1 .. MaxFiles : open[f] # NoFile => open[f].off <= nodes[open[f].path].size
=============================================================================
