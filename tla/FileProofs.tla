----------------------------- MODULE FileProofs -----------------------------
(***************************************************************************)
(* Files, from the descriptor to the disk.                                 *)
(*                                                                         *)
(* First FdTable: descriptors, file handles and pipes, for every table     *)
(* size, every number of handles and pipes and every kind of program.      *)
(*                                                                         *)
(* Then Fs: the disk and the node cache over it, for every number of       *)
(* clusters, slots and paths, whatever the heap has room for.  What the    *)
(* proofs rest on is FsInv: while all names are lower case, the writes     *)
(* that a call has still to make keep the disk sound one by one, and when  *)
(* they are made the disk is the one the cache shows.                      *)
(***************************************************************************)
EXTENDS FdTable, Fs, FiniteSetTheorems, SequenceTheorems, WellFoundedInduction, TLAPS

FileEntry == [kind : {"file"}, obj : Handles]
PipeEntry == [kind : {"pipe_r", "pipe_w"}, obj : Pipe]
Entry == {None} \cup FileEntry \cup PipeEntry

PipeSlot == [used : BOOLEAN, readers : Int, writers : Int]

\* The type of the state.  Pipe counts are only known to be integers: when an
\* end was copied they can go below zero.
Typed ==
    /\ fd \in [Fd -> Entry] /\ childFd \in [Fd -> Entry]
    /\ child \in BOOLEAN
    /\ files \subseteq Handles
    /\ pipes \in [Pipe -> PipeSlot]

\* Every file entry of a table refers to an allocated handle, no two to one.
TableSound(table) ==
    /\ \A i \in Fd : table[i].kind = "file" => table[i].obj \in files
    /\ \A i, j \in Fd : /\ table[i].kind = "file" /\ table[j].kind = "file"
                        /\ table[i].obj = table[j].obj
                        => i = j

\* The tables of parent and child have no handle in common.
TablesApart ==
    \A i, j \in Fd :
        fd[i].kind = "file" /\ childFd[j].kind = "file" => fd[i].obj # childFd[j].obj

HandleInv == "dup2" \notin calls => TableSound(fd) /\ TableSound(childFd) /\ TablesApart

\* Descriptor i is an end of a pipe of which no end was copied.
Counted(i) == fd[i] \in PipeEntry /\ fd[i].obj \notin shared

\* A pipe of which no end was copied has each end at most once, in the running
\* task's table; with an end there it is in use and counts that end.
PipeInv ==
    /\ \A i \in Fd : childFd[i] \in PipeEntry => childFd[i].obj \in shared
    /\ \A i, j \in Fd : Counted(i) /\ fd[i] = fd[j] => i = j
    /\ \A p \in Pipe \ shared : pipes[p].readers >= 0 /\ pipes[p].writers >= 0
    /\ \A i \in Fd : Counted(i) =>
         /\ pipes[fd[i].obj].used
         /\ fd[i].kind = "pipe_r" => pipes[fd[i].obj].readers >= 1
         /\ fd[i].kind = "pipe_w" => pipes[fd[i].obj].writers >= 1

-----------------------------------------------------------------------------
(* Facts the provers do not have.                                          *)

\* Every set of natural numbers that is not empty has a least element.
LEMMA LeastNat ==
    ASSUME NEW S \in SUBSET Nat, S # {}
    PROVE  \E x \in S : \A y \in S : x <= y
<1> DEFINE R == OpToRel(<, Nat)
<1>1. IsWellFoundedOn(R, Nat)
  BY NatLessThanWellFounded
<1>2. \A x, y \in Nat : <<x, y>> \in R <=> x < y
  BY DEF OpToRel
<1> HIDE DEF R
<1>3. PICK x \in S : \A y \in S : ~ (<<y, x>> \in R)
  BY <1>1, WFMin
<1>4. \A y \in S : ~ (y < x)
  BY <1>2, <1>3
<1> QED BY <1>4

\* task_fd_alloc returns an unused descriptor from 3 on.
LEMMA FdAllocFree ==
    ASSUME NEW table, FreeFds(table) # {}
    PROVE  FdAlloc(table) \in Fd /\ FdAlloc(table) >= 3 /\ table[FdAlloc(table)].kind = "none"
<1>1. FreeFds(table) \in SUBSET Nat
  BY FdSizes DEF FreeFds
<1>2. \E i \in FreeFds(table) : \A j \in FreeFds(table) : i <= j
  BY <1>1, LeastNat
<1>3. FdAlloc(table) \in FreeFds(table)
  BY <1>2 DEF FdAlloc
<1> QED BY <1>3, FdSizes DEF FreeFds, Fd

\* pipe_alloc returns an unused slot.
LEMMA PipeAllocFree ==
    ASSUME FreePipes # {}
    PROVE  PipeAlloc \in Pipe /\ ~pipes[PipeAlloc].used
<1>1. FreePipes \in SUBSET Nat
  BY FdSizes DEF FreePipes, Pipe
<1>2. \E i \in FreePipes : \A j \in FreePipes : i <= j
  BY <1>1, LeastNat
<1>3. PipeAlloc \in FreePipes
  BY <1>2 DEF PipeAlloc
<1> QED BY <1>3 DEF FreePipes

\* With two unused descriptors the second task_fd_alloc of SYS_PIPE finds one.
LEMMA SecondFdFree ==
    ASSUME NEW table, NEW e, e.kind # "none", table \in [Fd -> Entry],
           Cardinality(FreeFds(table)) >= 2
    PROVE  /\ FreeFds(table) # {}
           /\ FreeFds([table EXCEPT ![FdAlloc(table)] = e]) # {}
<1>1. IsFiniteSet(FreeFds(table))
  <2>1. IsFiniteSet(3 .. (MaxFd - 1))
    BY FS_Interval, FdSizes
  <2> QED BY <2>1, FS_Subset DEF FreeFds
<1>2. FreeFds(table) # {}
  BY FS_EmptySet
<1> DEFINE r == FdAlloc(table)
<1>3. r \in Fd /\ r >= 3
  BY <1>2, FdAllocFree
<1> HIDE DEF r
<1>4. FreeFds(table) # {r}
  BY FS_Singleton
<1>5. PICK i \in FreeFds(table) : i # r
  BY <1>2, <1>4
<1>6. i \in Fd
  BY FdSizes DEF FreeFds, Fd
<1>7. i \in FreeFds([table EXCEPT ![r] = e])
  BY <1>5, <1>6 DEF FreeFds
<1> QED BY <1>2, <1>7 DEF r

-----------------------------------------------------------------------------
(* Opening a file.                                                         *)

\* The handle gets a descriptor.
OpenKept ==
    /\ FreeFds(fd) # {}
    /\ \E h \in Handles \ files :
         files' = files \cup {h} /\ fd' = [fd EXCEPT ![FdAlloc(fd)] = [kind |-> "file", obj |-> h]]

\* With a full table the handle is closed again.
LEMMA OpenCases ==
    ASSUME sys_open
    PROVE  OpenKept \/ (files' = files /\ fd' = fd)
<1>1. PICK h \in Handles \ files :
         IF FreeFds(fd) = {}
         THEN files' = (files \cup {h}) \ {h} /\ fd' = fd
         ELSE /\ files' = files \cup {h}
              /\ fd' = [fd EXCEPT ![FdAlloc(fd)] = [kind |-> "file", obj |-> h]]
  BY DEF sys_open
<1>2. (files \cup {h}) \ {h} = files
  BY <1>1
<1> QED BY <1>1, <1>2 DEF OpenKept

\* A program that is started finds the table as task_fd_close_all leaves it.
ExecCloses == files' = files \ ClosedAll(fd) /\ fd' = AfterCloseAll(fd) /\ leaked' = leaked

\* A load that cannot copy the address space forgets its handle.
ExecForgets == \E h \in Handles \ files :
                  files' = files \cup {h} /\ leaked' = leaked \cup {h} /\ fd' = fd

\* The outcomes of an exec.
LEMMA ExecCases ==
    ASSUME sys_exec
    PROVE  ExecCloses \/ ExecForgets \/ (files' = files /\ fd' = fd /\ leaked' = leaked)
BY DEF sys_exec, ExecCloses, ExecForgets

-----------------------------------------------------------------------------
(* Types.                                                                  *)

\* Closing an end takes it from its side's count; the slot stays in use until
\* both counts are zero.
LEMMA PipeClosedFields ==
    ASSUME NEW p \in PipeSlot, NEW kind
    PROVE  LET q == PipeClosed(p, kind)
           IN  /\ q \in PipeSlot
               /\ q.readers = IF kind = "pipe_r" THEN p.readers - 1 ELSE p.readers
               /\ q.writers = IF kind = "pipe_w" THEN p.writers - 1 ELSE p.writers
               /\ q.used <=> p.used /\ ~(q.readers = 0 /\ q.writers = 0)
<1> DEFINE r == IF kind = "pipe_r" THEN p.readers - 1 ELSE p.readers
           w == IF kind = "pipe_w" THEN p.writers - 1 ELSE p.writers
           u == p.used /\ ~(r = 0 /\ w = 0)
<1>1. r \in Int /\ w \in Int /\ u \in BOOLEAN
  BY DEF PipeSlot
<1>2. PipeClosed(p, kind) = [used |-> u, readers |-> r, writers |-> w]
  <2> DEFINE q == [p EXCEPT !.readers = r, !.writers = w]
  <2>1. q.readers = r /\ q.writers = w /\ q.used = p.used /\ q \in PipeSlot
    BY <1>1 DEF PipeSlot
  <2>2. PipeClosed(p, kind) = [q EXCEPT !.used = q.used /\ ~(q.readers = 0 /\ q.writers = 0)]
    BY DEF PipeClosed
  <2> HIDE DEF q, r, w
  <2>3. PipeClosed(p, kind) = [q EXCEPT !.used = u]
    BY <2>1, <2>2
  <2> HIDE DEF u
  <2> QED BY <2>1, <2>3 DEF PipeSlot
<1> HIDE DEF r, w, u
<1>3. /\ PipeClosed(p, kind) \in PipeSlot
      /\ PipeClosed(p, kind).readers = r /\ PipeClosed(p, kind).writers = w
      /\ PipeClosed(p, kind).used = u
  BY <1>1, <1>2 DEF PipeSlot
<1> QED BY <1>3 DEF r, w, u

\* The zeroed tables are of their types.
LEMMA InitTyped == Init => Typed
<1>1. [used |-> FALSE, readers |-> 0, writers |-> 0] \in PipeSlot
  BY DEF PipeSlot
<1> QED BY <1>1 DEF Init, Typed, EmptyTable, Entry

\* Every system call keeps the types.
LEMMA NextTyped ==
    ASSUME Typed, [Next]_vars
    PROVE  Typed'
<1> USE DEF Typed
<1>1. CASE sys_open
  <2>1. CASE OpenKept
    <3>1. FdAlloc(fd) \in Fd
      BY <2>1, FdAllocFree DEF OpenKept
    <3>2. PICK h \in Handles : /\ files' = files \cup {h}
                               /\ fd' = [fd EXCEPT ![FdAlloc(fd)] = [kind |-> "file", obj |-> h]]
      BY <2>1 DEF OpenKept
    <3>3. [kind |-> "file", obj |-> h] \in Entry
      BY DEF Entry, FileEntry
    <3> QED BY <1>1, <3>1, <3>2, <3>3 DEF sys_open
  <2>2. CASE files' = files /\ fd' = fd
    BY <1>1, <2>2 DEF sys_open
  <2> QED BY <1>1, <2>1, <2>2, OpenCases
<1>2. CASE sys_pipe
  <2>1. PipeAlloc \in Pipe
    BY <1>2, PipeAllocFree DEF sys_pipe
  <2>2. [kind |-> "pipe_r", obj |-> PipeAlloc] \in Entry /\ [kind |-> "pipe_w", obj |-> PipeAlloc] \in Entry
    BY <2>1 DEF Entry, PipeEntry
  <2> DEFINE room == Cardinality(FreeFds(fd)) >= 2
  <2>3. room \in BOOLEAN
    OBVIOUS
  <2>4. pipes' = [pipes EXCEPT ![PipeAlloc] = [used |-> room, readers |-> 1, writers |-> 1]]
    BY <1>2 DEF sys_pipe
  <2>5. fd' \in [Fd -> Entry]
    BY <1>2, <2>2 DEF sys_pipe
  <2> HIDE DEF room
  <2>6. [used |-> room, readers |-> 1, writers |-> 1] \in PipeSlot
    BY <2>3 DEF PipeSlot
  <2>7. pipes' \in [Pipe -> PipeSlot]
    BY <2>4, <2>6
  <2> QED BY <1>2, <2>5, <2>7 DEF sys_pipe
<1>3. CASE sys_exit
  BY <1>3 DEF sys_exit, AfterCloseAll, Entry
<1>10. CASE sys_exec
  <2>1. CASE ExecCloses
    BY <1>10, <2>1 DEF ExecCloses, sys_exec, AfterCloseAll, Entry
  <2>2. CASE ExecForgets
    BY <1>10, <2>2 DEF ExecForgets, sys_exec
  <2>3. CASE files' = files /\ fd' = fd
    BY <1>10, <2>3 DEF sys_exec
  <2> QED BY <1>10, <2>1, <2>2, <2>3, ExecCases
<1>4. CASE sys_fork
  <2>0. PICK copied \in SUBSET {i \in Fd : fd[i].kind = "file"} : \E new \in [copied -> Handles \ files] :
          /\ files' = files \cup {new[i] : i \in copied}
          /\ childFd' = [i \in Fd |->
                 CASE i \in copied -> [kind |-> "file", obj |-> new[i]]
                   [] fd[i].kind = "file" /\ i \notin copied -> None
                   [] OTHER -> fd[i]]
    BY <1>4 DEF sys_fork
  <2>1. PICK new \in [copied -> Handles \ files] :
          /\ files' = files \cup {new[i] : i \in copied}
          /\ childFd' = [i \in Fd |->
                 CASE i \in copied -> [kind |-> "file", obj |-> new[i]]
                   [] fd[i].kind = "file" /\ i \notin copied -> None
                   [] OTHER -> fd[i]]
    BY <2>0
  <2>2. ASSUME NEW i \in copied PROVE [kind |-> "file", obj |-> new[i]] \in Entry
    BY DEF Entry, FileEntry
  <2>3. childFd' \in [Fd -> Entry]
    BY <2>1, <2>2 DEF Entry
  <2> QED BY <1>4, <2>1, <2>3 DEF sys_fork
<1>5. ASSUME NEW i \in Fd, sys_close(i) PROVE Typed'
  <2>1. fd[i] \in FileEntry \/ fd[i] \in PipeEntry
    BY <1>5 DEF sys_close, Entry, None
  <2>2. pipes' \in [Pipe -> PipeSlot]
    <3>1. CASE fd[i].kind = "file"
      BY <1>5, <3>1 DEF sys_close
    <3>2. CASE fd[i].kind # "file"
      <4>1. fd[i].obj \in Pipe
        BY <2>1, <3>2 DEF FileEntry, PipeEntry
      <4>2. PipeClosed(pipes[fd[i].obj], fd[i].kind) \in PipeSlot
        BY <4>1, PipeClosedFields
      <4> QED BY <1>5, <3>2, <4>2 DEF sys_close
    <3> QED BY <3>1, <3>2
  <2> QED BY <1>5, <2>2 DEF sys_close, Entry
<1>6. ASSUME NEW old \in Fd, NEW new \in Fd, sys_dup2(old, new) PROVE Typed'
  BY <1>6 DEF sys_dup2
<1>7. CASE ReapChild
  BY <1>7 DEF ReapChild, EmptyTable, Entry
<1>8. CASE WaitChild
  BY <1>8 DEF WaitChild, EmptyTable, Entry
<1>9. CASE UNCHANGED vars
  BY <1>9 DEF vars
<1> QED BY <1>1, <1>2, <1>3, <1>4, <1>5, <1>6, <1>7, <1>8, <1>9, <1>10 DEF Next

\* A program does not change its kind.
LEMMA CallsFixed ==
    ASSUME [Next]_vars
    PROVE  calls' = calls
BY DEF Next, vars, sys_open, sys_pipe, sys_exit, sys_exec, sys_fork, sys_close, sys_dup2, ReapChild, WaitChild

-----------------------------------------------------------------------------
(* File handles.                                                           *)

\* What fork does to the child's table, in one place.
LEMMA ForkTable ==
    ASSUME Typed, sys_fork
    PROVE  \E copied \in SUBSET {i \in Fd : fd[i].kind = "file"} :
           \E new \in [copied -> Handles \ files] :
              /\ \A i, j \in copied : new[i] = new[j] => i = j
              /\ files' = files \cup {new[i] : i \in copied}
              /\ \A i \in Fd :
                   /\ i \in copied => childFd'[i].kind = "file" /\ childFd'[i].obj = new[i]
                   /\ i \notin copied => childFd'[i].kind # "file"
BY DEF sys_fork, None

\* Every step keeps handles allocated and unshared.
LEMMA HandleInvStep ==
    ASSUME Typed, HandleInv, [Next]_vars
    PROVE  HandleInv'
<1> SUFFICES ASSUME "dup2" \notin calls'
             PROVE  TableSound(fd)' /\ TableSound(childFd)' /\ TablesApart'
  BY DEF HandleInv
<1>0. calls' = calls
  BY CallsFixed
<1>a. TableSound(fd) /\ TableSound(childFd) /\ TablesApart
  BY <1>0 DEF HandleInv
<1>1. CASE sys_open
  <2>0. childFd' = childFd
    BY <1>1 DEF sys_open
  <2>1. CASE OpenKept
    <3> DEFINE n == FdAlloc(fd)
    <3>1. n \in Fd
      BY <2>1, FdAllocFree DEF OpenKept
    <3>2. PICK h \in Handles \ files :
                 files' = files \cup {h} /\ fd' = [fd EXCEPT ![n] = [kind |-> "file", obj |-> h]]
      BY <2>1 DEF OpenKept
    <3> HIDE DEF n
    <3>4. /\ fd'[n].kind = "file" /\ fd'[n].obj = h
          /\ \A i \in Fd : i # n => fd'[i] = fd[i]
      BY <3>1, <3>2 DEF Typed
    <3> QED BY <1>a, <2>0, <3>1, <3>2, <3>4 DEF TableSound, TablesApart
  <2>2. CASE files' = files /\ fd' = fd
    BY <1>a, <2>0, <2>2 DEF TableSound, TablesApart
  <2> QED BY <1>1, <2>1, <2>2, OpenCases
<1>2. CASE sys_pipe
  <2>1. files' = files /\ childFd' = childFd
    BY <1>2 DEF sys_pipe
  <2>2. \A i \in Fd : fd'[i].kind = "file" => fd'[i] = fd[i]
    BY <1>2 DEF sys_pipe, Typed
  <2> QED BY <1>a, <2>1, <2>2 DEF TableSound, TablesApart
<1>3. CASE /\ files' = files \ ClosedAll(fd) /\ fd' = AfterCloseAll(fd)
           /\ childFd' = childFd
  <2>1. files' = files \ ClosedAll(fd) /\ childFd' = childFd
    BY <1>3
  <2>2. \A i \in Fd : fd'[i].kind = "file" => i < 3 /\ fd'[i] = fd[i]
    BY <1>3, FdSizes DEF AfterCloseAll, None, Fd
  <2>3. \A h \in ClosedAll(fd) : \E i \in Fd : i >= 3 /\ fd[i].kind = "file" /\ fd[i].obj = h
    BY FdSizes DEF ClosedAll, FilesOf, Fd
  <2>4. \A i \in Fd : fd'[i].kind = "file" => fd'[i].obj \in files'
    <3> SUFFICES ASSUME NEW i \in Fd, fd'[i].kind = "file", fd'[i].obj \in ClosedAll(fd)
                 PROVE  FALSE
      BY <1>a, <2>1, <2>2 DEF TableSound
    <3>1. PICK j \in Fd : j >= 3 /\ fd[j].kind = "file" /\ fd[j].obj = fd[i].obj
      BY <2>2, <2>3
    <3>2. i = j
      BY <1>a, <2>2, <3>1 DEF TableSound
    <3> QED BY <2>2, <3>1, <3>2, FdSizes DEF Fd
  <2>5. \A i \in Fd : childFd[i].kind = "file" => childFd[i].obj \in files'
    BY <1>a, <2>1, <2>3 DEF TableSound, TablesApart
  <2> QED BY <1>a, <2>1, <2>2, <2>4, <2>5 DEF TableSound, TablesApart
<1>11. CASE sys_exit
  BY <1>3, <1>11 DEF sys_exit
<1>10. CASE sys_exec
  <2>0. childFd' = childFd
    BY <1>10 DEF sys_exec
  <2>1. CASE ExecCloses
    BY <1>3, <2>0, <2>1 DEF ExecCloses
  <2>2. CASE ExecForgets
    BY <1>a, <2>0, <2>2 DEF ExecForgets, TableSound, TablesApart
  <2>3. CASE files' = files /\ fd' = fd
    BY <1>a, <2>0, <2>3 DEF TableSound, TablesApart
  <2> QED BY <1>10, <2>1, <2>2, <2>3, ExecCases
<1>4. CASE sys_fork
  <2>1. PICK copied \in SUBSET {i \in Fd : fd[i].kind = "file"} :
        \E new \in [copied -> Handles \ files] :
              /\ \A i, j \in copied : new[i] = new[j] => i = j
              /\ files' = files \cup {new[i] : i \in copied}
              /\ \A i \in Fd :
                   /\ i \in copied => childFd'[i].kind = "file" /\ childFd'[i].obj = new[i]
                   /\ i \notin copied => childFd'[i].kind # "file"
    BY <1>4, ForkTable
  <2>2. PICK new \in [copied -> Handles \ files] :
              /\ \A i, j \in copied : new[i] = new[j] => i = j
              /\ files' = files \cup {new[i] : i \in copied}
              /\ \A i \in Fd :
                   /\ i \in copied => childFd'[i].kind = "file" /\ childFd'[i].obj = new[i]
                   /\ i \notin copied => childFd'[i].kind # "file"
    BY <2>1
  <2>3. fd' = fd
    BY <1>4 DEF sys_fork
  <2> QED BY <1>a, <2>2, <2>3 DEF TableSound, TablesApart
<1>5. ASSUME NEW n \in Fd, sys_close(n)
      PROVE  TableSound(fd)' /\ TableSound(childFd)' /\ TablesApart'
  <2>1. childFd' = childFd
    BY <1>5 DEF sys_close
  <2>2. files' = IF fd[n].kind = "file" THEN files \ {fd[n].obj} ELSE files
    BY <1>5 DEF sys_close
  <2>3. \A i \in Fd : fd'[i].kind = "file" => i # n /\ fd'[i] = fd[i]
    BY <1>5 DEF sys_close, Typed, None
  <2> QED BY <1>a, <2>1, <2>2, <2>3 DEF TableSound, TablesApart
<1>6. ASSUME NEW old \in Fd, NEW new \in Fd, sys_dup2(old, new) PROVE FALSE
  BY <1>0, <1>6 DEF sys_dup2
<1>7. CASE ReapChild
  <2>1. files' = files \ ClosedAll(childFd) /\ fd' = fd /\ childFd' = EmptyTable
    BY <1>7 DEF ReapChild
  <2>2. \A h \in ClosedAll(childFd) : \E i \in Fd : childFd[i].kind = "file" /\ childFd[i].obj = h
    BY FdSizes DEF ClosedAll, FilesOf, Fd
  <2>3. \A i \in Fd : childFd'[i].kind # "file"
    BY <2>1 DEF EmptyTable, None
  <2> QED BY <1>a, <2>1, <2>2, <2>3 DEF TableSound, TablesApart
<1>8. CASE WaitChild
  <2>1. files' = files /\ fd' = fd /\ childFd' = EmptyTable
    BY <1>8 DEF WaitChild
  <2>2. \A i \in Fd : childFd'[i].kind # "file"
    BY <2>1 DEF EmptyTable, None
  <2> QED BY <1>a, <2>1, <2>2 DEF TableSound, TablesApart
<1>9. CASE UNCHANGED vars
  BY <1>a, <1>9 DEF vars, TableSound, TablesApart
<1> QED BY <1>1, <1>2, <1>3, <1>4, <1>5, <1>6, <1>7, <1>8, <1>9, <1>10, <1>11 DEF Next

-----------------------------------------------------------------------------
(* Pipes.                                                                  *)

\* Every step keeps the counts of pipes at least as high as the ends there are.
LEMMA PipeInvStep ==
    ASSUME Typed, Typed', PipeInv, [Next]_vars
    PROVE  PipeInv'
<1>1. ASSUME pipes' = pipes, shared \subseteq shared',
             \A i \in Fd : fd'[i] \in PipeEntry => fd'[i] = fd[i] \/ fd'[i].obj \in shared',
             \A i \in Fd : childFd'[i] \in PipeEntry => childFd'[i] = childFd[i] \/ childFd'[i].obj \in shared'
      PROVE  PipeInv'
  <2>1. \A i \in Fd : Counted(i)' => Counted(i) /\ fd'[i] = fd[i]
    BY <1>1 DEF Counted
  <2>2. \A i \in Fd : childFd'[i] \in PipeEntry => childFd'[i].obj \in shared'
    BY <1>1 DEF PipeInv
  <2>3. ASSUME NEW i \in Fd, NEW j \in Fd, Counted(i)', fd'[i] = fd'[j] PROVE i = j
    <3>1. Counted(j)'
      BY <2>3 DEF Counted
    <3> QED BY <2>1, <2>3, <3>1 DEF PipeInv
  <2>4. \A p \in Pipe \ shared' : pipes'[p].readers >= 0 /\ pipes'[p].writers >= 0
    BY <1>1 DEF PipeInv
  <2>5. ASSUME NEW i \in Fd, Counted(i)'
        PROVE  /\ pipes'[fd'[i].obj].used
               /\ fd'[i].kind = "pipe_r" => pipes'[fd'[i].obj].readers >= 1
               /\ fd'[i].kind = "pipe_w" => pipes'[fd'[i].obj].writers >= 1
    <3>1. Counted(i) /\ fd'[i] = fd[i]
      BY <2>1, <2>5
    <3>2. /\ pipes[fd[i].obj].used
          /\ fd[i].kind = "pipe_r" => pipes[fd[i].obj].readers >= 1
          /\ fd[i].kind = "pipe_w" => pipes[fd[i].obj].writers >= 1
      BY <3>1 DEF PipeInv
    <3> QED BY <1>1, <3>1, <3>2
  <2> QED BY <2>2, <2>3, <2>4, <2>5 DEF PipeInv
<1>2. CASE sys_open
  <2>1. pipes' = pipes /\ shared' = shared /\ childFd' = childFd
    BY <1>2 DEF sys_open
  <2>2. CASE OpenKept
    <3>1. FdAlloc(fd) \in Fd
      BY <2>2, FdAllocFree DEF OpenKept
    <3>2. \A i \in Fd : fd'[i] \in PipeEntry => fd'[i] = fd[i]
      BY <2>2, <3>1 DEF OpenKept, PipeEntry, Typed
    <3> QED BY <1>1, <2>1, <3>2
  <2>3. CASE fd' = fd
    BY <1>1, <2>1, <2>3
  <2> QED BY <1>2, <2>2, <2>3, OpenCases
<1>3. CASE sys_pipe
  <2> DEFINE p == PipeAlloc
             re == [kind |-> "pipe_r", obj |-> p]
             we == [kind |-> "pipe_w", obj |-> p]
             r == FdAlloc(fd)
             w == FdAlloc([fd EXCEPT ![r] = re])
             room == Cardinality(FreeFds(fd)) >= 2
  <2>1. p \in Pipe /\ ~pipes[p].used
    BY <1>3, PipeAllocFree DEF sys_pipe
  <2>2. pipes' = [pipes EXCEPT ![p] = [used |-> room, readers |-> 1, writers |-> 1]]
    BY <1>3 DEF sys_pipe
  <2>7. childFd' = childFd /\ shared' = shared
    BY <1>3 DEF sys_pipe
  <2>3. \A i \in Fd : Counted(i) => fd[i].obj # p
    BY <2>1 DEF PipeInv
  <2>8. \A i \in Fd : childFd'[i] \in PipeEntry => childFd'[i].obj \in shared'
    BY <2>7 DEF PipeInv
  <2>4. \A q \in Pipe \ shared' : pipes'[q].readers >= 0 /\ pipes'[q].writers >= 0
    <3> HIDE DEF p, room
    <3>1. pipes'[p].readers = 1 /\ pipes'[p].writers = 1
      BY <2>1, <2>2 DEF Typed
    <3> QED BY <2>1, <2>2, <2>7, <3>1 DEF Typed, PipeInv
  <2>5. CASE room
    <3>1. fd' = [fd EXCEPT ![r] = re, ![w] = we]
      BY <1>3, <2>5 DEF sys_pipe
    <3>2. FreeFds(fd) # {} /\ FreeFds([fd EXCEPT ![r] = re]) # {}
      BY <2>5, SecondFdFree DEF Typed
    <3>3. r \in Fd /\ fd[r].kind = "none"
      BY <3>2, FdAllocFree
    <3>4. w \in Fd /\ [fd EXCEPT ![r] = re][w].kind = "none"
      <4> HIDE DEF r
      <4> QED BY <3>2, FdAllocFree
    <3>5. w # r
      <4> HIDE DEF r, w, p
      <4> QED BY <3>3, <3>4 DEF Typed
    <3>6. pipes'[p].used /\ pipes'[p].readers = 1 /\ pipes'[p].writers = 1
      <4> HIDE DEF p
      <4> QED BY <2>1, <2>2, <2>5 DEF Typed
    <3>7. \A q \in Pipe : q # p => pipes'[q] = pipes[q]
      BY <2>2 DEF Typed
    <3> HIDE DEF r, w, p, room
    <3>8. \A i \in Fd : fd'[i] = IF i = w THEN we ELSE IF i = r THEN re ELSE fd[i]
      BY <3>1, <3>3, <3>4, <3>5 DEF Typed
    <3>9. ASSUME NEW i \in Fd, NEW j \in Fd, Counted(i)', fd'[i] = fd'[j] PROVE i = j
      <4>1. Counted(j)'
        BY <3>9 DEF Counted
      <4>2. ASSUME NEW k \in Fd, Counted(k)', k # r, k # w PROVE Counted(k) /\ fd'[k] = fd[k] /\ fd[k].obj # p
        BY <2>3, <2>7, <3>8, <4>2 DEF Counted
      <4>3. fd'[w] = we /\ fd'[r] = re /\ we # re /\ we.obj = p /\ re.obj = p
        BY <3>3, <3>4, <3>5, <3>8
      <4>4. CASE i \in {r, w} \/ j \in {r, w}
        BY <3>9, <4>1, <4>2, <4>3, <4>4
      <4>5. CASE ~(i \in {r, w} \/ j \in {r, w})
        BY <3>9, <4>1, <4>2, <4>5 DEF PipeInv
      <4> QED BY <4>4, <4>5
    <3>10. ASSUME NEW i \in Fd, Counted(i)'
           PROVE  /\ pipes'[fd'[i].obj].used
                  /\ fd'[i].kind = "pipe_r" => pipes'[fd'[i].obj].readers >= 1
                  /\ fd'[i].kind = "pipe_w" => pipes'[fd'[i].obj].writers >= 1
      <4>1. CASE i = w
        BY <3>6, <3>8, <4>1
      <4>2. CASE i = r
        BY <3>5, <3>6, <3>8, <4>2
      <4>3. CASE i # w /\ i # r
        <5>1. Counted(i) /\ fd'[i] = fd[i] /\ fd[i].obj \in Pipe /\ fd[i].obj # p
          BY <2>3, <2>7, <3>8, <3>10, <4>3 DEF PipeEntry, Counted
        <5> QED BY <3>7, <5>1 DEF PipeInv
      <4> QED BY <4>1, <4>2, <4>3
    <3> QED BY <2>4, <2>8, <3>9, <3>10 DEF PipeInv
  <2>6. CASE ~room
    <3>1. fd' = fd
      BY <1>3, <2>6 DEF sys_pipe
    <3>2. \A q \in Pipe : q # p => pipes'[q] = pipes[q]
      BY <2>2 DEF Typed
    <3>3. \A i \in Fd : Counted(i) => fd[i].obj \in Pipe
      BY DEF PipeEntry, Counted
    <3>4. \A i \in Fd : Counted(i)' <=> Counted(i)
      BY <2>7, <3>1 DEF Counted
    <3> HIDE DEF p, room
    <3> QED BY <2>3, <2>4, <2>8, <3>1, <3>2, <3>3, <3>4 DEF PipeInv
  <2> QED BY <2>5, <2>6
<1>4. CASE sys_exit \/ sys_exec
  <2>1. pipes' = pipes /\ shared' = shared /\ childFd' = childFd /\ (fd' = fd \/ fd' = AfterCloseAll(fd))
    BY <1>4, ExecCases DEF sys_exit, sys_exec
  <2>2. \A i \in Fd : fd'[i] \in PipeEntry => fd'[i] = fd[i]
    BY <2>1 DEF AfterCloseAll, None, PipeEntry
  <2> QED BY <1>1, <2>1, <2>2
<1>5. CASE sys_fork
  <2>1. pipes' = pipes /\ fd' = fd /\ shared' = shared \cup PipesOf(fd, Fd)
    BY <1>5 DEF sys_fork
  <2>2. \A i \in Fd : childFd'[i] \in PipeEntry => childFd'[i] = fd[i]
    BY <1>5 DEF sys_fork, PipeEntry, None
  <2>3. \A i \in Fd : fd[i] \in PipeEntry => fd[i].obj \in PipesOf(fd, Fd)
    BY DEF PipesOf, PipeEntry
  <2>4. \A i \in Fd : childFd'[i] \in PipeEntry => childFd'[i].obj \in shared'
    BY <2>1, <2>2, <2>3
  <2> QED BY <1>1, <2>1, <2>4
<1>6. ASSUME NEW n \in Fd, sys_close(n) PROVE PipeInv'
  <2>0. childFd' = childFd /\ shared' = shared
    BY <1>6 DEF sys_close
  <2>1. \A i \in Fd : fd'[i] \in PipeEntry => i # n /\ fd'[i] = fd[i]
    BY <1>6 DEF sys_close, Typed, None, PipeEntry
  <2>2. CASE fd[n].kind = "file"
    <3>1. pipes' = pipes
      BY <1>6, <2>2 DEF sys_close
    <3> QED BY <1>1, <2>0, <2>1, <3>1
  <2>3. CASE fd[n].kind # "file"
    <3> DEFINE p == fd[n].obj
               k == fd[n].kind
    <3>1. fd[n] \in PipeEntry
      BY <1>6, <2>3 DEF sys_close, Typed, Entry, FileEntry, None
    <3>2. p \in Pipe /\ k \in {"pipe_r", "pipe_w"}
      BY <3>1 DEF PipeEntry
    <3>3. pipes' = [pipes EXCEPT ![p] = PipeClosed(pipes[p], k)]
      BY <1>6, <2>3 DEF sys_close
    <3>4. pipes[p] \in PipeSlot /\ pipes'[p] = PipeClosed(pipes[p], k)
      BY <3>2, <3>3 DEF Typed
    <3>5. /\ pipes'[p].readers = IF k = "pipe_r" THEN pipes[p].readers - 1 ELSE pipes[p].readers
          /\ pipes'[p].writers = IF k = "pipe_w" THEN pipes[p].writers - 1 ELSE pipes[p].writers
          /\ pipes'[p].used <=> pipes[p].used /\ ~(pipes'[p].readers = 0 /\ pipes'[p].writers = 0)
      BY <3>4, PipeClosedFields
    <3>6. \A q \in Pipe : q # p => pipes'[q] = pipes[q]
      BY <3>3 DEF Typed
    <3>7. pipes[p].readers \in Int /\ pipes[p].writers \in Int
      BY <3>4 DEF PipeSlot
    <3>8. p \notin shared =>
          /\ pipes[p].used
          /\ k = "pipe_r" => pipes[p].readers >= 1
          /\ k = "pipe_w" => pipes[p].writers >= 1
      BY <3>1 DEF PipeInv, Counted
    <3>9. \A q \in Pipe \ shared' : pipes'[q].readers >= 0 /\ pipes'[q].writers >= 0
      BY <2>0, <3>2, <3>5, <3>6, <3>7, <3>8 DEF PipeInv
    <3>10. ASSUME NEW i \in Fd, Counted(i)'
           PROVE  /\ pipes'[fd'[i].obj].used
                  /\ fd'[i].kind = "pipe_r" => pipes'[fd'[i].obj].readers >= 1
                  /\ fd'[i].kind = "pipe_w" => pipes'[fd'[i].obj].writers >= 1
      <4>1. /\ i # n /\ fd'[i] = fd[i] /\ fd[i].obj \in Pipe /\ fd[i].kind \in {"pipe_r", "pipe_w"}
            /\ Counted(i) /\ fd[i] \in PipeEntry /\ fd[i].obj \notin shared
        BY <2>0, <2>1, <3>10 DEF PipeEntry, Counted
      <4>2. /\ pipes[fd[i].obj].used
            /\ fd[i].kind = "pipe_r" => pipes[fd[i].obj].readers >= 1
            /\ fd[i].kind = "pipe_w" => pipes[fd[i].obj].writers >= 1
        BY <4>1 DEF PipeInv
      <4>3. CASE fd[i].obj # p
        BY <3>6, <4>1, <4>2, <4>3
      <4>4. CASE fd[i].obj = p
        <5>1. fd[i] # fd[n]
          BY <3>1, <4>1 DEF PipeInv
        <5>2. fd[i].kind # k
          BY <3>1, <4>1, <4>4, <5>1 DEF PipeEntry
        <5> QED BY <3>2, <3>5, <3>7, <3>8, <4>1, <4>2, <4>4, <5>2
      <4> QED BY <4>3, <4>4
    <3>11. ASSUME NEW i \in Fd, NEW j \in Fd, Counted(i)', fd'[i] = fd'[j] PROVE i = j
      <4>1. Counted(j)'
        BY <3>11 DEF Counted
      <4>2. Counted(i) /\ Counted(j) /\ fd[i] = fd[j]
        BY <2>0, <2>1, <3>11, <4>1 DEF Counted
      <4> QED BY <4>2 DEF PipeInv
    <3>12. \A i \in Fd : childFd'[i] \in PipeEntry => childFd'[i].obj \in shared'
      BY <2>0 DEF PipeInv
    <3> QED BY <3>9, <3>10, <3>11, <3>12 DEF PipeInv
  <2> QED BY <2>2, <2>3
<1>7. ASSUME NEW old \in Fd, NEW new \in Fd, sys_dup2(old, new) PROVE PipeInv'
  <2>1. /\ pipes' = pipes /\ childFd' = childFd /\ fd' = [fd EXCEPT ![new] = fd[old]]
        /\ shared' = shared \cup PipesOf(fd, {old})
    BY <1>7 DEF sys_dup2
  <2>2. fd[old] \in PipeEntry => fd[old].obj \in shared'
    BY <2>1 DEF PipesOf, PipeEntry
  <2>3. \A i \in Fd : fd'[i] \in PipeEntry => fd'[i] = fd[i] \/ fd'[i].obj \in shared'
    BY <2>1, <2>2 DEF Typed
  <2> QED BY <1>1, <2>1, <2>3
<1>8. CASE ReapChild \/ WaitChild
  <2>1. pipes' = pipes /\ fd' = fd /\ shared' = shared /\ childFd' = EmptyTable
    BY <1>8 DEF ReapChild, WaitChild
  <2>2. \A i \in Fd : childFd'[i] \notin PipeEntry
    BY <2>1 DEF EmptyTable, None, PipeEntry
  <2> QED BY <1>1, <2>1, <2>2
<1>9. CASE UNCHANGED vars
  BY <1>1, <1>9 DEF vars
<1> QED BY <1>2, <1>3, <1>4, <1>5, <1>6, <1>7, <1>8, <1>9 DEF Next

\* A handle that stays allocated keeps a descriptor.
LEMMA NoHandleLostStep ==
    ASSUME Typed, NoHandleLost, [Next]_vars
    PROVE  NoHandleLost'
<1>0. calls' = calls
  BY CallsFixed
<1> SUFFICES ASSUME "fork" \notin calls, NEW h \in files'
             PROVE  h \in leaked' \/ \E i \in Fd : fd'[i].kind = "file" /\ fd'[i].obj = h
  BY <1>0 DEF NoHandleLost, FilesOf
<1>a. leaked \subseteq leaked'
  BY DEF Next, vars, sys_open, sys_pipe, sys_exit, sys_exec, sys_fork, sys_close, sys_dup2, ReapChild, WaitChild
<1> SUFFICES ASSUME h \notin leaked'
             PROVE  \E i \in Fd : fd'[i].kind = "file" /\ fd'[i].obj = h
  OBVIOUS
<1>1. h \in files => \E i \in Fd : fd[i].kind = "file" /\ fd[i].obj = h
  BY <1>a DEF NoHandleLost, FilesOf
<1>2. CASE sys_open
  <2>1. CASE OpenKept
    <3> DEFINE n == FdAlloc(fd)
    <3>1. n \in Fd /\ fd[n].kind = "none"
      BY <2>1, FdAllocFree DEF OpenKept
    <3>2. PICK g \in Handles :
               files' = files \cup {g} /\ fd' = [fd EXCEPT ![n] = [kind |-> "file", obj |-> g]]
      BY <2>1 DEF OpenKept
    <3> HIDE DEF n
    <3>3. /\ fd'[n].kind = "file" /\ fd'[n].obj = g
          /\ \A i \in Fd : i # n => fd'[i] = fd[i]
      BY <3>1, <3>2 DEF Typed
    <3> QED BY <1>1, <3>1, <3>2, <3>3
  <2>2. CASE files' = files /\ fd' = fd
    BY <1>1, <2>2
  <2> QED BY <1>2, <2>1, <2>2, OpenCases
<1>3. CASE sys_pipe
  <2>1. files' = files
    BY <1>3 DEF sys_pipe
  <2>2. PICK i \in Fd : fd[i].kind = "file" /\ fd[i].obj = h
    BY <1>1, <2>1
  <2>3. fd'[i] = fd[i]
    <3> DEFINE re == [kind |-> "pipe_r", obj |-> PipeAlloc]
               we == [kind |-> "pipe_w", obj |-> PipeAlloc]
               r == FdAlloc(fd)
               w == FdAlloc([fd EXCEPT ![r] = re])
    <3>1. CASE Cardinality(FreeFds(fd)) >= 2
      <4>1. fd' = [fd EXCEPT ![r] = re, ![w] = we]
        BY <1>3, <3>1 DEF sys_pipe
      <4>2. FreeFds(fd) # {} /\ FreeFds([fd EXCEPT ![r] = re]) # {}
        BY <3>1, SecondFdFree DEF Typed
      <4>3. r \in Fd /\ fd[r].kind = "none"
        BY <4>2, FdAllocFree
      <4> HIDE DEF r
      <4>4. w \in Fd /\ [fd EXCEPT ![r] = re][w].kind = "none"
        BY <4>2, FdAllocFree
      <4> HIDE DEF w
      <4>5. i # w
        BY <2>2, <4>3, <4>4 DEF Typed
      <4> QED BY <2>2, <4>1, <4>3, <4>5 DEF Typed
    <3>2. CASE ~(Cardinality(FreeFds(fd)) >= 2)
      BY <1>3, <3>2 DEF sys_pipe
    <3> QED BY <3>1, <3>2
  <2> QED BY <2>2, <2>3
<1>4. CASE files' = files \ ClosedAll(fd) /\ fd' = AfterCloseAll(fd)
  <2>1. h \in files /\ h \notin ClosedAll(fd)
    BY <1>4
  <2>2. PICK i \in Fd : fd[i].kind = "file" /\ fd[i].obj = h
    BY <1>1, <2>1
  <2>3. ~(i >= 3)
    BY <2>1, <2>2, FdSizes DEF ClosedAll, FilesOf, Fd
  <2> QED BY <1>4, <2>2, <2>3 DEF AfterCloseAll
<1>10. CASE sys_exit
  BY <1>4, <1>10 DEF sys_exit
<1>11. CASE sys_exec
  <2>1. CASE ExecCloses
    BY <1>4, <2>1 DEF ExecCloses
  <2>2. CASE ExecForgets
    BY <1>1, <2>2 DEF ExecForgets
  <2>3. CASE files' = files /\ fd' = fd
    BY <1>1, <2>3
  <2> QED BY <1>11, <2>1, <2>2, <2>3, ExecCases
<1>5. ASSUME NEW n \in Fd, sys_close(n)
      PROVE  \E i \in Fd : fd'[i].kind = "file" /\ fd'[i].obj = h
  <2>1. h \in files /\ ~(fd[n].kind = "file" /\ fd[n].obj = h)
    BY <1>5 DEF sys_close
  <2>2. PICK i \in Fd : fd[i].kind = "file" /\ fd[i].obj = h
    BY <1>1, <2>1
  <2> QED BY <1>5, <2>1, <2>2 DEF sys_close, Typed
<1>6. ASSUME NEW old \in Fd, NEW new \in Fd, sys_dup2(old, new)
      PROVE  \E i \in Fd : fd'[i].kind = "file" /\ fd'[i].obj = h
  <2>1. h \in files /\ ~(fd[new].kind = "file" /\ fd[new].obj = h)
    BY <1>6 DEF sys_dup2
  <2>2. PICK i \in Fd : fd[i].kind = "file" /\ fd[i].obj = h
    BY <1>1, <2>1
  <2> QED BY <1>6, <2>1, <2>2 DEF sys_dup2, Typed
<1>7. CASE sys_fork
  BY <1>7 DEF sys_fork
<1>8. CASE ReapChild \/ WaitChild
  BY <1>1, <1>8 DEF ReapChild, WaitChild
<1>9. CASE UNCHANGED vars
  BY <1>1, <1>9 DEF vars
<1> QED BY <1>2, <1>3, <1>4, <1>5, <1>6, <1>7, <1>8, <1>9, <1>10, <1>11 DEF Next

-----------------------------------------------------------------------------
(* Theorems.                                                               *)

\* A set of descriptors is finite.
LEMMA FdsFinite == \A S \in SUBSET Fd : IsFiniteSet(S) /\ Cardinality(S) \in Nat
<1>1. IsFiniteSet(Fd)
  BY FS_Interval, FdSizes DEF Fd
<1> QED BY <1>1, FS_Subset, FS_CardinalityType

\* A table without a shared handle has as many handles as file entries.
LEMMA HandlesCounted ==
    ASSUME NEW table, TableSound(table)
    PROVE  Cardinality(FilesOf(table, Fd)) = Cardinality({i \in Fd : table[i].kind = "file"})
<1> DEFINE F == {i \in Fd : table[i].kind = "file"}
           H == FilesOf(table, Fd)
           m == [i \in F |-> table[i].obj]
<1>1. IsFiniteSet(F)
  BY FdsFinite
<1>2. m \in Bijection(F, H)
  BY DEF Bijection, Injection, Surjection, IsInjective, FilesOf, TableSound
<1>3. ExistsBijection(F, H)
  BY <1>2 DEF ExistsBijection
<1> HIDE DEF F, H
<1>4. Cardinality(H) = Cardinality(F)
  BY <1>1, <1>3, FS_Bijection
<1> QED BY <1>4 DEF F, H

\* An end of a pipe that was never copied is at most once in the running task's
\* table and not in the child's.
LEMMA EndsCounted ==
    ASSUME Typed, PipeInv, NEW p \in Pipe \ shared, NEW kind \in {"pipe_r", "pipe_w"}
    PROVE  \/ EndsOf(p, kind) = 0
           \/ EndsOf(p, kind) = 1 /\ \E i \in Fd : fd[i] = [kind |-> kind, obj |-> p]
<1> DEFINE e == [kind |-> kind, obj |-> p]
           E == {i \in Fd : fd[i] = e}
           C == {i \in Fd : childFd[i] = e}
<1>0. e \in PipeEntry /\ e.obj = p
  BY DEF PipeEntry
<1> HIDE DEF e
<1>3. C = {}
  BY <1>0 DEF PipeInv
<1>4. EndsOf(p, kind) = Cardinality(E) + 0
  BY <1>3, FS_EmptySet DEF EndsOf, EndsIn, e
<1>1. CASE E = {}
  BY <1>1, <1>4, FS_EmptySet
<1>2. CASE E # {}
  <2>1. PICK i \in E : TRUE
    BY <1>2
  <2>3. E = {i}
    BY <1>0, <2>1 DEF PipeInv, Counted
  <2>4. Cardinality(E) = 1
    BY <2>3, FS_Singleton
  <2> QED BY <1>4, <2>1, <2>4 DEF e
<1> QED BY <1>1, <1>2

\* No descriptor of a program or of its forked child refers to a freed file_t
\* and no two share one, for programs without dup2, however they open, close,
\* fork, exit and die.
THEOREM DescriptorsSound == Spec => []HandlesSound
<1>1. Init => Typed /\ HandleInv
  BY InitTyped DEF Init, HandleInv, TableSound, TablesApart, EmptyTable, None
<1>2. Typed /\ HandleInv /\ [Next]_vars => Typed' /\ HandleInv'
  BY NextTyped, HandleInvStep
<1>3. HandleInv => HandlesSound
  <2> SUFFICES ASSUME HandleInv, "dup2" \notin calls PROVE HandlesSound
    BY DEF HandlesSound
  <2>1. TableSound(fd) /\ TableSound(childFd) /\ TablesApart
    BY DEF HandleInv
  <2>2. FilesOf(fd, Fd) \cup FilesOf(childFd, Fd) \subseteq files
    BY <2>1 DEF FilesOf, TableSound
  <2>3. FilesOf(fd, Fd) \cap FilesOf(childFd, Fd) = {}
    BY <2>1 DEF FilesOf, TablesApart
  <2> QED BY <2>1, <2>2, <2>3, HandlesCounted DEF HandlesSound
<1> QED BY <1>1, <1>2, <1>3, PTL DEF Spec

\* sys_pipe never takes a slot that a descriptor of the running program or of its
\* child still refers to, as long as no end of a pipe in that slot was copied by
\* dup2 or fork: the counts sys_close relies on are never too low.
THEOREM PipesNotRecycled == Spec => []PipeNotRecycled
<1>1. Init => Typed /\ PipeInv
  BY InitTyped DEF Init, PipeInv, Counted, EmptyTable, None, PipeEntry
<1>2. Typed /\ PipeInv /\ [Next]_vars => Typed' /\ PipeInv'
  BY NextTyped, PipeInvStep
<1>3. Typed /\ PipeInv => PipeNotRecycled
  <2> SUFFICES ASSUME Typed, PipeInv, NEW p \in Pipe \ shared
               PROVE  /\ EndsOf(p, "pipe_r") + EndsOf(p, "pipe_w") > 0 => pipes[p].used
                      /\ pipes[p].readers >= EndsOf(p, "pipe_r")
                      /\ pipes[p].writers >= EndsOf(p, "pipe_w")
    BY DEF PipeNotRecycled
  <2>1. pipes[p].readers \in Int /\ pipes[p].writers \in Int
    BY DEF Typed, PipeSlot
  <2>2. pipes[p].readers >= 0 /\ pipes[p].writers >= 0
    BY DEF PipeInv
  <2>3. ASSUME NEW i \in Fd, NEW k \in {"pipe_r", "pipe_w"}, fd[i] = [kind |-> k, obj |-> p]
        PROVE  /\ pipes[p].used
               /\ k = "pipe_r" => pipes[p].readers >= 1
               /\ k = "pipe_w" => pipes[p].writers >= 1
    <3>1. fd[i] \in PipeEntry /\ fd[i].obj = p /\ fd[i].kind = k
      BY <2>3 DEF PipeEntry
    <3> QED BY <3>1 DEF PipeInv, Counted
  <2>4. \/ EndsOf(p, "pipe_r") = 0
        \/ EndsOf(p, "pipe_r") = 1 /\ pipes[p].used /\ pipes[p].readers >= 1
    BY <2>3, EndsCounted
  <2>5. \/ EndsOf(p, "pipe_w") = 0
        \/ EndsOf(p, "pipe_w") = 1 /\ pipes[p].used /\ pipes[p].writers >= 1
    BY <2>3, EndsCounted
  <2> QED BY <2>1, <2>2, <2>4, <2>5
<1> QED BY <1>1, <1>2, <1>3, PTL DEF Spec

\* A program that does not fork can still close every handle its calls made,
\* whatever it duplicates and replaces and also when its table is full: sys_dup2
\* closes the file it overwrites, sys_open the handle that got no descriptor.
\* Only a program load that fails at elf.c:66-67 forgets a handle.
THEOREM HandlesNotLost == Spec => []NoHandleLost
<1>1. Init => Typed /\ NoHandleLost
  BY InitTyped DEF Init, NoHandleLost
<1>2. Typed /\ NoHandleLost /\ [Next]_vars => Typed' /\ NoHandleLost'
  BY NextTyped, NoHandleLostStep
<1> QED BY <1>1, <1>2, PTL DEF Spec

-----------------------------------------------------------------------------
(* The file system (Fs).                                                   *)

\* What a directory slot, a cached node and a pending write are.
LiveEntry == [st : {"live"}, name : Names, kind : {"file", "dir"}, cl : Cluster, size : Nat]
Ents == {End, Del} \cup LiveEntry
Tables(V) == [Cluster -> [1 .. Slots -> V]]
Dirs == Tables(Ents)
Node == [kind : {"file", "dir"}, size : Nat, cl : Cluster, dc : Cluster, slot : 1 .. Slots]
Writes == [w : {"fat"}, c : Cluster, v : Nat] \cup [w : {"zero"}, c : Cluster]
              \cup [w : {"dir"}, c : Cluster, k : 1 .. Slots, e : Ents]

\* Slot k of cluster c holds an entry of the root or of a directory it lists.
InTree(D, c) ==
    c = Root \/ \E j \in 1 .. Slots : /\ D[Root][j].st = "live" /\ D[Root][j].kind = "dir"
                                      /\ D[Root][j].cl = c
Lives(D, c, k) == D[c][k].st = "live" /\ InTree(D, c)

\* s is a chain; entry e of the directory in cluster d has the chain s.
Linked(F, s) ==
    \A i \in 1 .. Len(s) : s[i] # Root /\ F[s[i]] = IF i = Len(s) THEN Eoc ELSE s[i + 1]
Fits(e, n) == e.kind = "file" => e.size <= n * CSize
EntryOK(F, e, s, d) ==
    /\ Len(s) > 0 /\ s[1] = e.cl /\ Linked(F, s) /\ Fits(e, Len(s))
    /\ d # Root => e.kind = "file"

\* A sound disk, with the chain of every entry; sh says that names may occur twice.
Apart(S) ==
    \A c, d \in Cluster, k, l \in 1 .. Slots :
        \A i \in 1 .. Len(S[c][k]), j \in 1 .. Len(S[d][l]) :
            S[c][k][i] = S[d][l][j] => c = d /\ k = l /\ i = j
NamesApart(D) ==
    \A c \in Cluster, k, l \in 1 .. Slots :
        Lives(D, c, k) /\ Lives(D, c, l) /\ D[c][k].name = D[c][l].name => k = l
Good(sh, F, D, S) ==
    /\ F \in [Cluster -> Nat] /\ F[Root] = Eoc /\ D \in Dirs
    /\ S \in Tables(Seq(Cluster))
    /\ \A c \in Cluster, k \in 1 .. Slots :
          /\ Lives(D, c, k) => EntryOK(F, D[c][k], S[c][k], c)
          /\ ~Lives(D, c, k) => S[c][k] = << >>
    /\ Apart(S) /\ (sh \/ NamesApart(D))

Unowned(S, c) == \A d \in Cluster, k \in 1 .. Slots : \A i \in 1 .. Len(S[d][k]) : S[d][k][i] # c
AllUsed(F, S) == \A c \in Cluster : F[c] # Free => c = Root \/ ~Unowned(S, c)

\* The cache ns shows the disk; sh says that it may leave entries out.
Places == {p \in Seq(Names) : Len(p) \in {1, 2}}
NodeOK(D, ns, p) ==
    LET n == ns[p]
        e == D[n.dc][n.slot]
    IN  /\ e.st = "live" /\ e.name = Name(p) /\ e.kind = n.kind /\ e.cl = n.cl
        /\ n.size \in {0, e.size}
        /\ IsDir(ns, Parent(p)) /\ n.dc = DirCluster(ns, Parent(p))
Cache(sh, D, ns) ==
    /\ DOMAIN ns \subseteq Places /\ ns \in [DOMAIN ns -> Node]
    /\ \A p \in DOMAIN ns : NodeOK(D, ns, p)
    /\ \/ sh
       \/ \A p \in DOMAIN ns, k \in 1 .. Slots :
             D[ns[p].dc][k].st = "live" => Append(Parent(p), D[ns[p].dc][k].name) \in DOMAIN ns

\* What may be left out or occur twice once sh holds.
LEMMA GoodLater ==
    ASSUME NEW sh, NEW s2, sh => s2, NEW F, NEW D, NEW S, Good(sh, F, D, S)
    PROVE  Good(s2, F, D, S)
BY DEF Good
LEMMA CacheLater ==
    ASSUME NEW sh, NEW s2, sh => s2, NEW D, NEW ns, Cache(sh, D, ns)
    PROVE  Cache(s2, D, ns)
BY DEF Cache

\* The constants.
LEMMA FsConstants ==
    /\ NClusters \in Nat /\ CSize \in Nat /\ Slots \in Nat /\ MaxSize \in Nat /\ MaxFiles \in Nat
    /\ NClusters > 1 /\ CSize > 0 /\ Slots > 0
    /\ Cluster \subseteq Nat /\ Root \in Cluster /\ Eoc \in Nat /\ Free \in Nat
    /\ Eoc \notin Cluster /\ Free \notin Cluster /\ Eoc # Free
<1>1. /\ NClusters \in Nat /\ CSize \in Nat /\ Slots \in Nat /\ MaxSize \in Nat /\ MaxFiles \in Nat
      /\ NClusters > 1 /\ CSize > 0 /\ Slots > 0
  BY FsSizes
<1> QED BY <1>1 DEF Cluster, Root, Eoc, Free

\* Changing one slot of every cluster's table.
Put(D, c, k, e) == [D EXCEPT ![c][k] = e]
SetFat(F, c, v) == [F EXCEPT ![c] = v]
Zeroed(D, c) == [D EXCEPT ![c] = NoEntries]
LEMMA SetFatIs ==
    ASSUME NEW F, F \in [Cluster -> Nat], NEW c \in Cluster, NEW v
    PROVE  /\ v \in Nat => SetFat(F, c, v) \in [Cluster -> Nat]
           /\ SetFat(F, c, v)[c] = v
           /\ \A d \in Cluster : d # c => SetFat(F, c, v)[d] = F[d]
BY DEF SetFat
LEMMA TableAt ==
    ASSUME NEW V, NEW D, D \in Tables(V), NEW c \in Cluster, NEW k \in 1 .. Slots
    PROVE  D[c][k] \in V
BY DEF Tables
LEMMA PutIs ==
    ASSUME NEW V, NEW D, D \in Tables(V), NEW c \in Cluster, NEW k \in 1 .. Slots, NEW e
    PROVE  /\ e \in V => Put(D, c, k, e) \in Tables(V)
           /\ Put(D, c, k, e)[c][k] = e
           /\ \A d \in Cluster, l \in 1 .. Slots :
                 d # c \/ l # k => Put(D, c, k, e)[d][l] = D[d][l]
BY DEF Put, Tables

\* The same for chains, whose set the provers do not match.
LEMMA PutChain ==
    ASSUME NEW S, S \in Tables(Seq(Cluster)), NEW c \in Cluster, NEW k \in 1 .. Slots, NEW s,
           s \in Seq(Cluster)
    PROVE  Put(S, c, k, s) \in Tables(Seq(Cluster))
BY DEF Put, Tables

\* What an entry of a sound disk is.
LEMMA EntryType ==
    ASSUME NEW D, D \in Dirs, NEW c \in Cluster, NEW k \in 1 .. Slots
    PROVE  /\ D[c][k] \in Ents
           /\ D[c][k].st = "live" => D[c][k] \in LiveEntry
<1>1. D[c][k] \in Ents
  BY TableAt DEF Dirs
<1>2. D[c][k].st = "live" => D[c][k] # End /\ D[c][k] # Del
  BY DEF End, Del
<1> QED BY <1>1, <1>2 DEF Ents

\* Writing the entry of a cluster in no chain changes nothing.
LEMMA FatUnowned ==
    ASSUME NEW sh, NEW F, NEW D, NEW S, Good(sh, F, D, S), NEW c \in Cluster, c # Root, Unowned(S, c), NEW v \in Nat
    PROVE  Good(sh, SetFat(F, c, v), D, S)
<1> DEFINE G == SetFat(F, c, v)
<1>1. F \in [Cluster -> Nat] /\ G \in [Cluster -> Nat] /\ G[Root] = Eoc
      /\ S \in Tables(Seq(Cluster))
  BY FsConstants DEF Good, SetFat
<1>2. \A d \in Cluster : d # c => G[d] = F[d]
  BY <1>1 DEF SetFat
<1> HIDE DEF G
<1>3. ASSUME NEW d \in Cluster, NEW k \in 1 .. Slots, Lives(D, d, k)
      PROVE  EntryOK(G, D[d][k], S[d][k], d)
  <2>1. EntryOK(F, D[d][k], S[d][k], d) /\ S[d][k] \in Seq(Cluster)
    BY <1>1, <1>3, TableAt DEF Good
  <2>2. \A i \in 1 .. Len(S[d][k]) : S[d][k][i] \in Cluster /\ S[d][k][i] # c
    BY <2>1 DEF Unowned
  <2>3. \A i \in 1 .. Len(S[d][k]) : G[S[d][k][i]] = F[S[d][k][i]]
    BY <1>2, <2>2
  <2>4. Linked(G, S[d][k])
    BY <2>1, <2>3 DEF EntryOK, Linked
  <2> QED BY <2>1, <2>4 DEF EntryOK
<1> QED BY <1>1, <1>3 DEF Good, G

LEMMA ApartAt ==
    ASSUME NEW S, Apart(S), NEW c \in Cluster, NEW d \in Cluster, NEW k \in 1 .. Slots, NEW l \in 1 .. Slots
    PROVE  \A i \in 1 .. Len(S[c][k]), j \in 1 .. Len(S[d][l]) :
              S[c][k][i] = S[d][l][j] => c = d /\ k = l /\ i = j
BY DEF Apart

\* A chain may grow by a cluster in no chain.
LEMMA ApartGrows ==
    ASSUME NEW S, S \in Tables(Seq(Cluster)), Apart(S),
           NEW c \in Cluster, NEW k \in 1 .. Slots, NEW a \in Cluster, Unowned(S, a)
    PROVE  Apart(Put(S, c, k, Append(S[c][k], a)))
<1> DEFINE s == S[c][k]
           n == Len(s)
           t == Append(s, a)
           T == Put(S, c, k, t)
<1>1. s \in Seq(Cluster) /\ n \in Nat
  BY TableAt
<1>2. /\ t \in Seq(Cluster) /\ Len(t) = n + 1 /\ t[n + 1] = a /\ \A i \in 1 .. n : t[i] = s[i]
  BY <1>1, AppendProperties
<1>3. /\ T[c][k] = t
      /\ \A d \in Cluster, l \in 1 .. Slots : d # c \/ l # k => T[d][l] = S[d][l]
  <2> HIDE DEF t
  <2> QED BY <1>2, PutIs
<1>4. s = S[c][k] /\ Len(s) = n
  OBVIOUS
<1> HIDE DEF T, t, n, s
<1>5. Apart(T)
  <2> SUFFICES ASSUME NEW d \in Cluster, NEW e \in Cluster, NEW l \in 1 .. Slots, NEW m \in 1 .. Slots,
                      NEW i \in 1 .. Len(T[d][l]), NEW j \in 1 .. Len(T[e][m]),
                      T[d][l][i] = T[e][m][j]
               PROVE  d = e /\ l = m /\ i = j
    BY DEF Apart
  <2>1. ASSUME NEW x \in Cluster, NEW y \in 1 .. Slots, NEW q \in 1 .. Len(T[x][y])
        PROVE  \/ q \in 1 .. Len(S[x][y]) /\ T[x][y][q] = S[x][y][q] /\ T[x][y][q] # a
               \/ x = c /\ y = k /\ q = n + 1 /\ T[x][y][q] = a
    <3>1. CASE x = c /\ y = k
      <4>1. q \in 1 .. n + 1 /\ T[x][y][q] = t[q]
        BY <1>2, <1>3, <3>1
      <4>2. CASE q = n + 1
        BY <1>2, <3>1, <4>1, <4>2
      <4>3. CASE q \in 1 .. n
        <5>1. t[q] = s[q] /\ s[q] = S[x][y][q] /\ q \in 1 .. Len(S[x][y])
          BY <1>2, <1>4, <3>1, <4>3
        <5> QED BY <4>1, <5>1 DEF Unowned
      <4> QED BY <1>1, <4>1, <4>2, <4>3
    <3>2. CASE x # c \/ y # k
      <4>1. T[x][y] = S[x][y]
        BY <1>3, <3>2
      <4> QED BY <4>1 DEF Unowned
    <3> QED BY <3>1, <3>2
  <2>2. CASE T[d][l][i] = a
    <3>1. d = c /\ l = k /\ i = n + 1
      BY <2>1, <2>2
    <3>2. e = c /\ m = k /\ j = n + 1
      BY ONLY <2>1, <2>2, T[d][l][i] = T[e][m][j], e \in Cluster, m \in 1 .. Slots, j \in 1 .. Len(T[e][m]), SMTT(30)
    <3> QED BY <3>1, <3>2
  <2>3. CASE T[d][l][i] # a
    <3>1. i \in 1 .. Len(S[d][l]) /\ T[d][l][i] = S[d][l][i]
      BY <2>1, <2>3
    <3>2. j \in 1 .. Len(S[e][m]) /\ T[e][m][j] = S[e][m][j]
      BY <2>1, <2>3
    <3>3. \A x \in 1 .. Len(S[d][l]), y \in 1 .. Len(S[e][m]) :
             S[d][l][x] = S[e][m][y] => d = e /\ l = m /\ x = y
      BY ApartAt, SMTT(30)
    <3> QED BY <3>1, <3>2, <3>3
  <2> QED BY <2>2, <2>3
<1> QED BY <1>5 DEF T, t, s

\* Linking an allocated cluster behind the last one makes the chain longer.
LEMMA LinkCluster ==
    ASSUME NEW sh, NEW F, NEW D, NEW S, Good(sh, F, D, S), NEW c \in Cluster, NEW k \in 1 .. Slots, Lives(D, c, k),
           NEW a \in Cluster, a # Root, Unowned(S, a), F[a] = Eoc
    PROVE  Good(sh, SetFat(F, S[c][k][Len(S[c][k])], a), D, Put(S, c, k, Append(S[c][k], a)))
<1> DEFINE s == S[c][k]
           n == Len(s)
           z == s[n]
           G == SetFat(F, z, a)
           t == Append(s, a)
           T == Put(S, c, k, t)
<1>1. /\ F \in [Cluster -> Nat] /\ S \in Tables(Seq(Cluster))
      /\ s \in Seq(Cluster) /\ Len(s) > 0 /\ s[1] = D[c][k].cl /\ Linked(F, s)
      /\ Fits(D[c][k], Len(s)) /\ (c # Root => D[c][k].kind = "file")
  BY TableAt DEF Good, EntryOK
<1>2. /\ n \in Nat /\ n > 0 /\ z \in Cluster /\ \A i \in 1 .. n : s[i] \in Cluster
  BY <1>1, SMTT(30)
<1>3. z # Root /\ F[z] = Eoc /\ a # z
  <2>1. n \in 1 .. Len(s)
    BY <1>2
  <2>2. z # Root /\ F[z] = Eoc
    BY <1>1, <2>1 DEF Linked
  <2>3. S[c][k][n] # a
    BY <2>1 DEF Unowned
  <2> QED BY <2>2, <2>3
<1>4. /\ t \in Seq(Cluster) /\ Len(t) = n + 1 /\ t[n + 1] = a /\ \A i \in 1 .. n : t[i] = s[i]
  BY <1>1, AppendProperties
<1>5. /\ G \in [Cluster -> Nat] /\ G[z] = a /\ \A d \in Cluster : d # z => G[d] = F[d]
  BY <1>1, <1>2, FsConstants DEF SetFat
<1>6. G[Root] = Eoc
  BY <1>3, <1>5, FsConstants DEF Good
<1>7. /\ T \in Tables(Seq(Cluster)) /\ T[c][k] = t
      /\ \A d \in Cluster, l \in 1 .. Slots : d # c \/ l # k => T[d][l] = S[d][l]
  <2> HIDE DEF t
  <2>1. T \in Tables(Seq(Cluster))
    BY <1>1, <1>4, PutChain
  <2> QED BY <1>1, <1>4, <2>1, PutIs
<1>8. \A i \in 1 .. n, d \in Cluster, l \in 1 .. Slots : \A j \in 1 .. Len(S[d][l]) :
         s[i] = S[d][l][j] => c = d /\ k = l /\ i = j
  BY DEF Good, Apart
<1>9. Apart(T)
  <2>1. Apart(S)
    BY DEF Good
  <2> QED BY <1>1, <2>1, ApartGrows
<1>10. s = S[c][k] /\ Len(s) = n /\ z = s[n]
  OBVIOUS
<1> HIDE DEF G, T, t, z, n, s
<1>11. Linked(G, t)
  <2> SUFFICES ASSUME NEW i \in 1 .. Len(t)
               PROVE  t[i] # Root /\ G[t[i]] = IF i = Len(t) THEN Eoc ELSE t[i + 1]
    BY DEF Linked
  <2>1. CASE i = n + 1
    BY <1>3, <1>4, <1>5, <2>1
  <2>2. CASE i = n
    <3>1. t[i] = z /\ t[i + 1] = a /\ i # Len(t)
      BY <1>2, <1>4, <1>10, <2>2
    <3> QED BY <1>3, <1>5, <3>1
  <2>3. CASE i \in 1 .. n - 1
    <3>0. i \in 1 .. n /\ i + 1 \in 1 .. n /\ n \in 1 .. n /\ i # n /\ i # n + 1
      BY <1>2, <2>3
    <3>1. s[i] # z
      BY <1>8, <1>10, <3>0
    <3>2. t[i] = s[i] /\ t[i + 1] = s[i + 1] /\ s[i] \in Cluster
      BY <1>2, <1>4, <3>0
    <3>3. F[s[i]] = s[i + 1] /\ s[i] # Root
      BY <1>1, <1>10, <3>0 DEF Linked
    <3> QED BY <1>4, <1>5, <3>0, <3>1, <3>2, <3>3
  <2> QED BY <1>2, <1>4, <2>1, <2>2, <2>3
<1>12. Fits(D[c][k], Len(t))
  <2> SUFFICES ASSUME D[c][k].kind = "file" PROVE D[c][k].size <= (n + 1) * CSize
    BY <1>4 DEF Fits
  <2>1. D[c][k].size \in Nat
    <3>1. D[c][k] \in Ents /\ D[c][k].st = "live"
      BY EntryType DEF Good, Lives
    <3> QED BY <3>1, EntryType DEF Ents, LiveEntry, End, Del
  <2>2. D[c][k].size <= n * CSize
    BY <1>1, <1>10 DEF Fits
  <2>3. (n + 1) * CSize = n * CSize + CSize /\ n * CSize \in Nat
    BY <1>2, FsConstants
  <2> HIDE DEF n
  <2> DEFINE x == n * CSize
             y == (n + 1) * CSize
  <2>4. D[c][k].size <= x /\ y = x + CSize /\ x \in Nat
    BY <2>2, <2>3
  <2> HIDE DEF x, y
  <2>5. D[c][k].size <= y
    BY <2>1, <2>4, FsConstants
  <2> QED BY <2>5 DEF y
<1>13. EntryOK(G, D[c][k], t, c)
  BY <1>1, <1>2, <1>4, <1>11, <1>12 DEF EntryOK
<1>14. ASSUME NEW d \in Cluster, NEW l \in 1 .. Slots, Lives(D, d, l), d # c \/ l # k
      PROVE  EntryOK(G, D[d][l], T[d][l], d)
  <2>1. EntryOK(F, D[d][l], S[d][l], d) /\ S[d][l] \in Seq(Cluster)
    BY <1>1, <1>14, TableAt DEF Good
  <2>2. \A i \in 1 .. Len(S[d][l]) : S[d][l][i] \in Cluster
    BY <2>1
  <2>3. n \in 1 .. n
    BY <1>2
  <2>4. \A i \in 1 .. Len(S[d][l]) : S[d][l][i] # z
    BY <1>8, <1>10, <1>14, <2>3
  <2>5. Linked(G, S[d][l])
    BY <1>5, <2>1, <2>2, <2>4 DEF EntryOK, Linked
  <2>6. T[d][l] = S[d][l]
    BY <1>7, <1>14
  <2> QED BY <2>1, <2>5, <2>6 DEF EntryOK
<1>16. \A d \in Cluster, l \in 1 .. Slots : ~Lives(D, d, l) => T[d][l] = << >>
  BY <1>7 DEF Good
<1>17. \A d \in Cluster, l \in 1 .. Slots : Lives(D, d, l) => EntryOK(G, D[d][l], T[d][l], d)
  BY <1>7, <1>13, <1>14
<1>18. Good(sh, G, D, T)
  BY <1>5, <1>6, <1>7, <1>9, <1>16, <1>17 DEF Good
<1> QED BY <1>18 DEF G, T, t, z, n, s

\* fat_update_dirent_size keeps an entry's name and chain.
LEMMA SetSize ==
    ASSUME NEW sh, NEW F, NEW D, NEW S, Good(sh, F, D, S), NEW c \in Cluster, NEW k \in 1 .. Slots, Lives(D, c, k),
           NEW e \in Ents, e.st = "live", e.name = D[c][k].name, e.kind = D[c][k].kind,
           e.cl = D[c][k].cl, Fits(e, Len(S[c][k]))
    PROVE  Good(sh, F, Put(D, c, k, e), S)
<1> DEFINE E == Put(D, c, k, e)
<1>1. D \in Dirs /\ D[c][k].st = "live"
  BY DEF Good, Lives
<1>2. /\ E \in Dirs /\ E[c][k] = e
      /\ \A d \in Cluster, l \in 1 .. Slots : d # c \/ l # k => E[d][l] = D[d][l]
  BY <1>1, PutIs DEF Dirs
<1> HIDE DEF E
<1>3. \A d \in Cluster, l \in 1 .. Slots :
         /\ E[d][l].st = "live" <=> D[d][l].st = "live"
         /\ E[d][l].st = "live" => /\ E[d][l].name = D[d][l].name /\ E[d][l].kind = D[d][l].kind
                                   /\ E[d][l].cl = D[d][l].cl
  BY <1>1, <1>2
<1>4. \A d \in Cluster : InTree(E, d) <=> InTree(D, d)
  <2>1. \A j \in 1 .. Slots :
           /\ E[Root][j].st = "live" <=> D[Root][j].st = "live"
           /\ E[Root][j].st = "live" => E[Root][j].kind = D[Root][j].kind /\ E[Root][j].cl = D[Root][j].cl
    BY <1>3, FsConstants
  <2> QED BY <2>1 DEF InTree
<1>5. \A d \in Cluster, l \in 1 .. Slots : Lives(E, d, l) <=> Lives(D, d, l)
  BY <1>3, <1>4 DEF Lives
<1>6. sh \/ NamesApart(E)
  <2> SUFFICES ASSUME ~sh, NEW d \in Cluster, NEW i \in 1 .. Slots, NEW j \in 1 .. Slots,
                      Lives(E, d, i), Lives(E, d, j), E[d][i].name = E[d][j].name
               PROVE  i = j
    BY DEF NamesApart
  <2>1. E[d][i].st = "live" /\ E[d][j].st = "live"
    BY DEF Lives
  <2>2. D[d][i].name = D[d][j].name /\ Lives(D, d, i) /\ Lives(D, d, j)
    BY <1>3, <1>5, <2>1
  <2>3. NamesApart(D)
    BY DEF Good
  <2> QED BY <2>2, <2>3 DEF NamesApart
<1>7. ASSUME NEW d \in Cluster, NEW l \in 1 .. Slots, Lives(E, d, l)
      PROVE  EntryOK(F, E[d][l], S[d][l], d)
  <2>1. EntryOK(F, D[d][l], S[d][l], d)
    BY <1>5, <1>7 DEF Good
  <2>2. Fits(E[d][l], Len(S[d][l]))
    <3>1. CASE d = c /\ l = k
      BY <1>2, <3>1
    <3>2. CASE d # c \/ l # k
      <4>1. E[d][l] = D[d][l]
        BY <1>2, <3>2
      <4> QED BY <2>1, <4>1 DEF EntryOK
    <3> QED BY <3>1, <3>2
  <2>3. E[d][l].kind = D[d][l].kind /\ E[d][l].cl = D[d][l].cl
    BY <1>3, <1>7 DEF Lives
  <2> QED BY <2>1, <2>2, <2>3 DEF EntryOK
<1>8. Good(sh, F, E, S)
  BY <1>2, <1>5, <1>6, <1>7 DEF Good
<1> QED BY <1>8 DEF E

\* A directory listed in the root owns its cluster.
LEMMA InTreeOwned ==
    ASSUME NEW sh, NEW F, NEW D, NEW S, Good(sh, F, D, S), NEW c \in Cluster, c # Root, InTree(D, c)
    PROVE  ~Unowned(S, c)
<1>1. PICK j \in 1 .. Slots : D[Root][j].st = "live" /\ D[Root][j].kind = "dir" /\ D[Root][j].cl = c
  BY DEF InTree
<1>2. Lives(D, Root, j) /\ Root \in Cluster
  BY <1>1, FsConstants DEF Lives, InTree
<1>3. EntryOK(F, D[Root][j], S[Root][j], Root) /\ S[Root][j] \in Seq(Cluster)
  BY <1>2, TableAt DEF Good
<1>4. 1 \in 1 .. Len(S[Root][j]) /\ S[Root][j][1] = c
  BY <1>1, <1>3 DEF EntryOK
<1> QED BY <1>2, <1>4 DEF Unowned

\* Zeroing a cluster in no chain changes no directory.
LEMMA ZeroUnowned ==
    ASSUME NEW sh, NEW F, NEW D, NEW S, Good(sh, F, D, S), NEW c \in Cluster, c # Root, Unowned(S, c)
    PROVE  Good(sh, F, Zeroed(D, c), S)
<1> DEFINE E == Zeroed(D, c)
<1>1. NoEntries \in [1 .. Slots -> Ents]
  BY DEF NoEntries, Ents
<1>2. /\ D \in Dirs /\ E \in Dirs /\ \A d \in Cluster : d # c => E[d] = D[d]
  BY <1>1 DEF Good, Dirs, Tables, Zeroed
<1>3. \A l \in 1 .. Slots : E[c][l].st # "live"
  BY <1>2 DEF NoEntries, End, Dirs, Tables, Zeroed
<1> HIDE DEF E
<1>4. E[Root] = D[Root]
  BY <1>2, FsConstants
<1>5. \A d \in Cluster : InTree(E, d) <=> InTree(D, d)
  BY <1>4 DEF InTree
<1>6. ~InTree(D, c)
  BY InTreeOwned
<1>7. \A d \in Cluster, l \in 1 .. Slots : /\ Lives(E, d, l) <=> Lives(D, d, l)
                                           /\ Lives(E, d, l) => E[d][l] = D[d][l]
  BY <1>2, <1>3, <1>5, <1>6 DEF Lives
<1>8. sh \/ NamesApart(E)
  BY <1>7 DEF Good, NamesApart
<1>9. \A d \in Cluster, l \in 1 .. Slots :
          /\ Lives(E, d, l) => EntryOK(F, E[d][l], S[d][l], d)
          /\ ~Lives(E, d, l) => S[d][l] = << >>
  BY <1>7 DEF Good
<1>10. Good(sh, F, E, S)
  BY <1>2, <1>8, <1>9 DEF Good
<1> QED BY <1>10 DEF E

\* A new entry, whose cluster is allocated and empty.
LEMMA NewEntry ==
    ASSUME NEW sh, NEW F, NEW D, NEW S, Good(sh, F, D, S), NEW c \in Cluster, NEW k \in 1 .. Slots,
           InTree(D, c), D[c][k].st # "live",
           NEW a \in Cluster, a # Root, Unowned(S, a), F[a] = Eoc,
           \A l \in 1 .. Slots : D[a][l].st # "live",
           NEW e \in LiveEntry, e.cl = a, e.size = 0, c # Root => e.kind = "file",
           sh \/ \A l \in 1 .. Slots : D[c][l].st = "live" => D[c][l].name # e.name
    PROVE  Good(sh, F, Put(D, c, k, e), Put(S, c, k, <<a>>))
<1> DEFINE E == Put(D, c, k, e)
           T == Put(S, c, k, <<a>>)
<1>1. D \in Dirs /\ e \in Ents /\ e.st = "live"
  BY DEF Good, Ents, LiveEntry
<1>2. /\ E \in Dirs /\ E[c][k] = e
      /\ \A d \in Cluster, l \in 1 .. Slots : d # c \/ l # k => E[d][l] = D[d][l]
  BY <1>1, PutIs DEF Dirs
<1>3. /\ S \in Tables(Seq(Cluster))
      /\ T \in Tables(Seq(Cluster)) /\ T[c][k] = <<a>>
      /\ \A d \in Cluster, l \in 1 .. Slots : d # c \/ l # k => T[d][l] = S[d][l]
  <2>1. S \in Tables(Seq(Cluster)) /\ <<a>> \in Seq(Cluster)
    BY DEF Good
  <2>2. T \in Tables(Seq(Cluster))
    BY <2>1, PutChain
  <2>3. ASSUME NEW x PROVE /\ Put(S, c, k, x)[c][k] = x
            /\ \A d \in Cluster, l \in 1 .. Slots : d # c \/ l # k => Put(S, c, k, x)[d][l] = S[d][l]
    BY <2>1, PutIs
  <2> QED BY <2>1, <2>2, <2>3
<1>4. S[c][k] = << >> /\ ~Lives(D, c, k)
  BY DEF Good, Lives
<1>12. Apart(T)
  <2>1. Append(S[c][k], a) = <<a>> /\ Apart(S)
    BY <1>4 DEF Good
  <2>2. Apart(Put(S, c, k, Append(S[c][k], a)))
    BY <1>3, <2>1, ApartGrows
  <2> QED BY <2>1, <2>2
<1> HIDE DEF E, T
<1>5. ~InTree(D, a) /\ a # c
  BY InTreeOwned
<1>6. \A d \in Cluster : InTree(E, d) => InTree(D, d) \/ (d = a /\ c = Root)
  BY <1>2, FsConstants DEF InTree
<1>7. \A d \in Cluster : InTree(D, d) => InTree(E, d)
  BY <1>1, <1>2, FsConstants DEF InTree
<1>8. \A d \in Cluster, l \in 1 .. Slots :
         Lives(E, d, l) <=> (Lives(D, d, l) \/ (d = c /\ l = k))
  <2> SUFFICES ASSUME NEW d \in Cluster, NEW l \in 1 .. Slots
               PROVE  Lives(E, d, l) <=> (Lives(D, d, l) \/ (d = c /\ l = k))
    OBVIOUS
  <2>1. CASE d = c /\ l = k
    BY <1>1, <1>2, <1>7, <2>1 DEF Lives
  <2>2. CASE d # c \/ l # k
    <3>1. E[d][l] = D[d][l]
      BY <1>2, <2>2
    <3> QED BY <1>5, <1>6, <1>7, <2>2, <3>1 DEF Lives
  <2> QED BY <2>1, <2>2
<1>9. sh \/ NamesApart(E)
  <2> SUFFICES ASSUME ~sh, NEW d \in Cluster, NEW i \in 1 .. Slots, NEW j \in 1 .. Slots,
                      Lives(E, d, i), Lives(E, d, j), E[d][i].name = E[d][j].name, i # j
               PROVE  FALSE
    BY DEF NamesApart
  <2>1. CASE d = c /\ i = k
    <3>1. E[d][j] = D[d][j] /\ Lives(D, d, j) /\ E[d][i] = e
      BY <1>2, <1>8, <2>1
    <3> QED BY <2>1, <3>1 DEF Lives
  <2>2. CASE d = c /\ j = k
    <3>1. E[d][i] = D[d][i] /\ Lives(D, d, i) /\ E[d][j] = e
      BY <1>2, <1>8, <2>2
    <3> QED BY <2>2, <3>1 DEF Lives
  <2>3. CASE d # c \/ (i # k /\ j # k)
    <3>1. E[d][i] = D[d][i] /\ E[d][j] = D[d][j] /\ Lives(D, d, i) /\ Lives(D, d, j)
      BY <1>2, <1>8, <2>3
    <3> QED BY <3>1 DEF Good, NamesApart
  <2> QED BY <2>1, <2>2, <2>3
<1>10. EntryOK(F, e, <<a>>, c)
  <2>1. Linked(F, <<a>>)
    BY DEF Linked
  <2>2. Fits(e, 1)
    BY FsConstants DEF Fits
  <2> QED BY <2>1, <2>2 DEF EntryOK
<1>11. \A d \in Cluster, l \in 1 .. Slots :
          /\ Lives(E, d, l) => EntryOK(F, E[d][l], T[d][l], d)
          /\ ~Lives(E, d, l) => T[d][l] = << >>
  <2>1. ASSUME NEW d \in Cluster, NEW l \in 1 .. Slots, d # c \/ l # k
        PROVE  /\ Lives(E, d, l) => EntryOK(F, E[d][l], T[d][l], d)
               /\ ~Lives(E, d, l) => T[d][l] = << >>
    <3>1. T[d][l] = S[d][l] /\ E[d][l] = D[d][l] /\ (Lives(E, d, l) <=> Lives(D, d, l))
      BY <1>2, <1>3, <1>8, <2>1
    <3> QED BY <3>1 DEF Good
  <2>2. Lives(E, c, k) /\ EntryOK(F, E[c][k], T[c][k], c)
    BY <1>2, <1>3, <1>8, <1>10
  <2> QED BY <2>1, <2>2
<1>13. Good(sh, F, E, T)
  BY <1>2, <1>3, <1>9, <1>11, <1>12 DEF Good
<1> QED BY <1>13 DEF E, T

\* The chains that are left when the entries of D are.
Remaining(D, S) == [c \in Cluster |-> [k \in 1 .. Slots |-> IF Lives(D, c, k) THEN S[c][k] ELSE << >>]]

\* Deleting an entry leaves a sound disk, with fewer chains.
LEMMA DeleteEntry ==
    ASSUME NEW sh, NEW F, NEW D, NEW S, Good(sh, F, D, S), NEW c \in Cluster, NEW k \in 1 .. Slots, Lives(D, c, k),
           NEW E, E = Put(D, c, k, Del)
    PROVE  /\ Good(sh, F, E, Remaining(E, S))
           /\ \A d \in Cluster, l \in 1 .. Slots : Lives(E, d, l) => Lives(D, d, l) /\ E[d][l] = D[d][l]
           /\ ~Lives(E, c, k)
<1> DEFINE T == Remaining(E, S)
<1>1. D \in Dirs /\ Del \in Ents /\ Del.st # "live"
  BY DEF Good, Ents, Del
<1>2. /\ E \in Dirs /\ E[c][k] = Del
      /\ \A d \in Cluster, l \in 1 .. Slots : d # c \/ l # k => E[d][l] = D[d][l]
  BY <1>1, PutIs DEF Dirs
<1>3. \A d \in Cluster : InTree(E, d) => InTree(D, d)
  BY <1>1, <1>2, FsConstants DEF InTree
<1>4. /\ \A d \in Cluster, l \in 1 .. Slots : Lives(E, d, l) => Lives(D, d, l) /\ E[d][l] = D[d][l]
      /\ ~Lives(E, c, k)
  BY <1>1, <1>2, <1>3 DEF Lives
<1>5. /\ S \in Tables(Seq(Cluster))
      /\ \A d \in Cluster, l \in 1 .. Slots : T[d][l] = IF Lives(E, d, l) THEN S[d][l] ELSE << >>
      /\ T \in Tables(Seq(Cluster))
  <2>1. S \in Tables(Seq(Cluster)) /\ << >> \in Seq(Cluster)
    BY DEF Good
  <2> HIDE DEF Lives
  <2> QED BY <2>1 DEF Remaining, Tables
<1> HIDE DEF T
<1>6. sh \/ NamesApart(E)
  BY <1>4 DEF Good, NamesApart
<1>7. Apart(T)
  <2> SUFFICES ASSUME NEW d \in Cluster, NEW h \in Cluster, NEW l \in 1 .. Slots, NEW m \in 1 .. Slots,
                      NEW i \in 1 .. Len(T[d][l]), NEW j \in 1 .. Len(T[h][m]),
                      T[d][l][i] = T[h][m][j]
               PROVE  d = h /\ l = m /\ i = j
    BY DEF Apart
  <2>1. ASSUME NEW x \in Cluster, NEW y \in 1 .. Slots, NEW q \in 1 .. Len(T[x][y])
        PROVE  T[x][y] = S[x][y]
    <3>1. CASE Lives(E, x, y)
      BY <1>5, <3>1
    <3>2. CASE ~Lives(E, x, y)
      BY <1>5, <3>2
    <3> QED BY <3>1, <3>2
  <2>2. T[d][l] = S[d][l] /\ T[h][m] = S[h][m]
    BY <2>1
  <2>3. Apart(S)
    BY DEF Good
  <2> QED BY <2>2, <2>3 DEF Apart
<1>8. \A d \in Cluster, l \in 1 .. Slots :
          /\ Lives(E, d, l) => EntryOK(F, E[d][l], T[d][l], d)
          /\ ~Lives(E, d, l) => T[d][l] = << >>
  BY <1>4, <1>5 DEF Good
<1>9. Good(sh, F, E, T)
  BY <1>2, <1>5, <1>6, <1>7, <1>8 DEF Good
<1> QED BY <1>4, <1>9 DEF T

-----------------------------------------------------------------------------
\* Induction over the natural numbers, for a set of them.
LEMMA Induction ==
    ASSUME NEW S, 0 \in S, \A n \in Nat : n \in S => n + 1 \in S
    PROVE  Nat \subseteq S
<1> SUFFICES ASSUME Nat \ S # {} PROVE FALSE
  OBVIOUS
<1>1. PICK x \in Nat \ S : \A y \in Nat \ S : x <= y
  <2>1. Nat \ S \in SUBSET Nat
    OBVIOUS
  <2> QED BY <2>1, LeastNat
<1>2. x # 0 /\ x - 1 \in Nat /\ x - 1 \in S
  BY <1>1
<1>3. (x - 1) + 1 \in S
  BY <1>2
<1> QED BY <1>1, <1>3

\* A value can be stepped n times.
Closed(g, n, V) == \A k \in 1 .. n, x \in V : g[k][x] \in V
Iterates(h, g, n, V, v) ==
    h \in [0 .. n -> V] /\ h[0] = v /\ \A k \in 1 .. n : h[k] = g[k][h[k - 1]]
LEMMA Iterate ==
    ASSUME NEW V, NEW v, v \in V, NEW n \in Nat, NEW g, Closed(g, n, V)
    PROVE  \E h : Iterates(h, g, n, V, v)
<1> DEFINE Steps(h, l) == h[0] = v /\ \A k \in 1 .. l : h[k] = g[k][h[k - 1]]
           Can == {l \in Nat : l <= n => \E h \in [0 .. l -> V] : Steps(h, l)}
<1>1. 0 \in Can
  <2>1. [k \in 0 .. 0 |-> v] \in [0 .. 0 -> V] /\ Steps([k \in 0 .. 0 |-> v], 0)
    OBVIOUS
  <2> HIDE DEF Steps
  <2> QED BY <2>1
<1>2. ASSUME NEW l \in Nat, l \in Can PROVE l + 1 \in Can
  <2> SUFFICES ASSUME l + 1 <= n PROVE \E h \in [0 .. l + 1 -> V] : Steps(h, l + 1)
    OBVIOUS
  <2>1. PICK h \in [0 .. l -> V] : Steps(h, l)
    BY <1>2
  <2> DEFINE e == g[l + 1][h[l]]
             d == [k \in 0 .. l + 1 |-> IF k = l + 1 THEN e ELSE h[k]]
  <2>2. e \in V
    <3>1. h[l] \in V /\ l + 1 \in 1 .. n
      OBVIOUS
    <3> QED BY <3>1 DEF Closed
  <2> HIDE DEF e
  <2>3. d \in [0 .. l + 1 -> V] /\ d[l + 1] = e /\ \A k \in 0 .. l : d[k] = h[k]
    BY <2>2
  <2> HIDE DEF d
  <2>4. ASSUME NEW k \in 1 .. l + 1 PROVE d[k] = g[k][d[k - 1]]
    <3>1. CASE k = l + 1
      BY <2>3, <3>1 DEF e
    <3>2. CASE k # l + 1
      <4>1. k \in 1 .. l /\ k \in 0 .. l /\ k - 1 \in 0 .. l
        BY <3>2
      <4> QED BY <2>1, <2>3, <4>1
    <3> QED BY <3>1, <3>2
  <2>5. Steps(d, l + 1)
    BY <2>1, <2>3, <2>4
  <2> HIDE DEF Steps
  <2> QED BY <2>3, <2>5
<1>3. n \in Can
  <2> HIDE DEF Can
  <2> QED BY <1>1, <1>2, Induction
<1> QED BY <1>3 DEF Iterates

\* The numbers up to n.
LEMMA UpTo ==
    ASSUME NEW n \in Nat
    PROVE  IsFiniteSet(1 .. n) /\ Cardinality(1 .. n) = n
<1>1. 1 \in Int /\ n \in Int
  OBVIOUS
<1>2. IsFiniteSet(1 .. n) /\ Cardinality(1 .. n) = IF 1 > n THEN 0 ELSE n - 1 + 1
  BY <1>1, FS_Interval
<1> QED BY <1>2

\* A chain is not longer than the disk.
LEMMA ChainShort ==
    ASSUME NEW sh, NEW F, NEW D, NEW S, Good(sh, F, D, S), NEW c \in Cluster, NEW k \in 1 .. Slots
    PROVE  S[c][k] \in Seq(Cluster) /\ Len(S[c][k]) \in Nat /\ Len(S[c][k]) <= NClusters
<1> DEFINE s == S[c][k]
<1>1. s \in Seq(Cluster) /\ Len(s) \in Nat
  <2>1. s \in Seq(Cluster)
    BY TableAt DEF Good
  <2> QED BY <2>1
<1>2. \A i, j \in 1 .. Len(s) : s[i] = s[j] => i = j
  BY ApartAt DEF Good
<1> HIDE DEF s
<1>3. s \in [1 .. Len(s) -> Cluster]
  BY <1>1
<1>4. IsFiniteSet(Cluster) /\ Cardinality(Cluster) = NClusters
  BY FS_Interval, FsConstants DEF Cluster
<1>5. IsFiniteSet(1 .. Len(s)) /\ Cardinality(1 .. Len(s)) = Len(s)
  BY <1>1, UpTo
<1>6. s \in Injection(1 .. Len(s), Cluster)
  BY <1>2, <1>3 DEF Injection, IsInjective
<1>7. Len(s) <= NClusters
  BY <1>4, <1>5, <1>6, FS_Injection
<1> QED BY <1>1, <1>7 DEF s

\* Following the FAT from an entry gives its chain.
LEMMA ChainIs ==
    ASSUME NEW sh, NEW S, Good(sh, fat, dir, S), NEW c \in Cluster, NEW k \in 1 .. Slots, Lives(dir, c, k)
    PROVE  Chain(dir[c][k].cl) = S[c][k]
<1> DEFINE s == S[c][k]
           n == Len(s)
           x == dir[c][k].cl
           g == [i \in 1 .. NClusters |-> [y \in Nat |-> IF y \in Cluster THEN fat[y] ELSE Eoc]]
           Is(h) == h = [i \in 0 .. NClusters |->
                           IF i = 0 THEN x ELSE IF h[i - 1] \in Cluster THEN fat[h[i - 1]] ELSE Eoc]
           at == CHOOSE h : Is(h)
<1>1. /\ fat \in [Cluster -> Nat] /\ n > 0 /\ s[1] = x /\ Linked(fat, s)
  BY DEF Good, EntryOK
<1>2. s \in Seq(Cluster) /\ n \in Nat /\ n <= NClusters
  BY ChainShort
<1>3. x \in Nat /\ NClusters \in Nat
  <2>1. 1 \in 1 .. Len(s)
    BY <1>1, <1>2
  <2>2. s[1] \in Cluster
    BY <1>2, <2>1
  <2> QED BY <1>1, <2>2, FsConstants
<1> HIDE DEF s, n, x
<1>4. \E h : Is(h)
  <2>1. \A i \in 1 .. NClusters, y \in Nat : g[i][y] \in Nat
    BY <1>1, FsConstants
  <2>2. \A i \in 1 .. NClusters, y \in Nat : g[i][y] = IF y \in Cluster THEN fat[y] ELSE Eoc
    OBVIOUS
  <2> HIDE DEF g
  <2>3. PICK h \in [0 .. NClusters -> Nat] : h[0] = x /\ \A i \in 1 .. NClusters : h[i] = g[i][h[i - 1]]
    <3> DEFINE V == Nat
    <3>1. x \in V /\ Closed(g, NClusters, V)
      BY <1>3, <2>1 DEF Closed
    <3> HIDE DEF V
    <3>2. \E h : Iterates(h, g, NClusters, V, x)
      BY <1>3, <3>1, Iterate
    <3> QED BY <3>2 DEF V, Iterates
  <2>4. \A i \in 1 .. NClusters : h[i] = IF h[i - 1] \in Cluster THEN fat[h[i - 1]] ELSE Eoc
    BY <1>3, <2>2, <2>3
  <2>5. Is(h)
    BY <1>3, <2>3, <2>4
  <2> QED BY <2>5
<1>5. Is(at)
  <2> HIDE DEF Is
  <2> QED BY <1>4
<1>6. /\ at[0] = x
      /\ \A i \in 1 .. NClusters : at[i] = IF at[i - 1] \in Cluster THEN fat[at[i - 1]] ELSE Eoc
  <2> HIDE DEF at
  <2> QED BY <1>3, <1>5
<1>7. Chain(x) = [i \in 1 .. Cardinality({j \in 1 .. NClusters : at[j - 1] \in Cluster}) |-> at[i - 1]]
  BY DEF Chain
<1> HIDE DEF at, Is
<1>8. Len(s) = n
  BY DEF n
<1>9. \A i \in Nat : i < n => at[i] = s[i + 1]
  <2> DEFINE P == {i \in Nat : i < n => at[i] = s[i + 1]}
  <2>1. 0 \in P
    BY <1>1, <1>6
  <2>2. ASSUME NEW i \in Nat, i \in P PROVE i + 1 \in P
    <3> SUFFICES ASSUME i + 1 < n PROVE at[i + 1] = s[i + 2]
      OBVIOUS
    <3>1. at[i] = s[i + 1] /\ i + 1 \in 1 .. n /\ i + 1 # n /\ i + 1 \in 1 .. NClusters
      BY <1>2, <1>3, <2>2
    <3>2. s[i + 1] \in Cluster /\ fat[s[i + 1]] = s[i + 2]
      <4>1. fat[s[i + 1]] = IF i + 1 = Len(s) THEN Eoc ELSE s[(i + 1) + 1]
        BY <1>1, <1>8, <3>1 DEF Linked
      <4> QED BY <1>2, <1>8, <3>1, <4>1
    <3>3. at[i + 1] = fat[at[i]]
      BY <1>6, <3>1, <3>2
    <3> QED BY <3>1, <3>2, <3>3
  <2> HIDE DEF P
  <2>3. Nat \subseteq P
    BY <2>1, <2>2, Induction
  <2> QED BY <2>3 DEF P
<1>10. \A i \in Nat : i >= n /\ i <= NClusters => at[i] = Eoc
  <2> DEFINE P == {i \in Nat : i >= n /\ i <= NClusters => at[i] = Eoc}
  <2>1. 0 \in P
    BY <1>1, <1>2
  <2>2. ASSUME NEW i \in Nat, i \in P PROVE i + 1 \in P
    <3> SUFFICES ASSUME i + 1 >= n, i + 1 <= NClusters PROVE at[i + 1] = Eoc
      OBVIOUS
    <3>1. at[i + 1] = IF at[i] \in Cluster THEN fat[at[i]] ELSE Eoc
      BY <1>3, <1>6
    <3>2. CASE i >= n
      BY <2>2, <3>1, <3>2, <1>3, FsConstants
    <3>3. CASE i + 1 = n
      <4>1. at[i] = s[n] /\ n \in 1 .. Len(s)
        BY <1>2, <1>8, <1>9, <3>3
      <4>2. fat[s[n]] = Eoc
        BY <1>1, <1>8, <4>1 DEF Linked
      <4> QED BY <3>1, <4>1, <4>2
    <3> QED BY <1>2, <3>2, <3>3
  <2> HIDE DEF P
  <2>3. Nat \subseteq P
    BY <2>1, <2>2, Induction
  <2> QED BY <2>3 DEF P
<1>11. {j \in 1 .. NClusters : at[j - 1] \in Cluster} = 1 .. n
  <2>1. ASSUME NEW j \in 1 .. NClusters PROVE at[j - 1] \in Cluster <=> j <= n
    <3>1. CASE j <= n
      <4>1. at[j - 1] = s[j]
        BY <1>2, <1>9, <3>1
      <4> QED BY <1>2, <1>8, <3>1, <4>1
    <3>2. CASE j > n
      <4>1. at[j - 1] = Eoc
        BY <1>2, <1>3, <1>10, <3>2
      <4> QED BY <1>2, <3>2, <4>1, FsConstants
    <3> QED BY <1>2, <3>1, <3>2
  <2> QED BY <1>2, <1>3, <2>1
<1>12. Cardinality(1 .. n) = n
  BY <1>2, UpTo
<1>13. Chain(x) = [i \in 1 .. n |-> at[i - 1]]
  BY <1>7, <1>11, <1>12
<1>14. \A i \in 1 .. n : at[i - 1] = s[i]
  BY <1>2, <1>9
<1>15. s = [i \in 1 .. n |-> s[i]]
  BY <1>2, <1>8
<1> QED BY <1>13, <1>14, <1>15 DEF x, s

\* The clusters that n calls of fat_alloc_cluster find are free and different.
LEMMA AllocIs ==
    ASSUME NEW n \in Nat
    PROVE  /\ Allocatable(n) \in Seq(Cluster)
           /\ \A i \in 1 .. Len(Allocatable(n)) : Allocatable(n)[i] \in FreeClusters
           /\ \A i, j \in 1 .. Len(Allocatable(n)) : Allocatable(n)[i] = Allocatable(n)[j] => i = j
           /\ n > 0 /\ FreeClusters # {} => Len(Allocatable(n)) > 0
<1> DEFINE Fr == FreeClusters
           N == Cardinality(Fr)
           Lowest(X) == CHOOSE c \in X : \A d \in X : c <= d
           V == SUBSET Fr
           g == [k \in 1 .. N |-> [X \in V |-> X \ {Lowest(X)}]]
           Is(h) == h = [k \in 0 .. N |-> IF k = 0 THEN Fr ELSE h[k - 1] \ {Lowest(h[k - 1])}]
           left == CHOOSE h : Is(h)
           m == IF n < N THEN n ELSE N
           A == Allocatable(n)
<1>1. Fr \subseteq Cluster /\ Fr \in SUBSET Nat
  BY FsConstants DEF FreeClusters
<1>2. IsFiniteSet(Fr) /\ N \in Nat
  <2>1. IsFiniteSet(Cluster)
    BY FS_Interval, FsConstants DEF Cluster
  <2> QED BY <1>1, <2>1, FS_Subset, FS_CardinalityType
<1>3. A = [k \in 1 .. m |-> Lowest(left[k - 1])]
  BY DEF Allocatable
<1> HIDE DEF N, A, Fr
<1>4. \A X \in SUBSET Fr : X # {} => Lowest(X) \in X
  <2> SUFFICES ASSUME NEW X \in SUBSET Fr, X # {} PROVE Lowest(X) \in X
    OBVIOUS
  <2>1. \E c \in X : \A d \in X : c <= d
    BY <1>1, LeastNat
  <2> QED BY <2>1
<1> HIDE DEF Lowest
<1>5. Is(left)
  <2>1. Closed(g, N, V) /\ \A k \in 1 .. N, X \in V : g[k][X] = X \ {Lowest(X)}
    BY DEF Closed
  <2>2. Fr \in V
    OBVIOUS
  <2> HIDE DEF g, V
  <2>3. PICK h : Iterates(h, g, N, V, Fr)
    BY <1>2, <2>1, <2>2, Iterate
  <2>4. \A k \in 1 .. N : h[k] = h[k - 1] \ {Lowest(h[k - 1])}
    BY <1>2, <2>1, <2>3 DEF Iterates
  <2>5. Is(h)
    BY <1>2, <2>3, <2>4 DEF Iterates
  <2> HIDE DEF Is
  <2> QED BY <2>5
<1> HIDE DEF left
<1>6. left[0] = Fr /\ \A k \in 1 .. N : left[k] = left[k - 1] \ {Lowest(left[k - 1])}
  <2>1. \A k \in 0 .. N : left[k] = IF k = 0 THEN Fr ELSE left[k - 1] \ {Lowest(left[k - 1])}
    BY <1>5, Zenon
  <2>2. 0 \in 0 .. N /\ \A k \in 1 .. N : k \in 0 .. N /\ k # 0
    BY <1>2
  <2>3. left[0] = Fr
    BY <2>1, <2>2, Zenon
  <2> QED BY <2>1, <2>2, <2>3, Zenon
<1> HIDE DEF Is
<1>7. \A k \in Nat : k <= N => left[k] \in SUBSET Fr /\ IsFiniteSet(left[k]) /\ Cardinality(left[k]) = N - k
  <2> DEFINE P == {k \in Nat : k <= N => left[k] \in SUBSET Fr /\ IsFiniteSet(left[k]) /\ Cardinality(left[k]) = N - k}
  <2>1. 0 \in P
    BY <1>2, <1>6 DEF N
  <2>2. ASSUME NEW k \in Nat, k \in P PROVE k + 1 \in P
    <3> SUFFICES ASSUME k + 1 <= N
                 PROVE  left[k + 1] \in SUBSET Fr /\ IsFiniteSet(left[k + 1]) /\ Cardinality(left[k + 1]) = N - (k + 1)
      OBVIOUS
    <3>1. left[k] \in SUBSET Fr /\ IsFiniteSet(left[k]) /\ Cardinality(left[k]) = N - k
      BY <1>2, <2>2
    <3>2. left[k + 1] = left[k] \ {Lowest(left[k])}
      BY <1>2, <1>6
    <3>3. left[k] # {}
      BY <1>2, <3>1, FS_EmptySet
    <3>4. Lowest(left[k]) \in left[k]
      BY <1>4, <3>1, <3>3
    <3>5. IsFiniteSet(left[k + 1]) /\ Cardinality(left[k + 1]) = Cardinality(left[k]) - 1
      BY <3>1, <3>2, <3>4, FS_RemoveElement
    <3> QED BY <1>2, <3>1, <3>2, <3>5
  <2> HIDE DEF P
  <2>3. Nat \subseteq P
    BY <2>1, <2>2, Induction
  <2> QED BY <2>3 DEF P
<1>8. \A k \in Nat : k < N => Lowest(left[k]) \in left[k] /\ left[k] \in SUBSET Fr
  <2> SUFFICES ASSUME NEW k \in Nat, k < N PROVE Lowest(left[k]) \in left[k] /\ left[k] \in SUBSET Fr
    OBVIOUS
  <2>1. left[k] \in SUBSET Fr /\ IsFiniteSet(left[k]) /\ Cardinality(left[k]) = N - k
    BY <1>2, <1>7
  <2>2. left[k] # {}
    BY <1>2, <2>1, FS_EmptySet
  <2> QED BY <1>4, <2>1, <2>2
<1>9. \A i \in Nat, k \in Nat : i + 1 + k <= N => left[i + 1 + k] \subseteq left[i + 1]
  <2> TAKE i \in Nat
  <2> DEFINE P == {k \in Nat : i + 1 + k <= N => left[i + 1 + k] \subseteq left[i + 1]}
  <2>1. 0 \in P
    OBVIOUS
  <2>2. ASSUME NEW k \in Nat, k \in P PROVE k + 1 \in P
    <3> SUFFICES ASSUME i + 1 + (k + 1) <= N PROVE left[i + 1 + (k + 1)] \subseteq left[i + 1]
      OBVIOUS
    <3>1. left[i + 1 + k] \subseteq left[i + 1]
      BY <1>2, <2>2
    <3> DEFINE q == i + 1 + (k + 1)
    <3>2. q \in 1 .. N /\ q - 1 = i + 1 + k
      BY <1>2
    <3> HIDE DEF q
    <3>3. left[q] \subseteq left[q - 1]
      BY <1>6, <3>2
    <3> QED BY <3>1, <3>2, <3>3 DEF q
  <2> HIDE DEF P
  <2>3. Nat \subseteq P
    BY <2>1, <2>2, Induction
  <2> QED BY <2>3 DEF P
<1>10. m \in Nat /\ m <= N
  BY <1>2
<1>11. ASSUME NEW i \in Nat, NEW j \in Nat, i < j, j < N
       PROVE  Lowest(left[i]) # Lowest(left[j])
  <2>1. left[i + 1] = left[i] \ {Lowest(left[i])}
    <3>1. i + 1 \in 1 .. N /\ (i + 1) - 1 = i
      BY <1>2, <1>11
    <3> QED BY <1>6, <3>1
  <2>2. left[j] \subseteq left[i + 1]
    <3>1. j - (i + 1) \in Nat /\ i + 1 + (j - (i + 1)) = j
      BY <1>11
    <3> QED BY <1>2, <1>9, <1>11, <3>1
  <2>3. Lowest(left[j]) \in left[j]
    BY <1>8, <1>11
  <2> QED BY <2>1, <2>2, <2>3
<1> HIDE DEF m
<1>12. \A i \in 1 .. m : A[i] = Lowest(left[i - 1]) /\ A[i] \in Fr
  <2> SUFFICES ASSUME NEW i \in 1 .. m PROVE A[i] = Lowest(left[i - 1]) /\ A[i] \in Fr
    OBVIOUS
  <2>1. A[i] = Lowest(left[i - 1]) /\ i - 1 \in Nat /\ i - 1 < N
    BY <1>2, <1>3, <1>10
  <2> QED BY <1>8, <2>1
<1>13. A \in Seq(Cluster) /\ Len(A) = m
  <2>1. A = [k \in 1 .. m |-> A[k]] /\ \A k \in 1 .. m : A[k] \in Cluster
    BY <1>1, <1>3, <1>12
  <2>2. A \in [1 .. m -> Cluster]
    BY <2>1
  <2> QED BY <1>10, <2>2
<1>14. ASSUME NEW i \in 1 .. m, NEW j \in 1 .. m, A[i] = A[j] PROVE i = j
  <2>1. i - 1 \in Nat /\ j - 1 \in Nat /\ i - 1 < N /\ j - 1 < N
    BY <1>2, <1>10
  <2>2. ~(i - 1 < j - 1) /\ ~(j - 1 < i - 1)
    BY <1>11, <1>12, <1>14, <2>1
  <2> QED BY <1>10, <2>1, <2>2
<1>15. n > 0 /\ Fr # {} => m > 0
  <2>1. Fr # {} => N # 0
    BY <1>2, FS_EmptySet DEF N
  <2> QED BY <1>2, <2>1 DEF m
<1> QED BY <1>12, <1>13, <1>14, <1>15 DEF A, Fr

-----------------------------------------------------------------------------
\* A disk, what a write does to it (DiskWrite), and the disks that the writes t lead through.
Disk == [fat : [Cluster -> Nat], dir : Dirs]
Effect(d, w) ==
    [fat |-> IF w.w = "fat" THEN SetFat(d.fat, w.c, w.v) ELSE d.fat,
     dir |-> CASE w.w = "dir" -> Put(d.dir, w.c, w.k, w.e)
               [] w.w = "zero" -> Zeroed(d.dir, w.c)
               [] OTHER -> d.dir]
Runs(R, t, d) ==
    R \in [0 .. Len(t) -> Disk] /\ R[0] = d /\ \A i \in 1 .. Len(t) : R[i] = Effect(R[i - 1], t[i])
Sound(sh, d) == \E S : Good(sh, d.fat, d.dir, S)
Settled(sh, d, ns, lo) ==
    \E S : Good(sh, d.fat, d.dir, S) /\ Cache(sh, d.dir, ns) /\ (lo \/ AllUsed(d.fat, S))

\* The writes t, from the disk d on, never leave it unsound, and then the cache ns shows it.
Pending(sh, t, d, ns, lo) ==
    \E R : Runs(R, t, d) /\ (\A i \in 0 .. Len(t) : Sound(sh, R[i])) /\ Settled(sh, R[Len(t)], ns, lo)

\* The three kinds of writes.
LEMMA EffectFat ==
    ASSUME NEW d, NEW c, NEW v
    PROVE  /\ Effect(d, FatSet(c, v)).fat = SetFat(d.fat, c, v)
           /\ Effect(d, FatSet(c, v)).dir = d.dir
BY DEF Effect, FatSet
LEMMA EffectDir ==
    ASSUME NEW d, NEW c, NEW k, NEW e
    PROVE  /\ Effect(d, DirSet(c, k, e)).fat = d.fat
           /\ Effect(d, DirSet(c, k, e)).dir = Put(d.dir, c, k, e)
BY DEF Effect, DirSet
LEMMA EffectZero ==
    ASSUME NEW d, NEW c
    PROVE  /\ Effect(d, ZeroCluster(c)).fat = d.fat
           /\ Effect(d, ZeroCluster(c)).dir = Zeroed(d.dir, c)
BY DEF Effect, ZeroCluster

\* They are writes, and lead from disks to disks.
LEMMA WritesAre ==
    /\ \A c \in Cluster, v \in Nat : FatSet(c, v) \in Writes
    /\ \A c \in Cluster, k \in 1 .. Slots, e \in Ents : DirSet(c, k, e) \in Writes
    /\ \A c \in Cluster : ZeroCluster(c) \in Writes
BY DEF FatSet, DirSet, ZeroCluster, Writes
LEMMA EffectType ==
    ASSUME NEW d \in Disk, NEW w \in Writes
    PROVE  Effect(d, w) \in Disk
<1>1. d.fat \in [Cluster -> Nat] /\ d.dir \in Dirs
  BY DEF Disk
<1>2. CASE w.w = "fat"
  <2>1. w.c \in Cluster /\ w.v \in Nat
    BY <1>2 DEF Writes
  <2>2. SetFat(d.fat, w.c, w.v) \in [Cluster -> Nat]
    BY <1>1, <2>1, SetFatIs
  <2> QED BY <1>1, <1>2, <2>2 DEF Effect, Disk
<1>3. CASE w.w = "dir"
  <2>1. w.c \in Cluster /\ w.k \in 1 .. Slots /\ w.e \in Ents
    BY <1>3 DEF Writes
  <2>2. Put(d.dir, w.c, w.k, w.e) \in Dirs
    BY <1>1, <2>1, PutIs DEF Dirs
  <2> QED BY <1>1, <1>3, <2>2 DEF Effect, Disk
<1>4. CASE w.w = "zero"
  <2>1. w.c \in Cluster /\ NoEntries \in [1 .. Slots -> Ents]
    BY <1>4 DEF Writes, NoEntries, Ents
  <2>2. Zeroed(d.dir, w.c) \in Dirs
    BY <1>1, <2>1 DEF Dirs, Tables, Zeroed
  <2> QED BY <1>1, <1>4, <2>2 DEF Effect, Disk
<1> QED BY <1>2, <1>3, <1>4 DEF Writes

\* Every sequence of writes leads somewhere.
LEMMA RunExists ==
    ASSUME NEW d \in Disk, NEW t, t \in Seq(Writes)
    PROVE  \E R : Runs(R, t, d)
<1> DEFINE g == [i \in 1 .. Len(t) |-> [x \in Disk |-> Effect(x, t[i])]]
<1>1. Len(t) \in Nat /\ \A i \in 1 .. Len(t) : t[i] \in Writes
  OBVIOUS
<1>2. \A i \in 1 .. Len(t), x \in Disk : g[i][x] = Effect(x, t[i]) /\ Effect(x, t[i]) \in Disk
  BY <1>1, EffectType
<1> HIDE DEF g
<1>3. Closed(g, Len(t), Disk)
  BY <1>2 DEF Closed
<1>4. PICK R : Iterates(R, g, Len(t), Disk, d)
  BY <1>1, <1>3, Iterate
<1>5. \A i \in 1 .. Len(t) : R[i] = Effect(R[i - 1], t[i])
  <2> TAKE i \in 1 .. Len(t)
  <2>1. i - 1 \in 0 .. Len(t)
    BY <1>1
  <2>2. R[i - 1] \in Disk /\ R[i] = g[i][R[i - 1]]
    BY <1>4, <2>1 DEF Iterates
  <2> QED BY <1>2, <2>2
<1> QED BY <1>4, <1>5 DEF Iterates, Runs

\* No writes are left.
LEMMA NothingPending ==
    ASSUME NEW sh, NEW d \in Disk, NEW ns, NEW lo
    PROVE  Pending(sh, << >>, d, ns, lo) <=> Settled(sh, d, ns, lo)
<1>1. ASSUME Pending(sh, << >>, d, ns, lo) PROVE Settled(sh, d, ns, lo)
  BY <1>1 DEF Pending, Runs
<1>2. ASSUME Settled(sh, d, ns, lo) PROVE Pending(sh, << >>, d, ns, lo)
  <2> DEFINE R == [i \in 0 .. 0 |-> d]
  <2>1. R[0] = d /\ Runs(R, << >>, d)
    BY DEF Runs
  <2> HIDE DEF R
  <2>2. Sound(sh, d)
    BY <1>2 DEF Sound, Settled
  <2>3. \A i \in 0 .. Len(<< >>) : Sound(sh, R[i])
    BY <2>1, <2>2
  <2>4. Settled(sh, R[Len(<< >>)], ns, lo)
    BY <1>2, <2>1
  <2> QED BY <2>1, <2>3, <2>4 DEF Pending
<1> QED BY <1>1, <1>2

\* One write is carried out.
LEMMA OneWritten ==
    ASSUME NEW sh, NEW d \in Disk, NEW t, t \in Seq(Writes), t # << >>, NEW ns, NEW lo, Pending(sh, t, d, ns, lo)
    PROVE  Pending(sh, Tail(t), Effect(d, Head(t)), ns, lo) /\ Tail(t) \in Seq(Writes)
<1>1. PICK R : Runs(R, t, d) /\ (\A i \in 0 .. Len(t) : Sound(sh, R[i])) /\ Settled(sh, R[Len(t)], ns, lo)
  BY DEF Pending
<1>2. /\ Len(t) \in Nat /\ Len(t) > 0 /\ Tail(t) \in Seq(Writes) /\ Len(Tail(t)) = Len(t) - 1
      /\ \A i \in 1 .. Len(t) - 1 : Tail(t)[i] = t[i + 1]
      /\ Head(t) = t[1]
  OBVIOUS
<1> DEFINE n == Len(t)
           Q == [i \in 0 .. n - 1 |-> R[i + 1]]
<1>3. \A i \in 0 .. n - 1 : Q[i] = R[i + 1] /\ i + 1 \in 0 .. n
  BY <1>2
<1>4. Q \in [0 .. n - 1 -> Disk]
  BY <1>1, <1>2 DEF Runs
<1> HIDE DEF Q
<1>5. Q[0] = Effect(d, Head(t))
  BY <1>1, <1>2, <1>3 DEF Runs
<1>6. \A i \in 1 .. n - 1 : Q[i] = Effect(Q[i - 1], Tail(t)[i])
  <2> TAKE i \in 1 .. n - 1
  <2>1. i \in 0 .. n - 1 /\ i - 1 \in 0 .. n - 1 /\ i + 1 \in 1 .. n /\ (i + 1) - 1 = i /\ (i - 1) + 1 = i
    BY <1>2
  <2>2. R[i + 1] = Effect(R[(i + 1) - 1], t[i + 1])
    BY <1>1, <2>1 DEF Runs
  <2> QED BY <1>2, <1>3, <2>1, <2>2
<1>7. Runs(Q, Tail(t), Effect(d, Head(t)))
  BY <1>2, <1>4, <1>5, <1>6 DEF Runs
<1>8. \A i \in 0 .. Len(Tail(t)) : Sound(sh, Q[i])
  BY <1>1, <1>2, <1>3
<1>9. Q[Len(Tail(t))] = R[n]
  BY <1>2, <1>3
<1> QED BY <1>1, <1>2, <1>7, <1>8, <1>9 DEF Pending

\* What a longer chain owns.
LEMMA OwnedGrows ==
    ASSUME NEW S, S \in Tables(Seq(Cluster)), NEW c \in Cluster, NEW k \in 1 .. Slots,
           NEW a \in Cluster, NEW x \in Cluster
    PROVE  Unowned(Put(S, c, k, Append(S[c][k], a)), x) <=> Unowned(S, x) /\ x # a
<1> DEFINE s == S[c][k]
           n == Len(s)
           t == Append(s, a)
           T == Put(S, c, k, t)
<1>1. s \in Seq(Cluster) /\ n \in Nat
  BY TableAt
<1>2. /\ t \in Seq(Cluster) /\ Len(t) = n + 1 /\ t[n + 1] = a /\ \A i \in 1 .. n : t[i] = s[i]
  BY <1>1, AppendProperties
<1>3. /\ T[c][k] = t
      /\ \A d \in Cluster, l \in 1 .. Slots : d # c \/ l # k => T[d][l] = S[d][l]
  <2> HIDE DEF t
  <2> QED BY <1>2, PutIs
<1>4. s = S[c][k] /\ Len(s) = n
  OBVIOUS
<1> HIDE DEF T, t, n, s
<1>5. ASSUME Unowned(T, x) PROVE Unowned(S, x) /\ x # a
  <2>1. x # a
    <3>1. n + 1 \in 1 .. Len(T[c][k]) /\ T[c][k][n + 1] = a
      BY <1>1, <1>2, <1>3
    <3> QED BY <1>5, <3>1 DEF Unowned
  <2>2. ASSUME NEW d \in Cluster, NEW l \in 1 .. Slots, NEW i \in 1 .. Len(S[d][l])
        PROVE  i \in 1 .. Len(T[d][l]) /\ T[d][l][i] = S[d][l][i]
    <3>1. CASE d = c /\ l = k
      BY <1>1, <1>2, <1>3, <1>4, <3>1
    <3>2. CASE d # c \/ l # k
      BY <1>3, <3>2
    <3> QED BY <3>1, <3>2
  <2>3. Unowned(S, x)
    <3> SUFFICES ASSUME NEW d \in Cluster, NEW l \in 1 .. Slots, NEW i \in 1 .. Len(S[d][l])
                 PROVE  S[d][l][i] # x
      BY DEF Unowned
    <3>1. i \in 1 .. Len(T[d][l]) /\ T[d][l][i] = S[d][l][i]
      BY <2>2
    <3>2. T[d][l][i] # x
      BY <1>5, <3>1 DEF Unowned
    <3> QED BY <3>1, <3>2
  <2> QED BY <2>1, <2>3
<1>6. ASSUME Unowned(S, x), x # a PROVE Unowned(T, x)
  <2> SUFFICES ASSUME NEW d \in Cluster, NEW l \in 1 .. Slots, NEW i \in 1 .. Len(T[d][l])
               PROVE  T[d][l][i] # x
    BY DEF Unowned
  <2>1. CASE d = c /\ l = k
    <3>1. i \in 1 .. n + 1 /\ T[d][l][i] = t[i]
      BY <1>2, <1>3, <2>1
    <3>2. CASE i = n + 1
      BY <1>2, <1>6, <3>1, <3>2
    <3>3. CASE i \in 1 .. n
      <4>1. t[i] = S[d][l][i] /\ i \in 1 .. Len(S[d][l])
        BY <1>2, <1>4, <2>1, <3>3
      <4> QED BY <1>6, <3>1, <4>1 DEF Unowned
    <3> QED BY <1>1, <3>1, <3>2, <3>3
  <2>2. CASE d # c \/ l # k
    <3>1. T[d][l] = S[d][l]
      BY <1>3, <2>2
    <3> QED BY <1>6, <3>1 DEF Unowned
  <2> QED BY <2>1, <2>2
<1>7. Unowned(T, x) <=> Unowned(S, x) /\ x # a
  BY <1>5, <1>6
<1> QED BY <1>7 DEF T, t, s

-----------------------------------------------------------------------------
\* The cluster that the j-th of the clusters new is linked behind; z is the last of the chain.
Before(z, new, j) == IF j = 1 THEN z ELSE new[j - 1]

\* After j of them: the chain T is j longer, the others are still in no chain.
LinkStage(sh, d, D, c, k, z, new, n, j, lo) ==
    d.dir = D /\ \E T : /\ Good(sh, d.fat, D, T) /\ (lo \/ AllUsed(d.fat, T))
                        /\ Len(T[c][k]) = n + j /\ T[c][k][n + j] = Before(z, new, j + 1)
                        /\ \A i \in 1 .. Len(new) : i > j => Unowned(T, new[i])

\* fat_alloc_cluster and fat_set_cluster, once: the disk is sound between them.
LEMMA LinkOne ==
    ASSUME NEW sh, NEW d, NEW D, NEW c \in Cluster, NEW k \in 1 .. Slots, Lives(D, c, k), NEW z, NEW new,
           new \in Seq(Cluster), \A i \in 1 .. Len(new) : new[i] # Root,
           \A i, j \in 1 .. Len(new) : new[i] = new[j] => i = j,
           NEW n \in Nat, NEW j \in Nat, j < Len(new), NEW lo, n + j > 0,
           LinkStage(sh, d, D, c, k, z, new, n, j, lo),
           NEW a, a = new[j + 1], NEW b, b = Before(z, new, j + 1),
           NEW e, e = Effect(d, FatSet(a, Eoc)), NEW f, f = Effect(e, FatSet(b, a))
    PROVE  Sound(sh, d) /\ Sound(sh, e) /\ LinkStage(sh, f, D, c, k, z, new, n, j + 1, lo)
<1>1. PICK T : /\ Good(sh, d.fat, D, T) /\ (lo \/ AllUsed(d.fat, T))
               /\ Len(T[c][k]) = n + j /\ T[c][k][n + j] = b
               /\ \A i \in 1 .. Len(new) : i > j => Unowned(T, new[i])
  BY DEF LinkStage
<1>2. d.dir = D
  BY DEF LinkStage
<1>3. j + 1 \in 1 .. Len(new) /\ a \in Cluster /\ a # Root /\ Unowned(T, a) /\ Len(new) \in Nat
  BY <1>1
<1>4. e.fat = SetFat(d.fat, a, Eoc) /\ e.dir = D
  BY <1>2, EffectFat
<1>5. Good(sh, e.fat, D, T)
  BY <1>1, <1>3, <1>4, FatUnowned, FsConstants, SMTT(30)
<1>6. d.fat \in [Cluster -> Nat] /\ T \in Tables(Seq(Cluster))
  BY <1>1 DEF Good
<1>7. e.fat[a] = Eoc /\ \A x \in Cluster : x # a => e.fat[x] = d.fat[x]
  BY <1>3, <1>4, <1>6, FsConstants DEF SetFat
<1> DEFINE s == T[c][k]
           W == Put(T, c, k, Append(s, a))
<1>8. f.fat = SetFat(e.fat, b, a) /\ f.dir = D
  BY <1>4, EffectFat
<1>9. Good(sh, f.fat, D, W)
  <2>1. b = T[c][k][Len(T[c][k])]
    BY <1>1
  <2> QED BY <1>3, <1>5, <1>7, <1>8, <2>1, LinkCluster
<1>10. s \in Seq(Cluster) /\ Append(s, a) \in Seq(Cluster) /\ Len(Append(s, a)) = n + j + 1 /\ Append(s, a)[n + j + 1] = a
  <2>1. s \in Seq(Cluster)
    BY <1>6, TableAt
  <2>2. /\ Append(s, a) \in Seq(Cluster) /\ Len(Append(s, a)) = Len(s) + 1
        /\ Append(s, a)[Len(s) + 1] = a
    BY <1>3, <2>1, AppendProperties
  <2> QED BY <1>1, <2>1, <2>2
<1>11. W[c][k] = Append(s, a)
  <2>1. \A y : Put(T, c, k, y)[c][k] = y
    BY <1>6, PutIs
  <2> QED BY <2>1
<1>12. \A x \in Cluster : Unowned(W, x) <=> Unowned(T, x) /\ x # a
  BY <1>3, <1>6, OwnedGrows
<1> HIDE DEF W
<1>13. Len(W[c][k]) = n + (j + 1) /\ W[c][k][n + (j + 1)] = Before(z, new, (j + 1) + 1)
  <2>1. Before(z, new, (j + 1) + 1) = a /\ n + (j + 1) = n + j + 1
    BY DEF Before
  <2> QED BY <1>10, <1>11, <2>1
<1>14. \A i \in 1 .. Len(new) : i > j + 1 => Unowned(W, new[i])
  <2> SUFFICES ASSUME NEW i \in 1 .. Len(new), i > j + 1 PROVE Unowned(W, new[i])
    OBVIOUS
  <2>1. new[i] \in Cluster /\ new[i] # a /\ Unowned(T, new[i])
    BY <1>1, <1>3
  <2> QED BY <1>12, <2>1
<1>15. ASSUME ~lo PROVE AllUsed(f.fat, W)
  <2> SUFFICES ASSUME NEW x \in Cluster, f.fat[x] # Free, x # Root, Unowned(W, x) PROVE FALSE
    BY DEF AllUsed
  <2>1. Unowned(T, x) /\ x # a
    BY <1>12
  <2>2. d.fat[x] = Free
    BY <1>1, <1>15, <2>1 DEF AllUsed
  <2>3. x # b
    <3>1. n + j \in 1 .. Len(T[c][k]) /\ T[c][k][n + j] = b
      BY <1>1
    <3> QED BY <2>1, <3>1 DEF Unowned
  <2>4. f.fat[x] = e.fat[x]
    <3>1. b \in Cluster /\ a \in Nat /\ e.fat \in [Cluster -> Nat]
      <4>1. n + j \in 1 .. Len(s) /\ s \in Seq(Cluster)
        BY <1>1, <1>10
      <4>2. s[n + j] \in Cluster
        BY <4>1
      <4>3. e.fat \in [Cluster -> Nat]
        BY <1>5 DEF Good
      <4> QED BY <1>1, <1>3, <4>2, <4>3, FsConstants
    <3> QED BY <1>8, <2>3, <3>1 DEF SetFat
  <2> QED BY <1>7, <2>1, <2>2, <2>4
<1>16. Sound(sh, d) /\ Sound(sh, e)
  BY <1>1, <1>2, <1>4, <1>5 DEF Sound
<1>17. LinkStage(sh, f, D, c, k, z, new, n, j + 1, lo)
  BY <1>8, <1>9, <1>13, <1>14, <1>15 DEF LinkStage
<1> QED BY <1>16, <1>17

\* All of them.
LEMMA LinkAll ==
    ASSUME NEW sh, NEW R, NEW D, NEW c \in Cluster, NEW k \in 1 .. Slots, Lives(D, c, k), NEW z, NEW new,
           new \in Seq(Cluster), \A i \in 1 .. Len(new) : new[i] # Root,
           \A i, j \in 1 .. Len(new) : new[i] = new[j] => i = j,
           NEW n \in Nat, n > 0, NEW lo,
           LinkStage(sh, R[0], D, c, k, z, new, n, 0, lo),
           \A j \in 1 .. Len(new) :
              /\ R[2 * j - 1] = Effect(R[2 * j - 2], FatSet(new[j], Eoc))
              /\ R[2 * j] = Effect(R[2 * j - 1], FatSet(Before(z, new, j), new[j]))
    PROVE  /\ \A i \in 0 .. 2 * Len(new) : Sound(sh, R[i])
           /\ LinkStage(sh, R[2 * Len(new)], D, c, k, z, new, n, Len(new), lo)
<1> DEFINE m == Len(new)
           St(j) == LinkStage(sh, R[2 * j], D, c, k, z, new, n, j, lo)
           P == {j \in Nat : j <= m => (\A i \in 0 .. 2 * j : Sound(sh, R[i])) /\ St(j)}
<1>1. m \in Nat
  OBVIOUS
<1>2. 0 \in P
  <2>1. Sound(sh, R[0])
    BY DEF LinkStage, Sound
  <2>2. St(0)
    OBVIOUS
  <2> QED BY <2>1, <2>2
<1>3. ASSUME NEW j \in Nat, j \in P PROVE j + 1 \in P
  <2> SUFFICES ASSUME j + 1 <= m PROVE (\A i \in 0 .. 2 * (j + 1) : Sound(sh, R[i])) /\ St(j + 1)
    OBVIOUS
  <2>1. (\A i \in 0 .. 2 * j : Sound(sh, R[i])) /\ St(j)
    BY <1>1, <1>3
  <2> DEFINE q == j + 1
  <2>2. q \in 1 .. Len(new) /\ 2 * q - 2 = 2 * j /\ 2 * q - 1 = 2 * j + 1 /\ 2 * q = 2 * j + 2 /\ q - 1 = j
    BY <1>1
  <2>3. /\ R[2 * j + 1] = Effect(R[2 * j], FatSet(new[j + 1], Eoc))
        /\ R[2 * j + 2] = Effect(R[2 * j + 1], FatSet(Before(z, new, j + 1), new[j + 1]))
    <3> HIDE DEF q
    <3>1. /\ R[2 * q - 1] = Effect(R[2 * q - 2], FatSet(new[q], Eoc))
          /\ R[2 * q] = Effect(R[2 * q - 1], FatSet(Before(z, new, q), new[q]))
      BY <2>2
    <3> QED BY <2>2, <3>1 DEF q
  <2>4. Sound(sh, R[2 * j]) /\ Sound(sh, R[2 * j + 1]) /\ LinkStage(sh, R[2 * j + 2], D, c, k, z, new, n, j + 1, lo)
    <3>1. j < Len(new) /\ n + j > 0
      BY <1>1
    <3> QED BY <2>1, <2>3, <3>1, LinkOne, SMTT(30)
  <2>5. Sound(sh, R[2 * j + 2])
    BY <2>4 DEF LinkStage, Sound
  <2>6. St(j + 1)
    BY <2>2, <2>4
  <2>7. \A i \in 0 .. 2 * (j + 1) : i \in 0 .. 2 * j \/ i = 2 * j + 1 \/ i = 2 * j + 2
    OBVIOUS
  <2> HIDE DEF St
  <2> QED BY <2>1, <2>4, <2>5, <2>6, <2>7
<1>4. m \in P
  <2> HIDE DEF P
  <2> QED BY <1>1, <1>2, <1>3, Induction
<1> QED BY <1>4

-----------------------------------------------------------------------------
\* fat_free_cluster_chain has freed i of the clusters s, which are in no chain of T any more.
FreeStage(sh, d, E, T, F, s, i) ==
    /\ d.dir = E /\ Good(sh, d.fat, E, T)
    /\ \A j \in 1 .. Len(s) : j <= i => d.fat[s[j]] = Free
    /\ \A x \in Cluster : (\A j \in 1 .. Len(s) : s[j] # x) => d.fat[x] = F[x]

LEMMA FreeOne ==
    ASSUME NEW sh, NEW d, NEW E, NEW T, NEW F, NEW s, s \in Seq(Cluster),
           \A j \in 1 .. Len(s) : s[j] # Root /\ Unowned(T, s[j]),
           NEW i \in Nat, i < Len(s), FreeStage(sh, d, E, T, F, s, i),
           NEW e, e = Effect(d, FatSet(s[i + 1], Free))
    PROVE  FreeStage(sh, e, E, T, F, s, i + 1)
<1> DEFINE a == s[i + 1]
<1>1. i + 1 \in 1 .. Len(s) /\ a \in Cluster /\ a # Root /\ Unowned(T, a)
  OBVIOUS
<1>2. e.fat = SetFat(d.fat, a, Free) /\ e.dir = E
  BY EffectFat DEF FreeStage
<1>3. Good(sh, d.fat, E, T) /\ d.fat \in [Cluster -> Nat]
  BY DEF FreeStage, Good
<1>4. Good(sh, e.fat, E, T)
  <2>1. Free \in Nat
    BY FsConstants
  <2>2. Good(sh, SetFat(d.fat, a, Free), E, T)
    BY <1>1, <1>3, <2>1, FatUnowned
  <2> QED BY <1>2, <2>2
<1>5. e.fat[a] = Free /\ \A x \in Cluster : x # a => e.fat[x] = d.fat[x]
  BY <1>1, <1>2, <1>3 DEF SetFat
<1>6. ASSUME NEW j \in 1 .. Len(s), j <= i + 1 PROVE e.fat[s[j]] = Free
  <2>1. s[j] \in Cluster
    OBVIOUS
  <2>2. CASE s[j] = a
    BY <1>5, <2>2
  <2>3. CASE s[j] # a
    <3>1. j <= i
      BY <1>6, <2>3
    <3>2. d.fat[s[j]] = Free
      BY <3>1 DEF FreeStage
    <3> QED BY <1>5, <2>1, <2>3, <3>2
  <2> QED BY <2>2, <2>3
<1>7. ASSUME NEW x \in Cluster, \A j \in 1 .. Len(s) : s[j] # x PROVE e.fat[x] = F[x]
  <2>1. x # a /\ d.fat[x] = F[x]
    BY <1>1, <1>7 DEF FreeStage
  <2> QED BY <1>5, <2>1
<1> QED BY <1>2, <1>4, <1>6, <1>7 DEF FreeStage

LEMMA FreeAll ==
    ASSUME NEW sh, NEW R, NEW E, NEW T, NEW F, NEW s, s \in Seq(Cluster),
           \A j \in 1 .. Len(s) : s[j] # Root /\ Unowned(T, s[j]),
           FreeStage(sh, R[1], E, T, F, s, 0),
           \A j \in 1 .. Len(s) : R[j + 1] = Effect(R[j], FatSet(s[j], Free))
    PROVE  \A i \in 0 .. Len(s) : FreeStage(sh, R[i + 1], E, T, F, s, i)
<1> DEFINE P == {i \in Nat : i <= Len(s) => FreeStage(sh, R[i + 1], E, T, F, s, i)}
<1>1. 0 \in P
  OBVIOUS
<1>2. ASSUME NEW i \in Nat, i \in P PROVE i + 1 \in P
  <2> SUFFICES ASSUME i + 1 <= Len(s) PROVE FreeStage(sh, R[(i + 1) + 1], E, T, F, s, i + 1)
    OBVIOUS
  <2>1. i < Len(s) /\ FreeStage(sh, R[i + 1], E, T, F, s, i) /\ i + 1 \in 1 .. Len(s)
    BY <1>2
  <2>2. R[(i + 1) + 1] = Effect(R[i + 1], FatSet(s[i + 1], Free))
    BY <2>1
  <2> QED BY <2>1, <2>2, FreeOne
<1>3. Nat \subseteq P
  <2> HIDE DEF P
  <2> QED BY <1>1, <1>2, Induction
<1> QED BY <1>3

\* The clusters of an entry's chain are in no other.
LEMMA OwnChain ==
    ASSUME NEW sh, NEW F, NEW D, NEW S, Good(sh, F, D, S), NEW c \in Cluster, NEW k \in 1 .. Slots, Lives(D, c, k),
           NEW E, ~Lives(E, c, k), NEW i \in 1 .. Len(S[c][k])
    PROVE  S[c][k][i] # Root /\ Unowned(Remaining(E, S), S[c][k][i])
<1>1. EntryOK(F, D[c][k], S[c][k], c) /\ Apart(S)
  BY DEF Good
<1>2. S[c][k][i] # Root
  BY <1>1 DEF EntryOK, Linked
<1> DEFINE T == Remaining(E, S)
<1>3. \A d \in Cluster, l \in 1 .. Slots : T[d][l] = IF Lives(E, d, l) THEN S[d][l] ELSE << >>
  BY DEF Remaining
<1> HIDE DEF T
<1>4. ASSUME NEW d \in Cluster, NEW l \in 1 .. Slots, NEW j \in 1 .. Len(T[d][l])
      PROVE  T[d][l][j] # S[c][k][i]
  <2>1. CASE Lives(E, d, l)
    <3>1. T[d][l] = S[d][l] /\ (d # c \/ l # k)
      BY <1>3, <2>1
    <3> QED BY <1>1, <3>1, ApartAt, SMTT(30)
  <2>2. CASE ~Lives(E, d, l)
    <3>1. T[d][l] = << >>
      BY <1>3, <2>2
    <3> QED BY <3>1
  <2> QED BY <2>1, <2>2
<1>5. Unowned(T, S[c][k][i])
  BY <1>4 DEF Unowned
<1> QED BY <1>2, <1>5 DEF T

\* If every cluster in use was in a chain, one that is in none now was in the removed entry's.
LEMMA StillOwned ==
    ASSUME NEW sh, NEW F, NEW D, NEW S, Good(sh, F, D, S), NEW c \in Cluster, NEW k \in 1 .. Slots, Lives(D, c, k),
           NEW E, E = Put(D, c, k, Del),
           ~(D[c][k].kind = "dir" /\ \E j \in 1 .. Slots : D[D[c][k].cl][j].st = "live"),
           NEW x \in Cluster, ~Unowned(S, x), \A i \in 1 .. Len(S[c][k]) : S[c][k][i] # x
    PROVE  ~Unowned(Remaining(E, S), x)
<1>1. PICK d \in Cluster, l \in 1 .. Slots : \E i \in 1 .. Len(S[d][l]) : S[d][l][i] = x
  BY DEF Unowned
<1>2. PICK i \in 1 .. Len(S[d][l]) : S[d][l][i] = x
  BY <1>1
<1>3. d # c \/ l # k
  BY <1>2
<1>4. Lives(D, d, l)
  <2>1. S[d][l] # << >>
    BY <1>2
  <2> QED BY <2>1 DEF Good
<1>5. D \in Tables(Ents) /\ Root \in Cluster
  BY FsConstants DEF Good, Dirs
<1>6. \A y \in Cluster, j \in 1 .. Slots : y # c \/ j # k => E[y][j] = D[y][j]
  BY <1>5, PutIs
<1>7. InTree(E, d)
  <2>1. CASE d = Root
    BY <2>1 DEF InTree
  <2>2. CASE d # Root
    <3>1. PICK j \in 1 .. Slots : D[Root][j].st = "live" /\ D[Root][j].kind = "dir" /\ D[Root][j].cl = d
      BY <1>4, <2>2 DEF Lives, InTree
    <3>2. c # Root \/ j # k
      BY <1>4, <3>1 DEF Lives
    <3>3. E[Root][j] = D[Root][j]
      BY <1>5, <1>6, <3>2
    <3> QED BY <3>1, <3>3 DEF InTree
  <2> QED BY <2>1, <2>2
<1>8. Lives(E, d, l)
  BY <1>3, <1>4, <1>6, <1>7 DEF Lives
<1>9. Remaining(E, S)[d][l] = S[d][l]
  BY <1>8 DEF Remaining
<1> QED BY <1>2, <1>9 DEF Unowned

\* One write, then others.
LEMMA FirstOf ==
    ASSUME NEW v \in Writes, NEW q, q \in Seq(Writes), NEW t, t = <<v>> \o q
    PROVE  /\ t \in Seq(Writes) /\ Len(t) = Len(q) + 1 /\ t[1] = v
           /\ \A i \in 1 .. Len(q) : t[i + 1] = q[i]
<1>1. <<v>> \in Seq(Writes) /\ Len(<<v>>) = 1
  OBVIOUS
<1> QED BY <1>1

\* fat_unlink: the entry goes first, then its clusters.
LEMMA UnlinkRun ==
    ASSUME NEW sh, NEW S, Good(sh, fat, dir, S), NEW c \in Cluster, NEW k \in 1 .. Slots, Lives(dir, c, k),
           NEW t, t = <<DirSet(c, k, Del)>> \o FatFreeClusterChain(dir[c][k].cl),
           NEW ns, Cache(sh, Put(dir, c, k, Del), ns), NEW lo,
           lo \/ (/\ AllUsed(fat, S)
                  /\ ~(dir[c][k].kind = "dir" /\ \E j \in 1 .. Slots : dir[dir[c][k].cl][j].st = "live"))
    PROVE  t \in Seq(Writes) /\ Pending(sh, t, [fat |-> fat, dir |-> dir], ns, lo)
<1> DEFINE s == S[c][k]
           n == Len(s)
           E == Put(dir, c, k, Del)
           T == Remaining(E, S)
           x == [fat |-> fat, dir |-> dir]
           q == FatFreeClusterChain(dir[c][k].cl)
<1>1. s \in Seq(Cluster) /\ n \in Nat /\ (\A i \in 1 .. n : s[i] \in Cluster)
  <2>1. s \in Seq(Cluster)
    BY TableAt DEF Good
  <2> QED BY <2>1
<1>2. q = [i \in 1 .. n |-> FatSet(s[i], Free)]
  BY ChainIs DEF FatFreeClusterChain
<1>3. q \in Seq(Writes) /\ Len(q) = n /\ \A i \in 1 .. n : q[i] = FatSet(s[i], Free)
  <2>1. \A i \in 1 .. n : FatSet(s[i], Free) \in Writes
    BY <1>1, WritesAre, FsConstants
  <2> HIDE DEF q, n
  <2> QED BY <1>1, <1>2, <2>1
<1>4. DirSet(c, k, Del) \in Writes
  BY WritesAre DEF Ents
<1> HIDE DEF q
<1>5. /\ t \in Seq(Writes) /\ Len(t) = n + 1 /\ t[1] = DirSet(c, k, Del)
      /\ \A i \in 1 .. n : t[i + 1] = FatSet(s[i], Free)
  <2>1. t = <<DirSet(c, k, Del)>> \o q
    BY DEF q
  <2>2. /\ t \in Seq(Writes) /\ Len(t) = Len(q) + 1 /\ t[1] = DirSet(c, k, Del)
        /\ \A i \in 1 .. Len(q) : t[i + 1] = q[i]
    <3> DEFINE w == DirSet(c, k, Del)
    <3>1. w \in Writes /\ q \in Seq(Writes) /\ t = <<w>> \o q
      BY <1>3, <1>4, <2>1
    <3> HIDE DEF w
    <3>2. /\ t \in Seq(Writes) /\ Len(t) = Len(q) + 1 /\ t[1] = w
          /\ \A i \in 1 .. Len(q) : t[i + 1] = q[i]
      BY ONLY <3>1, FirstOf
    <3> QED BY <3>2 DEF w
  <2> QED BY <1>3, <2>2
<1>6. x \in Disk /\ x.fat = fat /\ x.dir = dir
  BY DEF Disk, Good
<1>7. PICK R : Runs(R, t, x)
  BY <1>5, <1>6, RunExists
<1>8. R[0] = x /\ R[1] = Effect(x, DirSet(c, k, Del)) /\ \A i \in 1 .. n : R[i + 1] = Effect(R[i], FatSet(s[i], Free))
  <2>1. R[0] = x /\ \A i \in 1 .. n + 1 : R[i] = Effect(R[i - 1], t[i])
    BY <1>5, <1>7 DEF Runs
  <2>2. R[1] = Effect(R[0], t[1])
    BY <1>1, <2>1
  <2>3. ASSUME NEW i \in 1 .. n PROVE R[i + 1] = Effect(R[i], FatSet(s[i], Free))
    <3>1. i + 1 \in 1 .. n + 1 /\ (i + 1) - 1 = i
      BY <1>1
    <3>2. R[i + 1] = Effect(R[(i + 1) - 1], t[i + 1])
      BY <2>1, <3>1
    <3> QED BY <1>5, <3>1, <3>2
  <2> QED BY <1>5, <2>1, <2>2, <2>3
<1>9. R[1].fat = fat /\ R[1].dir = E
  BY <1>6, <1>8, EffectDir
<1>10. Good(sh, fat, E, T) /\ ~Lives(E, c, k)
  BY DeleteEntry
<1>11. \A i \in 1 .. n : s[i] # Root /\ Unowned(T, s[i])
  BY <1>10, OwnChain
<1>12. n = Len(s)
  OBVIOUS
<1>13. s = S[c][k]
  OBVIOUS
<1> HIDE DEF s, n, E, T, x
<1>14. FreeStage(sh, R[1], E, T, fat, s, 0)
  BY <1>1, <1>9, <1>10 DEF FreeStage
<1>15. \A i \in 0 .. n : FreeStage(sh, R[i + 1], E, T, fat, s, i)
  BY <1>1, <1>8, <1>11, <1>12, <1>14, FreeAll
<1>16. \A i \in 0 .. n : Sound(sh, R[i + 1])
  BY <1>15 DEF FreeStage, Sound
<1>17. Sound(sh, R[0])
  BY <1>6, <1>8 DEF Sound
<1>18. \A i \in 0 .. Len(t) : Sound(sh, R[i])
  <2> TAKE i \in 0 .. Len(t)
  <2>1. CASE i = 0
    BY <1>17, <2>1
  <2>2. CASE i # 0
    <3>1. i - 1 \in 0 .. n /\ (i - 1) + 1 = i
      BY <1>1, <1>5, <2>2
    <3> QED BY <1>16, <3>1
  <2> QED BY <2>1, <2>2
<1>19. FreeStage(sh, R[n + 1], E, T, fat, s, n)
  BY <1>1, <1>15
<1>20. lo \/ AllUsed(R[n + 1].fat, T)
  <2> SUFFICES ASSUME ~lo, NEW y \in Cluster, R[n + 1].fat[y] # Free, y # Root
               PROVE  ~Unowned(T, y)
    BY DEF AllUsed
  <2>1. \A i \in 1 .. n : s[i] # y
    BY <1>1, <1>12, <1>19 DEF FreeStage
  <2>2. fat[y] # Free
    BY <1>12, <1>19, <2>1 DEF FreeStage
  <2>3. ~Unowned(S, y)
    BY <2>2 DEF AllUsed
  <2>4. \A i \in 1 .. Len(S[c][k]) : S[c][k][i] # y
    BY <1>12, <1>13, <2>1
  <2>5. ~Unowned(Remaining(Put(dir, c, k, Del), S), y)
    BY <2>3, <2>4, StillOwned
  <2> QED BY <2>5 DEF T, E
<1>21. Settled(sh, R[Len(t)], ns, lo)
  <2>1. Good(sh, R[n + 1].fat, R[n + 1].dir, T) /\ R[n + 1].dir = E
    BY <1>19 DEF FreeStage
  <2>2. Cache(sh, R[n + 1].dir, ns)
    BY <2>1 DEF E
  <2> QED BY <1>5, <1>20, <2>1, <2>2 DEF Settled
<1>22. Pending(sh, t, x, ns, lo)
  BY <1>7, <1>18, <1>21 DEF Pending
<1> QED BY <1>5, <1>22 DEF x

-----------------------------------------------------------------------------
\* A free cluster is in no chain.
LEMMA FreeUnowned ==
    ASSUME NEW sh, NEW F, NEW D, NEW S, Good(sh, F, D, S), NEW a \in Cluster, F[a] = Free
    PROVE  a # Root /\ Unowned(S, a)
<1>1. a # Root
  BY FsConstants DEF Good
<1>2. ASSUME NEW d \in Cluster, NEW l \in 1 .. Slots, NEW i \in 1 .. Len(S[d][l]) PROVE S[d][l][i] # a
  <2>1. S[d][l] \in Seq(Cluster)
    BY TableAt DEF Good
  <2>2. Lives(D, d, l)
    <3>1. S[d][l] # << >>
      BY <1>2, <2>1
    <3> QED BY <3>1 DEF Good
  <2>3. Linked(F, S[d][l])
    BY <2>2 DEF Good, EntryOK
  <2>4. F[S[d][l][i]] = Eoc \/ F[S[d][l][i]] \in Cluster
    <3>1. CASE i = Len(S[d][l])
      BY <2>3, <3>1 DEF Linked
    <3>2. CASE i # Len(S[d][l])
      <4>1. i + 1 \in 1 .. Len(S[d][l])
        BY <2>1, <3>2
      <4> QED BY <2>1, <2>3, <3>2, <4>1 DEF Linked
    <3> QED BY <3>1, <3>2
  <2> QED BY <2>4, FsConstants
<1> QED BY <1>1, <1>2 DEF Unowned

\* fat_create: the cluster is taken and cleared before the entry is written.
LEMMA CreateRun ==
    ASSUME NEW sh, NEW S, Good(sh, fat, dir, S), NEW c \in Cluster, NEW k \in 1 .. Slots, InTree(dir, c),
           dir[c][k].st # "live", NEW a \in Cluster, fat[a] = Free,
           NEW e \in LiveEntry, e.cl = a, e.size = 0, c # Root => e.kind = "file",
           sh \/ \A l \in 1 .. Slots : dir[c][l].st = "live" => dir[c][l].name # e.name,
           NEW t, t = <<FatSet(a, Eoc), ZeroCluster(a), DirSet(c, k, e)>>,
           NEW ns, Cache(sh, Put(Zeroed(dir, a), c, k, e), ns), NEW lo, lo \/ AllUsed(fat, S)
    PROVE  t \in Seq(Writes) /\ Pending(sh, t, [fat |-> fat, dir |-> dir], ns, lo)
<1> DEFINE x == [fat |-> fat, dir |-> dir]
           F == SetFat(fat, a, Eoc)
           D == Zeroed(dir, a)
           T == Put(S, c, k, <<a>>)
<1>1. a # Root /\ Unowned(S, a)
  BY FreeUnowned
<1>2. c # a
  BY <1>1, InTreeOwned
<1>3. FatSet(a, Eoc) \in Writes /\ ZeroCluster(a) \in Writes /\ DirSet(c, k, e) \in Writes
  BY WritesAre, FsConstants DEF Ents
<1>4. t \in Seq(Writes) /\ Len(t) = 3 /\ t[1] = FatSet(a, Eoc) /\ t[2] = ZeroCluster(a) /\ t[3] = DirSet(c, k, e)
  <2> DEFINE u == FatSet(a, Eoc)
             v == ZeroCluster(a)
             w == DirSet(c, k, e)
  <2>1. u \in Writes /\ v \in Writes /\ w \in Writes /\ t = <<u, v, w>>
    BY <1>3
  <2> HIDE DEF u, v, w
  <2>2. t \in Seq(Writes) /\ Len(t) = 3 /\ t[1] = u /\ t[2] = v /\ t[3] = w
    BY ONLY <2>1
  <2> QED BY <2>2 DEF u, v, w
<1>5. x \in Disk /\ x.fat = fat /\ x.dir = dir
  BY DEF Disk, Good
<1>6. PICK R : Runs(R, t, x)
  BY <1>4, <1>5, RunExists
<1>7. /\ R[0] = x /\ R[1] = Effect(R[0], FatSet(a, Eoc)) /\ R[2] = Effect(R[1], ZeroCluster(a))
      /\ R[3] = Effect(R[2], DirSet(c, k, e))
  <2>1. R[0] = x /\ \A i \in 1 .. 3 : R[i] = Effect(R[i - 1], t[i])
    BY <1>4, <1>6 DEF Runs
  <2>2. 1 - 1 = 0 /\ 2 - 1 = 1 /\ 3 - 1 = 2 /\ 1 \in 1 .. 3 /\ 2 \in 1 .. 3 /\ 3 \in 1 .. 3
    OBVIOUS
  <2>3. R[1] = Effect(R[1 - 1], t[1]) /\ R[2] = Effect(R[2 - 1], t[2]) /\ R[3] = Effect(R[3 - 1], t[3])
    BY <2>1, <2>2
  <2> QED BY <1>4, <2>1, <2>2, <2>3
<1> HIDE DEF x
<1>8. /\ R[1].fat = F /\ R[1].dir = dir /\ R[2].fat = F /\ R[2].dir = D
      /\ R[3].fat = F /\ R[3].dir = Put(D, c, k, e)
  <2>1. R[1].fat = F /\ R[1].dir = dir
    BY <1>5, <1>7, EffectFat
  <2>2. R[2].fat = F /\ R[2].dir = D
    BY <1>7, <2>1, EffectZero
  <2> QED BY <1>7, <2>1, <2>2, EffectDir
<1>9. Good(sh, F, dir, S)
  BY <1>1, FatUnowned, FsConstants
<1>10. Good(sh, F, D, S)
  BY <1>1, <1>9, ZeroUnowned
<1>11. fat \in [Cluster -> Nat] /\ dir \in Dirs /\ S \in Tables(Seq(Cluster)) /\ Root \in Cluster
  BY FsConstants DEF Good
<1>12. F[a] = Eoc /\ \A y \in Cluster : y # a => F[y] = fat[y]
  BY <1>11 DEF SetFat
<1>13. /\ \A l \in 1 .. Slots : D[a][l].st # "live"
       /\ \A y \in Cluster : y # a => D[y] = dir[y]
  BY <1>11 DEF Zeroed, NoEntries, End, Dirs, Tables
<1> HIDE DEF F, D
<1>14. InTree(D, c)
  BY <1>1, <1>11, <1>13 DEF InTree
<1>15. Good(sh, F, Put(D, c, k, e), T)
  <2>1. D[c] = dir[c]
    BY <1>2, <1>13
  <2>2. D[c][k].st # "live" /\ (sh \/ \A l \in 1 .. Slots : D[c][l].st = "live" => D[c][l].name # e.name)
    BY <2>1
  <2> QED BY <1>1, <1>10, <1>12, <1>13, <1>14, <2>2, NewEntry
<1>16. lo \/ AllUsed(F, T)
  <2> SUFFICES ASSUME ~lo, NEW y \in Cluster, F[y] # Free, y # Root, Unowned(T, y) PROVE FALSE
    BY DEF AllUsed
  <2>1. S[c][k] = << >>
    BY DEF Good, Lives
  <2>2. Append(S[c][k], a) = <<a>>
    BY <2>1
  <2>3. Unowned(S, y) /\ y # a
    <3>1. Unowned(Put(S, c, k, Append(S[c][k], a)), y)
      BY <2>2
    <3> QED BY <1>11, <3>1, OwnedGrows
  <2>4. fat[y] # Free
    BY <1>12, <2>3
  <2> QED BY <2>3, <2>4 DEF AllUsed
<1>17. Sound(sh, R[0]) /\ Sound(sh, R[1]) /\ Sound(sh, R[2]) /\ Sound(sh, R[3])
  BY <1>5, <1>7, <1>8, <1>9, <1>10, <1>15 DEF Sound
<1>18. \A i \in 0 .. Len(t) : Sound(sh, R[i])
  BY <1>4, <1>17
<1>19. Settled(sh, R[Len(t)], ns, lo)
  <2>1. Cache(sh, R[3].dir, ns)
    BY <1>8 DEF D
  <2> QED BY <1>4, <1>8, <1>15, <1>16, <2>1 DEF Settled
<1>20. Pending(sh, t, x, ns, lo)
  BY <1>6, <1>18, <1>19 DEF Pending
<1> QED BY <1>4, <1>20 DEF x

-----------------------------------------------------------------------------
\* What fat_write finds out before it writes, for a file with the chain s.
ExtOK(x, s, off, size) ==
    /\ x.last = s[Len(s)] /\ x.new \in Seq(Cluster)
    /\ \A i \in 1 .. Len(x.new) : x.new[i] \in FreeClusters
    /\ \A i, j \in 1 .. Len(x.new) : x.new[i] = x.new[j] => i = j
    /\ x.done \in Nat /\ x.done <= size
    /\ x.done = size => off + size <= (Len(s) + Len(x.new)) * CSize
LEMMA ExtensionIs ==
    ASSUME NEW sh, NEW S, Good(sh, fat, dir, S), NEW c \in Cluster, NEW k \in 1 .. Slots, Lives(dir, c, k),
           NEW n, n.cl = dir[c][k].cl, NEW off \in Nat, NEW size \in Nat, size > 0,
           NEW x, x = Extension(n, off, size), NEW s, s = S[c][k]
    PROVE  ExtOK(x, s, off, size)
<1>1. Chain(n.cl) = s
  BY ChainIs
<1>2. s \in Seq(Cluster) /\ Len(s) \in Nat
  BY ChainShort
<1> DEFINE need == (off + size - 1) \div CSize + 1
           new == IF need > Len(s) THEN Allocatable(need - Len(s)) ELSE << >>
           room == (Len(s) + Len(new)) * CSize - off
<1>3. need \in Nat
  <2>1. off + size - 1 \in Nat
    OBVIOUS
  <2> DEFINE y == off + size - 1
  <2>2. y \div CSize \in Nat
    <3> HIDE DEF y
    <3> QED BY <2>1, FsConstants DEF y
  <2> QED BY <2>2
<1>4. x.new = new /\ x.last = s[Len(s)]
      /\ x.done = IF room < 0 THEN 0 ELSE IF room < size THEN room ELSE size
  BY <1>1 DEF Extension
<1> HIDE DEF need
<1>5. /\ new \in Seq(Cluster) /\ \A i \in 1 .. Len(new) : new[i] \in FreeClusters
      /\ \A i, j \in 1 .. Len(new) : new[i] = new[j] => i = j
  <2>1. CASE need > Len(s)
    <3> DEFINE m == need - Len(s)
    <3>1. m \in Nat /\ new = Allocatable(m)
      BY <1>2, <1>3, <2>1
    <3> HIDE DEF m, new
    <3> QED BY <3>1, AllocIs
  <2>2. CASE ~(need > Len(s))
    <3>1. new = << >>
      BY <2>2
    <3> HIDE DEF new
    <3> QED BY <3>1
  <2> QED BY <2>1, <2>2
<1> HIDE DEF new
<1> DEFINE all == (Len(s) + Len(new)) * CSize
<1>6. all \in Nat /\ room = all - off
  <2>1. Len(s) + Len(new) \in Nat
    BY <1>2, <1>5
  <2> QED BY <2>1, FsConstants
<1> HIDE DEF all, room
<1>7. x.done \in Nat /\ x.done <= size /\ (x.done = size => off + size <= all)
  BY <1>4, <1>6
<1> QED BY <1>4, <1>5, <1>7 DEF all, ExtOK

\* The order in which fat_write takes and links them.
Links(z, new) ==
    [i \in 1 .. 2 * Len(new) |->
        LET h == (i + 1) \div 2 IN AllocAndLink(Before(z, new, h), new[h])[2 - (i % 2)]]
LEMMA LinksAre ==
    ASSUME NEW new, new \in Seq(Cluster), NEW z \in Cluster, NEW q, q = Links(z, new)
    PROVE  /\ q \in Seq(Writes) /\ Len(q) = 2 * Len(new)
           /\ \A j \in 1 .. Len(new) : /\ q[2 * j - 1] = FatSet(new[j], Eoc)
                                       /\ q[2 * j] = FatSet(Before(z, new, j), new[j])
<1> DEFINE m == Len(new)
<1>1. m \in Nat
  OBVIOUS
<1>2. ASSUME NEW j \in 1 .. m
      PROVE  /\ q[2 * j - 1] = FatSet(new[j], Eoc) /\ q[2 * j] = FatSet(Before(z, new, j), new[j])
             /\ q[2 * j - 1] \in Writes /\ q[2 * j] \in Writes
  <2>1. /\ 2 * j - 1 \in 1 .. 2 * m /\ ((2 * j - 1) + 1) \div 2 = j /\ 2 - ((2 * j - 1) % 2) = 1
        /\ 2 * j \in 1 .. 2 * m /\ (2 * j + 1) \div 2 = j /\ 2 - ((2 * j) % 2) = 2
    BY <1>1
  <2>2. q[2 * j - 1] = FatSet(new[j], Eoc)
    BY <2>1 DEF AllocAndLink, Links
  <2>3. q[2 * j] = FatSet(Before(z, new, j), new[j])
    BY <2>1 DEF AllocAndLink, Links
  <2>4. new[j] \in Cluster
    OBVIOUS
  <2>5. Before(z, new, j) \in Cluster
    BY <1>1 DEF Before
  <2> QED BY <2>2, <2>3, <2>4, <2>5, WritesAre, FsConstants
<1>3. ASSUME NEW i \in 1 .. 2 * m PROVE q[i] \in Writes
  <2> DEFINE j == (i + 1) \div 2
  <2>1. j \in 1 .. m /\ (i = 2 * j - 1 \/ i = 2 * j)
    BY <1>1
  <2> HIDE DEF j
  <2> QED BY <1>2, <2>1
<1>4. q \in Seq(Writes) /\ Len(q) = 2 * m
  <2>1. 2 * m \in Nat
    BY <1>1
  <2>2. q = [i \in 1 .. 2 * m |-> q[i]]
    BY DEF Links
  <2> DEFINE w(i) == q[i]
  <2>3. q = [i \in 1 .. 2 * m |-> w(i)] /\ \A i \in 1 .. 2 * m : w(i) \in Writes
    BY <1>3, <2>2
  <2> HIDE DEF w
  <2> QED BY <2>1, <2>3
<1> QED BY <1>2, <1>4

\* The entry fat_update_dirent_size writes.
Resized(e, size, cl) == [e EXCEPT !.size = size, !.cl = cl]
LEMMA ResizedIs ==
    ASSUME NEW e \in LiveEntry, NEW size \in Nat
    PROVE  LET r == Resized(e, size, e.cl)
           IN  /\ r \in LiveEntry /\ r.st = "live" /\ r.name = e.name /\ r.kind = e.kind
               /\ r.cl = e.cl /\ r.size = size
BY DEF Resized, LiveEntry

\* A file that a write has made as long as off + size fits the chain it got.
LEMMA SizeFits ==
    ASSUME NEW e \in LiveEntry, NEW l \in Nat, NEW m \in Nat, Fits(e, l),
           NEW n, n.size \in Nat, n.size <= e.size, NEW x, NEW off \in Nat, NEW size \in Nat,
           x.done = size, off + size <= (l + m) * CSize, e.kind = "file",
           NEW v, v = FatWriteSize(n, x, off, size)
    PROVE  v \in Nat /\ Fits(Resized(e, v, e.cl), l + m)
<1>1. e.size \in Nat /\ e.size <= l * CSize
  BY DEF LiveEntry, Fits
<1>2. (l + m) * CSize = l * CSize + m * CSize /\ l * CSize \in Nat /\ m * CSize \in Nat
  BY FsConstants
<1> DEFINE a == l * CSize
           b == m * CSize
           t == (l + m) * CSize
<1>3. e.size <= a /\ t = a + b /\ a \in Nat /\ b \in Nat /\ off + size <= t
  BY <1>1, <1>2
<1> HIDE DEF a, b, t
<1>4. v \in Nat /\ v <= t
  BY <1>1, <1>3 DEF FatWriteSize
<1>5. Resized(e, v, e.cl).size = v
  BY <1>4, ResizedIs
<1> QED BY <1>4, <1>5 DEF Fits, t

\* fat_write: a chain grows one cluster after the other, then the entry gets the new size.
LEMMA WriteRun ==
    ASSUME NEW sh, NEW S, Good(sh, fat, dir, S), NEW c \in Cluster, NEW k \in 1 .. Slots, Lives(dir, c, k),
           NEW n, n.dc = c, n.slot = k, n.cl = dir[c][k].cl, n.size \in Nat, n.size <= dir[c][k].size,
           dir[c][k].kind = "file",
           NEW off \in Nat, NEW size \in Nat, size > 0,
           NEW x, x = Extension(n, off, size), NEW t, t = FatWrite(n, off, size),
           NEW ns, NEW lo, lo \/ AllUsed(fat, S),
           x.done < size => Cache(sh, dir, ns),
           ~(x.done < size) =>
               Cache(sh, Put(dir, c, k, Resized(dir[c][k], FatWriteSize(n, x, off, size), dir[c][k].cl)), ns)
    PROVE  t \in Seq(Writes) /\ Pending(sh, t, [fat |-> fat, dir |-> dir], ns, lo)
<1> DEFINE y == [fat |-> fat, dir |-> dir]
           s == S[c][k]
           l == Len(s)
           z == s[l]
           new == x.new
           m == Len(new)
           v == FatWriteSize(n, x, off, size)
           e == Resized(dir[c][k], v, dir[c][k].cl)
           w == DirSet(c, k, e)
           q == Links(z, new)
<1>1. /\ x.last = z /\ new \in Seq(Cluster)
      /\ \A i \in 1 .. m : new[i] \in FreeClusters
      /\ \A i, j \in 1 .. m : new[i] = new[j] => i = j
      /\ x.done \in Nat /\ x.done <= size
      /\ x.done = size => off + size <= (l + m) * CSize
  <2>1. ExtOK(x, S[c][k], off, size)
    BY ExtensionIs
  <2> QED BY <2>1 DEF ExtOK
<1>2. s \in Seq(Cluster) /\ l \in Nat /\ EntryOK(fat, dir[c][k], s, c) /\ l > 0 /\ m \in Nat
  <2>1. s \in Seq(Cluster) /\ l \in Nat
    BY ChainShort
  <2>2. EntryOK(fat, dir[c][k], s, c)
    BY DEF Good
  <2>3. l > 0
    BY <2>2 DEF EntryOK
  <2>4. m \in Nat
    BY <1>1
  <2> QED BY <2>1, <2>2, <2>3, <2>4
<1>3. z \in Cluster
  BY <1>2
<1>4. t = q \o IF x.done < size THEN << >> ELSE <<w>>
  BY <1>1 DEF FatWrite, FatUpdateDirentSize, DirEntry, Resized, Before, Links
<1>5. /\ q \in Seq(Writes) /\ Len(q) = 2 * m
      /\ \A j \in 1 .. m : /\ q[2 * j - 1] = FatSet(new[j], Eoc)
                           /\ q[2 * j] = FatSet(Before(z, new, j), new[j])
  <2> HIDE DEF q, new, z
  <2> QED BY <1>1, <1>3, LinksAre DEF q
<1>6. dir[c][k] \in LiveEntry
  BY EntryType DEF Good, Lives
<1>7. y \in Disk /\ y.fat = fat /\ y.dir = dir
  BY DEF Disk, Good
<1>8. \A i \in 1 .. m : new[i] \in Cluster /\ new[i] # Root /\ Unowned(S, new[i])
  BY <1>1, FreeUnowned, SMTT(30) DEF FreeClusters
<1>9. l = Len(S[c][k]) /\ z = S[c][k][l] /\ m = Len(new)
  OBVIOUS
<1> HIDE DEF y, s, l, z, new, m, q
<1>10. ASSUME NEW R, R[0] = y, \A i \in 1 .. 2 * m : R[i] = Effect(R[i - 1], q[i])
       PROVE  /\ \A i \in 0 .. 2 * m : Sound(sh, R[i])
              /\ LinkStage(sh, R[2 * m], dir, c, k, z, new, l, m, lo)
  <2>1. LinkStage(sh, R[0], dir, c, k, z, new, l, 0, lo)
    <3>1. Len(S[c][k]) = l + 0 /\ S[c][k][l + 0] = z /\ Before(z, new, 0 + 1) = z
      BY <1>2, <1>9 DEF Before
    <3> QED BY <1>7, <1>8, <1>9, <1>10, <3>1 DEF LinkStage
  <2>2. ASSUME NEW j \in 1 .. m
        PROVE  /\ R[2 * j - 1] = Effect(R[2 * j - 2], FatSet(new[j], Eoc))
               /\ R[2 * j] = Effect(R[2 * j - 1], FatSet(Before(z, new, j), new[j]))
    <3>1. 2 * j - 1 \in 1 .. 2 * m /\ 2 * j \in 1 .. 2 * m /\ (2 * j - 1) - 1 = 2 * j - 2
      BY <1>2
    <3>2. R[2 * j - 1] = Effect(R[(2 * j - 1) - 1], q[2 * j - 1]) /\ R[2 * j] = Effect(R[2 * j - 1], q[2 * j])
      BY <1>10, <3>1
    <3> QED BY <1>5, <3>1, <3>2
  <2>3. Lives(dir, c, k) /\ l > 0
    BY <1>2
  <2>4. /\ new \in Seq(Cluster) /\ (\A i \in 1 .. Len(new) : new[i] # Root)
        /\ \A i, j \in 1 .. Len(new) : new[i] = new[j] => i = j
    BY <1>1, <1>8, <1>9
  <2>5. \A j \in 1 .. Len(new) :
           /\ R[2 * j - 1] = Effect(R[2 * j - 2], FatSet(new[j], Eoc))
           /\ R[2 * j] = Effect(R[2 * j - 1], FatSet(Before(z, new, j), new[j]))
    BY <1>9, <2>2
  <2>6. /\ \A i \in 0 .. 2 * Len(new) : Sound(sh, R[i])
        /\ LinkStage(sh, R[2 * Len(new)], dir, c, k, z, new, l, Len(new), lo)
    BY <1>2, <2>1, <2>3, <2>4, <2>5, LinkAll
  <2> QED BY <1>9, <2>6
<1>11. CASE x.done < size
  <2>1. t = q
    BY <1>4, <1>5, <1>11
  <2>2. PICK R : Runs(R, t, y)
    BY <1>5, <1>7, <2>1, RunExists
  <2>3. R[0] = y /\ \A i \in 1 .. 2 * m : R[i] = Effect(R[i - 1], q[i])
    BY <1>5, <2>1, <2>2 DEF Runs
  <2>4. /\ \A i \in 0 .. 2 * m : Sound(sh, R[i])
        /\ LinkStage(sh, R[2 * m], dir, c, k, z, new, l, m, lo)
    BY <1>10, <2>3
  <2>5. Settled(sh, R[Len(t)], ns, lo)
    BY <1>5, <1>11, <2>1, <2>4 DEF LinkStage, Settled
  <2>6. Pending(sh, t, y, ns, lo)
    BY <1>5, <2>1, <2>2, <2>4, <2>5 DEF Pending
  <2> QED BY <1>5, <2>1, <2>6 DEF y
<1>12. CASE ~(x.done < size)
  <2>1. v \in Nat /\ Fits(e, l + m)
    <3>1. Fits(dir[c][k], l) /\ x.done = size
      BY <1>1, <1>2, <1>9, <1>12 DEF EntryOK, s
    <3> QED BY <1>1, <1>2, <1>6, <3>1, SizeFits
  <2>2. /\ e \in LiveEntry /\ e.st = "live" /\ e.name = dir[c][k].name /\ e.kind = dir[c][k].kind
        /\ e.cl = dir[c][k].cl
    <3> DEFINE d == dir[c][k]
    <3>1. d \in LiveEntry /\ v \in Nat /\ e = Resized(d, v, d.cl)
      BY <1>6, <2>1
    <3> HIDE DEF v, e, d
    <3>2. /\ e \in LiveEntry /\ e.st = "live" /\ e.name = d.name /\ e.kind = d.kind
          /\ e.cl = d.cl
      BY ONLY <3>1, ResizedIs
    <3> QED BY <3>2 DEF d
  <2>3. e \in Ents
    BY <2>2 DEF Ents
  <2>4. w \in Writes
    BY <2>3, WritesAre
  <2>5. w = DirSet(c, k, e) /\ Cache(sh, Put(dir, c, k, e), ns)
    BY <1>12
  <2> HIDE DEF w, e, v
  <2>6. t = Append(q, w)
    BY <1>4, <1>5, <1>12, <2>4
  <2>7. t \in Seq(Writes) /\ Len(t) = 2 * m + 1 /\ t[2 * m + 1] = w /\ \A i \in 1 .. 2 * m : t[i] = q[i]
    BY <1>2, <1>5, <2>4, <2>6
  <2>8. PICK R : Runs(R, t, y)
    BY <1>7, <2>7, RunExists
  <2>9. /\ R[0] = y /\ \A i \in 1 .. 2 * m : R[i] = Effect(R[i - 1], q[i])
        /\ R[2 * m + 1] = Effect(R[2 * m], w)
    <3>1. R[0] = y /\ \A i \in 1 .. 2 * m + 1 : R[i] = Effect(R[i - 1], t[i])
      BY <2>7, <2>8 DEF Runs
    <3>2. 2 * m + 1 \in 1 .. 2 * m + 1 /\ (2 * m + 1) - 1 = 2 * m /\ \A i \in 1 .. 2 * m : i \in 1 .. 2 * m + 1
      BY <1>2
    <3>3. R[2 * m + 1] = Effect(R[(2 * m + 1) - 1], t[2 * m + 1])
      BY <3>1, <3>2
    <3>4. \A i \in 1 .. 2 * m : R[i] = Effect(R[i - 1], q[i])
      BY <2>7, <3>1, <3>2
    <3> QED BY <2>7, <3>1, <3>2, <3>3, <3>4
  <2>10. /\ \A i \in 0 .. 2 * m : Sound(sh, R[i])
         /\ LinkStage(sh, R[2 * m], dir, c, k, z, new, l, m, lo)
    BY <1>10, <2>9
  <2>11. PICK T : /\ Good(sh, R[2 * m].fat, dir, T) /\ (lo \/ AllUsed(R[2 * m].fat, T))
                  /\ Len(T[c][k]) = l + m
    BY <2>10 DEF LinkStage
  <2>12. R[2 * m].dir = dir
    BY <2>10 DEF LinkStage
  <2>13. R[2 * m + 1].fat = R[2 * m].fat /\ R[2 * m + 1].dir = Put(dir, c, k, e)
    BY <2>5, <2>9, <2>12, EffectDir
  <2>14. Good(sh, R[2 * m].fat, Put(dir, c, k, e), T)
    BY <2>1, <2>2, <2>3, <2>11, SetSize
  <2>15. Settled(sh, R[2 * m + 1], ns, lo) /\ Sound(sh, R[2 * m + 1])
    BY <2>5, <2>11, <2>13, <2>14 DEF Settled, Sound
  <2>16. \A i \in 0 .. Len(t) : Sound(sh, R[i])
    <3> TAKE i \in 0 .. Len(t)
    <3>1. i \in 0 .. 2 * m \/ i = 2 * m + 1
      BY <1>2, <2>7
    <3> QED BY <2>10, <2>15, <3>1
  <2>17. Pending(sh, t, y, ns, lo)
    BY <2>7, <2>8, <2>15, <2>16 DEF Pending
  <2> QED BY <2>7, <2>17 DEF y
<1> QED BY <1>11, <1>12

-----------------------------------------------------------------------------
\* Sequences of names.
LEMMA AppendName ==
    ASSUME NEW s, s \in Seq(Names), NEW n \in Names, NEW t, t = Append(s, n)
    PROVE  /\ t \in Seq(Names) /\ Len(t) = Len(s) + 1 /\ t[Len(t)] = n
           /\ \A i \in 1 .. Len(s) : t[i] = s[i]
BY AppendProperties
LEMMA SamePath ==
    ASSUME NEW s, s \in Seq(Names), NEW t, t \in Seq(Names), Len(s) = Len(t),
           \A i \in 1 .. Len(s) : s[i] = t[i]
    PROVE  s = t
OBVIOUS

\* Paths of one or two names.
LEMMA PathIs ==
    ASSUME NEW p \in Places
    PROVE  /\ p \in Seq(Names) /\ p # << >> /\ Name(p) \in Names /\ Append(Parent(p), Name(p)) = p
           /\ Len(p) = 1 => Parent(p) = << >>
           /\ Len(p) = 2 => Parent(p) \in Places /\ Len(Parent(p)) = 1
           /\ Len(p) = 1 \/ Len(p) = 2
<1>1. p \in Seq(Names) /\ Len(p) \in {1, 2}
  BY DEF Places
<1>2. p # << >> /\ p[Len(p)] \in Names
  BY <1>1
<1>3. CASE Len(p) = 1
  <2>1. Parent(p) = << >>
    BY <1>1, <1>3 DEF Parent
  <2>2. Append(Parent(p), Name(p)) = p
    BY <1>1, <1>3, <2>1 DEF Name
  <2> QED BY <1>1, <1>2, <1>3, <2>1, <2>2 DEF Name
<1>4. CASE Len(p) = 2
  <2>1. Parent(p) \in Seq(Names) /\ Len(Parent(p)) = 1 /\ Parent(p)[1] = p[1]
    BY <1>1, <1>4 DEF Parent
  <2> DEFINE s == Append(Parent(p), Name(p))
  <2>2. s \in Seq(Names) /\ Len(s) = 2 /\ s[2] = p[2] /\ s[1] = p[1]
    <3>1. /\ s \in Seq(Names) /\ Len(s) = Len(Parent(p)) + 1 /\ s[Len(s)] = Name(p)
          /\ \A i \in 1 .. Len(Parent(p)) : s[i] = Parent(p)[i]
      <4> DEFINE u == Parent(p)
                 v == Name(p)
      <4>1. u \in Seq(Names) /\ v \in Names /\ s = Append(u, v)
        BY <1>2, <2>1 DEF Name
      <4> HIDE DEF u, v, s
      <4>2. /\ s \in Seq(Names) /\ Len(s) = Len(u) + 1 /\ s[Len(s)] = v
            /\ \A i \in 1 .. Len(u) : s[i] = u[i]
        BY ONLY <4>1, AppendName
      <4> QED BY <4>2 DEF u, v
    <3> HIDE DEF s
    <3> QED BY <1>4, <2>1, <3>1 DEF Name
  <2> HIDE DEF s
  <2>3. s = p
    BY <1>1, <1>4, <2>2, SamePath
  <2> QED BY <1>1, <1>2, <1>4, <2>1, <2>3 DEF Name, Places, s
<1> QED BY <1>1, <1>3, <1>4

LEMMA ChildIs ==
    ASSUME NEW p, p = << >> \/ (p \in Places /\ Len(p) = 1), NEW n \in Names
    PROVE  /\ Append(p, n) \in Places /\ Parent(Append(p, n)) = p /\ Name(Append(p, n)) = n
<1>1. p \in Seq(Names) /\ (Len(p) = 0 \/ Len(p) = 1)
  <2>1. CASE p = << >>
    BY <2>1
  <2>2. CASE p \in Places /\ Len(p) = 1
    BY <2>2 DEF Places
  <2> QED BY <2>1, <2>2
<1> DEFINE s == Append(p, n)
<1>2. /\ s \in Seq(Names) /\ Len(s) = Len(p) + 1 /\ s[Len(s)] = n
      /\ \A i \in 1 .. Len(p) : s[i] = p[i]
  BY <1>1, AppendName
<1> HIDE DEF s
<1>3. Len(s) = 1 \/ Len(s) = 2
  BY ONLY <1>1, <1>2
<1>4. s \in Places /\ Name(s) = n
  BY <1>2, <1>3 DEF Places, Name
<1>5. Parent(s) = p
  <2>1. Parent(s) = SubSeq(s, 1, Len(p))
    BY ONLY <1>1, <1>2 DEF Parent
  <2>2. Parent(s) \in Seq(Names) /\ Len(Parent(s)) = Len(p) /\ \A i \in 1 .. Len(p) : Parent(s)[i] = s[i]
    BY ONLY <1>1, <1>2, <1>3, <2>1
  <2> QED BY <1>1, <1>2, <2>2, SamePath
<1> QED BY <1>4, <1>5 DEF s

LEMMA PrefixIs ==
    ASSUME NEW p \in Places, NEW q \in Places
    PROVE  /\ IsPrefix(p, p)
           /\ IsPrefix(p, Parent(q)) => IsPrefix(p, q)
           /\ IsPrefix(p, q) => p = q \/ IsPrefix(p, Parent(q))
           /\ ~IsPrefix(p, << >>)
<1>1. /\ p \in Seq(Names) /\ Len(p) \in {1, 2} /\ q \in Seq(Names) /\ Len(q) \in {1, 2}
  BY DEF Places
<1>2. ASSUME NEW s, s \in Seq(Names)
      PROVE  IsPrefix(p, s) <=> Len(p) <= Len(s) /\ \A i \in 1 .. Len(p) : p[i] = s[i]
  <2>1. ~(Len(p) <= Len(<< >>))
    BY <1>1
  <2> QED BY <2>1 DEF IsPrefix
<1>3. /\ Parent(q) \in Seq(Names) /\ Len(Parent(q)) = Len(q) - 1
      /\ \A i \in 1 .. Len(q) - 1 : Parent(q)[i] = q[i]
  <2>1. CASE Len(q) = 1
    BY <1>1, <2>1 DEF Parent
  <2>2. CASE Len(q) = 2
    BY <1>1, <2>2 DEF Parent
  <2> QED BY <1>1, <2>1, <2>2
<1>4. << >> \in Seq(Names) /\ Len(<< >>) = 0
  OBVIOUS
<1>5. IsPrefix(p, p)
  BY <1>1, <1>2
<1>6. ~IsPrefix(p, << >>)
  <2>1. ~(Len(p) <= Len(<< >>))
    BY <1>1
  <2> QED BY <2>1 DEF IsPrefix
<1>7. IsPrefix(p, Parent(q)) => IsPrefix(p, q)
  BY <1>1, <1>2, <1>3, SMTT(30)
<1>8. ASSUME IsPrefix(p, q), ~IsPrefix(p, Parent(q)) PROVE p = q
  <2>1. Len(p) <= Len(q) /\ \A i \in 1 .. Len(p) : p[i] = q[i]
    BY <1>1, <1>2, <1>8
  <2>2. Len(p) = Len(q)
    BY <1>1, <1>2, <1>3, <1>8, <2>1
  <2> QED BY <1>1, <2>1, <2>2
<1> QED BY <1>5, <1>6, <1>7, <1>8

-----------------------------------------------------------------------------
\* What a cached node says of the disk.
LEMMA CacheAt ==
    ASSUME NEW sh, NEW D, NEW ns, Cache(sh, D, ns), NEW p \in DOMAIN ns
    PROVE  /\ p \in Places /\ ns[p] \in Node /\ ns[p].dc \in Cluster /\ ns[p].slot \in 1 .. Slots
           /\ ns[p].cl \in Cluster /\ ns[p].size \in Nat
           /\ D[ns[p].dc][ns[p].slot].st = "live" /\ D[ns[p].dc][ns[p].slot].name = Name(p)
           /\ D[ns[p].dc][ns[p].slot].kind = ns[p].kind /\ D[ns[p].dc][ns[p].slot].cl = ns[p].cl
           /\ ns[p].size \in {0, D[ns[p].dc][ns[p].slot].size}
           /\ IsDir(ns, Parent(p)) /\ ns[p].dc = DirCluster(ns, Parent(p))
<1>1. p \in Places /\ ns[p] \in Node /\ NodeOK(D, ns, p)
  BY DEF Cache
<1> QED BY <1>1 DEF NodeOK, Node

LEMMA CacheFull ==
    ASSUME NEW sh, ~sh, NEW D, NEW ns, Cache(sh, D, ns), NEW p \in DOMAIN ns, NEW k \in 1 .. Slots,
           D[ns[p].dc][k].st = "live"
    PROVE  Append(Parent(p), D[ns[p].dc][k].name) \in DOMAIN ns
BY DEF Cache

\* Directories other than the root are in the root.
LEMMA TopDir ==
    ASSUME NEW sh, NEW F, NEW D, NEW S, Good(sh, F, D, S), NEW ns, Cache(sh, D, ns), NEW p \in DOMAIN ns,
           Len(p) = 1, ns[p].kind = "dir"
    PROVE  ns[p].dc = Root /\ InTree(D, ns[p].cl) /\ ns[p].cl # Root
<1>1. Parent(p) = << >> /\ Root \in Cluster
  BY CacheAt, PathIs, FsConstants
<1>2. ns[p].dc = Root
  BY <1>1, CacheAt DEF DirCluster
<1> DEFINE k == ns[p].slot
<1>3. k \in 1 .. Slots /\ D[Root][k].st = "live" /\ D[Root][k].kind = "dir" /\ D[Root][k].cl = ns[p].cl
  BY <1>2, CacheAt
<1> HIDE DEF k
<1>4. Lives(D, Root, k) /\ InTree(D, ns[p].cl)
  BY <1>3 DEF Lives, InTree
<1>5. EntryOK(F, D[Root][k], S[Root][k], Root) /\ S[Root][k] \in Seq(Cluster)
  BY <1>1, <1>3, <1>4, TableAt DEF Good
<1>6. ns[p].cl # Root
  <2>1. 1 \in 1 .. Len(S[Root][k]) /\ S[Root][k][1] = ns[p].cl
    BY <1>3, <1>5 DEF EntryOK
  <2> QED BY <1>5, <2>1 DEF EntryOK, Linked
<1> QED BY <1>2, <1>4, <1>6

LEMMA DirIs ==
    ASSUME NEW sh, NEW F, NEW D, NEW S, Good(sh, F, D, S), NEW ns, Cache(sh, D, ns), NEW p, IsDir(ns, p)
    PROVE  /\ DirCluster(ns, p) \in Cluster /\ InTree(D, DirCluster(ns, p))
           /\ p = << >> \/ (p \in Places /\ Len(p) = 1)
           /\ p # << >> => /\ p \in DOMAIN ns /\ ns[p].kind = "dir" /\ ns[p].dc = Root
                           /\ DirCluster(ns, p) = ns[p].cl /\ ns[p].cl # Root
<1>1. CASE p = << >>
  BY <1>1, FsConstants DEF DirCluster, InTree
<1>2. CASE p # << >>
  <2>1. p \in DOMAIN ns /\ ns[p].kind = "dir" /\ DirCluster(ns, p) = ns[p].cl
    BY <1>2 DEF IsDir, Cached, DirCluster
  <2>2. p \in Places /\ ns[p].cl \in Cluster
    BY <2>1, CacheAt
  <2>3. Len(p) = 1
    <3> SUFFICES ASSUME Len(p) = 2 PROVE FALSE
      BY <2>2, PathIs
    <3> DEFINE q == Parent(p)
    <3>1. q \in Places /\ Len(q) = 1 /\ q # << >>
      BY <2>2, PathIs
    <3>2. IsDir(ns, q) /\ ns[p].dc = DirCluster(ns, q)
      BY <2>1, CacheAt
    <3> HIDE DEF q
    <3>3. q \in DOMAIN ns /\ ns[q].kind = "dir" /\ ns[p].dc = ns[q].cl
      BY <3>1, <3>2 DEF IsDir, Cached, DirCluster
    <3>4. InTree(D, ns[p].dc) /\ ns[p].dc # Root
      BY <3>1, <3>3, TopDir
    <3>5. Lives(D, ns[p].dc, ns[p].slot)
      BY <2>1, <3>4, CacheAt DEF Lives
    <3>6. ns[p].dc \in Cluster /\ ns[p].slot \in 1 .. Slots /\ D[ns[p].dc][ns[p].slot].kind = "dir"
      BY <2>1, CacheAt
    <3>7. EntryOK(F, D[ns[p].dc][ns[p].slot], S[ns[p].dc][ns[p].slot], ns[p].dc)
      BY <3>5, <3>6 DEF Good
    <3> QED BY <3>4, <3>6, <3>7 DEF EntryOK
  <2>4. ns[p].dc = Root /\ InTree(D, ns[p].cl) /\ ns[p].cl # Root
    BY <2>1, <2>3, TopDir
  <2> QED BY <1>2, <2>1, <2>2, <2>3, <2>4
<1> QED BY <1>1, <1>2

\* A node is the node of a live entry.
LEMMA NodeLives ==
    ASSUME NEW sh, NEW F, NEW D, NEW S, Good(sh, F, D, S), NEW ns, Cache(sh, D, ns), NEW p \in DOMAIN ns
    PROVE  Lives(D, ns[p].dc, ns[p].slot)
<1>1. IsDir(ns, Parent(p)) /\ ns[p].dc = DirCluster(ns, Parent(p)) /\ D[ns[p].dc][ns[p].slot].st = "live"
  BY CacheAt
<1>2. InTree(D, DirCluster(ns, Parent(p)))
  BY <1>1, DirIs
<1> QED BY <1>1, <1>2 DEF Lives

\* The first cluster of a chain tells the entry.
LEMMA ClusterTells ==
    ASSUME NEW sh, NEW F, NEW D, NEW S, Good(sh, F, D, S), NEW c \in Cluster, NEW d \in Cluster,
           NEW k \in 1 .. Slots, NEW l \in 1 .. Slots, Lives(D, c, k), Lives(D, d, l),
           D[c][k].cl = D[d][l].cl
    PROVE  c = d /\ k = l
<1>1. /\ EntryOK(F, D[c][k], S[c][k], c) /\ S[c][k] \in Seq(Cluster)
      /\ EntryOK(F, D[d][l], S[d][l], d) /\ S[d][l] \in Seq(Cluster) /\ Apart(S)
  BY TableAt DEF Good
<1>2. 1 \in 1 .. Len(S[c][k]) /\ 1 \in 1 .. Len(S[d][l]) /\ S[c][k][1] = S[d][l][1]
  BY <1>1 DEF EntryOK
<1> QED BY <1>1, <1>2, ApartAt

\* Two directories are in different clusters, two nodes at different places.
LEMMA DirsApart ==
    ASSUME NEW sh, NEW F, NEW D, NEW S, Good(sh, F, D, S), NEW ns, Cache(sh, D, ns), NEW p, NEW q, IsDir(ns, p), IsDir(ns, q),
           DirCluster(ns, p) = DirCluster(ns, q)
    PROVE  p = q
<1>1. CASE p = << >> \/ q = << >>
  <2>1. (p = << >> => DirCluster(ns, p) = Root) /\ (q = << >> => DirCluster(ns, q) = Root)
    BY DEF DirCluster
  <2>2. (p # << >> => DirCluster(ns, p) # Root) /\ (q # << >> => DirCluster(ns, q) # Root)
    BY DirIs
  <2> QED BY <1>1, <2>1, <2>2
<1>2. CASE p # << >> /\ q # << >>
  <2>1. /\ p \in DOMAIN ns /\ ns[p].dc = Root /\ DirCluster(ns, p) = ns[p].cl /\ p \in Places /\ Len(p) = 1
        /\ q \in DOMAIN ns /\ ns[q].dc = Root /\ DirCluster(ns, q) = ns[q].cl /\ q \in Places /\ Len(q) = 1
    BY <1>2, DirIs
  <2>2. Lives(D, Root, ns[p].slot) /\ Lives(D, Root, ns[q].slot)
    BY <2>1, NodeLives
  <2>3. /\ ns[p].slot \in 1 .. Slots /\ D[Root][ns[p].slot].cl = ns[p].cl /\ D[Root][ns[p].slot].name = Name(p)
        /\ ns[q].slot \in 1 .. Slots /\ D[Root][ns[q].slot].cl = ns[q].cl /\ D[Root][ns[q].slot].name = Name(q)
    BY <2>1, CacheAt
  <2>4. ns[p].slot = ns[q].slot
    <3> DEFINE k == ns[p].slot
               l == ns[q].slot
    <3>1. /\ k \in 1 .. Slots /\ l \in 1 .. Slots /\ Lives(D, Root, k) /\ Lives(D, Root, l)
          /\ D[Root][k].cl = D[Root][l].cl /\ Root \in Cluster
      BY <2>1, <2>2, <2>3, FsConstants
    <3> HIDE DEF k, l
    <3>2. k = l
      BY <3>1, ClusterTells
    <3> QED BY <3>2 DEF k, l
  <2>5. Name(p) = Name(q) /\ Parent(p) = Parent(q)
    BY <2>1, <2>3, <2>4, PathIs
  <2> QED BY <2>1, <2>5, PathIs
<1> QED BY <1>1, <1>2

LEMMA PlacesApart ==
    ASSUME NEW sh, NEW F, NEW D, NEW S, Good(sh, F, D, S), NEW ns, Cache(sh, D, ns), NEW p \in DOMAIN ns, NEW q \in DOMAIN ns,
           ns[p].dc = ns[q].dc
    PROVE  Parent(p) = Parent(q) /\ (ns[p].slot = ns[q].slot => p = q)
<1>1. Parent(p) = Parent(q)
  <2>1. /\ IsDir(ns, Parent(p)) /\ ns[p].dc = DirCluster(ns, Parent(p))
        /\ IsDir(ns, Parent(q)) /\ ns[q].dc = DirCluster(ns, Parent(q))
    BY CacheAt
  <2> QED BY <2>1, DirsApart
<1>2. ASSUME ns[p].slot = ns[q].slot PROVE p = q
  <2>1. /\ p \in Places /\ q \in Places
        /\ D[ns[p].dc][ns[p].slot].name = Name(p) /\ D[ns[q].dc][ns[q].slot].name = Name(q)
    BY CacheAt
  <2>2. Name(p) = Name(q)
    BY <1>2, <2>1
  <2> QED BY <1>1, <2>1, <2>2, PathIs
<1> QED BY <1>1, <1>2

-----------------------------------------------------------------------------
\* The cache ms holds what ns held; the directory p is cached with all its entries.
Extends(ms, ns) == DOMAIN ns \subseteq DOMAIN ms /\ \A q \in DOMAIN ns : ms[q] = ns[q]
Full(sh, D, ns, p) ==
    sh \/ (IsDir(ns, p) => \A k \in 1 .. Slots :
                              LET e == D[DirCluster(ns, p)][k]
                              IN  e.st = "live" => Append(p, e.name) \in DOMAIN ns)

LEMMA DirStays ==
    ASSUME NEW ms, NEW ns, Extends(ms, ns), NEW p, IsDir(ns, p)
    PROVE  IsDir(ms, p) /\ DirCluster(ms, p) = DirCluster(ns, p)
BY DEF Extends, IsDir, DirCluster, Cached

\* Old nodes stay right in a larger cache.
LEMMA NodeStays ==
    ASSUME NEW sh, NEW D, NEW ms, NEW ns, Extends(ms, ns), Cache(sh, D, ns), NEW p \in DOMAIN ns,
           NEW E, E[ns[p].dc][ns[p].slot] = D[ns[p].dc][ns[p].slot]
    PROVE  NodeOK(E, ms, p) /\ ms[p] \in Node
<1>1. ms[p] = ns[p] /\ ns[p] \in Node
  BY CacheAt DEF Extends
<1>2. IsDir(ms, Parent(p)) /\ ns[p].dc = DirCluster(ms, Parent(p))
  BY CacheAt, DirStays
<1>3. NodeOK(D, ns, p)
  BY DEF Cache
<1> QED BY <1>1, <1>2, <1>3 DEF NodeOK

\* The entries fat_readdir makes nodes for have all the names that there are.
LEMMA FirstIs ==
    ASSUME NEW c, NEW k \in 1 .. Slots, dir[c][k].st = "live"
    PROVE  \E j \in First(c) : dir[c][j].name = dir[c][k].name
<1> DEFINE T == {j \in 1 .. Slots : dir[c][j].st = "live" /\ dir[c][j].name = dir[c][k].name}
<1>1. T \in SUBSET Nat /\ T # {}
  BY FsConstants
<1>2. PICK j \in T : \A i \in T : j <= i
  BY <1>1, LeastNat
<1>3. ASSUME NEW i \in 1 .. j - 1, dir[c][i].st = "live" PROVE dir[c][i].name # dir[c][j].name
  <2>1. i \in 1 .. Slots /\ ~(j <= i)
    BY FsConstants
  <2>2. i \notin T
    BY <1>2, <2>1
  <2> QED BY <1>3, <2>1, <2>2
<1> QED BY <1>2, <1>3 DEF First

LEMMA ReaddirKeeps ==
    ASSUME NEW sh, NEW S, Good(sh, fat, dir, S), NEW ns, Cache(sh, dir, ns), NEW p, NEW max,
           Missed(ns, p, max) => sh, NEW ms, ms = Readdir(ns, p, max)
    PROVE  Cache(sh, dir, ms) /\ Extends(ms, ns) /\ Full(sh, dir, ms, p)
<1>1. CASE ~IsDir(ns, p) \/ Children(ns, p) # {}
  <2>1. ms = ns
    BY <1>1 DEF Readdir, Unread
  <2>2. ASSUME ~sh, IsDir(ns, p), NEW k \in 1 .. Slots, dir[DirCluster(ns, p)][k].st = "live"
        PROVE  Append(p, dir[DirCluster(ns, p)][k].name) \in DOMAIN ns
    <3>1. PICK q \in DOMAIN ns : Parent(q) = p
      BY <1>1, <2>2 DEF Children
    <3>2. ns[q].dc = DirCluster(ns, p)
      BY <3>1, CacheAt
    <3> QED BY <2>2, <3>1, <3>2, CacheFull
  <2> QED BY <2>1, <2>2 DEF Extends, Full
<1>2. CASE IsDir(ns, p) /\ Children(ns, p) = {}
  <2> DEFINE dc == DirCluster(ns, p)
             live == Made(ns, dc, max)
             at(q) == CHOOSE k \in live : dir[dc][k].name = Name(q)
             new == {Append(p, dir[dc][k].name) : k \in live}
             node(q) == [kind |-> dir[dc][at(q)].kind, size |-> dir[dc][at(q)].size,
                         cl |-> dir[dc][at(q)].cl, dc |-> dc, slot |-> at(q)]
  <2>1. ms = [q \in DOMAIN ns \cup new |-> IF q \in new THEN node(q) ELSE ns[q]]
    BY <1>2 DEF Readdir, Unread
  <2>2. dc \in Cluster /\ (p = << >> \/ (p \in Places /\ Len(p) = 1))
    BY <1>2, DirIs
  <2>6. \A k \in live : k \in 1 .. Slots /\ dir[dc][k].st = "live"
    BY DEF Made, First
  <2>3. \A k \in live : dir[dc][k] \in LiveEntry /\ dir[dc][k].name \in Names
    <3>1. \A k \in live : dir[dc][k] \in LiveEntry
      BY <2>2, <2>6, EntryType DEF Good
    <3> QED BY <3>1 DEF LiveEntry
  <2>4. ASSUME NEW q \in new
        PROVE  /\ q \in Places /\ Parent(q) = p /\ at(q) \in live /\ dir[dc][at(q)].name = Name(q)
    <3>1. PICK k \in live : q = Append(p, dir[dc][k].name)
      OBVIOUS
    <3>2. q \in Places /\ Parent(q) = p /\ Name(q) = dir[dc][k].name
      BY <2>2, <2>3, <3>1, ChildIs
    <3>3. \E j \in live : dir[dc][j].name = Name(q)
      BY <3>2
    <3>4. at(q) \in live /\ dir[dc][at(q)].name = Name(q)
      BY <3>3
    <3> QED BY <3>2, <3>4
  <2>5. ASSUME ~sh, NEW k \in 1 .. Slots, dir[dc][k].st = "live"
        PROVE  Append(p, dir[dc][k].name) \in new
    <3>1. live = First(dc)
      BY <1>2, <2>5 DEF Missed, Unread
    <3>2. PICK j \in First(dc) : dir[dc][j].name = dir[dc][k].name
      BY <2>5, FirstIs
    <3> QED BY <3>1, <3>2
  <2>7. dc = DirCluster(ns, p)
    OBVIOUS
  <2>8. ASSUME NEW q \in new
        PROVE  /\ node(q) \in Node /\ node(q).dc = dc /\ node(q).slot = at(q)
               /\ node(q).kind = dir[dc][at(q)].kind /\ node(q).cl = dir[dc][at(q)].cl
               /\ node(q).size = dir[dc][at(q)].size
    <3> HIDE DEF at, live, new, dc
    <3>1. at(q) \in 1 .. Slots /\ dir[dc][at(q)] \in LiveEntry
      BY <2>3, <2>4, <2>6
    <3> QED BY <2>2, <3>1 DEF LiveEntry, Node
  <2> HIDE DEF new, live, node, at, dc
  <2>9. \A q \in DOMAIN ns : q \notin new
    BY <1>2, <2>4 DEF Children
  <2>10. DOMAIN ms = DOMAIN ns \cup new /\ (\A q \in new : ms[q] = node(q)) /\ \A q \in DOMAIN ns : ms[q] = ns[q]
    BY <2>1, <2>9
  <2>11. Extends(ms, ns)
    BY <2>10 DEF Extends
  <2>12. IsDir(ms, p) /\ DirCluster(ms, p) = dc
    BY <1>2, <2>7, <2>11, DirStays
  <2>13. ASSUME NEW q \in DOMAIN ms PROVE NodeOK(dir, ms, q) /\ ms[q] \in Node /\ q \in Places
    <3>1. CASE q \in DOMAIN ns
      BY <2>11, <3>1, NodeStays, CacheAt
    <3>2. CASE q \in new
      <4>1. ms[q] = node(q) /\ ms[q] \in Node /\ q \in Places /\ Parent(q) = p
        BY <2>4, <2>8, <2>10, <3>2
      <4>2. dir[dc][at(q)].st = "live" /\ dir[dc][at(q)].name = Name(q)
        BY <2>4, <2>6, <3>2
      <4> QED BY <2>8, <2>12, <3>2, <4>1, <4>2 DEF NodeOK
    <3> QED BY <2>10, <3>1, <3>2
  <2>14. ASSUME ~sh, NEW q \in DOMAIN ms, NEW k \in 1 .. Slots, dir[ms[q].dc][k].st = "live"
         PROVE  Append(Parent(q), dir[ms[q].dc][k].name) \in DOMAIN ms
    <3>1. CASE q \in DOMAIN ns
      BY <2>10, <2>14, <3>1, CacheFull
    <3>2. CASE q \in new
      <4>1. ms[q].dc = dc /\ Parent(q) = p
        BY <2>4, <2>8, <2>10, <3>2
      <4> QED BY <2>5, <2>10, <2>14, <4>1
    <3> QED BY <2>10, <3>1, <3>2
  <2>15. ms \in [DOMAIN ms -> Node]
    BY <2>1, <2>13
  <2>16. Cache(sh, dir, ms)
    BY <2>13, <2>14, <2>15 DEF Cache
  <2>17. Full(sh, dir, ms, p)
    BY <2>5, <2>10, <2>12 DEF Full
  <2> QED BY <2>11, <2>16, <2>17
<1> QED BY <1>1, <1>2

LEMMA ExtendsFurther ==
    ASSUME NEW a, NEW b, NEW c, Extends(b, a), Extends(c, b)
    PROVE  Extends(c, a)
BY DEF Extends

\* vfs_resolve: the parent directory, if there is one, is cached with all its entries.
LEMMA ResolveKeeps ==
    ASSUME NEW sh, NEW S, Good(sh, fat, dir, S), NEW ns, Cache(sh, dir, ns), NEW p \in Places, NEW max,
           ResolveMissed(ns, p, max) => sh, NEW ms, ms = Resolve(ns, p, max)
    PROVE  Cache(sh, dir, ms) /\ Extends(ms, ns) /\ Full(sh, dir, ms, Parent(p))
<1> DEFINE r == Readdir(ns, << >>, max)
<1>1. Cache(sh, dir, r) /\ Extends(r, ns) /\ Full(sh, dir, r, << >>)
  BY ReaddirKeeps DEF ResolveMissed
<1> HIDE DEF r
<1>2. CASE Len(p) = 1
  <2>1. ms = r /\ Parent(p) = << >>
    BY <1>2, PathIs DEF Resolve, r
  <2> QED BY <1>1, <2>1
<1>3. CASE Len(p) = 2
  <2>1. ms = Readdir(r, Parent(p), max) /\ (Missed(r, Parent(p), max) => sh)
    BY <1>3 DEF Resolve, ResolveMissed, r
  <2>2. Cache(sh, dir, ms) /\ Extends(ms, r) /\ Full(sh, dir, ms, Parent(p))
    BY <1>1, <2>1, ReaddirKeeps
  <2> QED BY <1>1, <2>2, ExtendsFurther
<1> QED BY <1>2, <1>3, PathIs

\* What programs name.
LEMMA PathsArePlaces == Paths \subseteq Places
BY FsSizes DEF Places

\* fat_create: the entry that it writes is at the place of no node.
LEMMA NodesAside ==
    ASSUME NEW sh, NEW S, Good(sh, fat, dir, S), NEW ns, Cache(sh, dir, ns), NEW p, IsDir(ns, p),
           NEW c, c = DirCluster(ns, p), NEW k \in 1 .. Slots, dir[c][k].st # "live",
           NEW a \in Cluster, fat[a] = Free, NEW e, NEW E, E = Put(Zeroed(dir, a), c, k, e)
    PROVE  /\ c \in Cluster /\ c # a /\ E[c][k] = e /\ \A l \in 1 .. Slots : l # k => E[c][l] = dir[c][l]
           /\ \A q \in DOMAIN ns, l \in 1 .. Slots :
                 ns[q].dc # c \/ l # k => E[ns[q].dc][l] = dir[ns[q].dc][l]
           /\ \A q \in DOMAIN ns : E[ns[q].dc][ns[q].slot] = dir[ns[q].dc][ns[q].slot]
<1> DEFINE Z == Zeroed(dir, a)
<1>1. c \in Cluster /\ InTree(dir, c) /\ dir \in Dirs /\ a # Root /\ Unowned(S, a)
  <2>1. c \in Cluster /\ InTree(dir, c)
    BY DirIs
  <2>2. a # Root /\ Unowned(S, a)
    BY FreeUnowned
  <2>3. dir \in Dirs
    BY DEF Good
  <2> QED BY <2>1, <2>2, <2>3
<1>2. Z \in Tables(Ents) /\ \A y \in Cluster : y # a => Z[y] = dir[y]
  <2>1. NoEntries \in [1 .. Slots -> Ents]
    BY DEF NoEntries, Ents
  <2> QED BY <1>1, <2>1 DEF Zeroed, NoEntries, End, Dirs, Tables
<1> HIDE DEF Z
<1>3. E[c][k] = e /\ \A d \in Cluster, l \in 1 .. Slots : d # c \/ l # k => E[d][l] = Z[d][l]
  BY <1>1, <1>2, PutIs DEF Z
<1>4. \A y \in Cluster : InTree(dir, y) => y # a
  BY <1>1, InTreeOwned
<1>5. ASSUME NEW q \in DOMAIN ns
      PROVE  \A l \in 1 .. Slots : ns[q].dc # c \/ l # k => E[ns[q].dc][l] = dir[ns[q].dc][l]
  <2>1. ns[q].dc \in Cluster /\ InTree(dir, ns[q].dc)
    BY NodeLives, CacheAt DEF Lives
  <2> QED BY <1>2, <1>3, <1>4, <2>1
<1>6. ASSUME NEW q \in DOMAIN ns PROVE E[ns[q].dc][ns[q].slot] = dir[ns[q].dc][ns[q].slot]
  <2>1. dir[ns[q].dc][ns[q].slot].st = "live" /\ ns[q].slot \in 1 .. Slots
    BY CacheAt
  <2> QED BY <1>5, <2>1
<1> QED BY <1>1, <1>2, <1>3, <1>4, <1>5, <1>6

\* Without room for a node, the cache does without it.
LEMMA NoNodeShows ==
    ASSUME NEW sh, NEW S, Good(sh, fat, dir, S), NEW ns, Cache(sh, dir, ns), NEW p, IsDir(ns, p),
           NEW c, c = DirCluster(ns, p), NEW k \in 1 .. Slots, dir[c][k].st # "live",
           NEW a \in Cluster, fat[a] = Free, NEW e, NEW E, E = Put(Zeroed(dir, a), c, k, e)
    PROVE  sh => Cache(sh, E, ns)
<1>1. \A q \in DOMAIN ns : E[ns[q].dc][ns[q].slot] = dir[ns[q].dc][ns[q].slot]
  BY NodesAside
<1>2. Extends(ns, ns)
  BY DEF Extends
<1>3. ASSUME NEW q \in DOMAIN ns PROVE NodeOK(E, ns, q)
  <2>1. E[ns[q].dc][ns[q].slot] = dir[ns[q].dc][ns[q].slot]
    BY <1>1
  <2> QED BY <1>2, <2>1, NodeStays
<1> QED BY <1>3 DEF Cache

\* vfs_create and vfs_mkdir: a node for an entry that the directory did not have.
LEMMA NewNodeShows ==
    ASSUME NEW sh, NEW S, Good(sh, fat, dir, S), NEW ns, Cache(sh, dir, ns), NEW p \in Places, p \notin DOMAIN ns,
           IsDir(ns, Parent(p)), Full(sh, dir, ns, Parent(p)),
           NEW c, c = DirCluster(ns, Parent(p)), NEW k \in 1 .. Slots, k = FreeSlot(c), dir[c][k].st # "live",
           NEW a \in Cluster, fat[a] = Free, NEW kind \in {"file", "dir"},
           NEW e, e = [st |-> "live", name |-> Name(p), kind |-> kind, cl |-> a, size |-> 0],
           NEW ms, ms = NewNode(ns, p, kind, a)
    PROVE  Cache(sh, Put(Zeroed(dir, a), c, k, e), ms) /\ Extends(ms, ns) /\ p \in DOMAIN ms
           /\ ms[p].kind = kind /\ ms[p].size = 0
<1> DEFINE E == Put(Zeroed(dir, a), c, k, e)
           n == [kind |-> kind, size |-> 0, cl |-> a, dc |-> c, slot |-> k]
<1>1. ms = [q \in DOMAIN ns \cup {p} |-> IF q = p THEN n ELSE ns[q]]
  BY DEF NewNode
<1>2. /\ c \in Cluster /\ E[c][k] = e /\ \A l \in 1 .. Slots : l # k => E[c][l] = dir[c][l]
      /\ \A q \in DOMAIN ns, l \in 1 .. Slots :
            ns[q].dc # c \/ l # k => E[ns[q].dc][l] = dir[ns[q].dc][l]
      /\ \A q \in DOMAIN ns : E[ns[q].dc][ns[q].slot] = dir[ns[q].dc][ns[q].slot]
  BY NodesAside
<1>3. n \in Node /\ n.kind = kind /\ n.size = 0 /\ n.cl = a /\ n.dc = c /\ n.slot = k
  BY <1>2, FsConstants DEF Node
<1> HIDE DEF n, E
<1>4. DOMAIN ms = DOMAIN ns \cup {p} /\ ms[p] = n /\ \A q \in DOMAIN ns : ms[q] = ns[q]
  BY <1>1
<1>5. Extends(ms, ns)
  BY <1>4 DEF Extends
<1>9. e.st = "live" /\ e.name = Name(p) /\ e.kind = kind /\ e.cl = a /\ e.size = 0
  OBVIOUS
<1>10. IsDir(ms, Parent(p)) /\ DirCluster(ms, Parent(p)) = c
  BY <1>5, DirStays
<1>12. ASSUME NEW q \in DOMAIN ms PROVE NodeOK(E, ms, q) /\ ms[q] \in Node /\ q \in Places
  <2>1. CASE q \in DOMAIN ns
    <3>1. E[ns[q].dc][ns[q].slot] = dir[ns[q].dc][ns[q].slot]
      BY <1>2, <2>1
    <3> QED BY <1>5, <2>1, <3>1, NodeStays, CacheAt
  <2>2. CASE q = p
    BY <1>2, <1>3, <1>4, <1>9, <1>10, <2>2 DEF NodeOK
  <2> QED BY <1>4, <2>1, <2>2
<1>13. ~sh => \A l \in 1 .. Slots : dir[c][l].st = "live" => Append(Parent(p), dir[c][l].name) \in DOMAIN ns
  BY DEF Full
<1>14. ASSUME ~sh, NEW q \in DOMAIN ms, NEW l \in 1 .. Slots, E[ms[q].dc][l].st = "live"
       PROVE  Append(Parent(q), E[ms[q].dc][l].name) \in DOMAIN ms
  <2>1. CASE q \in DOMAIN ns /\ (ns[q].dc # c \/ l # k)
    <3>1. E[ms[q].dc][l] = dir[ns[q].dc][l] /\ ms[q] = ns[q]
      BY <1>2, <1>4, <2>1
    <3> QED BY <1>4, <1>14, <2>1, <3>1, CacheFull
  <2>2. CASE q \in DOMAIN ns /\ ns[q].dc = c /\ l = k
    <3>1. Parent(q) = Parent(p)
      <4>1. IsDir(ns, Parent(q)) /\ DirCluster(ns, Parent(q)) = c
        BY <2>2, CacheAt
      <4> QED BY <4>1, DirsApart
    <3>2. E[ms[q].dc][l] = e
      BY <1>2, <1>4, <2>2
    <3>3. Append(Parent(q), e.name) = p
      BY <1>9, <3>1, PathIs
    <3> QED BY <1>4, <3>2, <3>3
  <2>3. CASE q = p /\ l = k
    <3>1. E[ms[q].dc][l] = e
      BY <1>2, <1>3, <1>4, <2>3
    <3>2. Append(Parent(p), e.name) = p
      BY <1>9, PathIs
    <3> QED BY <1>4, <2>3, <3>1, <3>2
  <2>4. CASE q = p /\ l # k
    <3>1. E[ms[q].dc][l] = dir[c][l]
      BY <1>2, <1>3, <1>4, <2>4
    <3> QED BY <1>4, <1>13, <1>14, <2>4, <3>1
  <2> QED BY <1>4, <2>1, <2>2, <2>3, <2>4
<1>15. ms \in [DOMAIN ms -> Node]
  BY <1>1, <1>12
<1>16. Cache(sh, E, ms)
  BY <1>12, <1>14, <1>15 DEF Cache
<1> QED BY <1>3, <1>4, <1>5, <1>16 DEF E

\* A node gets a new size: that of its entry, or 0.
Sized(ns, p, v) == [ns EXCEPT ![p].size = v]
LEMMA SizedIs ==
    ASSUME NEW ns, ns \in [DOMAIN ns -> Node], NEW p \in DOMAIN ns, NEW v \in Nat, NEW ms, ms = Sized(ns, p, v)
    PROVE  /\ DOMAIN ms = DOMAIN ns /\ ms \in [DOMAIN ms -> Node]
           /\ \A q \in DOMAIN ns : /\ ms[q].kind = ns[q].kind /\ ms[q].cl = ns[q].cl
                                   /\ ms[q].dc = ns[q].dc /\ ms[q].slot = ns[q].slot
                                   /\ q # p => ms[q].size = ns[q].size
           /\ ms[p].size = v
<1>1. \A q \in DOMAIN ns : ns[q] \in Node
  OBVIOUS
<1>2. DOMAIN ms = DOMAIN ns
  BY DEF Sized
<1>3. ms[p] = [ns[p] EXCEPT !.size = v] /\ \A q \in DOMAIN ns : q # p => ms[q] = ns[q]
  BY DEF Sized
<1>4. /\ ms[p] \in Node /\ ms[p].kind = ns[p].kind /\ ms[p].cl = ns[p].cl
      /\ ms[p].dc = ns[p].dc /\ ms[p].slot = ns[p].slot /\ ms[p].size = v
  BY <1>1, <1>3 DEF Node
<1>5. ms \in [DOMAIN ms -> Node]
  BY <1>1, <1>2, <1>3, <1>4 DEF Sized
<1> QED BY <1>2, <1>3, <1>4, <1>5

LEMMA SizeShows ==
    ASSUME NEW sh, NEW F, NEW D, NEW S, Good(sh, F, D, S), NEW ns, Cache(sh, D, ns), NEW p \in DOMAIN ns, NEW v \in Nat,
           NEW ms, ms = Sized(ns, p, v), NEW c, c = ns[p].dc, NEW k, k = ns[p].slot,
           NEW E, E[c][k].st = "live", E[c][k].name = D[c][k].name, E[c][k].kind = D[c][k].kind,
           E[c][k].cl = D[c][k].cl, v \in {0, E[c][k].size},
           \A d \in Cluster, l \in 1 .. Slots : d # c \/ l # k => E[d][l] = D[d][l]
    PROVE  Cache(sh, E, ms)
<1>1. ns \in [DOMAIN ns -> Node] /\ DOMAIN ns \subseteq Places
  BY DEF Cache
<1>2. /\ DOMAIN ms = DOMAIN ns /\ ms \in [DOMAIN ms -> Node]
      /\ \A q \in DOMAIN ns : /\ ms[q].kind = ns[q].kind /\ ms[q].cl = ns[q].cl
                              /\ ms[q].dc = ns[q].dc /\ ms[q].slot = ns[q].slot
                              /\ q # p => ms[q].size = ns[q].size
      /\ ms[p].size = v
  BY <1>1, SizedIs
<1>3. ASSUME NEW q PROVE (IsDir(ms, q) <=> IsDir(ns, q)) /\ (IsDir(ns, q) => DirCluster(ms, q) = DirCluster(ns, q))
  BY <1>2 DEF IsDir, Cached, DirCluster
<1>4. ASSUME NEW q \in DOMAIN ns PROVE NodeOK(E, ms, q)
  <2>1. /\ IsDir(ns, Parent(q)) /\ ns[q].dc = DirCluster(ns, Parent(q))
        /\ ns[q].dc \in Cluster /\ ns[q].slot \in 1 .. Slots
    BY CacheAt, SMTT(30)
  <2>2. IsDir(ms, Parent(q)) /\ ms[q].dc = DirCluster(ms, Parent(q))
    BY <1>2, <1>3, <2>1
  <2>3. NodeOK(D, ns, q)
    BY DEF Cache
  <2>4. CASE q = p
    BY <1>2, <2>2, <2>3, <2>4 DEF NodeOK
  <2>5. CASE q # p
    <3>1. ns[q].dc # c \/ ns[q].slot # k
      BY <2>5, PlacesApart
    <3>2. E[ns[q].dc][ns[q].slot] = D[ns[q].dc][ns[q].slot]
      BY <2>1, <3>1
    <3> QED BY <1>2, <2>2, <2>3, <2>5, <3>2 DEF NodeOK
  <2> QED BY <2>4, <2>5
<1>5. ASSUME ~sh, NEW q \in DOMAIN ns, NEW l \in 1 .. Slots, E[ms[q].dc][l].st = "live"
      PROVE  Append(Parent(q), E[ms[q].dc][l].name) \in DOMAIN ms
  <2>1. ms[q].dc = ns[q].dc /\ ns[q].dc \in Cluster /\ D[c][k].st = "live"
    BY <1>2, CacheAt, SMTT(30)
  <2>2. D[ns[q].dc][l].st = "live" /\ E[ns[q].dc][l].name = D[ns[q].dc][l].name
    <3>1. CASE ns[q].dc = c /\ l = k
      BY <2>1, <3>1
    <3>2. CASE ns[q].dc # c \/ l # k
      BY <1>5, <2>1, <3>2
    <3> QED BY <3>1, <3>2
  <2>3. Append(Parent(q), D[ns[q].dc][l].name) \in DOMAIN ns
    BY <1>5, <2>2, CacheFull
  <2> QED BY <1>2, <2>1, <2>2, <2>3
<1> QED BY <1>1, <1>2, <1>4, <1>5 DEF Cache

\* vfs_unlink: without the nodes at and below p the cache shows the disk without its entry.
LEMMA DroppedShows ==
    ASSUME NEW sh, NEW F, NEW D, NEW S, Good(sh, F, D, S), NEW ns, Cache(sh, D, ns), NEW p \in Places,
           IsDir(ns, Parent(p)), NEW c, c = DirCluster(ns, Parent(p)), NEW k \in 1 .. Slots,
           D[c][k].st = "live", D[c][k].name = Name(p), NEW ms, ms = Dropped(ns, p)
    PROVE  Cache(sh, Put(D, c, k, Del), ms)
<1> DEFINE E == Put(D, c, k, Del)
<1>1. c \in Cluster /\ D \in Tables(Ents) /\ Lives(D, c, k)
  <2>1. c \in Cluster /\ InTree(D, c)
    BY DirIs
  <2>2. D \in Dirs
    BY DEF Good
  <2> QED BY <2>1, <2>2 DEF Dirs, Lives
<1>2. E[c][k] = Del /\ \A d \in Cluster, l \in 1 .. Slots : d # c \/ l # k => E[d][l] = D[d][l]
  BY <1>1, PutIs
<1> HIDE DEF E
<1>3. /\ DOMAIN ms = {q \in DOMAIN ns : ~IsPrefix(p, q)} /\ \A q \in DOMAIN ms : ms[q] = ns[q]
  BY DEF Dropped
<1>4. p \notin DOMAIN ms
  BY <1>1, <1>3, PrefixIs
<1>5. ASSUME NEW q \in DOMAIN ms
      PROVE  q \in DOMAIN ns /\ ~IsPrefix(p, q) /\ ms[q] = ns[q] /\ q \in Places /\ ns[q] \in Node /\ q # p
  BY <1>3, <1>4, CacheAt
<1>6. ASSUME NEW q \in DOMAIN ms PROVE NodeOK(E, ms, q)
  <2>1. /\ IsDir(ns, Parent(q)) /\ ns[q].dc = DirCluster(ns, Parent(q))
        /\ ns[q].dc \in Cluster /\ ns[q].slot \in 1 .. Slots
    BY <1>5, CacheAt
  <2>2. ~IsPrefix(p, Parent(q))
    BY <1>1, <1>5, PrefixIs
  <2>3. IsDir(ms, Parent(q)) /\ ns[q].dc = DirCluster(ms, Parent(q))
    <3>1. Parent(q) # << >> => Parent(q) \in DOMAIN ms
      BY <1>3, <2>1, <2>2 DEF IsDir, Cached
    <3> QED BY <1>3, <2>1, <3>1 DEF IsDir, Cached, DirCluster
  <2>4. NodeOK(D, ns, q)
    BY <1>5 DEF Cache
  <2>5. ns[q].dc # c \/ ns[q].slot # k
    <3> SUFFICES ASSUME ns[q].dc = c, ns[q].slot = k PROVE FALSE
      OBVIOUS
    <3>1. Parent(q) = Parent(p)
      BY <2>1, DirsApart
    <3>2. Name(q) = Name(p)
      BY <1>5, CacheAt
    <3> QED BY <1>5, <3>1, <3>2, PathIs
  <2>6. E[ns[q].dc][ns[q].slot] = D[ns[q].dc][ns[q].slot]
    BY <1>2, <2>1, <2>5
  <2> QED BY <1>5, <2>3, <2>4, <2>6 DEF NodeOK
<1>7. ASSUME ~sh, NEW q \in DOMAIN ms, NEW l \in 1 .. Slots, E[ms[q].dc][l].st = "live"
      PROVE  Append(Parent(q), E[ms[q].dc][l].name) \in DOMAIN ms
  <2>1. ms[q] = ns[q] /\ ns[q].dc \in Cluster /\ q \in DOMAIN ns
    BY <1>5, CacheAt
  <2>2. ns[q].dc # c \/ l # k
    BY <1>2, <1>7, <2>1 DEF Del
  <2>3. E[ms[q].dc][l] = D[ns[q].dc][l] /\ D[ns[q].dc][l].st = "live"
    BY <1>2, <1>7, <2>1, <2>2
  <2> DEFINE r == Append(Parent(q), D[ns[q].dc][l].name)
  <2>4. r \in DOMAIN ns
    BY <1>7, <2>1, <2>3, CacheFull
  <2>5. r \in Places /\ Parent(r) = Parent(q) /\ Name(r) = D[ns[q].dc][l].name
    <3>1. Parent(q) = << >> \/ (Parent(q) \in Places /\ Len(Parent(q)) = 1)
      BY <1>5, PathIs
    <3>2. D[ns[q].dc][l].name \in Names
      <4>1. D[ns[q].dc][l] \in LiveEntry
        BY <2>1, <2>3, EntryType DEF Good
      <4> QED BY <4>1 DEF LiveEntry
    <3> QED BY <3>1, <3>2, ChildIs
  <2> HIDE DEF r
  <2>6. ~IsPrefix(p, r)
    <3> SUFFICES ASSUME IsPrefix(p, r) PROVE FALSE
      OBVIOUS
    <3>1. ~IsPrefix(p, Parent(r))
      BY <1>1, <1>5, <2>5, PrefixIs
    <3>2. p = r
      BY <1>1, <2>5, <3>1, PrefixIs
    <3>3. c = ns[q].dc
      <4>1. ns[q].dc = DirCluster(ns, Parent(q))
        BY <2>1, CacheAt
      <4> QED BY <2>5, <3>2, <4>1
    <3>5. Lives(D, c, l)
      BY <1>1, <2>3, <3>3 DEF Lives
    <3>6. k = l
      BY <1>1, <1>7, <2>5, <3>2, <3>3, <3>5 DEF Good, NamesApart
    <3> QED BY <2>2, <3>3, <3>6
  <2>7. r \in DOMAIN ms
    BY <1>3, <2>4, <2>6
  <2> QED BY <2>3, <2>7 DEF r
<1>8. ms \in [DOMAIN ms -> Node]
  BY <1>3, <1>5 DEF Dropped
<1>9. Cache(sh, E, ms)
  BY <1>5, <1>6, <1>7, <1>8 DEF Cache
<1> QED BY <1>9 DEF E

-----------------------------------------------------------------------------
\* An open file_t has the node of a file, and stands past its end only if pa.
Handle == [path : Places \cup {<< >>}, off : Nat]
FileOK(h, ns, pa) == h.path \in DOMAIN ns /\ ns[h.path].kind = "file" /\ (pa \/ h.off <= ns[h.path].size)
FilesOK(o, ns, pa) ==
    o \in [1 .. MaxFiles -> Handle] /\ \A f \in 1 .. MaxFiles : o[f] # NoFile => FileOK(o[f], ns, pa)

\* The inductive invariant, while all names are lower case: the writes still to be made keep the
\* disk sound and end where the cache is.
TheDisk == [fat |-> fat, dir |-> dir]
FsCore ==
    /\ TheDisk \in Disk /\ todo \in Seq(Writes) /\ lost \in BOOLEAN /\ past \in BOOLEAN
    /\ Pending(short, todo, TheDisk, nodes, lost)
    /\ FilesOK(open, nodes, past)
FsInv == mixed \in BOOLEAN /\ (mixed \/ FsCore)

LEMMA WhenReady ==
    ASSUME FsCore, Ready, NEW sh, short => sh
    PROVE  \E S : Good(sh, fat, dir, S) /\ Cache(sh, dir, nodes) /\ (lost \/ AllUsed(fat, S))
<1>1. Settled(short, TheDisk, nodes, lost)
  BY NothingPending DEF FsCore, Ready
<1>2. PICK S : Good(short, fat, dir, S) /\ Cache(short, dir, nodes) /\ (lost \/ AllUsed(fat, S))
  BY <1>1 DEF Settled, TheDisk
<1> QED BY <1>2, GoodLater, CacheLater

LEMMA Settles ==
    ASSUME NEW sh, NEW S, Good(sh, fat, dir, S), NEW ns, Cache(sh, dir, ns), NEW lo, lo \/ AllUsed(fat, S)
    PROVE  Pending(sh, << >>, TheDisk, ns, lo)
<1>1. TheDisk \in Disk /\ TheDisk.fat = fat /\ TheDisk.dir = dir
  BY DEF TheDisk, Disk, Good
<1>2. Settled(sh, TheDisk, ns, lo)
  BY <1>1 DEF Settled
<1> QED BY <1>1, <1>2, NothingPending

LEMMA FilesStay ==
    ASSUME NEW o, NEW ns, NEW pa, FilesOK(o, ns, pa), NEW ms, Extends(ms, ns)
    PROVE  FilesOK(o, ms, pa)
BY DEF FilesOK, FileOK, Extends

LEMMA OpenFileIs ==
    ASSUME NEW ns, NEW pa, FilesOK(open, ns, pa), NEW p \in Places, p \in DOMAIN ns, ns[p].kind = "file",
           ns[p].size \in Nat, OpenFile(p)
    PROVE  FilesOK(open', ns, pa)
<1> DEFINE g == CHOOSE f \in Unused : \A h \in Unused : f <= h
           n == [path |-> p, off |-> 0]
<1>5. SUFFICES ASSUME Unused # {}, open' = [open EXCEPT ![g] = n] PROVE FilesOK(open', ns, pa)
  BY DEF OpenFile
<1>1. g \in 1 .. MaxFiles
  <2>1. Unused \in SUBSET Nat
    BY FsConstants DEF Unused
  <2>2. \E f \in Unused : \A h \in Unused : f <= h
    BY <1>5, <2>1, LeastNat
  <2> QED BY <2>2 DEF Unused
<1>2. open' = [open EXCEPT ![g] = n]
  BY <1>5
<1>3. n \in Handle /\ n.path = p /\ n.off = 0
  BY DEF Handle
<1> HIDE DEF g, n
<1>4. FileOK(n, ns, pa)
  BY <1>3 DEF FileOK
<1> QED BY <1>1, <1>2, <1>3, <1>4 DEF FilesOK

\* One lemma per action.
LEMMA VfsOpenKeeps ==
    ASSUME FsCore, NEW p \in Paths, NEW max, vfs_open(p, max)
    PROVE  FsCore'
<1> DEFINE ns == Resolve(nodes, p, max)
<1>1. /\ Ready /\ nodes' = ns /\ UNCHANGED <<fat, dir, todo, lost, past>>
      /\ IF Cached(ns, p) /\ ns[p].kind = "file" THEN OpenFile(p) ELSE UNCHANGED open
  BY DEF vfs_open
<1>20. (short => short') /\ (ResolveMissed(nodes, p, max) => short')
  BY DEF vfs_open
<1>2. PICK S : Good(short', fat, dir, S) /\ Cache(short', dir, nodes) /\ (lost \/ AllUsed(fat, S))
  BY <1>1, <1>20, WhenReady
<1>3. p \in Places
  BY PathsArePlaces
<1>4. Cache(short', dir, ns) /\ Extends(ns, nodes)
  BY <1>2, <1>3, <1>20, ResolveKeeps
<1> HIDE DEF ns
<1>5. Pending(short', << >>, TheDisk, ns, lost)
  BY <1>2, <1>4, Settles
<1>6. FilesOK(open, ns, past)
  BY <1>4, FilesStay DEF FsCore
<1>7. FilesOK(open', ns, past)
  <2>1. CASE Cached(ns, p) /\ ns[p].kind = "file"
    <3>1. p \in DOMAIN ns /\ ns[p].size \in Nat
      BY <1>4, <2>1, CacheAt DEF Cached
    <3>2. OpenFile(p)
      BY <1>1, <2>1
    <3> QED BY <1>1, <1>3, <1>6, <2>1, <3>1, <3>2, OpenFileIs
  <2>2. CASE ~(Cached(ns, p) /\ ns[p].kind = "file")
    BY <1>1, <1>6, <2>2
  <2> QED BY <2>1, <2>2
<1>8. TheDisk' = TheDisk /\ todo' = << >> /\ todo = << >>
  BY <1>1 DEF TheDisk, Ready
<1> QED BY <1>1, <1>5, <1>7, <1>8 DEF FsCore

LEMMA ReaddirActionKeeps ==
    ASSUME FsCore, NEW p \in Paths, NEW max, vfs_readdir(p, max)
    PROVE  FsCore'
<1> DEFINE r == Resolve(nodes, p, max)
           ns == Readdir(r, p, max)
<1>1. /\ Ready /\ nodes' = ns /\ UNCHANGED <<fat, dir, todo, open, lost, past>>
  BY DEF vfs_readdir
<1>20. (short => short') /\ (ResolveMissed(nodes, p, max) => short') /\ (Missed(r, p, max) => short')
  BY DEF vfs_readdir
<1>2. PICK S : Good(short', fat, dir, S) /\ Cache(short', dir, nodes) /\ (lost \/ AllUsed(fat, S))
  BY <1>1, <1>20, WhenReady
<1>3. p \in Places
  BY PathsArePlaces
<1>4. Cache(short', dir, r) /\ Extends(r, nodes)
  BY <1>2, <1>3, <1>20, ResolveKeeps
<1>5. Cache(short', dir, ns) /\ Extends(ns, nodes)
  BY <1>2, <1>4, <1>20, ReaddirKeeps, ExtendsFurther
<1> HIDE DEF r
<1> HIDE DEF ns
<1>6. Pending(short', << >>, TheDisk, ns, lost)
  BY <1>2, <1>5, Settles
<1>7. FilesOK(open, ns, past)
  BY <1>5, FilesStay DEF FsCore
<1>8. TheDisk' = TheDisk /\ todo' = << >> /\ todo = << >>
  BY <1>1 DEF TheDisk, Ready
<1> QED BY <1>1, <1>6, <1>7, <1>8 DEF FsCore

\* vfs_create of an existing file: past' holds if it was open.
LEMMA CreateExistingKeeps ==
    ASSUME FsCore, NEW p \in Paths, NEW max, vfs_create_existing(p, max)
    PROVE  FsCore'
<1> DEFINE ns == Resolve(nodes, p, max)
           ms == Sized(ns, p, 0)
<1>1. /\ Ready /\ UNCHANGED <<fat, dir, todo, lost>> /\ nodes' = ms
      /\ Cached(ns, p) /\ ns[p].kind = "file" /\ past' = (past \/ p \in OpenPaths) /\ OpenFile(p)
  BY DEF vfs_create_existing, Sized
<1>20. (short => short') /\ (ResolveMissed(nodes, p, max) => short')
  BY DEF vfs_create_existing
<1>2. PICK S : Good(short', fat, dir, S) /\ Cache(short', dir, nodes) /\ (lost \/ AllUsed(fat, S))
  BY <1>1, <1>20, WhenReady
<1>3. p \in Places
  BY PathsArePlaces
<1>4. Cache(short', dir, ns) /\ Extends(ns, nodes)
  BY <1>2, <1>3, <1>20, ResolveKeeps
<1> HIDE DEF ns
<1>5. p \in DOMAIN ns /\ ns \in [DOMAIN ns -> Node] /\ 0 \in Nat
  BY <1>1, <1>4 DEF Cached, Cache
<1>6. /\ DOMAIN ms = DOMAIN ns
      /\ \A q \in DOMAIN ns : ms[q].kind = ns[q].kind /\ (q # p => ms[q].size = ns[q].size)
      /\ ms[p].size = 0
  BY <1>5, SizedIs
<1>7. Cache(short', dir, ms)
  <2>1. dir[ns[p].dc][ns[p].slot].st = "live"
    BY <1>4, <1>5, CacheAt
  <2> QED BY <1>2, <1>4, <1>5, <2>1, SizeShows
<1> HIDE DEF ms
<1>8. Pending(short', << >>, TheDisk, ms, lost)
  BY <1>2, <1>7, Settles
<1>9. FilesOK(open, ns, past) /\ past \in BOOLEAN /\ past' \in BOOLEAN
  BY <1>1, <1>4, FilesStay DEF FsCore
<1>10. FilesOK(open, ms, past')
  <2>1. ASSUME NEW f \in 1 .. MaxFiles, open[f] # NoFile PROVE FileOK(open[f], ms, past')
    <3> DEFINE h == open[f]
    <3>1. FileOK(h, ns, past) /\ h \in Handle
      BY <1>9, <2>1 DEF FilesOK
    <3>2. CASE h.path = p
      <4>1. p \in OpenPaths
        <5>1. p # << >>
          BY <1>3, PathIs
        <5> QED BY <3>2, <5>1 DEF OpenPaths
      <4> QED BY <1>1, <1>6, <3>1, <4>1 DEF FileOK
    <3>3. CASE h.path # p
      BY <1>1, <1>6, <3>1, <3>3 DEF FileOK
    <3> QED BY <3>2, <3>3
  <2> QED BY <1>9, <2>1 DEF FilesOK
<1>11. FilesOK(open', ms, past')
  BY <1>1, <1>3, <1>5, <1>6, <1>10, OpenFileIs
<1>12. TheDisk' = TheDisk /\ todo' = << >> /\ todo = << >>
  BY <1>1 DEF TheDisk, Ready
<1> QED BY <1>1, <1>8, <1>9, <1>11, <1>12 DEF FsCore

\* The slot and the cluster that fat_create takes.
LEMMA CanCreateIs ==
    ASSUME NEW c, NEW n, FatCanCreate(c, n)
    PROVE  /\ FreeSlot(c) \in 1 .. Slots /\ dir[c][FreeSlot(c)].st # "live"
           /\ Allocatable(1)[1] \in Cluster /\ fat[Allocatable(1)[1]] = Free
<1> DEFINE s == {k \in 1 .. Slots : dir[c][k].st # "live"}
<1>1. FreeSlot(c) \in s
  <2>1. s # {} /\ FreeSlot(c) = CHOOSE k \in s : \A j \in s : k <= j
    BY DEF FatCanCreate, FreeSlot
  <2>2. s \in SUBSET Nat
    BY FsConstants
  <2>3. \E k \in s : \A j \in s : k <= j
    BY <2>1, <2>2, LeastNat
  <2> QED BY <2>1, <2>3
<1>2. FreeClusters # {}
  BY DEF FatCanCreate
<1>3. /\ \A i \in 1 .. Len(Allocatable(1)) : Allocatable(1)[i] \in FreeClusters
      /\ Len(Allocatable(1)) > 0 /\ Len(Allocatable(1)) \in Nat
  <2>1. 1 \in Nat /\ 1 > 0
    OBVIOUS
  <2>2. /\ Allocatable(1) \in Seq(Cluster)
        /\ \A i \in 1 .. Len(Allocatable(1)) : Allocatable(1)[i] \in FreeClusters
        /\ Len(Allocatable(1)) > 0
    BY <1>2, <2>1, AllocIs
  <2> QED BY <2>2
<1>4. Allocatable(1)[1] \in FreeClusters
  BY <1>3
<1> QED BY <1>1, <1>4 DEF FreeClusters

LEMMA MakeKeeps ==
    ASSUME FsCore, NEW p \in Paths, NEW kind \in {"file", "dir"}, NEW max, Make(p, kind, max), ~mixed', kind = "dir" => Len(p) = 1
    PROVE  FsCore'
<1> DEFINE ns == Resolve(nodes, p, max)
           c == DirCluster(ns, Parent(p))
           a == Allocatable(1)[1]
           k == FreeSlot(c)
           ms == NewNode(ns, p, kind, a)
           t == FatCreate(c, Fold[Name(p)], kind, a)
           e == [st |-> "live", name |-> Name(p), kind |-> kind, cl |-> a, size |-> 0]
           room == Cardinality(DOMAIN ns) < max
           can == IsDir(ns, Parent(p)) /\ FatCanCreate(c, Name(p))
<1>1. /\ Ready /\ ~Cached(ns, p) /\ UNCHANGED <<fat, dir, lost, past>>
      /\ can => /\ nodes' = IF room THEN ms ELSE ns
                /\ todo' = t
                /\ IF room /\ kind = "file" THEN OpenFile(p) ELSE UNCHANGED open
                /\ short' = ((short \/ ResolveMissed(nodes, p, max)) \/ ~room)
                /\ mixed' = (mixed \/ Fold[Name(p)] # Name(p))
      /\ ~can => /\ nodes' = ns /\ UNCHANGED <<todo, open>>
                 /\ short' = (short \/ ResolveMissed(nodes, p, max))
  BY DEF Make
<1>20. (short => short') /\ (ResolveMissed(nodes, p, max) => short') /\ (can /\ ~room => short')
  BY <1>1
<1>2. PICK S : Good(short', fat, dir, S) /\ Cache(short', dir, nodes) /\ (lost \/ AllUsed(fat, S))
  BY <1>1, <1>20, WhenReady
<1>3. p \in Places
  BY PathsArePlaces
<1>4. Cache(short', dir, ns) /\ Extends(ns, nodes) /\ Full(short', dir, ns, Parent(p))
  BY <1>2, <1>3, <1>20, ResolveKeeps
<1>5. p \notin DOMAIN ns
  BY <1>1 DEF Cached
<1>6. can => t = <<FatSet(a, Eoc), ZeroCluster(a), DirSet(c, k, e)>>
  BY <1>1 DEF FatCreate
<1>7. c = DirCluster(ns, Parent(p)) /\ k = FreeSlot(c) /\ ms = NewNode(ns, p, kind, a)
  OBVIOUS
<1>8. can => /\ IsDir(ns, Parent(p)) /\ k \in 1 .. Slots /\ dir[c][k].st # "live" /\ a \in Cluster /\ fat[a] = Free
  BY CanCreateIs
<1> HIDE DEF ns, a, t, ms, c, k, e, room
<1>9. FilesOK(open, ns, past)
  BY <1>4, FilesStay DEF FsCore
<1>10. TheDisk' = TheDisk /\ todo = << >>
  BY <1>1 DEF TheDisk, Ready
<1>11. CASE can
  <2>1. /\ IsDir(ns, Parent(p)) /\ k \in 1 .. Slots /\ dir[c][k].st # "live" /\ a \in Cluster
        /\ fat[a] = Free /\ t = <<FatSet(a, Eoc), ZeroCluster(a), DirSet(c, k, e)>>
    BY <1>6, <1>8, <1>11
  <2>2. c \in Cluster /\ InTree(dir, c) /\ (c # Root => Parent(p) # << >>)
    BY <1>2, <1>4, <1>7, <2>1, DirIs DEF DirCluster
  <2>3. c # Root => kind = "file"
    BY <1>3, <2>2, PathIs
  <2>4. e \in LiveEntry /\ e.cl = a /\ e.size = 0 /\ e.name = Name(p) /\ e.kind = kind
    BY <1>3, <2>1, PathIs DEF e, LiveEntry
  <2>5. short' \/ \A l \in 1 .. Slots : dir[c][l].st = "live" => dir[c][l].name # e.name
    <3>1. ASSUME ~short', NEW l \in 1 .. Slots, dir[c][l].st = "live" PROVE dir[c][l].name # e.name
      <4>1. Append(Parent(p), dir[c][l].name) \in DOMAIN ns
        BY <1>4, <1>7, <2>1, <3>1 DEF Full
      <4>2. Append(Parent(p), Name(p)) = p
        BY <1>3, PathIs
      <4> QED BY <1>5, <2>4, <4>1, <4>2
    <3> QED BY <3>1
  <2>6. ASSUME NEW new, Cache(short', Put(Zeroed(dir, a), c, k, e), new)
        PROVE  t \in Seq(Writes) /\ Pending(short', t, [fat |-> fat, dir |-> dir], new, lost)
    BY <1>2, <2>1, <2>2, <2>3, <2>4, <2>5, <2>6, CreateRun
  <2>7. CASE room
    <3>1. /\ Cache(short', Put(Zeroed(dir, a), c, k, e), ms) /\ Extends(ms, ns) /\ p \in DOMAIN ms
          /\ ms[p].kind = kind /\ ms[p].size = 0
      BY <1>2, <1>3, <1>4, <1>5, <1>7, <2>1, NewNodeShows DEF e
    <3>2. nodes' = ms /\ todo' = t /\ IF kind = "file" THEN OpenFile(p) ELSE UNCHANGED open
      BY <1>1, <1>11, <2>7
    <3>3. FilesOK(open, ms, past)
      BY <1>9, <3>1, FilesStay
    <3>4. FilesOK(open', ms, past)
      <4>1. CASE kind = "file"
        BY <1>3, <3>1, <3>2, <3>3, <4>1, OpenFileIs
      <4>2. CASE kind # "file"
        BY <3>2, <3>3, <4>2
      <4> QED BY <4>1, <4>2
    <3>5. t \in Seq(Writes) /\ Pending(short', t, [fat |-> fat, dir |-> dir], ms, lost)
      BY <2>6, <3>1
    <3> QED BY <1>1, <1>10, <3>2, <3>4, <3>5 DEF FsCore, TheDisk
  <2>8. CASE ~room
    <3>1. nodes' = ns /\ todo' = t /\ UNCHANGED open /\ short'
      BY <1>1, <1>11, <2>8
    <3>2. short' => Cache(short', Put(Zeroed(dir, a), c, k, e), ns)
      BY <1>2, <1>4, <1>7, <2>1, NoNodeShows
    <3>3. t \in Seq(Writes) /\ Pending(short', t, [fat |-> fat, dir |-> dir], ns, lost)
      BY <2>6, <3>1, <3>2
    <3> QED BY <1>1, <1>9, <1>10, <3>1, <3>3 DEF FsCore, TheDisk
  <2> QED BY <2>7, <2>8
<1>12. CASE ~can
  <2>1. Pending(short', << >>, TheDisk, ns, lost)
    BY <1>2, <1>4, Settles
  <2> QED BY <1>1, <1>9, <1>10, <1>12, <2>1 DEF FsCore
<1> QED BY <1>11, <1>12

LEMMA UnlinkKeeps ==
    ASSUME FsCore, NEW p \in Paths, NEW max, vfs_unlink(p, max), ~mixed'
    PROVE  FsCore'
<1> DEFINE ns == Resolve(nodes, p, max)
           c == DirCluster(ns, Parent(p))
           ms == Dropped(ns, p)
           found == IF IsDir(ns, Parent(p)) THEN Named(c, Name(p)) ELSE {}
           full(k) == dir[c][k].kind = "dir" /\ \E j \in 1 .. Slots : dir[dir[c][k].cl][j].st = "live"
<1>1. /\ Ready /\ (~ \E q \in OpenPaths : IsPrefix(p, q)) /\ UNCHANGED <<fat, dir, open, past>>
      /\ short' = (short \/ ResolveMissed(nodes, p, max))
      /\ \/ \E k \in found :
               /\ nodes' = ms /\ todo' = FatUnlink(c, k) /\ lost' = (lost \/ full(k))
               /\ mixed' = (mixed \/ Fold[Name(p)] # Name(p))
         \/ nodes' = ns /\ UNCHANGED <<todo, lost>>
  BY DEF vfs_unlink
<1>20. (short => short') /\ (ResolveMissed(nodes, p, max) => short')
  BY <1>1
<1>2. PICK S : Good(short', fat, dir, S) /\ Cache(short', dir, nodes) /\ (lost \/ AllUsed(fat, S))
  BY <1>1, <1>20, WhenReady
<1>3. p \in Places
  BY PathsArePlaces
<1>4. Cache(short', dir, ns) /\ Extends(ns, nodes)
  BY <1>2, <1>3, <1>20, ResolveKeeps
<1> HIDE DEF ns
<1>5. FilesOK(open, ns, past)
  BY <1>4, FilesStay DEF FsCore
<1>6. TheDisk' = TheDisk /\ todo = << >>
  BY <1>1 DEF TheDisk, Ready
<1>7. ASSUME NEW k \in found,
             nodes' = ms, todo' = FatUnlink(c, k), lost' = (lost \/ full(k)),
             mixed' = (mixed \/ Fold[Name(p)] # Name(p))
      PROVE  FsCore'
  <2>1. /\ IsDir(ns, Parent(p)) /\ k \in 1 .. Slots /\ dir[c][k].st = "live"
        /\ dir[c][k].name = Fold[Name(p)]
    BY <1>7 DEF Named, First
  <2>2. dir[c][k].name = Name(p) /\ c = DirCluster(ns, Parent(p))
    BY <1>7, <2>1
  <2> DEFINE t == FatUnlink(c, k)
  <2>4. t = <<DirSet(c, k, Del)>> \o FatFreeClusterChain(dir[c][k].cl)
    BY DEF FatUnlink
  <2>5. lost' = (lost \/ full(k)) /\ lost' \in BOOLEAN
    BY <1>7 DEF FsCore
  <2>6. DOMAIN ms = {q \in DOMAIN ns : ~IsPrefix(p, q)} /\ \A q \in DOMAIN ms : ms[q] = ns[q]
    BY DEF Dropped
  <2> HIDE DEF c, t, ms, found
  <2>11. c \in Cluster /\ Lives(dir, c, k)
    BY <1>2, <1>4, <2>1, <2>2, DirIs DEF Lives
  <2>3. Cache(short', Put(dir, c, k, Del), ms)
    <3>1. ms = Dropped(ns, p)
      BY DEF ms
    <3> QED BY <1>2, <1>3, <1>4, <2>1, <2>2, <3>1, DroppedShows
  <2>7. lost' \/ (/\ AllUsed(fat, S)
                  /\ ~(dir[c][k].kind = "dir" /\ \E j \in 1 .. Slots : dir[dir[c][k].cl][j].st = "live"))
    BY <1>2, <2>5
  <2>8. t \in Seq(Writes) /\ Pending(short', t, [fat |-> fat, dir |-> dir], ms, lost')
    BY <1>2, <2>1, <2>11, <2>3, <2>4, <2>7, UnlinkRun
  <2>9. FilesOK(open, ms, past)
    <3>1. ASSUME NEW f \in 1 .. MaxFiles, open[f] # NoFile PROVE FileOK(open[f], ms, past)
      <4>1. FileOK(open[f], ns, past)
        BY <1>5, <3>1 DEF FilesOK
      <4>2. open[f].path \in DOMAIN ns /\ open[f].path \in Places
        BY <1>4, <4>1, CacheAt DEF FileOK
      <4>3. open[f].path \in OpenPaths
        BY <4>2, PathIs DEF OpenPaths
      <4>4. open[f].path \in DOMAIN ms
        BY <1>1, <2>6, <4>2, <4>3
      <4> QED BY <2>6, <4>1, <4>4 DEF FileOK
    <3> QED BY <1>5, <3>1 DEF FilesOK
  <2>10. nodes' = ms /\ todo' = t
    BY <1>7 DEF t
  <2> QED BY <1>1, <1>6, <2>5, <2>8, <2>9, <2>10 DEF FsCore, TheDisk
<1>8. CASE nodes' = ns /\ UNCHANGED <<todo, lost>>
  <2>1. Pending(short', << >>, TheDisk, ns, lost)
    BY <1>2, <1>4, Settles
  <2> QED BY <1>1, <1>5, <1>6, <1>8, <2>1 DEF FsCore
<1> QED BY <1>1, <1>7, <1>8

\* A file_t moves.
Opens == [1 .. MaxFiles -> Handle]
MovedTo(o, f, v) == [o EXCEPT ![f].off = v]
LEMMA MovedIs ==
    ASSUME NEW o \in Opens, NEW f \in 1 .. MaxFiles, NEW v \in Nat
    PROVE  /\ MovedTo(o, f, v) \in Opens /\ MovedTo(o, f, v)[f].path = o[f].path
           /\ MovedTo(o, f, v)[f].off = v
           /\ \A g \in 1 .. MaxFiles : g # f => MovedTo(o, f, v)[g] = o[g]
<1> DEFINE o2 == MovedTo(o, f, v)
<1>1. o[f] \in Handle /\ o \in [1 .. MaxFiles -> Handle]
  BY DEF Opens
<1>2. o2[f] = [o[f] EXCEPT !.off = v] /\ \A g \in 1 .. MaxFiles : g # f => o2[g] = o[g]
  BY <1>1 DEF MovedTo
<1>3. o2[f] \in Handle /\ o2[f].path = o[f].path /\ o2[f].off = v
  BY <1>1, <1>2 DEF Handle
<1>4. o2 \in Opens
  BY <1>1, <1>3, <1>2 DEF MovedTo, Opens
<1> QED BY <1>2, <1>3, <1>4

LEMMA WriteKeeps ==
    ASSUME FsCore, NEW f \in 1 .. MaxFiles, NEW size \in 1 .. MaxSize, vfs_write(f, size)
    PROVE  FsCore'
<1> DEFINE p == open[f].path
           off == open[f].off
           n == nodes[p]
           x == Extension(n, off, size)
           v == FatWriteSize(n, x, off, size)
           t == FatWrite(n, off, size)
           c == n.dc
           k == n.slot
<1>1. /\ Ready /\ open[f] # NoFile /\ todo' = t /\ open' = MovedTo(open, f, off + x.done)
      /\ x.done < size => nodes' = nodes
      /\ ~(x.done < size) => nodes' = Sized(nodes, p, v)
      /\ past' = (past \/ x.done < size) /\ UNCHANGED <<fat, dir, lost>> /\ short' = short
  BY DEF vfs_write, MovedTo, Sized
<1>2. PICK S : Good(short', fat, dir, S) /\ Cache(short', dir, nodes) /\ (lost \/ AllUsed(fat, S))
  BY <1>1, WhenReady
<1>3. size \in Nat /\ size > 0
  BY FsConstants
<1>4. /\ open \in [1 .. MaxFiles -> Handle] /\ off \in Nat /\ past \in BOOLEAN
      /\ p \in DOMAIN nodes /\ n.kind = "file" /\ (past \/ off <= n.size)
      /\ \A g \in 1 .. MaxFiles : open[g] # NoFile => FileOK(open[g], nodes, past)
  BY <1>1 DEF FsCore, FilesOK, FileOK, Handle
<1>5. /\ c \in Cluster /\ k \in 1 .. Slots /\ Lives(dir, c, k) /\ n.cl = dir[c][k].cl /\ n.size \in Nat
      /\ dir[c][k].kind = "file" /\ n.size \in {0, dir[c][k].size}
  BY <1>2, <1>4, CacheAt, NodeLives
<1>6. dir[c][k] \in LiveEntry /\ dir[c][k].size \in Nat /\ n.size <= dir[c][k].size
  <2>1. dir[c][k] \in LiveEntry
    BY <1>2, <1>5, EntryType DEF Good, Lives
  <2>2. dir[c][k].size \in Nat
    BY <2>1 DEF LiveEntry
  <2>3. n.size = 0 \/ n.size = dir[c][k].size
    BY <1>5
  <2> HIDE DEF n, c, k
  <2> QED BY <2>1, <2>2, <2>3
<1>7. n.dc = c /\ n.slot = k /\ x = Extension(n, off, size) /\ t = FatWrite(n, off, size)
      /\ v = FatWriteSize(n, x, off, size) /\ n = nodes[p]
  OBVIOUS
<1> HIDE DEF p, off, n, x, t, v, c, k
<1>8. x.done \in Nat /\ x.done <= size
  <2>1. ExtOK(x, S[c][k], off, size)
    BY <1>2, <1>3, <1>4, <1>5, <1>7, ExtensionIs
  <2> QED BY <2>1 DEF ExtOK
<1>9. v \in Nat /\ n.size <= v /\ off + x.done <= v
  BY <1>4, <1>5, <1>7, <1>8 DEF FatWriteSize
<1>10. ~(x.done < size) => Cache(short', Put(dir, c, k, Resized(dir[c][k], v, dir[c][k].cl)), Sized(nodes, p, v))
  <2> DEFINE e == Resized(dir[c][k], v, dir[c][k].cl)
             E == Put(dir, c, k, e)
  <2>1. /\ e.st = "live" /\ e.name = dir[c][k].name /\ e.kind = dir[c][k].kind
        /\ e.cl = dir[c][k].cl /\ e.size = v
    BY <1>6, <1>9, ResizedIs
  <2> HIDE DEF e
  <2>2. dir \in Tables(Ents)
    BY <1>2 DEF Good, Dirs
  <2>3. E[c][k] = e /\ \A d \in Cluster, l \in 1 .. Slots : d # c \/ l # k => E[d][l] = dir[d][l]
    BY <1>5, <2>2, PutIs
  <2> HIDE DEF E
  <2>4. Cache(short', E, Sized(nodes, p, v))
    BY <1>2, <1>4, <1>7, <1>9, <2>1, <2>3, SizeShows
  <2> QED BY <2>4 DEF E, e
<1>11. Cache(short', dir, nodes) /\ nodes \in [DOMAIN nodes -> Node]
  BY <1>2 DEF Cache
<1>12. t \in Seq(Writes) /\ Pending(short', t, [fat |-> fat, dir |-> dir], nodes', lost)
  <2>1. /\ x.done < size => Cache(short', dir, nodes')
        /\ ~(x.done < size) =>
              Cache(short', Put(dir, c, k, Resized(dir[c][k], FatWriteSize(n, x, off, size), dir[c][k].cl)), nodes')
    BY <1>1, <1>7, <1>10, <1>11
  <2> DEFINE ms == nodes'
  <2>2. /\ Good(short', fat, dir, S) /\ (lost \/ AllUsed(fat, S)) /\ size \in Nat /\ size > 0 /\ off \in Nat
        /\ c \in Cluster /\ k \in 1 .. Slots /\ Lives(dir, c, k) /\ n.dc = c /\ n.slot = k
        /\ n.cl = dir[c][k].cl /\ n.size \in Nat /\ n.size <= dir[c][k].size
        /\ dir[c][k].kind = "file" /\ x = Extension(n, off, size) /\ t = FatWrite(n, off, size)
        /\ x.done < size => Cache(short', dir, ms)
        /\ ~(x.done < size) =>
              Cache(short', Put(dir, c, k, Resized(dir[c][k], FatWriteSize(n, x, off, size), dir[c][k].cl)), ms)
    BY <1>2, <1>3, <1>4, <1>5, <1>6, <1>7, <2>1
  <2> HIDE DEF ms
  <2>3. t \in Seq(Writes) /\ Pending(short', t, [fat |-> fat, dir |-> dir], ms, lost)
    BY <2>2, WriteRun
  <2> QED BY <2>3 DEF ms
<1>13. FilesOK(open', nodes', past')
  <2>1. /\ open' \in [1 .. MaxFiles -> Handle] /\ open'[f].path = p /\ open'[f].off = off + x.done
        /\ \A g \in 1 .. MaxFiles : g # f => open'[g] = open[g]
    <3>1. off + x.done \in Nat
      BY <1>4, <1>8
    <3> DEFINE w == off + x.done
    <3> HIDE DEF w
    <3>2. open' = MovedTo(open, f, w) /\ w \in Nat
      BY <1>1, <3>1 DEF w
    <3>3. /\ open' \in [1 .. MaxFiles -> Handle] /\ open'[f].path = open[f].path /\ open'[f].off = w
          /\ \A g \in 1 .. MaxFiles : g # f => open'[g] = open[g]
      <4> DEFINE o == open'
      <4>1. open \in [1 .. MaxFiles -> Handle] /\ w \in Nat /\ o = MovedTo(open, f, w)
        BY <1>4, <3>2
      <4> HIDE DEF o
      <4>2. /\ o \in [1 .. MaxFiles -> Handle] /\ o[f].path = open[f].path /\ o[f].off = w
            /\ \A g \in 1 .. MaxFiles : g # f => o[g] = open[g]
        BY <4>1, MovedIs, ZenonT(30) DEF Opens
      <4> QED BY <4>2 DEF o
    <3> QED BY <3>3 DEF w, p
  <2>2. ASSUME NEW g \in 1 .. MaxFiles, open'[g] # NoFile PROVE FileOK(open'[g], nodes', past')
    <3> DEFINE h == open'[g]
               q == h.path
    <3>1. /\ q \in DOMAIN nodes /\ nodes[q].kind = "file" /\ h.off \in Nat
          /\ g # f => past \/ h.off <= nodes[q].size
          /\ g = f => q = p /\ h.off = off + x.done
      <4>1. CASE g = f
        BY <1>4, <1>7, <1>8, <2>1, <4>1
      <4>2. CASE g # f
        BY <1>4, <2>1, <2>2, <4>2 DEF FileOK, Handle
      <4> QED BY <4>1, <4>2
    <3> HIDE DEF h, q
    <3>2. CASE x.done < size
      <4>1. nodes' = nodes /\ past'
        BY <1>1, <1>4, <3>2
      <4>2. q \in DOMAIN nodes' /\ nodes'[q].kind = "file"
        BY <3>1, <4>1
      <4> QED BY <4>1, <4>2 DEF FileOK, h, q
    <3>3. CASE ~(x.done < size)
      <4>1. nodes' = Sized(nodes, p, v) /\ past' = past
        BY <1>1, <1>4, <3>3
      <4>2. /\ DOMAIN nodes' = DOMAIN nodes
            /\ \A r \in DOMAIN nodes : nodes'[r].kind = nodes[r].kind /\ (r # p => nodes'[r].size = nodes[r].size)
            /\ nodes'[p].size = v
        BY <1>4, <1>9, <1>11, <4>1, SizedIs
      <4>3. past \/ h.off <= nodes'[q].size
        <5>1. CASE g = f
          BY <1>9, <3>1, <4>2, <5>1
        <5>2. CASE g # f /\ q # p
          BY <3>1, <4>2, <5>2
        <5>3. CASE g # f /\ q = p
          <6>1. past \/ h.off <= n.size
            BY <1>7, <3>1, <5>3
          <6>2. nodes'[q].size = v
            BY <4>2, <5>3
          <6> QED BY <1>5, <1>9, <3>1, <6>1, <6>2
        <5> QED BY <5>1, <5>2, <5>3
      <4> QED BY <3>1, <4>1, <4>2, <4>3 DEF FileOK, h, q
    <3> QED BY <3>2, <3>3
  <2> QED BY <2>1, <2>2 DEF FilesOK
<1>14. TheDisk' = TheDisk /\ lost' = lost /\ past' \in BOOLEAN
  BY <1>1, <1>4 DEF TheDisk
<1> QED BY <1>1, <1>12, <1>13, <1>14 DEF FsCore, TheDisk

LEMMA ReadKeeps ==
    ASSUME FsCore, NEW f \in 1 .. MaxFiles, NEW size \in 1 .. MaxSize, vfs_read(f, size)
    PROVE  FsCore'
<1> DEFINE p == open[f].path
           off == open[f].off
           n == nodes[p]
           want == IF off <= n.size /\ size > n.size - off THEN n.size - off ELSE size
           ret == FatRead(n, off, want)
           to == IF ret > 0 THEN off + ret ELSE off
<1>1. /\ Ready /\ open[f] # NoFile /\ UNCHANGED <<fat, dir, todo, nodes, lost, past, short>>
      /\ open' = MovedTo(open, f, to)
  BY DEF vfs_read, MovedTo
<1>2. PICK S : Good(short', fat, dir, S) /\ Cache(short', dir, nodes)
  BY <1>1, WhenReady
<1>3. size \in Nat
  BY FsConstants
<1>4. /\ open \in Opens /\ off \in Nat /\ past \in BOOLEAN
      /\ p \in DOMAIN nodes /\ n.kind = "file" /\ (past \/ off <= n.size)
      /\ \A g \in 1 .. MaxFiles : open[g] # NoFile => FileOK(open[g], nodes, past)
  BY <1>1 DEF FsCore, FilesOK, FileOK, Handle, Opens
<1>5. /\ n.dc \in Cluster /\ n.slot \in 1 .. Slots /\ Lives(dir, n.dc, n.slot)
      /\ n.cl = dir[n.dc][n.slot].cl /\ n.size \in Nat
  BY <1>2, <1>4, CacheAt, NodeLives
<1>6. Len(Chain(n.cl)) * CSize \in Nat
  <2>1. Chain(n.cl) = S[n.dc][n.slot]
    BY <1>2, <1>5, ChainIs, SMTT(30)
  <2>2. Len(S[n.dc][n.slot]) \in Nat
    BY <1>2, <1>5, ChainShort
  <2> QED BY <2>1, <2>2, FsConstants
<1> DEFINE all == Len(Chain(n.cl)) * CSize
<1>7. ret = IF all - off <= 0 THEN -1 ELSE IF want < all - off THEN want ELSE all - off
  BY DEF FatRead
<1>8. n = nodes[p]
  OBVIOUS
<1> HIDE DEF all, n, off, ret
<1>9. want \in Nat /\ (off <= n.size => off + want <= n.size) /\ all \in Nat
  BY <1>3, <1>4, <1>5, <1>6 DEF all
<1> HIDE DEF want
<1>10. to \in Nat /\ (off <= n.size => to <= n.size)
  BY <1>4, <1>5, <1>7, <1>9
<1> HIDE DEF to
<1>11. /\ open' \in Opens /\ open'[f].path = p /\ open'[f].off = to
       /\ \A g \in 1 .. MaxFiles : g # f => open'[g] = open[g]
  BY <1>1, <1>4, <1>10, MovedIs, ZenonT(30)
<1>12. FilesOK(open', nodes, past)
  <2>1. ASSUME NEW g \in 1 .. MaxFiles, open'[g] # NoFile PROVE FileOK(open'[g], nodes, past)
    <3>1. CASE g = f
      BY <1>4, <1>8, <1>10, <1>11, <3>1 DEF FileOK
    <3>2. CASE g # f
      BY <1>4, <1>11, <2>1, <3>2
    <3> QED BY <3>1, <3>2
  <2> QED BY <1>11, <2>1 DEF FilesOK, Opens
<1>13. TheDisk' = TheDisk
  BY <1>1 DEF TheDisk
<1> QED BY <1>1, <1>12, <1>13 DEF FsCore

LEMMA CloseKeeps ==
    ASSUME FsCore, NEW f \in 1 .. MaxFiles, vfs_close(f)
    PROVE  FsCore'
<1>1. /\ open' = [open EXCEPT ![f] = NoFile] /\ UNCHANGED <<fat, dir, todo, nodes, lost, past, short>>
  BY DEF vfs_close
<1>2. NoFile \in Handle
  BY DEF NoFile, Handle
<1>3. FilesOK(open', nodes, past)
  BY <1>1, <1>2 DEF FsCore, FilesOK
<1>4. TheDisk' = TheDisk
  BY <1>1 DEF TheDisk
<1> QED BY <1>1, <1>3, <1>4 DEF FsCore

LEMMA DiskWriteKeeps ==
    ASSUME FsCore, DiskWrite
    PROVE  FsCore'
<1>1. /\ todo # << >> /\ todo' = Tail(todo) /\ UNCHANGED <<nodes, open, lost, past, short>>
      /\ fat' = IF Head(todo).w = "fat" THEN SetFat(fat, Head(todo).c, Head(todo).v) ELSE fat
      /\ dir' = CASE Head(todo).w = "dir" -> Put(dir, Head(todo).c, Head(todo).k, Head(todo).e)
                  [] Head(todo).w = "zero" -> Zeroed(dir, Head(todo).c)
                  [] OTHER -> dir
  BY DEF DiskWrite, SetFat, Put, Zeroed
<1>2. TheDisk' = Effect(TheDisk, Head(todo))
  BY <1>1 DEF TheDisk, Effect
<1>3. TheDisk \in Disk /\ todo \in Seq(Writes) /\ Pending(short, todo, TheDisk, nodes, lost)
  BY DEF FsCore
<1>4. Head(todo) \in Writes
  BY <1>1, <1>3
<1>5. TheDisk' \in Disk
  BY <1>2, <1>3, <1>4, EffectType
<1>6. Pending(short, Tail(todo), TheDisk', nodes, lost) /\ Tail(todo) \in Seq(Writes)
  BY <1>1, <1>2, <1>3, OneWritten
<1> QED BY <1>1, <1>5, <1>6 DEF FsCore

\* Whatever is still to be written, the disk is sound now.
LEMMA SoundNow ==
    ASSUME FsCore
    PROVE  \E S : Good(short, fat, dir, S)
<1>1. PICK R : Runs(R, todo, TheDisk) /\ \A i \in 0 .. Len(todo) : Sound(short, R[i])
  BY DEF FsCore, Pending
<1>2. 0 \in 0 .. Len(todo)
  BY DEF FsCore
<1>3. Sound(short, TheDisk)
  BY <1>1, <1>2 DEF Runs
<1> QED BY <1>3 DEF Sound, TheDisk

LEMMA EmptyCache ==
    ASSUME NEW sh, NEW D
    PROVE  Cache(sh, D, << >>)
<1>1. DOMAIN << >> = {}
  OBVIOUS
<1>2. << >> \in [DOMAIN << >> -> Node]
  OBVIOUS
<1> QED BY <1>1, <1>2 DEF Cache

LEMMA NothingOpen ==
    ASSUME NEW ns, NEW pa
    PROVE  FilesOK([f \in 1 .. MaxFiles |-> NoFile], ns, pa)
BY DEF FilesOK, Handle, NoFile

LEMMA CrashKeeps ==
    ASSUME FsCore, Crash
    PROVE  FsCore'
<1>1. /\ todo' = << >> /\ nodes' = << >> /\ open' = [f \in 1 .. MaxFiles |-> NoFile]
      /\ lost' = TRUE /\ past' = FALSE /\ UNCHANGED <<fat, dir, short>>
  BY DEF Crash
<1>2. PICK S : Good(short, fat, dir, S)
  BY SoundNow
<1>3. Pending(short, << >>, TheDisk, << >>, TRUE)
  BY <1>2, EmptyCache, Settles
<1>4. FilesOK(open', << >>, FALSE)
  BY <1>1, NothingOpen
<1>5. TheDisk' = TheDisk /\ << >> \in Seq(Writes)
  BY <1>1 DEF TheDisk
<1> QED BY <1>1, <1>3, <1>4, <1>5 DEF FsCore

LEMMA InitHolds ==
    ASSUME FsInit
    PROVE  FsInv
<1> DEFINE S == [c \in Cluster |-> [k \in 1 .. Slots |-> << >>]]
<1>1. /\ fat = [c \in Cluster |-> IF c = Root THEN Eoc ELSE Free] /\ dir = [c \in Cluster |-> NoEntries]
      /\ todo = << >> /\ nodes = << >> /\ open = [f \in 1 .. MaxFiles |-> NoFile]
      /\ lost = FALSE /\ past = FALSE /\ mixed = FALSE
  BY DEF FsInit
<1>2. fat \in [Cluster -> Nat] /\ fat[Root] = Eoc
  BY <1>1, FsConstants
<1>3. NoEntries \in [1 .. Slots -> Ents]
  BY DEF NoEntries, Ents
<1>4. dir \in Dirs
  BY <1>1, <1>3 DEF Dirs, Tables
<1>5. \A c \in Cluster, k \in 1 .. Slots : dir[c][k].st # "live"
  BY <1>1 DEF NoEntries, End
<1>6. S \in Tables(Seq(Cluster)) /\ \A c \in Cluster, k \in 1 .. Slots : S[c][k] = << >>
  <2>1. << >> \in Seq(Cluster)
    OBVIOUS
  <2> QED BY <2>1 DEF Tables
<1> HIDE DEF S
<1>7. Apart(S)
  BY <1>6 DEF Apart
<1>8. NamesApart(dir)
  BY <1>5 DEF NamesApart, Lives
<1>9. Good(short, fat, dir, S)
  BY <1>2, <1>4, <1>5, <1>6, <1>7, <1>8 DEF Good, Lives
<1>10. AllUsed(fat, S)
  BY <1>1 DEF AllUsed
<1>11. Pending(short, << >>, TheDisk, << >>, lost)
  BY <1>9, <1>10, EmptyCache, Settles
<1>12. FilesOK(open, << >>, past)
  BY <1>1, NothingOpen
<1>13. TheDisk \in Disk /\ << >> \in Seq(Writes)
  BY <1>2, <1>4 DEF TheDisk, Disk
<1> QED BY <1>1, <1>11, <1>12, <1>13 DEF FsInv, FsCore

\* mixed is never taken back.
LEMMA MixedStays ==
    ASSUME mixed \in BOOLEAN, [FsNext]_fsVars
    PROVE  mixed' \in BOOLEAN /\ (mixed => mixed')
<1> DEFINE Kept == mixed' = mixed
           Set == \E p \in Paths : mixed' = (mixed \/ Fold[Name(p)] # Name(p))
<1>1. CASE UNCHANGED fsVars
  BY <1>1 DEF fsVars
<1>2. ASSUME NEW p \in Paths, NEW max,
             \/ vfs_open(p, max) \/ vfs_create_existing(p, max) \/ vfs_readdir(p, max)
      PROVE  Kept
  BY <1>2 DEF vfs_open, vfs_create_existing, vfs_readdir
<1>3. ASSUME NEW p \in Paths, NEW max, NEW kind, Make(p, kind, max) PROVE Kept \/ Set
  BY <1>3 DEF Make
<1>4. ASSUME NEW p \in Paths, NEW max, vfs_unlink(p, max) PROVE Kept \/ Set
  BY <1>4 DEF vfs_unlink
<1>5. ASSUME NEW f \in 1 .. MaxFiles, NEW n \in 1 .. MaxSize,
             vfs_write(f, n) \/ vfs_read(f, n) \/ vfs_close(f)
      PROVE  Kept
  BY <1>5 DEF vfs_write, vfs_read, vfs_close
<1>6. ASSUME NEW f \in 1 .. MaxFiles, vfs_close(f) PROVE Kept
  BY <1>6 DEF vfs_close
<1>7. CASE DiskWrite
  BY <1>7 DEF DiskWrite
<1>8. CASE Crash
  BY <1>8 DEF Crash
<1>9. Set => mixed' \in BOOLEAN /\ (mixed => mixed')
  OBVIOUS
<1>10. Kept => mixed' \in BOOLEAN /\ (mixed => mixed')
  OBVIOUS
<1> HIDE DEF Kept, Set
<1>11. CASE Call
  BY <1>2, <1>3, <1>4, <1>5, <1>6, <1>9, <1>10, <1>11 DEF Call, vfs_create_new, vfs_mkdir
<1>12. CASE DiskWrite \/ Crash
  BY <1>7, <1>8, <1>10, <1>12
<1> QED BY <1>1, <1>11, <1>12 DEF FsNext

LEMMA NextKeeps ==
    ASSUME FsInv, [FsNext]_fsVars
    PROVE  FsInv'
<1>13. mixed' \in BOOLEAN /\ (mixed => mixed')
  BY MixedStays DEF FsInv
<1> SUFFICES ASSUME ~mixed' PROVE FsCore'
  BY <1>13 DEF FsInv
<1>14. FsCore
  BY <1>13 DEF FsInv
<1>1. CASE UNCHANGED fsVars
  <2>1. TheDisk' = TheDisk /\ todo' = todo /\ nodes' = nodes /\ open' = open /\ lost' = lost /\ past' = past
        /\ short' = short
    BY <1>1 DEF fsVars, TheDisk
  <2> QED BY <1>14, <2>1 DEF FsCore
<1>2. ASSUME NEW p \in Paths, NEW max, vfs_open(p, max) PROVE FsCore'
  BY <1>2, <1>14, VfsOpenKeeps
<1>3. ASSUME NEW p \in Paths, NEW max, vfs_create_existing(p, max) PROVE FsCore'
  BY <1>3, <1>14, CreateExistingKeeps
<1>4. ASSUME NEW p \in Paths, NEW max, vfs_create_new(p, max) PROVE FsCore'
  BY <1>4, <1>14, MakeKeeps DEF vfs_create_new
<1>5. ASSUME NEW p \in Paths, NEW max, vfs_mkdir(p, max) PROVE FsCore'
  BY <1>5, <1>14, MakeKeeps DEF vfs_mkdir
<1>6. ASSUME NEW p \in Paths, NEW max, vfs_unlink(p, max) PROVE FsCore'
  BY <1>6, <1>14, UnlinkKeeps
<1>7. ASSUME NEW p \in Paths, NEW max, vfs_readdir(p, max) PROVE FsCore'
  BY <1>7, <1>14, ReaddirActionKeeps
<1>8. ASSUME NEW f \in 1 .. MaxFiles, NEW n \in 1 .. MaxSize, vfs_write(f, n) PROVE FsCore'
  BY <1>8, <1>14, WriteKeeps
<1>9. ASSUME NEW f \in 1 .. MaxFiles, NEW n \in 1 .. MaxSize, vfs_read(f, n) PROVE FsCore'
  BY <1>9, <1>14, ReadKeeps
<1>10. ASSUME NEW f \in 1 .. MaxFiles, vfs_close(f) PROVE FsCore'
  BY <1>10, <1>14, CloseKeeps
<1>11. CASE DiskWrite
  BY <1>11, <1>14, DiskWriteKeeps
<1>12. CASE Crash
  BY <1>12, <1>14, CrashKeeps
<1> QED BY <1>1, <1>2, <1>3, <1>4, <1>5, <1>6, <1>7, <1>8, <1>9, <1>10, <1>11, <1>12 DEF FsNext, Call

-----------------------------------------------------------------------------
\* Live and Lives are the same.
LEMMA LiveIs ==
    ASSUME dir \in Dirs
    PROVE  /\ \A x \in Live : \E c \in Cluster, k \in 1 .. Slots : x = <<c, k>> /\ Lives(dir, c, k)
           /\ \A c \in Cluster, k \in 1 .. Slots : Lives(dir, c, k) => <<c, k>> \in Live
<1>1. Root \in Cluster
  BY FsConstants
<1>2. \A j \in 1 .. Slots : dir[Root][j].st = "live" => dir[Root][j].cl \in Cluster
  <2> TAKE j \in 1 .. Slots
  <2>1. dir[Root][j].st = "live" => dir[Root][j] \in LiveEntry
    BY <1>1, EntryType
  <2> QED BY <2>1 DEF LiveEntry
<1>3. \A c, k : <<c, k>>[1] = c /\ <<c, k>>[2] = k
  OBVIOUS
<1>4. ASSUME NEW c, NEW x PROVE x \in LiveIn(c) <=> \E k \in 1 .. Slots : x = <<c, k>> /\ dir[c][k].st = "live"
  BY DEF LiveIn
<1> DEFINE Subdirs == {y \in LiveIn(Root) : dir[Root][y[2]].kind = "dir"}
<1>5. ASSUME NEW y \in Subdirs
      PROVE  \E j \in 1 .. Slots : y = <<Root, j>> /\ dir[Root][j].st = "live" /\ dir[Root][j].kind = "dir"
  <2>1. PICK j \in 1 .. Slots : y = <<Root, j>> /\ dir[Root][j].st = "live"
    BY <1>4
  <2>2. y[2] = j
    BY <2>1
  <2> QED BY <2>1, <2>2
<1>6. ASSUME NEW j \in 1 .. Slots, dir[Root][j].st = "live", dir[Root][j].kind = "dir"
      PROVE  <<Root, j>> \in Subdirs
  BY <1>3, <1>4, <1>6
<1>7. ASSUME NEW x \in Live PROVE \E c \in Cluster, k \in 1 .. Slots : x = <<c, k>> /\ Lives(dir, c, k)
  <2>1. CASE x \in LiveIn(Root)
    BY <1>1, <1>4, <2>1 DEF Lives, InTree
  <2>2. CASE \E y \in Subdirs : x \in LiveIn(dir[Root][y[2]].cl)
    <3>1. PICK y \in Subdirs : x \in LiveIn(dir[Root][y[2]].cl)
      BY <2>2
    <3>2. PICK j \in 1 .. Slots : y = <<Root, j>> /\ dir[Root][j].st = "live" /\ dir[Root][j].kind = "dir"
      BY <1>5
    <3> DEFINE c == dir[Root][j].cl
    <3>3. c \in Cluster /\ InTree(dir, c) /\ y[2] = j
      BY <1>2, <3>2 DEF InTree
    <3>4. x \in LiveIn(c)
      BY <3>1, <3>3
    <3>5. PICK k \in 1 .. Slots : x = <<c, k>> /\ dir[c][k].st = "live"
      BY <1>4, <3>4
    <3> QED BY <3>3, <3>5 DEF Lives
  <2> QED BY <2>1, <2>2 DEF Live
<1>8. ASSUME NEW c \in Cluster, NEW k \in 1 .. Slots, Lives(dir, c, k) PROVE <<c, k>> \in Live
  <2>1. <<c, k>> \in LiveIn(c)
    BY <1>4, <1>8 DEF Lives
  <2>2. CASE c = Root
    BY <2>1, <2>2 DEF Live
  <2>3. CASE c # Root
    <3>1. PICK j \in 1 .. Slots : dir[Root][j].st = "live" /\ dir[Root][j].kind = "dir" /\ dir[Root][j].cl = c
      BY <1>8, <2>3 DEF Lives, InTree
    <3> DEFINE y == <<Root, j>>
    <3>2. y \in Subdirs /\ y[2] = j
      BY <1>6, <3>1
    <3> HIDE DEF y
    <3>3. <<c, k>> \in LiveIn(dir[Root][y[2]].cl)
      BY <2>1, <3>1, <3>2
    <3> QED BY <3>2, <3>3 DEF Live
  <2> QED BY <2>2, <2>3
<1> QED BY <1>7, <1>8

\* The chain of a live entry.
LEMMA LiveChain ==
    ASSUME NEW sh, NEW S, Good(sh, fat, dir, S), NEW x \in Live
    PROVE  \E c \in Cluster, k \in 1 .. Slots :
              /\ x = <<c, k>> /\ Lives(dir, c, k) /\ At(x) = dir[c][k] /\ Chain(At(x).cl) = S[c][k]
              /\ EntryOK(fat, dir[c][k], S[c][k], c) /\ S[c][k] \in Seq(Cluster)
<1>1. PICK c \in Cluster, k \in 1 .. Slots : x = <<c, k>> /\ Lives(dir, c, k)
  BY LiveIs DEF Good
<1>2. At(x) = dir[c][k]
  BY <1>1 DEF At
<1>3. Chain(dir[c][k].cl) = S[c][k] /\ S[c][k] \in Seq(Cluster)
  BY <1>1, ChainIs, ChainShort
<1>4. EntryOK(fat, dir[c][k], S[c][k], c)
  BY <1>1 DEF Good
<1> QED BY <1>1, <1>2, <1>3, <1>4

LEMMA DiskIsSound ==
    ASSUME FsCore
    PROVE  DiskSound
<1>1. PICK S : Good(short, fat, dir, S)
  BY SoundNow
<1>2. \A s \in Seq(Cluster) : Range(s) = {s[i] : i \in 1 .. Len(s)}
  BY DEF Range
<1>3. ASSUME NEW x \in Live
      PROVE  LET c == Chain(At(x).cl) IN
             /\ c # << >> /\ fat[c[Len(c)]] = Eoc
             /\ Root \notin Range(c)
             /\ At(x).kind = "file" => At(x).size <= Len(c) * CSize
  <2>1. PICK c \in Cluster, k \in 1 .. Slots :
              /\ At(x) = dir[c][k] /\ Chain(At(x).cl) = S[c][k]
              /\ EntryOK(fat, dir[c][k], S[c][k], c) /\ S[c][k] \in Seq(Cluster)
    BY <1>1, LiveChain
  <2> DEFINE s == S[c][k]
  <2>2. Len(s) > 0 /\ Linked(fat, s) /\ s \in Seq(Cluster) /\ Fits(At(x), Len(s))
    BY <2>1 DEF EntryOK
  <2> HIDE DEF s
  <2>3. s # << >> /\ Len(s) \in 1 .. Len(s)
    BY <2>2
  <2>4. fat[s[Len(s)]] = Eoc
    BY <2>2, <2>3 DEF Linked
  <2>5. Root \notin Range(s)
    BY <1>2, <2>2 DEF Linked
  <2> QED BY <2>1, <2>2, <2>3, <2>4, <2>5 DEF Fits, s
<1>4. ASSUME NEW x \in Live, NEW y \in Live, x # y
      PROVE  /\ Range(Chain(At(x).cl)) \cap Range(Chain(At(y).cl)) = {}
             /\ ~short /\ x[1] = y[1] => At(x).name # At(y).name
  <2>1. PICK c \in Cluster, k \in 1 .. Slots :
              /\ x = <<c, k>> /\ Lives(dir, c, k) /\ At(x) = dir[c][k] /\ Chain(At(x).cl) = S[c][k]
              /\ S[c][k] \in Seq(Cluster)
    BY <1>1, LiveChain
  <2>2. PICK d \in Cluster, l \in 1 .. Slots :
              /\ y = <<d, l>> /\ Lives(dir, d, l) /\ At(y) = dir[d][l] /\ Chain(At(y).cl) = S[d][l]
              /\ S[d][l] \in Seq(Cluster)
    BY <1>1, LiveChain
  <2>3. c # d \/ k # l
    BY <1>4, <2>1, <2>2
  <2>4. \A i \in 1 .. Len(S[c][k]), j \in 1 .. Len(S[d][l]) : S[c][k][i] # S[d][l][j]
    BY <1>1, <2>3, ApartAt DEF Good
  <2>5. Range(S[c][k]) \cap Range(S[d][l]) = {}
    <3> DEFINE s == S[c][k]
               t == S[d][l]
    <3>1. Range(s) = {s[i] : i \in 1 .. Len(s)} /\ Range(t) = {t[i] : i \in 1 .. Len(t)}
      BY <1>2, <2>1, <2>2
    <3> QED BY <2>4, <3>1
  <2>6. ~short /\ x[1] = y[1] => At(x).name # At(y).name
    <3>1. x[1] = c /\ y[1] = d
      BY <2>1, <2>2
    <3> QED BY <1>1, <2>1, <2>2, <2>3, <3>1 DEF Good, NamesApart
  <2> QED BY <2>1, <2>2, <2>5, <2>6
<1> QED BY <1>3, <1>4 DEF DiskSound

LEMMA NoneIsLost ==
    ASSUME FsCore
    PROVE  NoClusterLost
<1> SUFFICES ASSUME Ready, ~lost
             PROVE  Cluster \ FreeClusters = {Root} \cup UNION {Range(Chain(At(x).cl)) : x \in Live}
  BY DEF NoClusterLost
<1>1. PICK S : Good(short, fat, dir, S) /\ AllUsed(fat, S)
  BY WhenReady
<1> DEFINE Owned == UNION {Range(Chain(At(x).cl)) : x \in Live}
<1>2. \A s \in Seq(Cluster) : Range(s) = {s[i] : i \in 1 .. Len(s)}
  BY DEF Range
<1>3. ASSUME NEW a \in Cluster, fat[a] # Free, a # Root PROVE a \in Owned
  <2>1. ~Unowned(S, a)
    BY <1>1, <1>3 DEF AllUsed
  <2>2. PICK c \in Cluster, k \in 1 .. Slots : \E i \in 1 .. Len(S[c][k]) : S[c][k][i] = a
    BY <2>1 DEF Unowned
  <2>3. S[c][k] \in Seq(Cluster)
    BY <1>1, ChainShort
  <2>4. Lives(dir, c, k)
    <3>1. S[c][k] # << >>
      BY <2>2
    <3> QED BY <1>1, <3>1 DEF Good
  <2> DEFINE x == <<c, k>>
  <2>5. x \in Live /\ x[1] = c /\ x[2] = k
    BY <1>1, <2>4, LiveIs DEF Good
  <2> HIDE DEF x
  <2>6. Chain(At(x).cl) = S[c][k]
    BY <1>1, <2>4, <2>5, ChainIs DEF At
  <2>7. a \in Range(S[c][k])
    BY <1>2, <2>2, <2>3
  <2> QED BY <2>5, <2>6, <2>7
<1>4. ASSUME NEW x \in Live, NEW a \in Range(Chain(At(x).cl)) PROVE a \in Cluster /\ fat[a] # Free
  <2>1. PICK c \in Cluster, k \in 1 .. Slots : Chain(At(x).cl) = S[c][k] /\ S[c][k] \in Seq(Cluster)
    BY <1>1, LiveChain
  <2>2. PICK i \in 1 .. Len(S[c][k]) : a = S[c][k][i]
    BY <1>2, <1>4, <2>1
  <2>3. a \in Cluster /\ ~Unowned(S, a)
    BY <2>1, <2>2 DEF Unowned
  <2> QED BY <1>1, <2>3, FreeUnowned
<1>5. Root \in Cluster /\ fat[Root] # Free
  BY <1>1, FsConstants DEF Good
<1>6. \A a \in Owned : a \in Cluster /\ fat[a] # Free
  BY <1>4
<1> HIDE DEF Owned
<1>7. Cluster \ FreeClusters = {Root} \cup Owned
  BY <1>3, <1>5, <1>6 DEF FreeClusters
<1> QED BY <1>7 DEF Owned

LEMMA CacheIsRight ==
    ASSUME FsCore
    PROVE  CacheRight
<1> SUFFICES ASSUME Ready
             PROVE  /\ \A p \in DOMAIN nodes :
                         LET n == nodes[p]  e == dir[n.dc][n.slot] IN
                         /\ e.st = "live" /\ e.name = Name(p) /\ e.kind = n.kind /\ e.cl = n.cl
                         /\ n.size \in {0, e.size}
                    /\ ~short =>
                         \A x \in Live : \A q \in DOMAIN nodes :
                            nodes[q].dc = x[1] => \E p \in DOMAIN nodes :
                                                    nodes[p].dc = x[1] /\ nodes[p].slot = x[2]
  BY DEF CacheRight
<1>1. PICK S : Good(short, fat, dir, S) /\ Cache(short, dir, nodes)
  BY WhenReady
<1>2. ASSUME NEW p \in DOMAIN nodes
      PROVE  LET n == nodes[p]  e == dir[n.dc][n.slot] IN
             /\ e.st = "live" /\ e.name = Name(p) /\ e.kind = n.kind /\ e.cl = n.cl
             /\ n.size \in {0, e.size}
  BY <1>1, CacheAt
<1>3. ASSUME ~short, NEW x \in Live, NEW q \in DOMAIN nodes, nodes[q].dc = x[1]
      PROVE  \E p \in DOMAIN nodes : nodes[p].dc = x[1] /\ nodes[p].slot = x[2]
  <2>1. PICK c \in Cluster, k \in 1 .. Slots : x = <<c, k>> /\ Lives(dir, c, k)
    BY <1>1, LiveIs DEF Good
  <2>2. x[1] = c /\ x[2] = k /\ dir[c][k].st = "live"
    BY <2>1 DEF Lives
  <2> DEFINE p == Append(Parent(q), dir[c][k].name)
  <2>3. p \in DOMAIN nodes
    BY <1>1, <1>3, <2>2, CacheFull
  <2>4. Parent(p) = Parent(q) /\ Name(p) = dir[c][k].name
    <3>1. Parent(q) = << >> \/ (Parent(q) \in Places /\ Len(Parent(q)) = 1)
      BY <1>1, CacheAt, PathIs
    <3>2. dir[c][k].name \in Names
      <4>1. dir[c][k] \in LiveEntry
        BY <1>1, <2>2, EntryType DEF Good
      <4> QED BY <4>1 DEF LiveEntry
    <3> QED BY <3>1, <3>2, ChildIs
  <2> HIDE DEF p
  <2>5. nodes[p].dc = c
    <3>1. nodes[p].dc = DirCluster(nodes, Parent(p)) /\ nodes[q].dc = DirCluster(nodes, Parent(q))
      BY <1>1, <2>3, CacheAt
    <3> QED BY <1>3, <2>2, <2>4, <3>1
  <2>6. nodes[p].slot \in 1 .. Slots /\ Lives(dir, c, nodes[p].slot) /\ dir[c][nodes[p].slot].name = Name(p)
    BY <1>1, <2>3, <2>5, CacheAt, NodeLives
  <2>7. nodes[p].slot = k
    BY <1>1, <1>3, <2>1, <2>4, <2>6 DEF Good, NamesApart
  <2> QED BY <2>2, <2>3, <2>5, <2>7
<1> QED BY <1>2, <1>3

LEMMA OffsetsInFiles ==
    ASSUME FsCore
    PROVE  OffsetInFile
BY DEF FsCore, FilesOK, FileOK, OffsetInFile

-----------------------------------------------------------------------------
LEMMA FsInvariant == FsSpec => []FsInv
<1>1. FsInit => FsInv
  BY InitHolds
<1>2. FsInv /\ [FsNext]_fsVars => FsInv'
  BY NextKeeps
<1> QED BY <1>1, <1>2, PTL DEF FsSpec

\* While programs use lower-case names: whatever write the machine stops after, the disk is sound.
\* fat_create, fat_write, fat_unlink and fat_update_dirent_size write their sectors in an order that
\* never leaves two entries with a common cluster, a chain that is cut, or a file longer than its
\* chain, also when kmalloc fails under fat_readdir or fat_create; until it does, no name is in a
\* directory twice.
THEOREM DiskAlwaysSound == FsSpec => []DiskSound
<1>1. FsInv => DiskSound
  BY DiskIsSound DEF FsInv, DiskSound
<1> QED BY <1>1, FsInvariant, PTL

\* While programs use lower-case names, calls that run to their end lose no cluster: what the
\* table has in use, some entry has.  Not after a crash, nor after a directory was removed with
\* entries in it.
THEOREM ClustersAlwaysKept == FsSpec => []NoClusterLost
<1>1. FsInv => NoClusterLost
  BY NoneIsLost DEF FsInv, NoClusterLost
<1> QED BY <1>1, FsInvariant, PTL

\* While programs use lower-case names, the nodes of vfs.c say between calls what the disk says,
\* also those made before and after a kmalloc that failed; until one fails, no entry of a directory
\* that was read is left out.
THEOREM CacheAlwaysRight == FsSpec => []CacheRight
<1>1. FsInv => CacheRight
  BY CacheIsRight DEF FsInv, CacheRight
<1> QED BY <1>1, FsInvariant, PTL

\* While programs use lower-case names, vfs_read never computes size - offset past the end of a
\* file, but for the two cases of past.
THEOREM OffsetsAlwaysInFile == FsSpec => []OffsetInFile
<1>1. FsInv => OffsetInFile
  BY OffsetsInFiles DEF FsInv, OffsetInFile
<1> QED BY <1>1, FsInvariant, PTL
=============================================================================
