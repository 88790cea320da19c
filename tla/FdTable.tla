------------------------------- MODULE FdTable ------------------------------
(***************************************************************************)
(* File descriptors: the per-task table of kernel/scheduler.c, the pipe    *)
(* table of kernel/syscall.c and the file handles of fs/vfs.c, as the      *)
(* system calls of the running program and the death of a forked child     *)
(* change them.  Contents of files and pipes are left to other modules.    *)
(* Descriptors 0 to 2 are never allocated, only reached by dup2.           *)
(***************************************************************************)
EXTENDS Integers, FiniteSets

CONSTANTS
    MaxFd,      \* TASK_MAX_FD
    Handles,    \* addresses kmalloc can give to a file_t
    MaxPipes,   \* MAX_PIPES
    CallSets    \* kinds of program: the sets of system calls they make

ASSUME FdSizes ==
    /\ MaxFd \in Nat /\ MaxFd > 3
    /\ MaxPipes \in Nat
    /\ CallSets \subseteq SUBSET {"open", "close", "pipe", "dup2", "exit", "exec", "fork"}

Fd == 0 .. (MaxFd - 1)
Pipe == 1 .. MaxPipes

None == [kind |-> "none", obj |-> 0]

VARIABLES
    fd,        \* the running task's table
    childFd,   \* the table of its forked child
    child,     \* whether there is one
    files,     \* allocated file_t
    pipes,     \* g_pipes
    calls,     \* the calls the programs of this behaviour make
    leaked,    \* history: handles elf_load left open
    shared     \* history: pipes with an end copied by dup2 or fork, uncounted

vars == <<fd, childFd, child, files, pipes, calls, leaked, shared>>

EmptyTable == [i \in Fd |-> None]

Init ==
    /\ fd = EmptyTable
    /\ childFd = EmptyTable
    /\ child = FALSE
    /\ files = {}
    /\ calls \in CallSets
    /\ pipes = [p \in Pipe |-> [used |-> FALSE, readers |-> 0, writers |-> 0]]
    /\ leaked = {} /\ shared = {}

-----------------------------------------------------------------------------
(* Helpers.                                                                *)

\* task_fd_alloc: the lowest unused descriptor from 3 on, if any.
FreeFds(table) == {i \in 3 .. (MaxFd - 1) : table[i].kind = "none"}
FdAlloc(table) == CHOOSE i \in FreeFds(table) : \A j \in FreeFds(table) : i <= j

FilesOf(table, S) == {table[i].obj : i \in {j \in S : table[j].kind = "file"}}
PipesOf(table, S) == {table[i].obj : i \in {j \in S : table[j].kind \in {"pipe_r", "pipe_w"}}}

\* task_fd_close_all: the handles it closes (descriptors from 3 on) ...
ClosedAll(table) == FilesOf(table, 3 .. (MaxFd - 1))

\* ... and the table it leaves.  Pipe counts are not touched.
AfterCloseAll(table) == [i \in Fd |-> IF i >= 3 THEN None ELSE table[i]]

-----------------------------------------------------------------------------
(* System calls of the running program.                                    *)

\* Mutant: the handle stays open when no descriptor is free.
OpenKeeps ==
    /\ "open" \in calls
    /\ \E h \in Handles \ files :
         /\ files' = files \cup {h}
         /\ fd' = IF FreeFds(fd) = {} THEN fd
                  ELSE [fd EXCEPT ![FdAlloc(fd)] = [kind |-> "file", obj |-> h]]
    /\ UNCHANGED <<childFd, child, pipes, calls, leaked, shared>>

\* SYS_OPEN and SYS_CREATE: vfs_open or vfs_create allocates the handle, which
\* is closed again when no descriptor is free.
sys_open ==
    /\ "open" \in calls
    /\ \E h \in Handles \ files :
         IF FreeFds(fd) = {}
         THEN files' = (files \cup {h}) \ {h} /\ fd' = fd
         ELSE /\ files' = files \cup {h}
              /\ fd' = [fd EXCEPT ![FdAlloc(fd)] = [kind |-> "file", obj |-> h]]
    /\ UNCHANGED <<childFd, child, pipes, calls, leaked, shared>>

\* Mutant: a pipe is recycled as soon as one side is closed.
PipeClosedEarly(p, kind) ==
    [p EXCEPT !.readers = IF kind = "pipe_r" THEN @ - 1 ELSE @,
              !.writers = IF kind = "pipe_w" THEN @ - 1 ELSE @,
              !.used = FALSE]

\* One end of a pipe is closed; the slot is free when both sides are.
PipeClosed(p, kind) ==
    LET q == [p EXCEPT !.readers = IF kind = "pipe_r" THEN @ - 1 ELSE @,
                       !.writers = IF kind = "pipe_w" THEN @ - 1 ELSE @]
    IN  [q EXCEPT !.used = @ /\ ~(q.readers = 0 /\ q.writers = 0)]

sys_close(i) ==
    /\ "close" \in calls
    /\ fd[i].kind # "none"
    /\ files' = IF fd[i].kind = "file" THEN files \ {fd[i].obj} ELSE files
    /\ pipes' = IF fd[i].kind = "file" THEN pipes
                ELSE [pipes EXCEPT ![fd[i].obj] = PipeClosed(@, fd[i].kind)]
    /\ fd' = [fd EXCEPT ![i] = None]
    /\ UNCHANGED <<childFd, child, calls, leaked, shared>>

FreePipes == {p \in Pipe : ~pipes[p].used}
PipeAlloc == CHOOSE p \in FreePipes : \A q \in FreePipes : p <= q

\* SYS_PIPE: when the table has no two free descriptors everything is undone
\* but the counts of the unused slot.
sys_pipe ==
    /\ "pipe" \in calls
    /\ FreePipes # {}
    /\ LET p == PipeAlloc
           r == FdAlloc(fd)
           w == FdAlloc([fd EXCEPT ![r] = [kind |-> "pipe_r", obj |-> p]])
           room == Cardinality(FreeFds(fd)) >= 2
       IN  /\ pipes' = [pipes EXCEPT ![p] =
                           [used |-> room, readers |-> 1, writers |-> 1]]
           /\ fd' = IF room
                    THEN [fd EXCEPT ![r] = [kind |-> "pipe_r", obj |-> p],
                                    ![w] = [kind |-> "pipe_w", obj |-> p]]
                    ELSE fd
    /\ UNCHANGED <<childFd, child, files, calls, leaked, shared>>

\* SYS_DUP2 closes a file that is replaced, and copies the entry without
\* counting the new reference.
sys_dup2(old, new) ==
    /\ "dup2" \in calls
    /\ fd[old].kind # "none"
    /\ files' = IF fd[new].kind = "file" THEN files \ {fd[new].obj} ELSE files
    /\ fd' = [fd EXCEPT ![new] = fd[old]]
    /\ shared' = shared \cup PipesOf(fd, {old})
    /\ UNCHANGED <<childFd, child, pipes, calls, leaked>>

\* SYS_EXIT: task_fd_close_all on the running task; the next program runs on
\* the same table.
sys_exit ==
    /\ "exit" \in calls
    /\ files' = files \ ClosedAll(fd)
    /\ fd' = AfterCloseAll(fd)
    /\ UNCHANGED <<childFd, child, pipes, calls, leaked, shared>>

\* SYS_EXEC: elf_load opens the program by a handle that gets no descriptor.
\* The table is closed when the load succeeds, and kept when it fails, but a
\* load that fails to copy the address space returns without vfs_close.
sys_exec ==
    /\ "exec" \in calls
    /\ \/ UNCHANGED <<fd, files, leaked>>
       \/ /\ files # Handles
          /\ files' = files \ ClosedAll(fd) /\ fd' = AfterCloseAll(fd) /\ UNCHANGED leaked
       \/ \E h \in Handles \ files :
             files' = files \cup {h} /\ leaked' = leaked \cup {h} /\ UNCHANGED fd
    /\ UNCHANGED <<childFd, child, pipes, calls, shared>>

\* Mutant: the child's entry keeps the parent's handle.
ForkShares ==
    /\ "fork" \in calls
    /\ ~child
    /\ child' = TRUE
    /\ childFd' = fd
    /\ shared' = shared \cup PipesOf(fd, Fd)
    /\ UNCHANGED <<fd, files, pipes, calls, leaked>>

\* SYS_FORK: the child's table is a copy with a handle of its own for each
\* file (an entry stays unused when kmalloc fails) and the same pipes.
sys_fork ==
    /\ "fork" \in calls
    /\ ~child
    /\ child' = TRUE
    /\ \E copied \in SUBSET {i \in Fd : fd[i].kind = "file"} :
         \E new \in [copied -> Handles \ files] :
            /\ \A i, j \in copied : new[i] = new[j] => i = j
            /\ copied = {i \in Fd : fd[i].kind = "file"}
               \/ files \cup {new[i] : i \in copied} = Handles
            /\ files' = files \cup {new[i] : i \in copied}
            /\ childFd' = [i \in Fd |->
                 CASE i \in copied -> [kind |-> "file", obj |-> new[i]]
                   [] fd[i].kind = "file" /\ i \notin copied -> None
                   [] OTHER -> fd[i]]
    /\ shared' = shared \cup PipesOf(fd, Fd)
    /\ UNCHANGED <<fd, pipes, calls, leaked>>

-----------------------------------------------------------------------------
(* The child dies.                                                         *)

\* schedule() reaps it: task_fd_close_all, then the struct is freed.
ReapChild ==
    /\ child
    /\ child' = FALSE
    /\ files' = files \ ClosedAll(childFd)
    /\ childFd' = EmptyTable
    /\ UNCHANGED <<fd, pipes, calls, leaked, shared>>

\* SYS_WAIT destroys it: task_destroy frees the struct and closes nothing.
WaitChild ==
    /\ child
    /\ child' = FALSE
    /\ childFd' = EmptyTable
    /\ UNCHANGED <<fd, files, pipes, calls, leaked, shared>>

Next ==
    \/ sys_open \/ sys_pipe \/ sys_exit \/ sys_exec \/ sys_fork
    \/ \E i \in Fd : sys_close(i)
    \/ \E old, new \in Fd : sys_dup2(old, new)
    \/ ReapChild \/ WaitChild

Spec == Init /\ [][Next]_vars

-----------------------------------------------------------------------------
\* As long as programs do not call dup2, no descriptor of either task refers to
\* a file handle that has been freed, and no two descriptors share one, so that
\* closing both never frees the same block twice.
HandlesSound ==
    LET FileFds(table) == {i \in Fd : table[i].kind = "file"}
    IN  "dup2" \notin calls =>
        /\ FilesOf(fd, Fd) \cup FilesOf(childFd, Fd) \subseteq files
        /\ FilesOf(fd, Fd) \cap FilesOf(childFd, Fd) = {}
        /\ Cardinality(FilesOf(fd, Fd)) = Cardinality(FileFds(fd))
        /\ Cardinality(FilesOf(childFd, Fd)) = Cardinality(FileFds(childFd))

EndsIn(table, p, kind) == Cardinality({i \in Fd : table[i] = [kind |-> kind, obj |-> p]})
EndsOf(p, kind) == EndsIn(fd, p, kind) + EndsIn(childFd, p, kind)

\* The slot of a pipe is not recycled under a descriptor of either task that
\* still refers to it: its counts may be too high after an exit, never too low.
\* dup2 and fork (syscall.c:447-461) copy ends without counting them, so this
\* says nothing of a slot in which an end was ever copied.
PipeNotRecycled ==
    \A p \in Pipe \ shared :
        /\ EndsOf(p, "pipe_r") + EndsOf(p, "pipe_w") > 0 => pipes[p].used
        /\ pipes[p].readers >= EndsOf(p, "pipe_r")
        /\ pipes[p].writers >= EndsOf(p, "pipe_w")

\* Whatever is duplicated, replaced or closed, and also when the table is full,
\* a handle that is still allocated is still referred to, so no call sequence
\* exhausts the heap with handles nobody can close: for programs that do not
\* fork, and but for the handles elf_load forgets (elf.c:66-67).
NoHandleLost == "fork" \notin calls => files \subseteq FilesOf(fd, Fd) \cup leaked
=============================================================================
