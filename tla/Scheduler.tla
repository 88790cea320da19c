------------------------------ MODULE Scheduler -----------------------------
(***************************************************************************)
(* Tasks, kernel/scheduler.c, with the process system calls of             *)
(* kernel/syscall.c and the timer interrupt of kernel/isr.c.               *)
(*                                                                         *)
(* All task structs hang on one circular list through their next pointers; *)
(* g_current is the one on the processor.  Task 1 is the boot thread: it   *)
(* runs the shell and, through cmd_run, at most one ring-3 program at a    *)
(* time, and it is the only task that makes system calls.  Interrupts are  *)
(* disabled inside every handler, so each handler is one action.           *)
(***************************************************************************)
EXTENDS Integers, FiniteSets, FiniteSetsExt

CONSTANTS
    KernelTasks,   \* how many tasks kernel_main creates (task_a, task_b, task_net)
    Sleepers,      \* tasks whose body calls task_sleep
    Frames,        \* choices for the number of free frames at boot
    ProgramFrames, \* frames elf_load takes: page tables, program pages, stack
    Signals,       \* signal numbers programs use
    MaxSleep       \* longest sleep, in ticks

ASSUME SchedulerSizes ==
    /\ KernelTasks \in Nat
    /\ Frames \subseteq Nat /\ \E m \in Frames : \A f \in Frames : f <= m
    /\ ProgramFrames \in Nat \ {0}
    /\ Signals \subseteq 0 .. 31
    /\ MaxSleep \in Nat \ {0}

SIGINT == 2
SIGKILL == 9
SIGTERM == 15

Shell == 1                                     \* the slot of pid 1
MaxSlots == 1 + (Max(Frames) \div 2)         \* two frames per task
Slot == 1 .. MaxSlots

\* A program and its page tables: one that cmd_run started, and one that took
\* the place of another by SYS_EXEC.
Programs == {"user", "exec"}

VARIABLES
    task,       \* the allocated task structs: slot -> record
    next,       \* next pointers of the allocated structs
    g_current,
    g_next_pid,
    mode,       \* "boot", "shell" or a program: what task 1 is executing;
                \* "halted" after cli;hlt, "crashed" after a wild switch
    cr3,        \* the page tables loaded: the kernel's or a program's
    free,       \* free frames
    spent,      \* history: frames taken by page tables and programs, or lost
                \* on an error path; nothing ever gives these back
    shot        \* history: a fatal signal reached task 1 while it was off
                \* the processor

vars == <<task, next, g_current, g_next_pid, mode, cr3, free, spent, shot>>

Tasks == DOMAIN task

\* A fresh struct; the caller sets what differs.  saved tells where the saved
\* stack pointer points: into the task's own stack, into a stack that is not
\* the task's ("foreign": task 1 really runs on the boot stack), to a copy of
\* the first frame of task 1 ("idle": idle_task, which never enables
\* interrupts), or nowhere sensible ("wild").
NewTask(pid, ppid) ==
    [pid |-> pid, ppid |-> ppid, state |-> "READY", pending |-> {},
     handler |-> {}, wake |-> 0, cr3 |-> "none", saved |-> "own"]

\* scheduler_init has created the idle task, which the boot thread becomes.
Init ==
    /\ task = [t \in {Shell} |-> [NewTask(1, 0) EXCEPT !.state = "RUNNING"]]
    /\ next = [t \in {Shell} |-> Shell]
    /\ g_current = Shell
    /\ g_next_pid = 2
    /\ mode = "boot"
    /\ cr3 = "kernel"
    /\ free \in Frames
    /\ spent = 0
    /\ shot = FALSE

-----------------------------------------------------------------------------
(* The ring.                                                               *)

FreshSlot == CHOOSE s \in Slot : s \notin Tasks

\* t, t->next, t->next->next, ...
Follow(t, len) ==
    LET F[k \in 0 .. len] == IF k = 0 THEN t ELSE next[F[k - 1]] IN F

\* g_current, g_current->next, ... until it is g_current again.
Walk == Follow(g_current, Cardinality(Tasks))

InsertAfterCurrent(s, rec) ==
    /\ task' = [t \in Tasks \cup {s} |-> IF t = s THEN rec ELSE task[t]]
    /\ next' = [t \in Tasks \cup {s} |->
                   CASE t = s -> next[g_current]
                     [] t = g_current -> s
                     [] OTHER -> next[t]]

\* Mutant: the reaped structs are freed while still linked.
UnlinkNothing(gone) == [t \in Tasks \ gone |-> next[t]]

\* The next pointers after the structs in gone have been unlinked one by one.
Unlink(gone) ==
    [t \in Tasks \ gone |->
        LET chain == Follow(next[t], Cardinality(gone))
        IN  chain[Min({k \in DOMAIN chain : chain[k] \notin gone})]]

\* Mutant: the kernel stack of a reaped task is not freed.
FreedFramesStructOnly(count) == count

\* pmm_free of the kernel stack and of the struct.
FreedFrames(count) == 2 * count

-----------------------------------------------------------------------------
(* schedule().                                                             *)

Runnable(T, t) == T[t].state \notin {"TERMINATED", "SLEEPING"}

\* Mutant: the search starts at the head of the list, task 1.
NextIndexFromHead(T) ==
    Min({k \in 1 .. Cardinality(Tasks) :
            \/ Walk[k] = Shell /\ Runnable(T, Shell)
            \/ Shell \notin Tasks
            \/ ~Runnable(T, Shell) /\ (Walk[k] = g_current \/ Runnable(T, Walk[k]))})

\* The index on the walk of the task to run: the first runnable one after
\* g_current, or g_current itself, which comes last.
NextIndex(T) ==
    Min({k \in 1 .. Cardinality(Tasks) :
            Walk[k] = g_current \/ Runnable(T, Walk[k])})

\* Mutant: the clean-up loop starts at g_current and ends at once.
ReapedNothing(T) == {}

\* The clean-up loop starts at the chosen task, so terminated tasks that were
\* skipped over on the way to it wait for another call.
Reaped(T) ==
    {Walk[k] : k \in {j \in NextIndex(T) .. Cardinality(Tasks) - 1 :
                          T[Walk[j]].state = "TERMINATED"}}

\* Mutant: only a task that was running goes back to READY.
PreemptedRunningOnly(rec) ==
    [rec EXCEPT !.state = IF @ = "RUNNING" THEN "READY" ELSE @,
                !.cr3 = cr3, !.saved = "foreign"]

\* What the outgoing task's struct holds after context_switch: READY, whatever
\* it was before.
Preempted(rec) ==
    [rec EXCEPT !.state = "READY", !.cr3 = cr3, !.saved = "foreign"]

\* The outgoing kernel tasks do run on their own stacks.
SwitchedOut(T) ==
    IF g_current = Shell THEN Preempted(T[Shell])
    ELSE [Preempted(T[g_current]) EXCEPT !.saved = T[g_current].saved]

\* schedule() with the task structs as in T.
Schedule(T) ==
    LET chosen == Walk[NextIndex(T)]
        gone == Reaped(T)
    IN  IF chosen = g_current
        THEN /\ task' = T
             /\ mode' = IF T[g_current].state = "TERMINATED" THEN "halted" ELSE mode
             /\ UNCHANGED <<next, g_current, cr3, free>>
        ELSE /\ task' = [t \in Tasks \ gone |->
                            CASE t = g_current -> SwitchedOut(T)
                              [] t = chosen -> [T[t] EXCEPT !.state = "RUNNING"]
                              [] OTHER -> T[t]]
             /\ next' = Unlink(gone)
             /\ g_current' = chosen
             /\ cr3' = IF T[chosen].cr3 = "none" THEN "kernel" ELSE T[chosen].cr3
             /\ free' = free + FreedFrames(Cardinality(gone))
             /\ mode' = CASE T[chosen].saved = "wild" -> "crashed"
                          [] T[chosen].saved = "idle" -> "halted"
                          [] OTHER -> mode

-----------------------------------------------------------------------------
(* scheduler_tick().                                                       *)

\* Pending signals in increasing order, up to the first that kills.
Fatal(rec) ==
    {s \in rec.pending :
        s = SIGKILL \/ (s \in {SIGINT, SIGTERM} /\ s \in rec.handler)}

\* One task's share of the tick.  wake counts down instead of comparing
\* pit_ticks() with wake_tick.
TickTask(rec) ==
    LET left == IF rec.wake = 0 THEN 0 ELSE rec.wake - 1
        awake == [rec EXCEPT !.wake = left,
                      !.state = IF @ = "SLEEPING" /\ left = 0 THEN "READY" ELSE @]
    IN  CASE awake.state = "TERMINATED" -> awake
          [] Fatal(awake) = {} -> [awake EXCEPT !.pending = {}]
          [] OTHER ->
               [awake EXCEPT !.state = "TERMINATED",
                             !.pending = {s \in @ : s > Min(Fatal(awake))}]

Running == mode = "shell" \/ mode \in Programs

\* IRQ 0: pit_tick, scheduler_tick, end of interrupt, schedule.
irq0 ==
    /\ Running
    /\ LET T == [t \in Tasks |-> TickTask(task[t])]
       IN  /\ Schedule(T)
           /\ shot' = (shot \/ /\ Shell \in Tasks \ {g_current}
                               /\ task[Shell].state # "TERMINATED"
                               /\ T[Shell].state = "TERMINATED")
    /\ UNCHANGED <<g_next_pid, spent>>

-----------------------------------------------------------------------------
(* Boot: kernel_main creates its tasks and enables interrupts.             *)

task_create ==
    /\ mode = "boot"
    /\ g_next_pid <= KernelTasks + 1
    /\ IF free >= 2
       THEN /\ InsertAfterCurrent(FreshSlot,
                                  NewTask(g_next_pid, task[g_current].pid))
            /\ free' = free - 2
            /\ g_next_pid' = g_next_pid + 1
            /\ UNCHANGED <<mode, spent>>
       ELSE \* a struct or a stack is missing; what was obtained is lost, and
            \* so it goes for the remaining tasks
            /\ free' = 0
            /\ spent' = spent + free
            /\ mode' = "shell"
            /\ UNCHANGED <<task, next, g_next_pid>>
    /\ UNCHANGED <<g_current, cr3, shot>>

EnableInterrupts ==
    /\ mode = "boot"
    /\ g_next_pid > KernelTasks + 1
    /\ mode' = "shell"
    /\ UNCHANGED <<task, next, g_current, g_next_pid, cr3, free, spent, shot>>

-----------------------------------------------------------------------------
(* What task 1 does: run a program, and the program's system calls.        *)

\* elf_load: page tables first, then a frame for every page; on the way out
\* for lack of memory nothing is given back.
Loads == free >= ProgramFrames

elf_load ==
    /\ free' = IF Loads THEN free - ProgramFrames ELSE 0
    /\ spent' = spent + (free - free')

\* cmd_run: enter_usermode_save_ret.
RunProgram ==
    /\ mode = "shell" /\ g_current = Shell
    /\ elf_load
    /\ mode' = IF Loads THEN "user" ELSE mode
    /\ cr3' = IF Loads THEN "user" ELSE cr3
    /\ UNCHANGED <<task, next, g_current, g_next_pid, shot>>

InProgram == mode \in Programs /\ g_current = Shell

\* The page tables that take the place of those in use.
Replacement == CHOOSE p \in Programs : p # mode

\* Mutant: the new program is entered on the page tables of the old one.
ExecKeepsCr3 ==
    /\ InProgram
    /\ elf_load
    /\ mode' = IF Loads THEN Replacement ELSE mode
    /\ UNCHANGED <<task, next, g_current, g_next_pid, cr3, shot>>

\* SYS_EXEC: the same task goes on with other page tables, which are loaded at once.
sys_exec ==
    /\ InProgram
    /\ elf_load
    /\ mode' = IF Loads THEN Replacement ELSE mode
    /\ cr3' = IF Loads THEN Replacement ELSE cr3
    /\ UNCHANGED <<task, next, g_current, g_next_pid, shot>>

\* Mutant: the exit path returns to the shell on the program's page tables.
ExitKeepsCr3 ==
    /\ InProgram
    /\ task' = [task EXCEPT ![Shell].state = "TERMINATED"]
    /\ mode' = "shell"
    /\ UNCHANGED <<next, g_current, g_next_pid, cr3, free, spent, shot>>

\* SYS_EXIT marks task 1 itself terminated and jumps back into cmd_run.
sys_exit ==
    /\ InProgram
    /\ task' = [task EXCEPT ![Shell].state = "TERMINATED"]
    /\ mode' = "shell"
    /\ cr3' = "kernel"
    /\ UNCHANGED <<next, g_current, g_next_pid, free, spent, shot>>

\* Mutant: the kernel stack of the child is used unchecked.
ForkSucceedsUnchecked == free >= 2

ForkSucceeds == free >= 3

\* SYS_FORK: page tables, struct, stack, in this order; the page tables are
\* lost when a later one is missing, and nobody frees them when the child dies.
\* The child's stack pointer is its stack plus the distance of the parent's
\* last saved stack pointer from the parent's stack.
sys_fork ==
    /\ InProgram
    /\ IF ForkSucceeds
       THEN InsertAfterCurrent(FreshSlot,
               [task[Shell] EXCEPT
                   !.pid = 0, !.ppid = task[Shell].pid, !.cr3 = "clone",
                   !.saved = IF @ = "own" THEN "idle" ELSE "wild"])
       ELSE UNCHANGED <<task, next>>
    /\ free' = CASE ForkSucceeds -> free - 3
                 [] free = 0 -> 0
                 [] OTHER -> free - 1
    /\ spent' = IF free = 0 THEN spent ELSE spent + 1
    /\ UNCHANGED <<g_current, g_next_pid, mode, cr3, shot>>

\* SYS_WAIT: the first terminated child on the walk is destroyed; -1 when there
\* is none.
sys_wait ==
    /\ InProgram
    /\ LET dead == {k \in 1 .. Cardinality(Tasks) - 1 :
                      /\ task[Walk[k]].ppid = task[Shell].pid
                      /\ task[Walk[k]].state = "TERMINATED"}
       IN  /\ dead # {}
           /\ LET child == Walk[Min(dead)]
              IN  /\ next' = Unlink({child})
                  /\ task' = [t \in Tasks \ {child} |-> task[t]]
                  /\ free' = free + FreedFrames(1)
    /\ UNCHANGED <<g_current, g_next_pid, mode, cr3, spent, shot>>

\* task_find: the first task on the walk with this pid.
TaskFind(pid) ==
    {Walk[k] : k \in {j \in 0 .. Cardinality(Tasks) - 1 :
        /\ task[Walk[j]].pid = pid
        /\ \A i \in 0 .. j - 1 : task[Walk[i]].pid # pid}}

sys_kill(pid, sig) ==
    /\ InProgram
    /\ \E target \in TaskFind(pid) :
          task' = IF sig = SIGKILL
                  THEN [task EXCEPT ![target].state = "TERMINATED"]
                  ELSE [task EXCEPT ![target].pending = @ \cup {sig}]
    /\ UNCHANGED <<next, g_current, g_next_pid, mode, cr3, free, spent, shot>>

\* SYS_SIGNAL installs or removes (NULL) a handler.
sys_signal(sig, installed) ==
    /\ InProgram
    /\ task' = [task EXCEPT ![Shell].handler =
                   IF installed THEN @ \cup {sig} ELSE @ \ {sig}]
    /\ UNCHANGED <<next, g_current, g_next_pid, mode, cr3, free, spent, shot>>

\* task_yield inside a system call that waits on a pipe.
YieldInSyscall ==
    /\ InProgram
    /\ Schedule(task)
    /\ UNCHANGED <<g_next_pid, spent, shot>>

\* task_sleep, called by a kernel task.
task_sleep(ticks) ==
    /\ Running
    /\ g_current \in Sleepers
    /\ Schedule([task EXCEPT ![g_current].state = "SLEEPING",
                             ![g_current].wake = ticks])
    /\ UNCHANGED <<g_next_pid, spent, shot>>

\* cli; hlt, or a processor running with a garbage stack.
Stopped == mode \in {"halted", "crashed"} /\ UNCHANGED vars

Pids == 0 .. KernelTasks + 1

Next ==
    \/ task_create \/ EnableInterrupts
    \/ irq0
    \/ RunProgram \/ sys_exec \/ sys_exit \/ sys_fork \/ sys_wait \/ YieldInSyscall
    \/ \E pid \in Pids, sig \in Signals : sys_kill(pid, sig)
    \/ \E sig \in Signals, installed \in BOOLEAN : sys_signal(sig, installed)
    \/ \E ticks \in 1 .. MaxSleep : task_sleep(ticks)
    \/ Stopped

\* The timer keeps firing; nothing else is promised.
Fairness == WF_vars(task_create) /\ WF_vars(EnableInterrupts) /\ WF_vars(irq0)

Spec == Init /\ [][Next]_vars /\ Fairness

-----------------------------------------------------------------------------
TaskRecord ==
    [pid : 0 .. KernelTasks + 1, ppid : 0 .. 1,
     state : {"READY", "RUNNING", "TERMINATED", "SLEEPING"},
     pending : SUBSET Signals, handler : SUBSET Signals, wake : 0 .. MaxSleep,
     cr3 : {"none", "kernel", "clone"} \cup Programs, saved : {"own", "foreign", "idle", "wild"}]

TypeOK ==
    /\ Tasks \subseteq Slot
    /\ \A t \in Tasks : task[t] \in TaskRecord
    /\ g_next_pid \in 2 .. KernelTasks + 2
    /\ mode \in {"boot", "shell", "halted", "crashed"} \cup Programs
    /\ cr3 \in {"kernel", "clone"} \cup Programs
    /\ free \in Nat /\ spent \in Nat /\ shot \in BOOLEAN

\* Whatever is created, forked, killed, reaped or waited for, the next pointers
\* form one circle through exactly the structs that are still allocated: no
\* struct is freed while reachable and none is lost while allocated.  Every
\* loop of scheduler.c over the list relies on it to end.
RingWellFormed ==
    /\ g_current \in Tasks
    /\ next \in [Tasks -> Tasks]
    /\ {Walk[k] : k \in DOMAIN Walk} = Tasks
    /\ Walk[Cardinality(Tasks)] = g_current

\* A program's exit and SIGKILL mark the shell's own struct terminated, and yet
\* the shell is not reaped: schedule() writes READY over it.  The one way to
\* lose it is a fatal signal delivered while it waits in a pipe call.
ShellLostOnlyToSignal == Shell \notin Tasks => shot

\* After every switch the page tables loaded are those of the code that runs
\* next: the program's in a program, the kernel's in the shell and in the
\* kernel tasks.
AddressSpaceRight ==
    Running =>
        CASE g_current = Shell -> cr3 = IF mode \in Programs THEN mode ELSE "kernel"
          [] OTHER -> cr3 = "kernel"

\* Each struct in the ring accounts for two frames, its own and its stack's.
\* Reaping, waiting and the error path of fork return exactly those, once; what
\* programs and page tables take stays taken.
FramesAccounted == free + spent + 2 * (Cardinality(Tasks) - 1) \in Frames

\* Round robin: a ready task gets the processor, dies or the machine stops.
NoStarvation ==
    \A t \in Slot :
        (t \in Tasks /\ task[t].state = "READY")
            ~> (t \notin Tasks \/ g_current = t \/ ~Runnable(task, t) \/ ~Running)

\* schedule() cleans up only part of the ring per call, but a terminated task
\* does not stay for ever as long as two tasks keep alternating.
ZombiesReaped ==
    \A t \in Slot :
        (t \in Tasks /\ task[t].state = "TERMINATED")
            ~> \/ t \notin Tasks
               \/ task[t].state # "TERMINATED"
               \/ ~Running
               \/ Cardinality({u \in Tasks : Runnable(task, u)}) <= 1

=============================================================================
