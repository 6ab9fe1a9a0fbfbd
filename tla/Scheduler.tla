----------------------------- MODULE Scheduler -----------------------------
(***************************************************************************)
(* The scheduler of src/scheduler.c on several cores.                      *)
(*                                                                         *)
(* A core starts in kernel_main (external), where it may fork tasks, and   *)
(* enters user mode for good through init_task.  From then on the timer    *)
(* interrupt makes it run schedule.  The two arrays are shared and guarded *)
(* by tasks_lock, which is the abstract mutex Speenlock implements.        *)
(*                                                                         *)
(* The interrupt controller is external: an interrupt is active on a core  *)
(* that acknowledged it until that core writes the end of interrupt.  The  *)
(* source leaves open how many cores can have it active at once: the write *)
(* icfg = 0 of gic400_global_init asks for the N-N model by its comment    *)
(* (GIC400.c:67) and by GIC400.h:109, where the handling mode can be       *)
(* configured at all (GIC400.h:108); the GIC-400 handles shared interrupts *)
(* by the 1-N model.  oneOfN is either.                                    *)
(*                                                                         *)
(* A core in the kernel with interrupts on takes the timer interrupt too.  *)
(* Its handler, handle_irq_el1, recharges the timer and ends the interrupt *)
(* without a call of schedule: that tick is lost to the tasks.             *)
(*                                                                         *)
(* An exception of a task is taken to reach its handler and to return to   *)
(* the task.  Trap shows what stands in the way of that in this version.   *)
(***************************************************************************)
EXTENDS Integers, FiniteSets

CONSTANTS Cores,     \* processor ids
          CAP,       \* slots of tasks[] and of task_buffer[] (64)
          MaxTasks   \* bound: calls of user_task_create

ASSUME SchedConstants ==
    /\ IsFiniteSet(Cores)
    /\ CAP \in Nat /\ MaxTasks \in Nat

Slots == 0..(CAP - 1)
Ids == 1..MaxTasks            \* tasks with pure = true
ZeroTask == 0                 \* struct task {0}: empty slot or failed creation
Tasks == Ids \cup {ZeroTask}
tasks_lock == "tasks_lock"

(* Where acquire(&tasks_lock) and release(&tasks_lock) are called, and     *)
(* what follows them.                                                      *)
Entered == [fork_acquire   |-> "fork_inc",
            get_acquire    |-> "get_copy",
            refill_acquire |-> "refill",
            switch_acquire |-> "switch_inc"]
Left    == [fork_release   |-> "kernel",
            get_release    |-> "schedule",
            refill_release |-> "eoi",
            switch_release |-> "eoi"]

(* From the timer interrupt of a task to its end *)
Scheduling == {"get_acquire", "get_copy", "get_dec", "get_release", "schedule",
               "refill_acquire", "refill", "refill_release",
               "switch_acquire", "switch_inc", "switch_store", "switch_release", "eoi"}

(* Kernel code that runs with interrupts on.  Before its first release     *)
(* kernel_main has them off (start.c:53); it may then take none of them.   *)
Interruptible == {"kernel", "fork_acquire", "print_pgtbl"}

Points == Scheduling \cup Interruptible \cup
          {"fork_inc", "fork_store", "fork_release", "init_task", "user", "lost", "overrun"}

VARIABLES
    oneOfN,              \* one core at a time has a shared interrupt active (1-N), or each its own (N-N)
    holders,             \* the holder of tasks_lock
    tasks_count, tasks,  \* index of the last task to run, and the tasks
    tasks_buffer_count, task_buffer,
    current,             \* current[c]: my_cpu()->current_task
    active,              \* the cores on which SYS_TIMER_3 is active
    created, failed,     \* calls of user_task_create that succeeded, and the others
    at,                  \* at[c]: control point of core c
    task                 \* task[c]: the local variable task

queues == <<tasks_count, tasks, tasks_buffer_count, task_buffer>>
creation == <<created, failed>>
vars == <<oneOfN, holders, queues, current, active, creation, at, task>>

Lock == INSTANCE SpinMutex WITH Locks <- {tasks_lock}

Goto(c, from, to) ==
    /\ at[c] = from
    /\ at' = [at EXCEPT ![c] = to]

Init ==
    /\ oneOfN \in BOOLEAN
    /\ Lock!Init
    /\ tasks_count = -1
    /\ tasks = [s \in Slots |-> ZeroTask]
    /\ tasks_buffer_count = -1
    /\ task_buffer = [s \in Slots |-> ZeroTask]
    /\ current = [c \in Cores |-> ZeroTask]
    /\ active = {}
    /\ created = 0 /\ failed = 0
    /\ at = [c \in Cores |-> "kernel"]
    /\ task = [c \in Cores |-> ZeroTask]
-----------------------------------------------------------------------------
(* The interrupt controller *)

Signalled(c) ==
    /\ c \notin active
    /\ oneOfN => active = {}

(* Kernel code of c that is not inside handle_irq_el1 *)
Awake(c) == at[c] \in Interruptible => c \notin active

(* el1_irq: handle_irq_el1 has the interrupt, and recharges the timer *)
KernelIrq(c) ==
    /\ at[c] \in Interruptible
    /\ Signalled(c)
    /\ active' = active \cup {c}
    /\ UNCHANGED <<oneOfN, holders, queues, current, creation, at, task>>

(* It ends, and the kernel goes on where it was. *)
KernelEoi(c) ==
    /\ at[c] \in Interruptible
    /\ c \in active
    /\ active' = active \ {c}
    /\ UNCHANGED <<oneOfN, holders, queues, current, creation, at, task>>
-----------------------------------------------------------------------------
(* The lock *)

Acquire(c) ==
    /\ at[c] \in DOMAIN Entered
    /\ Awake(c)
    /\ Lock!Take(c, tasks_lock)
    /\ at' = [at EXCEPT ![c] = Entered[at[c]]]
    /\ UNCHANGED <<oneOfN, queues, current, active, creation, task>>

(* Past the release in fork and switch_to the local task is dead. *)
Release(c) ==
    /\ at[c] \in DOMAIN Left
    /\ Lock!Give(c, tasks_lock)
    /\ at' = [at EXCEPT ![c] = Left[at[c]]]
    /\ task' = [task EXCEPT ![c] = IF at[c] = "get_release" THEN @ ELSE ZeroTask]
    /\ UNCHANGED <<oneOfN, queues, current, active, creation>>
-----------------------------------------------------------------------------
(* Kernel threads *)

(* user_task_create: a new task, or {0} when a page for it is missing. *)
UserTaskCreate(t) ==
    /\ created + failed < MaxTasks
    /\ \/ t = created + 1 /\ created' = created + 1 /\ UNCHANGED failed
       \/ t = ZeroTask /\ failed' = failed + 1 /\ UNCHANGED created

(* fork(main), up to its acquire *)
Fork(c, t) ==
    /\ Goto(c, "kernel", "fork_acquire")
    /\ Awake(c)
    /\ UserTaskCreate(t)
    /\ task' = [task EXCEPT ![c] = t]
    /\ UNCHANGED <<oneOfN, holders, queues, current, active>>

(* task_id = ++tasks_buffer_count in fork, the index in switch_to *)
PushInc(c) ==
    /\ \/ Goto(c, "fork_inc", "fork_store")
       \/ Goto(c, "switch_inc", "switch_store")
    /\ tasks_buffer_count' = tasks_buffer_count + 1
    /\ UNCHANGED <<oneOfN, holders, tasks_count, tasks, task_buffer, current, active, creation, task>>

(* Faulty variant: switch_to stores the task that was current. *)
PushCurrent(c) ==
    /\ \/ Goto(c, "fork_store", "fork_release")
       \/ Goto(c, "switch_store", "switch_release")
    /\ tasks_buffer_count \in Slots
    /\ task_buffer' = [task_buffer EXCEPT ![tasks_buffer_count] =
                          IF at[c] = "fork_store" THEN task[c] ELSE current[c]]
    /\ UNCHANGED <<oneOfN, holders, tasks_count, tasks, tasks_buffer_count, current, active, creation, task>>

(* task_buffer[task_id] = task *)
PushStore(c) ==
    /\ \/ Goto(c, "fork_store", "fork_release")
       \/ Goto(c, "switch_store", "switch_release")
    /\ tasks_buffer_count \in Slots
    /\ task_buffer' = [task_buffer EXCEPT ![tasks_buffer_count] = task[c]]
    /\ UNCHANGED <<oneOfN, holders, tasks_count, tasks, tasks_buffer_count, current, active, creation, task>>

(* A store past the end of an array: nothing in fork, switch_to or the     *)
(* refill looks for a free slot.  What lies there is not modelled: the     *)
(* model ends here for this core, and for the arrays, whose lock it holds. *)
Overrun(c) ==
    /\ \/ at[c] \in {"fork_store", "switch_store"} /\ tasks_buffer_count \notin Slots
       \/ at[c] = "refill" /\ tasks_buffer_count >= 0 /\ tasks_count + 1 \notin Slots
    /\ at' = [at EXCEPT ![c] = "overrun"]
    /\ UNCHANGED <<oneOfN, holders, queues, current, active, creation, task>>

(* init_task(main): interrupts off, then a loop that only a debugger ends *)
InitTask(c) ==
    /\ Goto(c, "kernel", "init_task")
    /\ Awake(c)
    /\ UNCHANGED <<oneOfN, holders, queues, current, active, creation, task>>

(* The debugger clears wait; the task is created, which turns interrupts   *)
(* on (get_page uses a lock), and made current.                            *)
SetCurrent(c, t) ==
    /\ Goto(c, "init_task", "print_pgtbl")
    /\ UserTaskCreate(t)
    /\ current' = [current EXCEPT ![c] = t]
    /\ UNCHANGED <<oneOfN, holders, queues, active, task>>

(* print_pgtbl reads and prints the table, and the core returns to its     *)
(* task.  With {0} one of the two faults (see Trap) and the core is lost.  *)
EnterUser(c) ==
    /\ Goto(c, "print_pgtbl", IF current[c] = ZeroTask THEN "lost" ELSE "user")
    /\ Awake(c)
    /\ UNCHANGED <<oneOfN, holders, queues, current, active, creation, task>>
-----------------------------------------------------------------------------
(* The timer interrupt: handle_irq_el0, schedule *)

(* Faulty variant: the end of interrupt is written before schedule runs. *)
TimerIrqEoiFirst(c) ==
    /\ Goto(c, "user", "get_acquire")
    /\ Signalled(c)
    /\ UNCHANGED <<oneOfN, holders, queues, current, active, creation, task>>

(* el0_irq: gic400_ask returns SYS_TIMER_3, the timer is recharged *)
TimerIrq(c) ==
    /\ Goto(c, "user", "get_acquire")
    /\ Signalled(c)
    /\ active' = active \cup {c}
    /\ UNCHANGED <<oneOfN, holders, queues, current, creation, task>>

(* Faulty variant: the index is lowered for an empty array too. *)
GetCopyEmpty(c) ==
    /\ Goto(c, "get_copy", "get_dec")
    /\ task' = [task EXCEPT ![c] = IF tasks_count >= 0 THEN tasks[tasks_count] ELSE ZeroTask]
    /\ UNCHANGED <<oneOfN, holders, queues, current, active, creation>>

(* get_last: if(tasks_count >= 0) ret = tasks[tasks_count] *)
GetCopy(c) ==
    /\ Goto(c, "get_copy", IF tasks_count >= 0 THEN "get_dec" ELSE "get_release")
    /\ task' = [task EXCEPT ![c] = IF tasks_count >= 0 THEN tasks[tasks_count] ELSE ZeroTask]
    /\ UNCHANGED <<oneOfN, holders, queues, current, active, creation>>

(* Faulty variant: the index stays. *)
GetKeep(c) ==
    /\ Goto(c, "get_dec", "get_release")
    /\ UNCHANGED <<oneOfN, holders, queues, current, active, creation, task>>

(* --tasks_count *)
GetDec(c) ==
    /\ Goto(c, "get_dec", "get_release")
    /\ tasks_count' = tasks_count - 1
    /\ UNCHANGED <<oneOfN, holders, tasks, tasks_buffer_count, task_buffer, current, active, creation, task>>

(* The test of task.pure in schedule.  switch_to then writes current_task  *)
(* back to itself: what the core runs does not change.                     *)
Schedule(c) ==
    /\ Goto(c, "schedule", IF task[c] = ZeroTask THEN "refill_acquire" ELSE "switch_acquire")
    /\ current' = [current EXCEPT ![c] = current[c]]
    /\ UNCHANGED <<oneOfN, holders, queues, active, creation, task>>

(* Faulty variant: the buffer is not consumed. *)
RefillKeep(c) ==
    /\ at[c] = "refill"
    /\ tasks_buffer_count >= 0 /\ tasks_count + 1 \in Slots
    /\ tasks' = [tasks EXCEPT ![tasks_count + 1] = task_buffer[tasks_buffer_count]]
    /\ tasks_count' = tasks_count + 1
    /\ UNCHANGED <<oneOfN, holders, tasks_buffer_count, task_buffer, current, active, creation, at, task>>

(* One iteration of the loop that moves the buffer back, last task first *)
Refill(c) ==
    /\ at[c] = "refill"
    /\ tasks_buffer_count >= 0 /\ tasks_count + 1 \in Slots
    /\ tasks' = [tasks EXCEPT ![tasks_count + 1] = task_buffer[tasks_buffer_count]]
    /\ tasks_count' = tasks_count + 1
    /\ tasks_buffer_count' = tasks_buffer_count - 1
    /\ UNCHANGED <<oneOfN, holders, task_buffer, current, active, creation, at, task>>


RefillDone(c) ==
    /\ Goto(c, "refill", "refill_release")
    /\ tasks_buffer_count < 0
    /\ UNCHANGED <<oneOfN, holders, queues, current, active, creation, task>>

(* Faulty variant: the end of interrupt is not written. *)
EoiMissing(c) ==
    /\ Goto(c, "eoi", "user")
    /\ UNCHANGED <<oneOfN, holders, queues, current, active, creation, task>>

(* gic400_eoi(SYS_TIMER_3), and el0_irq_ret to the current task *)
Eoi(c) ==
    /\ Goto(c, "eoi", "user")
    /\ active' = active \ {c}
    /\ UNCHANGED <<oneOfN, holders, queues, current, creation, task>>
-----------------------------------------------------------------------------
(* A step of a call or of a handler that has begun *)
Inside(c) ==
    \/ Acquire(c)
    \/ Release(c)
    \/ PushInc(c)
    \/ PushStore(c)
    \/ Overrun(c)
    \/ GetCopy(c)
    \/ GetDec(c)
    \/ Schedule(c)
    \/ Refill(c)
    \/ RefillDone(c)
    \/ Eoi(c)
    \/ KernelEoi(c)
    \/ EnterUser(c)

Next ==
    \E c \in Cores :
        \/ Inside(c)
        \/ \E t \in Tasks : Fork(c, t) \/ SetCurrent(c, t)
        \/ InitTask(c)
        \/ TimerIrq(c)
        \/ KernelIrq(c)

Spec == Init /\ [][Next]_vars

SomeUser == \E c \in Cores : at[c] = "user"

(***************************************************************************)
(* A core inside a call keeps executing.  While a core is in user mode,    *)
(* where interrupts are on, each tick is taken by some core: by this one,  *)
(* or by another one, which may be in the kernel.  Nothing is assumed of   *)
(* kernel_main, of the debugger, or of which core gets the tick.           *)
(***************************************************************************)
FairSpec ==
    /\ Spec
    /\ \A c \in Cores : WF_vars(Inside(c))
    /\ WF_vars(SomeUser /\ \E c \in Cores : TimerIrq(c) \/ KernelIrq(c))
-----------------------------------------------------------------------------
(* Properties *)

(* The index of the buffer is one too large only between the increment and *)
(* the store of a push.                                                    *)
TypeOK ==
    /\ oneOfN \in BOOLEAN
    /\ holders \in [{tasks_lock} -> {{}} \cup {{c} : c \in Cores}]
    /\ tasks_count \in -1..(CAP - 1)
    /\ tasks_buffer_count \in -1..CAP
    /\ tasks \in [Slots -> Tasks]
    /\ task_buffer \in [Slots -> Tasks]
    /\ current \in [Cores -> Tasks]
    /\ active \subseteq Cores
    /\ created \in 0..MaxTasks /\ failed \in 0..MaxTasks
    /\ at \in [Cores -> Points]
    /\ task \in [Cores -> Tasks]

(* The places of task i outside cpus[]: a slot in use of either array, or  *)
(* the local variable of a core.                                           *)
Places(i) ==
    {<<"tasks", s>> : s \in {s \in Slots : s <= tasks_count /\ tasks[s] = i}} \cup
    {<<"buffer", s>> : s \in {s \in Slots : s <= tasks_buffer_count /\ task_buffer[s] = i}} \cup
    {<<"core", c>> : c \in {c \in Cores : task[c] = i}}

(* No task is lost or doubled by the two passes of schedule, by forks on   *)
(* other cores in between, or by failed creations: whenever the lock is    *)
(* free, a task a core did not start with is in exactly one place.         *)
TasksConserved ==
    holders[tasks_lock] = {} =>
        \A i \in 1..created :
            \/ \E c \in Cores : current[c] = i
            \/ Cardinality(Places(i)) = 1

(* A core that runs a task never finds it in the queues, and no other core *)
(* runs it: two cores would then use one trap frame and one stack.         *)
RunningNotQueued ==
    \A c \in Cores : current[c] # ZeroTask =>
        /\ Places(current[c]) = {}
        /\ \A k \in Cores \ {c} : current[k] # current[c]

(* The arrays are overrun by more tasks than they have slots and by        *)
(* nothing else: not by the refill on top of tasks that are still there,   *)
(* nor by a push after it.                                                 *)
NoOverrun == (\E c \in Cores : at[c] = "overrun") => created + failed > CAP

(* In the 1-N model schedule runs on one core at a time although it gives  *)
(* the lock up between get_last and the refill: the timer interrupt is     *)
(* active until its end, and on one core only.  What get_last found is     *)
(* then still true when schedule acts on it.                               *)
ScheduleAlone ==
    oneOfN => \A c, k \in Cores : at[c] \in Scheduling /\ at[k] \in Scheduling => c = k

Queued(i) == \E s \in Slots :
    \/ s <= tasks_count /\ tasks[s] = i
    \/ s <= tasks_buffer_count /\ task_buffer[s] = i

Ended == \E c \in Cores : at[c] = "eoi"

(* No core is in kernel code that can take a tick or hold the lock, and    *)
(* one has a task.                                                         *)
OnlyTasks ==
    /\ \A c \in Cores : at[c] \in Scheduling \cup {"user", "init_task", "lost"}
    /\ \E c \in Cores : at[c] \in Scheduling \cup {"user"}


(* "current task live hire": a queued task becomes the current task of     *)
(* some core in the end.                                                   *)
EveryTaskRuns ==
    \A i \in Ids : Queued(i) /\ SomeUser ~> \E c \in Cores : current[c] = i
=============================================================================
