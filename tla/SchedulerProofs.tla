-------------------------- MODULE SchedulerProofs --------------------------
(***************************************************************************)
(* Proofs about Scheduler for every number of cores and of tasks, arrays   *)
(* of every size, and both models of the interrupt controller.             *)
(***************************************************************************)
EXTENDS Scheduler, FiniteSetTheorems, TLAPS

(* Between acquire and release of tasks_lock; a core stopped by an overrun *)
(* keeps the lock.                                                         *)
Critical == {"fork_inc", "fork_store", "fork_release", "get_copy", "get_dec", "get_release",
             "refill", "refill_release", "switch_inc", "switch_store", "switch_release", "overrun"}
Storing == {"fork_store", "switch_store"}

LockHeld == \A c \in Cores : at[c] \in Critical => holders[tasks_lock] = {c}

ActiveInside ==
    /\ \A c \in Cores : at[c] \in Scheduling => c \in active
    /\ oneOfN => \A c, k \in active : c = k

(* A core that has not left kernel_main has no current task. *)
NoCurrent ==
    \A c \in Cores : at[c] \in {"kernel", "fork_acquire", "fork_inc", "fork_store", "fork_release", "init_task"}
                        => current[c] = ZeroTask

(* Where the local variable task holds nothing. *)
LocalMeans ==
    \A c \in Cores : at[c] \in {"kernel", "init_task", "print_pgtbl", "lost", "user", "get_acquire",
                                "get_copy", "refill_acquire", "refill", "refill_release", "eoi"}
                        => task[c] = ZeroTask

(* The cores that have taken a task out of the arrays or created one, and  *)
(* still have to take a slot of the buffer for it.                         *)
Carriers ==
    {c \in Cores : \/ at[c] \in {"fork_acquire", "fork_inc", "switch_acquire", "switch_inc"}
                   \/ at[c] \in {"get_release", "schedule"} /\ task[c] # ZeroTask}

(* Slots in use and slots still to be taken are no more than the calls of  *)
(* user_task_create: this is why the refill on top of a non-empty array    *)
(* stays inside it while the calls do.                                     *)
Room ==
    /\ (tasks_count + 1) + (tasks_buffer_count + 1) + Cardinality(Carriers) <= created + failed
    /\ created + failed <= MaxTasks

Indices ==
    \A c \in Cores : /\ at[c] = "get_dec" => tasks_count >= 0
                     /\ at[c] \in Storing => tasks_buffer_count >= 0

(* The index of the buffer is past its end only between the increment and  *)
(* the store, and after an overrun.                                        *)
Full == tasks_buffer_count = CAP => \E c \in Cores : at[c] \in Storing \cup {"overrun"}

Control ==
    /\ TypeOK
    /\ LockHeld
    /\ ActiveInside
    /\ NoCurrent
    /\ LocalMeans
    /\ Room
    /\ Indices
    /\ Full
-----------------------------------------------------------------------------
(* Every task that can be found anywhere has been created. *)
Known ==
    /\ \A s \in Slots : tasks[s] <= created /\ task_buffer[s] <= created
    /\ \A c \in Cores : task[c] <= created /\ current[c] <= created

(* A current task is nowhere else, not even in a slot that is not in use.  *)
RunsAlone ==
    \A c \in Cores : current[c] # ZeroTask =>
        /\ \A s \in Slots : tasks[s] # current[c] /\ task_buffer[s] # current[c]
        /\ \A k \in Cores : task[k] # current[c]
        /\ \A k \in Cores \ {c} : current[k] # current[c]
-----------------------------------------------------------------------------
(* The slots that hold their task for good: not the top of tasks[] once    *)
(* get_last has copied it, nor the top of task_buffer[] before its store.  *)
InTasks(s) == s <= tasks_count /\ (s = tasks_count => \A c \in Cores : at[c] # "get_dec")
InBuffer(s) == s <= tasks_buffer_count /\ (s = tasks_buffer_count => \A c \in Cores : at[c] \notin Storing)

(* The core has the only copy of the task. *)
Carries(c) == at[c] \notin {"fork_release", "switch_release"} /\ task[c] # ZeroTask

NotTwice ==
    /\ \A s, r \in Slots : InTasks(s) /\ InTasks(r) /\ tasks[s] = tasks[r] /\ tasks[s] # ZeroTask => s = r
    /\ \A s, r \in Slots : InBuffer(s) /\ InBuffer(r) /\ task_buffer[s] = task_buffer[r]
                           /\ task_buffer[s] # ZeroTask => s = r
    /\ \A s, r \in Slots : InTasks(s) /\ InBuffer(r) /\ tasks[s] # ZeroTask => tasks[s] # task_buffer[r]
    /\ \A c, k \in Cores : Carries(c) /\ Carries(k) /\ task[c] = task[k] => c = k
    /\ \A c \in Cores, s \in Slots : Carries(c) =>
          (InTasks(s) => tasks[s] # task[c]) /\ (InBuffer(s) => task_buffer[s] # task[c])

Somewhere(i) ==
    \/ \E c \in Cores : current[c] = i
    \/ \E s \in Slots : InTasks(s) /\ tasks[s] = i
    \/ \E s \in Slots : InBuffer(s) /\ task_buffer[s] = i
    \/ \E c \in Cores : Carries(c) /\ task[c] = i

NotLost == \A i \in 1..created : Somewhere(i)
-----------------------------------------------------------------------------
USE SchedConstants DEF Slots, Ids, ZeroTask, Tasks

(* What follows each acquire and each release. *)
LEMMA EnteredLeft ==
    ASSUME NEW p
    PROVE  /\ p \in DOMAIN Entered =>
                \/ p = "fork_acquire" /\ Entered[p] = "fork_inc"
                \/ p = "get_acquire" /\ Entered[p] = "get_copy"
                \/ p = "refill_acquire" /\ Entered[p] = "refill"
                \/ p = "switch_acquire" /\ Entered[p] = "switch_inc"
           /\ p \in DOMAIN Left =>
                \/ p = "fork_release" /\ Left[p] = "kernel"
                \/ p = "get_release" /\ Left[p] = "schedule"
                \/ p = "refill_release" /\ Left[p] = "eoi"
                \/ p = "switch_release" /\ Left[p] = "eoi"
  BY DEF Entered, Left

(* The control points, written out. *)
LEMMA AllPoints ==
    Points = Critical \cup Scheduling \cup
             {"kernel", "fork_acquire", "print_pgtbl", "init_task", "user", "lost"}
  BY DEF Points, Interruptible, Critical, Scheduling

(* The set of carriers is finite, and a core joins or leaves it alone. *)
LEMMA CarriersFinite == IsFiniteSet(Carriers) /\ Cardinality(Carriers) \in Nat
  <1>1. Carriers \in SUBSET Cores
    BY DEF Carriers
  <1> QED BY <1>1, FS_Subset, FS_CardinalityType

LEMMA CarriersFinitePrime == IsFiniteSet(Carriers') /\ Cardinality(Carriers') \in Nat
  <1>1. Carriers' \in SUBSET Cores
    BY DEF Carriers
  <1> QED BY <1>1, FS_Subset, FS_CardinalityType

(* One core at a time is inside a critical section. *)
LEMMA OneInside ==
    ASSUME LockHeld, NEW c \in Cores, NEW k \in Cores, at[c] \in Critical, at[k] \in Critical
    PROVE  c = k
  BY DEF LockHeld

(* The buffer index is inside the array when a core comes to raise it or to *)
(* read there.                                                             *)
LEMMA NotFull ==
    ASSUME TypeOK, LockHeld, Full, NEW c \in Cores, at[c] \in {"fork_inc", "switch_inc", "refill"}
    PROVE  tasks_buffer_count \in -1..(CAP - 1)
  <1>1. ASSUME NEW k \in Cores, at[k] \in Storing \cup {"overrun"} PROVE FALSE
    BY <1>1, OneInside DEF Critical, Storing
  <1>2. tasks_buffer_count # CAP
    BY <1>1 DEF Full
  <1> QED BY <1>2 DEF TypeOK

LEMMA InitControl == Init => Control
  <1> SUFFICES ASSUME Init PROVE Control
    OBVIOUS
  <1> USE DEF Init, Lock!Init
  <1>1. TypeOK
    BY AllPoints DEF TypeOK
  <1>2. LockHeld /\ ActiveInside /\ NoCurrent /\ LocalMeans /\ Indices /\ Full
    BY DEF LockHeld, ActiveInside, NoCurrent, LocalMeans, Indices, Full, Critical, Scheduling, Storing
  <1>3. Carriers = {}
    BY DEF Carriers
  <1>4. Room
    BY <1>3, FS_EmptySet DEF Room
  <1> QED BY <1>1, <1>2, <1>4 DEF Control

(* The model of the controller does not change. *)
LEMMA Fixed == [Next]_vars => oneOfN' = oneOfN
  BY DEF Next, Inside, vars, Acquire, Release, PushInc, PushStore, Overrun, GetCopy, GetDec, Schedule, Refill,
     RefillDone, Eoi, KernelEoi, EnterUser, Fork, SetCurrent, InitTask, TimerIrq, KernelIrq

(* The step of the control invariant, one action at a time. *)
LEMMA StepControl == Control /\ [Next]_vars => Control'
  <1> SUFFICES ASSUME Control, [Next]_vars PROVE Control'
    OBVIOUS
  <1> USE DEF Control
  <1>t. /\ TypeOK /\ LockHeld /\ ActiveInside /\ NoCurrent /\ LocalMeans /\ Room /\ Indices /\ Full
        /\ oneOfN' = oneOfN
    BY Fixed
  <1>f. /\ IsFiniteSet(Carriers) /\ Cardinality(Carriers) \in Nat
        /\ IsFiniteSet(Carriers') /\ Cardinality(Carriers') \in Nat
    BY CarriersFinite, CarriersFinitePrime
  <1>1. ASSUME NEW c \in Cores, Acquire(c) PROVE Control'
    <2> USE <1>1, EnteredLeft DEF Acquire, Lock!Take, queues, creation
    <2>1. at' \in [Cores -> Points]
      BY <1>t, AllPoints DEF TypeOK, Critical, Scheduling
    <2>2. TypeOK'
      <3>1. holders' \in [{tasks_lock} -> {{}} \cup {{k} : k \in Cores}]
        BY <1>t DEF TypeOK
      <3> QED BY <1>t, <2>1, <3>1 DEF TypeOK
    <2>3. LockHeld'
      BY <1>t, <2>1 DEF TypeOK, LockHeld, Critical
    <2>4. ActiveInside'
      BY <1>t DEF TypeOK, ActiveInside, Scheduling
    <2>5. NoCurrent' /\ LocalMeans'
      BY <1>t DEF TypeOK, NoCurrent, LocalMeans, Scheduling
    <2>6. Indices' /\ Full'
      BY <1>t DEF TypeOK, Indices, Full, Storing, LockHeld, Critical
    <2>7. Carriers' = Carriers
      BY <1>t DEF Carriers, TypeOK, LocalMeans
    <2>8. Room'
      BY <1>t, <1>f, <2>7 DEF Room, TypeOK
    <2> QED BY <2>2, <2>3, <2>4, <2>5, <2>6, <2>8
  <1>2. ASSUME NEW c \in Cores, Release(c) PROVE Control'
    <2> USE <1>2, EnteredLeft DEF Release, Lock!Give, queues, creation
    <2>1. at' \in [Cores -> Points]
      BY <1>t, AllPoints DEF TypeOK, Critical, Scheduling
    <2>2. TypeOK'
      <3>1. holders' \in [{tasks_lock} -> {{}} \cup {{k} : k \in Cores}]
        BY <1>t DEF TypeOK
      <3>2. task' \in [Cores -> Tasks]
        BY <1>t DEF TypeOK
      <3> QED BY <1>t, <2>1, <3>1, <3>2 DEF TypeOK
    <2>3. LockHeld'
      BY <1>t, <2>1 DEF TypeOK, LockHeld, Critical
    <2>4. ActiveInside'
      BY <1>t DEF TypeOK, ActiveInside, Scheduling
    <2>5. NoCurrent' /\ LocalMeans'
      BY <1>t DEF TypeOK, NoCurrent, LocalMeans, Scheduling
    <2>6. Indices' /\ Full'
      BY <1>t DEF TypeOK, Indices, Full, Storing, LockHeld, Critical
    <2>7. Carriers' = Carriers
      BY <1>t DEF Carriers, TypeOK, LocalMeans
    <2>8. Room'
      BY <1>t, <1>f, <2>7 DEF Room, TypeOK
    <2> QED BY <2>2, <2>3, <2>4, <2>5, <2>6, <2>8
  <1>3. ASSUME NEW c \in Cores, PushInc(c) PROVE Control'
    <2> USE <1>3 DEF PushInc, Goto, queues, creation
    <2>1. at' \in [Cores -> Points]
      BY <1>t, AllPoints DEF TypeOK, Critical, Scheduling
    <2>3. LockHeld'
      BY <1>t, <2>1 DEF TypeOK, LockHeld, Critical
    <2>4. ActiveInside'
      BY <1>t DEF TypeOK, ActiveInside, Scheduling
    <2>5. NoCurrent' /\ LocalMeans'
      BY <1>t DEF TypeOK, NoCurrent, LocalMeans, Scheduling
    <2>6. Indices' /\ Full'
      BY <1>t DEF TypeOK, Indices, Full, Storing, LockHeld, Critical
    <2>7. c \in Carriers /\ Carriers' = Carriers \ {c}
      BY <1>t DEF Carriers, TypeOK
    <2>8. Room'
      BY <1>t, <1>f, <2>7, FS_RemoveElement, SMTT(20) DEF Room, TypeOK
    <2>2. TypeOK'
      <3>1. tasks_buffer_count \in -1..(CAP - 1)
        BY <1>t, NotFull
      <3> QED BY <1>t, <2>1, <3>1 DEF TypeOK
    <2> QED BY <2>2, <2>3, <2>4, <2>5, <2>6, <2>8
  <1>4. ASSUME NEW c \in Cores, PushStore(c) PROVE Control'
    <2> USE <1>4 DEF PushStore, Goto, queues, creation
    <2>1. at' \in [Cores -> Points]
      BY <1>t, AllPoints DEF TypeOK, Critical, Scheduling
    <2>2. TypeOK'
      BY <1>t, <1>f, <2>1 DEF TypeOK, Room, Indices, Storing
    <2>3. LockHeld'
      BY <1>t, <2>1 DEF TypeOK, LockHeld, Critical
    <2>4. ActiveInside'
      BY <1>t DEF TypeOK, ActiveInside, Scheduling
    <2>5. NoCurrent' /\ LocalMeans'
      BY <1>t DEF TypeOK, NoCurrent, LocalMeans, Scheduling
    <2>6. Indices' /\ Full'
      BY <1>t DEF TypeOK, Indices, Full, Storing, LockHeld, Critical
    <2>7. Carriers' = Carriers
      BY <1>t DEF Carriers, TypeOK, LocalMeans
    <2>8. Room'
      BY <1>t, <1>f, <2>7 DEF Room, TypeOK
    <2> QED BY <2>2, <2>3, <2>4, <2>5, <2>6, <2>8
  <1>5. ASSUME NEW c \in Cores, InitTask(c) PROVE Control'
    <2> USE <1>5 DEF InitTask, Goto, queues, creation
    <2>1. at' \in [Cores -> Points]
      BY <1>t, AllPoints DEF TypeOK, Critical, Scheduling
    <2>2. TypeOK'
      BY <1>t, <1>f, <2>1 DEF TypeOK, Room, Indices, Storing
    <2>3. LockHeld'
      BY <1>t, <2>1 DEF TypeOK, LockHeld, Critical
    <2>4. ActiveInside'
      BY <1>t DEF TypeOK, ActiveInside, Scheduling
    <2>5. NoCurrent' /\ LocalMeans'
      BY <1>t DEF TypeOK, NoCurrent, LocalMeans, Scheduling
    <2>6. Indices' /\ Full'
      BY <1>t DEF TypeOK, Indices, Full, Storing, LockHeld, Critical
    <2>7. Carriers' = Carriers
      BY <1>t DEF Carriers, TypeOK, LocalMeans
    <2>8. Room'
      BY <1>t, <1>f, <2>7 DEF Room, TypeOK
    <2> QED BY <2>2, <2>3, <2>4, <2>5, <2>6, <2>8
  <1>6. ASSUME NEW c \in Cores, TimerIrq(c) PROVE Control'
    <2> USE <1>6 DEF TimerIrq, Signalled, Goto, queues, creation
    <2>1. at' \in [Cores -> Points]
      BY <1>t, AllPoints DEF TypeOK, Critical, Scheduling
    <2>2. TypeOK'
      BY <1>t, <1>f, <2>1 DEF TypeOK, Room, Indices, Storing
    <2>3. LockHeld'
      BY <1>t, <2>1 DEF TypeOK, LockHeld, Critical
    <2>4. ActiveInside'
      BY <1>t DEF TypeOK, ActiveInside, Scheduling
    <2>5. NoCurrent' /\ LocalMeans'
      BY <1>t DEF TypeOK, NoCurrent, LocalMeans, Scheduling
    <2>6. Indices' /\ Full'
      BY <1>t DEF TypeOK, Indices, Full, Storing, LockHeld, Critical
    <2>7. Carriers' = Carriers
      BY <1>t DEF Carriers, TypeOK, LocalMeans
    <2>8. Room'
      BY <1>t, <1>f, <2>7 DEF Room, TypeOK
    <2> QED BY <2>2, <2>3, <2>4, <2>5, <2>6, <2>8
  <1>7. ASSUME NEW c \in Cores, GetCopy(c) PROVE Control'
    <2> USE <1>7 DEF GetCopy, Goto, queues, creation
    <2>1. at' \in [Cores -> Points]
      BY <1>t, AllPoints DEF TypeOK, Critical, Scheduling
    <2>2. TypeOK'
      <3>1. tasks_count >= 0 => tasks[tasks_count] \in Tasks
        BY <1>t DEF TypeOK
      <3>2. task' \in [Cores -> Tasks]
        BY <1>t, <3>1 DEF TypeOK
      <3> QED BY <1>t, <2>1, <3>2 DEF TypeOK
    <2>3. LockHeld'
      BY <1>t, <2>1 DEF TypeOK, LockHeld, Critical
    <2>4. ActiveInside'
      BY <1>t DEF TypeOK, ActiveInside, Scheduling
    <2>5. NoCurrent' /\ LocalMeans'
      BY <1>t DEF TypeOK, NoCurrent, LocalMeans, Scheduling
    <2>6. Indices' /\ Full'
      BY <1>t DEF TypeOK, Indices, Full, Storing, LockHeld, Critical
    <2>7. Carriers' = Carriers
      BY <1>t DEF Carriers, TypeOK, LocalMeans
    <2>8. Room'
      BY <1>t, <1>f, <2>7 DEF Room, TypeOK
    <2> QED BY <2>2, <2>3, <2>4, <2>5, <2>6, <2>8
  <1>8. ASSUME NEW c \in Cores, GetDec(c) PROVE Control'
    <2> USE <1>8 DEF GetDec, Goto, queues, creation
    <2>1. at' \in [Cores -> Points]
      BY <1>t, AllPoints DEF TypeOK, Critical, Scheduling
    <2>2. TypeOK'
      BY <1>t, <1>f, <2>1 DEF TypeOK, Room, Indices, Storing
    <2>3. LockHeld'
      BY <1>t, <2>1 DEF TypeOK, LockHeld, Critical
    <2>4. ActiveInside'
      BY <1>t DEF TypeOK, ActiveInside, Scheduling
    <2>5. NoCurrent' /\ LocalMeans'
      BY <1>t DEF TypeOK, NoCurrent, LocalMeans, Scheduling
    <2>6. Indices' /\ Full'
      BY <1>t DEF TypeOK, Indices, Full, Storing, LockHeld, Critical
    <2>7. c \notin Carriers /\ (Carriers' = Carriers \/ Carriers' = Carriers \cup {c})
      BY <1>t DEF Carriers, TypeOK
    <2>8. Room'
      <3>1. Cardinality(Carriers') <= Cardinality(Carriers) + 1
        BY <1>f, <2>7, FS_AddElement
      <3> QED BY <1>t, <1>f, <3>1 DEF Room, TypeOK
    <2> QED BY <2>2, <2>3, <2>4, <2>5, <2>6, <2>8
  <1>9. ASSUME NEW c \in Cores, Schedule(c) PROVE Control'
    <2> USE <1>9 DEF Schedule, Goto, queues, creation
    <2>1. at' \in [Cores -> Points]
      BY <1>t, AllPoints DEF TypeOK, Critical, Scheduling
    <2>2. TypeOK'
      BY <1>t, <1>f, <2>1 DEF TypeOK, Room, Indices, Storing
    <2>3. LockHeld'
      BY <1>t, <2>1 DEF TypeOK, LockHeld, Critical
    <2>4. ActiveInside'
      BY <1>t DEF TypeOK, ActiveInside, Scheduling
    <2>5. NoCurrent' /\ LocalMeans'
      BY <1>t DEF TypeOK, NoCurrent, LocalMeans, Scheduling
    <2>6. Indices' /\ Full'
      BY <1>t DEF TypeOK, Indices, Full, Storing, LockHeld, Critical
    <2>7. Carriers' = Carriers
      BY <1>t DEF Carriers, TypeOK, LocalMeans
    <2>8. Room'
      BY <1>t, <1>f, <2>7 DEF Room, TypeOK
    <2> QED BY <2>2, <2>3, <2>4, <2>5, <2>6, <2>8
  <1>10. ASSUME NEW c \in Cores, Refill(c) PROVE Control'
    <2> USE <1>10 DEF Refill, Goto, queues, creation
    <2>1. at' \in [Cores -> Points]
      BY <1>t, AllPoints DEF TypeOK, Critical, Scheduling
    <2>2. TypeOK'
      <3>1. tasks_buffer_count \in Slots /\ tasks_count + 1 \in Slots
        BY <1>t, NotFull DEF TypeOK
      <3>2. tasks' \in [Slots -> Tasks]
        BY <1>t, <3>1 DEF TypeOK
      <3> QED BY <1>t, <2>1, <3>1, <3>2 DEF TypeOK
    <2>3. LockHeld'
      BY <1>t, <2>1 DEF TypeOK, LockHeld, Critical
    <2>4. ActiveInside'
      BY <1>t DEF TypeOK, ActiveInside, Scheduling
    <2>5. NoCurrent' /\ LocalMeans'
      BY <1>t DEF TypeOK, NoCurrent, LocalMeans, Scheduling
    <2>6. Indices' /\ Full'
      <3>1. tasks_buffer_count \in Slots
        BY <1>t, NotFull DEF TypeOK
      <3>2. tasks_buffer_count' # CAP
        BY <1>t, <3>1
      <3>3. \A k \in Cores : at[k] # "get_dec" /\ at[k] \notin Storing
        BY <1>t, OneInside DEF Critical, Storing
      <3> QED BY <3>2, <3>3 DEF Indices, Full
    <2>7. Carriers' = Carriers
      BY <1>t DEF Carriers, TypeOK, LocalMeans
    <2>8. Room'
      BY <1>t, <1>f, <2>7 DEF Room, TypeOK
    <2> QED BY <2>2, <2>3, <2>4, <2>5, <2>6, <2>8
  <1>11. ASSUME NEW c \in Cores, RefillDone(c) PROVE Control'
    <2> USE <1>11 DEF RefillDone, Goto, queues, creation
    <2>1. at' \in [Cores -> Points]
      BY <1>t, AllPoints DEF TypeOK, Critical, Scheduling
    <2>2. TypeOK'
      BY <1>t, <1>f, <2>1 DEF TypeOK, Room, Indices, Storing
    <2>3. LockHeld'
      BY <1>t, <2>1 DEF TypeOK, LockHeld, Critical
    <2>4. ActiveInside'
      BY <1>t DEF TypeOK, ActiveInside, Scheduling
    <2>5. NoCurrent' /\ LocalMeans'
      BY <1>t DEF TypeOK, NoCurrent, LocalMeans, Scheduling
    <2>6. Indices' /\ Full'
      BY <1>t DEF TypeOK, Indices, Full, Storing, LockHeld, Critical
    <2>7. Carriers' = Carriers
      BY <1>t DEF Carriers, TypeOK, LocalMeans
    <2>8. Room'
      BY <1>t, <1>f, <2>7 DEF Room, TypeOK
    <2> QED BY <2>2, <2>3, <2>4, <2>5, <2>6, <2>8
  <1>12. ASSUME NEW c \in Cores, Eoi(c) PROVE Control'
    <2> USE <1>12 DEF Eoi, Goto, queues, creation
    <2>1. at' \in [Cores -> Points]
      BY <1>t, AllPoints DEF TypeOK, Critical, Scheduling
    <2>2. TypeOK'
      BY <1>t, <1>f, <2>1 DEF TypeOK, Room, Indices, Storing
    <2>3. LockHeld'
      BY <1>t, <2>1 DEF TypeOK, LockHeld, Critical
    <2>4. ActiveInside'
      BY <1>t DEF TypeOK, ActiveInside, Scheduling
    <2>5. NoCurrent' /\ LocalMeans'
      BY <1>t DEF TypeOK, NoCurrent, LocalMeans, Scheduling
    <2>6. Indices' /\ Full'
      BY <1>t DEF TypeOK, Indices, Full, Storing, LockHeld, Critical
    <2>7. Carriers' = Carriers
      BY <1>t DEF Carriers, TypeOK, LocalMeans
    <2>8. Room'
      BY <1>t, <1>f, <2>7 DEF Room, TypeOK
    <2> QED BY <2>2, <2>3, <2>4, <2>5, <2>6, <2>8
  <1>13. ASSUME NEW c \in Cores, NEW t \in Tasks, Fork(c, t) PROVE Control'
    <2> USE <1>13 DEF Fork, UserTaskCreate, Goto, queues, creation
    <2>1. at' \in [Cores -> Points]
      BY <1>t, AllPoints DEF TypeOK, Critical, Scheduling
    <2>2. TypeOK'
      BY <1>t, <1>f, <2>1, SMTT(20) DEF TypeOK, Room, Indices, Storing
    <2>3. LockHeld'
      BY <1>t, <2>1 DEF TypeOK, LockHeld, Critical
    <2>4. ActiveInside'
      BY <1>t DEF TypeOK, ActiveInside, Scheduling
    <2>5. NoCurrent' /\ LocalMeans'
      BY <1>t DEF TypeOK, NoCurrent, LocalMeans, Scheduling
    <2>6. Indices' /\ Full'
      BY <1>t DEF TypeOK, Indices, Full, Storing, LockHeld, Critical
    <2>7. c \notin Carriers /\ Carriers' = Carriers \cup {c}
      BY <1>t DEF Carriers, TypeOK
    <2>8. Room'
      <3>1. Cardinality(Carriers') = Cardinality(Carriers) + 1
        BY <1>f, <2>7, FS_AddElement
      <3>2. created' + failed' = created + failed + 1
        BY <1>t DEF TypeOK
      <3> QED BY <1>t, <1>f, <3>1, <3>2 DEF Room, TypeOK
    <2> QED BY <2>2, <2>3, <2>4, <2>5, <2>6, <2>8
  <1>14. ASSUME NEW c \in Cores, NEW t \in Tasks, SetCurrent(c, t) PROVE Control'
    <2> USE <1>14 DEF SetCurrent, UserTaskCreate, Goto, queues
    <2>1. at' \in [Cores -> Points]
      BY <1>t, AllPoints DEF TypeOK, Critical, Scheduling
    <2>2. TypeOK'
      BY <1>t, <1>f, <2>1 DEF TypeOK
    <2>3. LockHeld'
      BY <1>t, <2>1 DEF TypeOK, LockHeld, Critical
    <2>4. ActiveInside'
      BY <1>t DEF TypeOK, ActiveInside, Scheduling
    <2>5. NoCurrent' /\ LocalMeans'
      BY <1>t DEF TypeOK, NoCurrent, LocalMeans, Scheduling
    <2>6. Indices' /\ Full'
      BY <1>t DEF TypeOK, Indices, Full, Storing, LockHeld, Critical
    <2>7. Carriers' = Carriers
      BY <1>t DEF Carriers, TypeOK, LocalMeans
    <2>8. Room'
      BY <1>t, <1>f, <2>7 DEF Room, TypeOK
    <2> QED BY <2>2, <2>3, <2>4, <2>5, <2>6, <2>8
  <1>15. ASSUME NEW c \in Cores, EnterUser(c) PROVE Control'
    <2> USE <1>15 DEF EnterUser, Goto, queues, creation
    <2>1. at' \in [Cores -> Points]
      BY <1>t, AllPoints DEF TypeOK, Critical, Scheduling
    <2>2. TypeOK'
      BY <1>t, <1>f, <2>1 DEF TypeOK
    <2>3. LockHeld'
      BY <1>t, <2>1 DEF TypeOK, LockHeld, Critical
    <2>4. ActiveInside'
      BY <1>t DEF TypeOK, ActiveInside, Scheduling
    <2>5. NoCurrent' /\ LocalMeans'
      BY <1>t DEF TypeOK, NoCurrent, LocalMeans, Scheduling
    <2>6. Indices' /\ Full'
      BY <1>t DEF TypeOK, Indices, Full, Storing, LockHeld, Critical
    <2>7. Carriers' = Carriers
      BY <1>t DEF Carriers, TypeOK, LocalMeans
    <2>8. Room'
      BY <1>t, <1>f, <2>7 DEF Room, TypeOK
    <2> QED BY <2>2, <2>3, <2>4, <2>5, <2>6, <2>8
  <1>16. ASSUME NEW c \in Cores, Overrun(c) PROVE Control'
    <2> USE <1>16 DEF Overrun, queues, creation
    <2>1. at' \in [Cores -> Points]
      BY <1>t, AllPoints DEF TypeOK, Critical, Scheduling
    <2>2. TypeOK'
      BY <1>t, <1>f, <2>1 DEF TypeOK
    <2>3. LockHeld'
      BY <1>t, <2>1 DEF TypeOK, LockHeld, Critical
    <2>4. ActiveInside'
      BY <1>t DEF TypeOK, ActiveInside, Scheduling
    <2>5. NoCurrent' /\ LocalMeans'
      BY <1>t DEF TypeOK, NoCurrent, LocalMeans, Scheduling
    <2>6. Indices' /\ Full'
      BY <1>t DEF TypeOK, Indices, Full, Storing, LockHeld, Critical
    <2>7. Carriers' = Carriers
      BY <1>t DEF Carriers, TypeOK, LocalMeans
    <2>8. Room'
      BY <1>t, <1>f, <2>7 DEF Room, TypeOK
    <2> QED BY <2>2, <2>3, <2>4, <2>5, <2>6, <2>8
  <1>17. ASSUME NEW c \in Cores, KernelIrq(c) PROVE Control'
    <2> USE <1>17 DEF KernelIrq, Signalled, Interruptible, queues, creation
    <2>1. at' \in [Cores -> Points]
      BY <1>t, AllPoints DEF TypeOK, Critical, Scheduling
    <2>2. TypeOK'
      BY <1>t, <1>f, <2>1 DEF TypeOK
    <2>3. LockHeld'
      BY <1>t, <2>1 DEF TypeOK, LockHeld, Critical
    <2>4. ActiveInside'
      BY <1>t DEF TypeOK, ActiveInside, Scheduling
    <2>5. NoCurrent' /\ LocalMeans'
      BY <1>t DEF TypeOK, NoCurrent, LocalMeans, Scheduling
    <2>6. Indices' /\ Full'
      BY <1>t DEF TypeOK, Indices, Full, Storing, LockHeld, Critical
    <2>7. Carriers' = Carriers
      BY <1>t DEF Carriers, TypeOK, LocalMeans
    <2>8. Room'
      BY <1>t, <1>f, <2>7 DEF Room, TypeOK
    <2> QED BY <2>2, <2>3, <2>4, <2>5, <2>6, <2>8
  <1>18. ASSUME NEW c \in Cores, KernelEoi(c) PROVE Control'
    <2> USE <1>18 DEF KernelEoi, Interruptible, queues, creation
    <2>1. at' \in [Cores -> Points]
      BY <1>t, AllPoints DEF TypeOK, Critical, Scheduling
    <2>2. TypeOK'
      BY <1>t, <1>f, <2>1 DEF TypeOK
    <2>3. LockHeld'
      BY <1>t, <2>1 DEF TypeOK, LockHeld, Critical
    <2>4. ActiveInside'
      BY <1>t DEF TypeOK, ActiveInside, Scheduling
    <2>5. NoCurrent' /\ LocalMeans'
      BY <1>t DEF TypeOK, NoCurrent, LocalMeans, Scheduling
    <2>6. Indices' /\ Full'
      BY <1>t DEF TypeOK, Indices, Full, Storing, LockHeld, Critical
    <2>7. Carriers' = Carriers
      BY <1>t DEF Carriers, TypeOK, LocalMeans
    <2>8. Room'
      BY <1>t, <1>f, <2>7 DEF Room, TypeOK
    <2> QED BY <2>2, <2>3, <2>4, <2>5, <2>6, <2>8
  <1>19. CASE UNCHANGED vars
    BY <1>19 DEF vars, queues, creation, TypeOK, LockHeld, ActiveInside, NoCurrent, LocalMeans, Room,
       Indices, Full, Carriers
  <1> QED BY <1>1, <1>2, <1>3, <1>4, <1>5, <1>6, <1>7, <1>8, <1>9, <1>10, <1>11, <1>12, <1>13, <1>14, <1>15,
             <1>16, <1>17, <1>18, <1>19 DEF Next, Inside
-----------------------------------------------------------------------------
(* Where tasks are: only created ones, and the current ones nowhere else. *)
LEMMA InitRuns == Init => Known /\ RunsAlone
  BY DEF Init, Known, RunsAlone

LEMMA StepRuns == Control /\ Known /\ RunsAlone /\ [Next]_vars => (Known /\ RunsAlone)'
  <1> SUFFICES ASSUME Control, Known, RunsAlone, [Next]_vars PROVE Known' /\ RunsAlone'
    OBVIOUS
  <1>t. TypeOK /\ Indices /\ LockHeld /\ Full
    BY DEF Control
  <1> USE DEF Known, RunsAlone
  <1>1. ASSUME NEW c \in Cores, Acquire(c) PROVE Known' /\ RunsAlone'
    BY <1>t, <1>1 DEF Acquire, queues, creation, TypeOK, Indices, Storing
  <1>2. ASSUME NEW c \in Cores, Release(c) PROVE Known' /\ RunsAlone'
    BY <1>t, <1>2 DEF Release, queues, creation, TypeOK, Indices, Storing
  <1>3. ASSUME NEW c \in Cores, PushInc(c) PROVE Known' /\ RunsAlone'
    BY <1>t, <1>3 DEF PushInc, Goto, queues, creation, TypeOK, Indices, Storing
  <1>4. ASSUME NEW c \in Cores, PushStore(c) PROVE Known' /\ RunsAlone'
    BY <1>t, <1>4 DEF PushStore, Goto, queues, creation, TypeOK, Indices, Storing
  <1>5. ASSUME NEW c \in Cores, InitTask(c) PROVE Known' /\ RunsAlone'
    BY <1>t, <1>5 DEF InitTask, Goto, queues, creation, TypeOK, Indices, Storing
  <1>6. ASSUME NEW c \in Cores, TimerIrq(c) PROVE Known' /\ RunsAlone'
    BY <1>t, <1>6 DEF TimerIrq, Goto, queues, creation, TypeOK, Indices, Storing
  <1>7. ASSUME NEW c \in Cores, GetCopy(c) PROVE Known' /\ RunsAlone'
    BY <1>t, <1>7 DEF GetCopy, Goto, queues, creation, TypeOK, Indices, Storing
  <1>8. ASSUME NEW c \in Cores, GetDec(c) PROVE Known' /\ RunsAlone'
    BY <1>t, <1>8 DEF GetDec, Goto, queues, creation, TypeOK, Indices, Storing
  <1>9. ASSUME NEW c \in Cores, Schedule(c) PROVE Known' /\ RunsAlone'
    BY <1>t, <1>9 DEF Schedule, Goto, queues, creation, TypeOK, Indices, Storing
  <1>10. ASSUME NEW c \in Cores, Refill(c) PROVE Known' /\ RunsAlone'
    <2>1. tasks_buffer_count \in Slots
      BY <1>t, <1>10, NotFull DEF Refill, TypeOK
    <2> QED BY <1>t, <1>10, <2>1 DEF Refill, creation, TypeOK
  <1>11. ASSUME NEW c \in Cores, RefillDone(c) PROVE Known' /\ RunsAlone'
    BY <1>t, <1>11 DEF RefillDone, Goto, queues, creation, TypeOK, Indices, Storing
  <1>12. ASSUME NEW c \in Cores, Eoi(c) PROVE Known' /\ RunsAlone'
    BY <1>t, <1>12 DEF Eoi, Goto, queues, creation, TypeOK, Indices, Storing
  <1>13. ASSUME NEW c \in Cores, NEW t \in Tasks, Fork(c, t) PROVE Known' /\ RunsAlone'
    <2>1. /\ created' \in Nat /\ created \in Nat /\ created <= created' /\ t <= created'
          /\ t # ZeroTask => t > created
      BY <1>t, <1>13 DEF Fork, UserTaskCreate, TypeOK
    <2>2. UNCHANGED <<tasks, task_buffer, current>> /\ task' = [task EXCEPT ![c] = t]
      BY <1>13 DEF Fork, queues
    <2>3. Known'
      BY <1>t, <2>1, <2>2, SMTT(20) DEF TypeOK
    <2>4. RunsAlone'
      BY <1>t, <2>1, <2>2 DEF TypeOK
    <2> QED BY <2>3, <2>4
  <1>14. ASSUME NEW c \in Cores, NEW t \in Tasks, SetCurrent(c, t) PROVE Known' /\ RunsAlone'
    <2>1. /\ created' \in Nat /\ created \in Nat /\ created <= created' /\ t <= created'
          /\ t # ZeroTask => t > created
      BY <1>t, <1>14 DEF SetCurrent, UserTaskCreate, TypeOK
    <2>2. UNCHANGED <<tasks, task_buffer, task>> /\ current' = [current EXCEPT ![c] = t]
      BY <1>14 DEF SetCurrent, queues
    <2>3. Known'
      <3>0. \A a \in Tasks : a <= created => a <= created'
        BY <2>1
      <3>1. \A s \in Slots : tasks'[s] <= created' /\ task_buffer'[s] <= created'
        <4>1. \A s \in Slots : tasks[s] \in Tasks /\ task_buffer[s] \in Tasks
          BY <1>t DEF TypeOK
        <4> QED BY <2>2, <3>0, <4>1
      <3>2. \A k \in Cores : task'[k] <= created' /\ current[k] <= created'
        <4>1. \A k \in Cores : task[k] \in Tasks /\ current[k] \in Tasks
          BY <1>t DEF TypeOK
        <4> QED BY <2>2, <3>0, <4>1
      <3>3. \A k \in Cores : current'[k] \in {current[k], t}
        BY <1>t, <2>2 DEF TypeOK
      <3> QED BY <2>1, <3>1, <3>2, <3>3
    <2>4. ASSUME NEW k \in Cores, current'[k] # ZeroTask
          PROVE  /\ \A s \in Slots : tasks'[s] # current'[k] /\ task_buffer'[s] # current'[k]
                 /\ \A j \in Cores : task'[j] # current'[k]
                 /\ \A j \in Cores \ {k} : current'[j] # current'[k]
      <3>1. CASE k = c
        <4>1. current'[k] = t /\ t > created
          BY <1>t, <2>1, <2>2, <2>4, <3>1 DEF TypeOK
        <4> QED BY <1>t, <2>1, <2>2, <4>1 DEF TypeOK
      <3>2. CASE k # c
        <4>1. current'[k] = current[k] /\ current[k] # t
          BY <1>t, <2>1, <2>2, <2>4, <3>2 DEF TypeOK
        <4>2. \A j \in Cores \ {k} : current'[j] \in {current[j], t}
          BY <1>t, <2>2 DEF TypeOK
        <4> QED BY <2>2, <2>4, <4>1, <4>2
      <3> QED BY <3>1, <3>2
    <2> QED BY <2>3, <2>4
  <1>15. ASSUME NEW c \in Cores, EnterUser(c) PROVE Known' /\ RunsAlone'
    BY <1>15 DEF EnterUser, queues, creation
  <1>16. ASSUME NEW c \in Cores, Overrun(c) PROVE Known' /\ RunsAlone'
    BY <1>16 DEF Overrun, queues, creation
  <1>17. ASSUME NEW c \in Cores, KernelIrq(c) PROVE Known' /\ RunsAlone'
    BY <1>17 DEF KernelIrq, queues, creation
  <1>18. ASSUME NEW c \in Cores, KernelEoi(c) PROVE Known' /\ RunsAlone'
    BY <1>18 DEF KernelEoi, queues, creation
  <1>19. CASE UNCHANGED vars
    BY <1>19 DEF vars, queues, creation
  <1> QED BY <1>1, <1>2, <1>3, <1>4, <1>5, <1>6, <1>7, <1>8, <1>9, <1>10, <1>11, <1>12, <1>13, <1>14, <1>15,
             <1>16, <1>17, <1>18, <1>19 DEF Next, Inside
-----------------------------------------------------------------------------
(* No task is lost or doubled. *)
LEMMA InitPlaces == Init => NotTwice /\ NotLost
  <1> SUFFICES ASSUME Init PROVE NotTwice /\ NotLost
    OBVIOUS
  <1>1. \A c \in Cores : ~Carries(c)
    BY DEF Init, Carries
  <1>2. \A s \in Slots : ~InTasks(s) /\ ~InBuffer(s)
    BY DEF Init, InTasks, InBuffer
  <1>3. NotLost
    BY DEF Init, NotLost
  <1> QED BY <1>1, <1>2, <1>3 DEF NotTwice

(* A step that changes nothing about who has which task. *)
LEMMA PlacesKept ==
    ASSUME NotTwice, NotLost,
           UNCHANGED <<tasks, task_buffer, current, created>>,
           \A s \in Slots : (InTasks(s)' <=> InTasks(s)) /\ (InBuffer(s)' <=> InBuffer(s)),
           \A c \in Cores : Carries(c)' <=> Carries(c),
           \A c \in Cores : Carries(c) => task'[c] = task[c]
    PROVE  NotTwice' /\ NotLost'
  <1>1. NotTwice'
    BY DEF NotTwice
  <1>2. \A i \in 1..created : Somewhere(i) => Somewhere(i)'
    BY DEF Somewhere
  <1> QED BY <1>1, <1>2 DEF NotLost

LEMMA StepPlaces ==
    Control /\ Known /\ RunsAlone /\ NotTwice /\ NotLost /\ [Next]_vars => (NotTwice /\ NotLost)'
  <1> SUFFICES ASSUME Control, Known, RunsAlone, NotTwice, NotLost, [Next]_vars
               PROVE  NotTwice' /\ NotLost'
    OBVIOUS
  <1>t. TypeOK /\ LockHeld /\ LocalMeans /\ Indices /\ Full
    BY DEF Control
  <1> DEFINE Same == /\ UNCHANGED <<tasks, task_buffer, current, created>>
                     /\ \A s \in Slots : (InTasks(s)' <=> InTasks(s)) /\ (InBuffer(s)' <=> InBuffer(s))
                     /\ \A c \in Cores : Carries(c)' <=> Carries(c)
                     /\ \A c \in Cores : Carries(c) => task'[c] = task[c]
  <1>k. Same => NotTwice' /\ NotLost'
    BY PlacesKept
  <1> HIDE DEF Same
  <1>1. ASSUME NEW c \in Cores, Acquire(c) PROVE NotTwice' /\ NotLost'
    <2>1. Same
      BY EnteredLeft, <1>t, <1>1 DEF Same, Acquire, queues, creation, TypeOK, InTasks, InBuffer, Storing, Carries
    <2> QED BY <1>k, <2>1
  <1>2. ASSUME NEW c \in Cores, Release(c) PROVE NotTwice' /\ NotLost'
    <2>1. Same
      BY EnteredLeft, <1>t, <1>2 DEF Same, Release, queues, creation, TypeOK, InTasks, InBuffer, Storing, Carries,
         LocalMeans
    <2> QED BY <1>k, <2>1
  <1>3. ASSUME NEW c \in Cores, PushInc(c) PROVE NotTwice' /\ NotLost'
    <2>1. /\ \A k \in Cores : at[k] \notin Storing
          /\ at'[c] \in Storing
          /\ tasks_buffer_count' = tasks_buffer_count + 1
      <3>1. at[c] \in {"fork_inc", "switch_inc"} /\ at' = [at EXCEPT ![c] = at'[c]] /\ at'[c] \in Storing
        BY <1>t, <1>3 DEF PushInc, Goto, Storing, TypeOK
      <3>2. ASSUME NEW k \in Cores, at[k] \in Storing PROVE FALSE
        BY <1>t, <3>1, <3>2, OneInside DEF Critical, Storing
      <3> QED BY <1>3, <3>1, <3>2 DEF PushInc
    <2>2. \A s \in Slots : InBuffer(s)' <=> InBuffer(s)
      BY <1>t, <2>1 DEF InBuffer, TypeOK
    <2>3. \A s \in Slots : InTasks(s)' <=> InTasks(s)
      BY <1>t, <1>3 DEF PushInc, Goto, InTasks, TypeOK
    <2>4. Same
      BY <1>t, <1>3, <2>2, <2>3 DEF Same, PushInc, Goto, creation, TypeOK, Carries
    <2> QED BY <1>k, <2>4
  <1>4. ASSUME NEW c \in Cores, InitTask(c) PROVE NotTwice' /\ NotLost'
    <2>1. Same
      BY <1>t, <1>4 DEF Same, InitTask, Goto, queues, creation, TypeOK, InTasks, InBuffer, Storing, Carries
    <2> QED BY <1>k, <2>1
  <1>5. ASSUME NEW c \in Cores, TimerIrq(c) PROVE NotTwice' /\ NotLost'
    <2>1. Same
      BY <1>t, <1>5 DEF Same, TimerIrq, Goto, queues, creation, TypeOK, InTasks, InBuffer, Storing, Carries
    <2> QED BY <1>k, <2>1
  <1>6. ASSUME NEW c \in Cores, GetDec(c) PROVE NotTwice' /\ NotLost'
    <2>1. /\ \A k \in Cores : at'[k] # "get_dec"
          /\ at[c] = "get_dec"
          /\ tasks_count' = tasks_count - 1
      BY <1>t, <1>6 DEF GetDec, Goto, LockHeld, Critical, TypeOK
    <2>2. \A s \in Slots : InTasks(s)' <=> InTasks(s)
      BY <1>t, <2>1 DEF InTasks, TypeOK
    <2>3. \A s \in Slots : InBuffer(s)' <=> InBuffer(s)
      BY <1>t, <1>6 DEF GetDec, Goto, InBuffer, Storing, TypeOK
    <2>4. Same
      BY <1>t, <1>6, <2>2, <2>3 DEF Same, GetDec, Goto, creation, TypeOK, Carries
    <2> QED BY <1>k, <2>4
  <1>7. ASSUME NEW c \in Cores, Schedule(c) PROVE NotTwice' /\ NotLost'
    <2>1. Same
      BY <1>t, <1>7 DEF Same, Schedule, Goto, queues, creation, TypeOK, InTasks, InBuffer, Storing, Carries
    <2> QED BY <1>k, <2>1
  <1>8. ASSUME NEW c \in Cores, RefillDone(c) PROVE NotTwice' /\ NotLost'
    <2>1. Same
      BY <1>t, <1>8 DEF Same, RefillDone, Goto, queues, creation, TypeOK, InTasks, InBuffer, Storing, Carries
    <2> QED BY <1>k, <2>1
  <1>9. ASSUME NEW c \in Cores, Eoi(c) PROVE NotTwice' /\ NotLost'
    <2>1. Same
      BY <1>t, <1>9 DEF Same, Eoi, Goto, queues, creation, TypeOK, InTasks, InBuffer, Storing, Carries
    <2> QED BY <1>k, <2>1
  <1>10. ASSUME NEW c \in Cores, NEW t \in Tasks, Fork(c, t) PROVE NotTwice' /\ NotLost'
    <2>1. /\ UNCHANGED <<tasks, task_buffer, current>>
          /\ task' = [task EXCEPT ![c] = t]
          /\ \A s \in Slots : (InTasks(s)' <=> InTasks(s)) /\ (InBuffer(s)' <=> InBuffer(s))
      BY <1>t, <1>10 DEF Fork, Goto, queues, InTasks, InBuffer, Storing, TypeOK
    <2>2. /\ \A k \in Cores \ {c} : Carries(k)' <=> Carries(k)
          /\ ~Carries(c)
          /\ Carries(c)' <=> t # ZeroTask
      BY <1>t, <1>10 DEF Fork, Goto, Carries, TypeOK, LocalMeans
    <2>3. /\ created \in Nat
          /\ \/ t = created + 1 /\ created' = created + 1
             \/ t = ZeroTask /\ created' = created
      BY <1>t, <1>10 DEF Fork, UserTaskCreate, TypeOK
    <2>4. t # ZeroTask => /\ \A s \in Slots : tasks[s] # t /\ task_buffer[s] # t
                          /\ \A k \in Cores : task[k] # t
      BY <1>t, <2>3 DEF Known, TypeOK
    <2>5. NotTwice'
      BY <1>t, <2>1, <2>2, <2>4 DEF NotTwice, TypeOK
    <2>6. ASSUME NEW i \in 1..created' PROVE Somewhere(i)'
      <3>1. CASE i <= created
        <4>1. Somewhere(i)
          BY <2>3, <3>1 DEF NotLost
        <4> QED BY <1>t, <2>1, <2>2, <4>1 DEF Somewhere, TypeOK
      <3>2. CASE i > created
        <4>1. Carries(c)' /\ task'[c] = i
          BY <1>t, <2>1, <2>2, <2>3, <3>2 DEF TypeOK
        <4> QED BY <4>1 DEF Somewhere
      <3> QED BY <2>3, <3>1, <3>2
    <2> QED BY <2>5, <2>6 DEF NotLost
  <1>11. ASSUME NEW c \in Cores, NEW t \in Tasks, SetCurrent(c, t) PROVE NotTwice' /\ NotLost'
    <2>1. /\ UNCHANGED <<tasks, task_buffer, task>>
          /\ current' = [current EXCEPT ![c] = t]
          /\ \A s \in Slots : (InTasks(s)' <=> InTasks(s)) /\ (InBuffer(s)' <=> InBuffer(s))
          /\ \A k \in Cores : Carries(k)' <=> Carries(k)
      BY <1>t, <1>11 DEF SetCurrent, Goto, queues, InTasks, InBuffer, Storing, Carries, TypeOK
    <2>2. /\ created \in Nat
          /\ \/ t = created + 1 /\ created' = created + 1
             \/ t = ZeroTask /\ created' = created
      BY <1>t, <1>11 DEF SetCurrent, UserTaskCreate, TypeOK
    <2>3. current[c] = ZeroTask
      BY <1>t, <1>11 DEF SetCurrent, Goto, Control, NoCurrent
    <2>4. NotTwice'
      BY <2>1 DEF NotTwice
    <2>5. ASSUME NEW i \in 1..created' PROVE Somewhere(i)'
      <3>1. CASE i <= created
        <4>1. Somewhere(i)
          BY <2>2, <3>1 DEF NotLost
        <4>2. ASSUME NEW k \in Cores, current[k] = i PROVE current'[k] = i
          BY <1>t, <2>1, <2>3, <4>2 DEF TypeOK
        <4> QED BY <2>1, <4>1, <4>2 DEF Somewhere
      <3>2. CASE i > created
        <4>1. current'[c] = i
          BY <1>t, <2>1, <2>2, <3>2 DEF TypeOK
        <4> QED BY <4>1 DEF Somewhere
      <3> QED BY <2>2, <3>1, <3>2
    <2> QED BY <2>4, <2>5 DEF NotLost
  <1>12. ASSUME NEW c \in Cores, PushStore(c) PROVE NotTwice' /\ NotLost'
    <2> DEFINE b == tasks_buffer_count
    <2>1. /\ b \in Slots /\ tasks_buffer_count' = b
          /\ UNCHANGED <<tasks, current, created, task>>
          /\ task_buffer' = [task_buffer EXCEPT ![b] = task[c]]
      BY <1>t, <1>12 DEF PushStore, Goto, creation, Indices, Storing, TypeOK
    <2>2. \A s \in Slots : InTasks(s)' <=> InTasks(s)
      BY <1>t, <1>12 DEF PushStore, Goto, InTasks, TypeOK
    <2>3. at[c] \in Storing /\ \A k \in Cores : at'[k] \notin Storing
      <3>1. at[c] \in Storing /\ at'[c] \notin Storing /\ \A k \in Cores \ {c} : at'[k] = at[k]
        BY <1>t, <1>12 DEF PushStore, Goto, Storing, TypeOK
      <3>2. ASSUME NEW k \in Cores, k # c, at[k] \in Storing PROVE FALSE
        BY <1>t, <3>1, <3>2, OneInside DEF Critical, Storing
      <3> QED BY <3>1, <3>2
    <2>4. \A s \in Slots : (InBuffer(s) <=> s < b) /\ (InBuffer(s)' <=> s <= b)
      BY <1>t, <2>1, <2>3 DEF InBuffer, TypeOK
    <2>5. /\ \A k \in Cores \ {c} : Carries(k)' <=> Carries(k)
          /\ ~Carries(c)'
          /\ Carries(c) <=> task[c] # ZeroTask
      BY <1>t, <1>12 DEF PushStore, Goto, Carries, TypeOK
    <2>6. NotTwice'
      <3> HIDE DEF b
      <3>1. \A s \in Slots : task_buffer'[s] = IF s = b THEN task[c] ELSE task_buffer[s]
        BY <1>t, <2>1 DEF TypeOK
      <3>2. \A s \in Slots : InBuffer(s)' => (InBuffer(s) /\ s # b) \/ s = b
        BY <2>1, <2>4
      <3>3. \A s, r \in Slots : InTasks(s)' /\ InTasks(r)' /\ tasks'[s] = tasks'[r] /\ tasks'[s] # ZeroTask => s = r
        BY <2>1, <2>2 DEF NotTwice
      <3>4. \A s, r \in Slots : InBuffer(s)' /\ InBuffer(r)' /\ task_buffer'[s] = task_buffer'[r]
                                /\ task_buffer'[s] # ZeroTask => s = r
        BY <2>5, <3>1, <3>2 DEF NotTwice
      <3>5. \A s, r \in Slots : InTasks(s)' /\ InBuffer(r)' /\ tasks'[s] # ZeroTask => tasks'[s] # task_buffer'[r]
        BY <2>1, <2>2, <2>5, <3>1, <3>2 DEF NotTwice
      <3>6. \A k, j \in Cores : Carries(k)' /\ Carries(j)' /\ task'[k] = task'[j] => k = j
        BY <2>1, <2>5 DEF NotTwice
      <3>7. ASSUME NEW k \in Cores, NEW s \in Slots, Carries(k)'
            PROVE  (InTasks(s)' => tasks'[s] # task'[k]) /\ (InBuffer(s)' => task_buffer'[s] # task'[k])
        <4>1. k # c /\ Carries(k) /\ task[k] # ZeroTask
          BY <2>5, <3>7 DEF Carries
        <4> QED BY <2>1, <2>2, <2>5, <3>1, <3>2, <4>1 DEF NotTwice
      <3> QED BY <3>3, <3>4, <3>5, <3>6, <3>7, Zenon DEF NotTwice
    <2>7. ASSUME NEW i \in 1..created' PROVE Somewhere(i)'
      <3>1. Somewhere(i) /\ i # ZeroTask
        BY <2>1, <2>7 DEF NotLost
      <3>2. ASSUME NEW s \in Slots, InBuffer(s), task_buffer[s] = i PROVE Somewhere(i)'
        <4>1. InBuffer(s)' /\ task_buffer'[s] = i
          BY <1>t, <2>1, <2>4, <3>2 DEF TypeOK
        <4> QED BY <4>1 DEF Somewhere
      <3>3. ASSUME NEW k \in Cores, Carries(k), task[k] = i PROVE Somewhere(i)'
        <4>1. CASE k = c
          <5>1. InBuffer(b)' /\ task_buffer'[b] = i
            BY <1>t, <2>1, <2>4, <3>3, <4>1 DEF TypeOK
          <5> QED BY <2>1, <5>1 DEF Somewhere
        <4>2. CASE k # c
          BY <2>1, <2>5, <3>3, <4>2 DEF Somewhere
        <4> QED BY <4>1, <4>2
      <3> QED BY <2>1, <2>2, <3>1, <3>2, <3>3 DEF Somewhere
    <2> QED BY <2>6, <2>7 DEF NotLost
  <1>13. ASSUME NEW c \in Cores, GetCopy(c) PROVE NotTwice' /\ NotLost'
    <2> DEFINE n == tasks_count
    <2>1. /\ UNCHANGED <<tasks, task_buffer, current, created, tasks_count, tasks_buffer_count>>
          /\ \A k \in Cores : at[k] # "get_dec"
          /\ \A s \in Slots : InBuffer(s)' <=> InBuffer(s)
      <3>1. at[c] = "get_copy" /\ UNCHANGED <<queues, current, creation>>
        BY <1>13 DEF GetCopy, Goto
      <3>2. ASSUME NEW k \in Cores, at[k] = "get_dec" PROVE FALSE
        BY <1>t, <3>1, <3>2, OneInside DEF Critical
      <3>3. \A s \in Slots : InBuffer(s)' <=> InBuffer(s)
        BY <1>t, <1>13 DEF GetCopy, Goto, queues, InBuffer, Storing, TypeOK
      <3> QED BY <3>1, <3>2, <3>3 DEF queues, creation
    <2>2. /\ ~Carries(c)
          /\ \A k \in Cores \ {c} : (Carries(k)' <=> Carries(k)) /\ task'[k] = task[k]
      BY <1>t, <1>13 DEF GetCopy, Goto, Carries, LocalMeans, TypeOK
    <2>3. CASE n < 0
      <3>1. \A s \in Slots : ~InTasks(s) /\ ~InTasks(s)'
        BY <1>t, <2>1, <2>3 DEF InTasks, TypeOK
      <3>2. ~Carries(c)'
        BY <1>t, <1>13, <2>3 DEF GetCopy, Carries, TypeOK
      <3>3. Same
        BY <2>1, <2>2, <3>1, <3>2 DEF Same
      <3> QED BY <1>k, <3>3
    <2>4. CASE n >= 0
      <3>1. n \in Slots /\ at'[c] = "get_dec" /\ task'[c] = tasks[n]
        BY <1>t, <1>13, <2>4 DEF GetCopy, Goto, TypeOK
      <3>2. \A s \in Slots : (InTasks(s) <=> s <= n) /\ (InTasks(s)' <=> s < n)
        BY <1>t, <2>1, <3>1 DEF InTasks, TypeOK
      <3>3. Carries(c)' <=> tasks[n] # ZeroTask
        BY <3>1 DEF Carries
      <3>4. NotTwice'
        <4> HIDE DEF n
        <4>1. \A s \in Slots : InTasks(s)' => InTasks(s) /\ s # n
          BY <3>1, <3>2
        <4>2. InTasks(n)
          BY <3>1, <3>2
        <4>3. \A s, r \in Slots : InTasks(s)' /\ InTasks(r)' /\ tasks'[s] = tasks'[r] /\ tasks'[s] # ZeroTask => s = r
          BY <2>1, <4>1 DEF NotTwice
        <4>4. \A s, r \in Slots : InBuffer(s)' /\ InBuffer(r)' /\ task_buffer'[s] = task_buffer'[r]
                                  /\ task_buffer'[s] # ZeroTask => s = r
          BY <2>1 DEF NotTwice
        <4>5. \A s, r \in Slots : InTasks(s)' /\ InBuffer(r)' /\ tasks'[s] # ZeroTask => tasks'[s] # task_buffer'[r]
          BY <2>1, <4>1 DEF NotTwice
        <4>6. \A k, j \in Cores : Carries(k)' /\ Carries(j)' /\ task'[k] = task'[j] => k = j
          BY <2>2, <3>1, <4>2 DEF NotTwice
        <4>7. ASSUME NEW k \in Cores, NEW s \in Slots, Carries(k)'
              PROVE  (InTasks(s)' => tasks'[s] # task'[k]) /\ (InBuffer(s)' => task_buffer'[s] # task'[k])
          <5>1. CASE k = c
            BY <2>1, <3>1, <3>3, <4>1, <4>2, <4>7, <5>1 DEF NotTwice
          <5>2. CASE k # c
            BY <2>1, <2>2, <4>1, <4>7, <5>2 DEF NotTwice
          <5> QED BY <5>1, <5>2
        <4> QED BY <4>3, <4>4, <4>5, <4>6, <4>7, Zenon DEF NotTwice
      <3>5. ASSUME NEW i \in 1..created' PROVE Somewhere(i)'
        <4>1. Somewhere(i) /\ i # ZeroTask
          BY <2>1, <3>5 DEF NotLost
        <4>2. ASSUME NEW s \in Slots, InTasks(s), tasks[s] = i PROVE Somewhere(i)'
          <5>1. CASE s = n
            BY <3>1, <3>3, <4>1, <4>2, <5>1 DEF Somewhere
          <5>2. CASE s # n
            <6>1. InTasks(s)' /\ tasks'[s] = i
              BY <1>t, <2>1, <3>2, <4>2, <5>2 DEF TypeOK
            <6> QED BY <6>1 DEF Somewhere
          <5> QED BY <5>1, <5>2
        <4>3. ASSUME NEW k \in Cores, Carries(k), task[k] = i PROVE Somewhere(i)'
          BY <2>2, <4>3 DEF Somewhere
        <4> QED BY <2>1, <4>1, <4>2, <4>3 DEF Somewhere
      <3> QED BY <3>4, <3>5 DEF NotLost
    <2> QED BY <1>t, <2>3, <2>4 DEF TypeOK
  <1>14. ASSUME NEW c \in Cores, Refill(c) PROVE NotTwice' /\ NotLost'
    <2> DEFINE n == tasks_count + 1
               b == tasks_buffer_count
    <2>1. /\ UNCHANGED <<task_buffer, current, created, task, at>>
          /\ tasks' = [tasks EXCEPT ![n] = task_buffer[b]]
          /\ tasks_count' = n /\ tasks_buffer_count' = b - 1
          /\ at[c] = "refill"
      BY <1>14 DEF Refill, creation
    <2>2. b \in Slots /\ n \in Slots
      <3>1. b \in -1..(CAP - 1)
        BY <1>t, <1>14, NotFull DEF Refill
      <3> QED BY <3>1, <1>14 DEF Refill
    <2>3. \A k \in Cores : at[k] # "get_dec" /\ at[k] \notin Storing
      BY <1>t, <2>1, OneInside DEF Critical, Storing
    <2>4. /\ \A s \in Slots : (InTasks(s) <=> s < n) /\ (InTasks(s)' <=> s <= n)
          /\ \A s \in Slots : (InBuffer(s) <=> s <= b) /\ (InBuffer(s)' <=> s < b)
      BY <1>t, <2>1, <2>3 DEF InTasks, InBuffer, TypeOK
    <2>5. \A k \in Cores : Carries(k)' <=> Carries(k)
      BY <2>1 DEF Carries
    <2>6. NotTwice'
      <3> HIDE DEF n, b
      <3>1. \A s \in Slots : tasks'[s] = IF s = n THEN task_buffer[b] ELSE tasks[s]
        BY <1>t, <2>1, <2>2 DEF TypeOK
      <3>2. \A s \in Slots : InTasks(s)' => (InTasks(s) /\ s # n) \/ s = n
        BY <2>2, <2>4
      <3>3. InBuffer(b) /\ \A s \in Slots : InBuffer(s)' => InBuffer(s) /\ s # b
        BY <2>2, <2>4
      <3>4. \A s, r \in Slots : InTasks(s)' /\ InTasks(r)' /\ tasks'[s] = tasks'[r] /\ tasks'[s] # ZeroTask => s = r
        BY <2>2, <3>1, <3>2, <3>3 DEF NotTwice
      <3>5. \A s, r \in Slots : InBuffer(s)' /\ InBuffer(r)' /\ task_buffer'[s] = task_buffer'[r]
                                /\ task_buffer'[s] # ZeroTask => s = r
        BY <2>1, <3>3 DEF NotTwice
      <3>6. \A s, r \in Slots : InTasks(s)' /\ InBuffer(r)' /\ tasks'[s] # ZeroTask => tasks'[s] # task_buffer'[r]
        BY <2>1, <2>2, <3>1, <3>2, <3>3 DEF NotTwice
      <3>7. \A k, j \in Cores : Carries(k)' /\ Carries(j)' /\ task'[k] = task'[j] => k = j
        BY <2>1, <2>5 DEF NotTwice
      <3>8. \A k \in Cores, s \in Slots : Carries(k)' =>
              (InTasks(s)' => tasks'[s] # task'[k]) /\ (InBuffer(s)' => task_buffer'[s] # task'[k])
        BY <2>1, <2>2, <2>5, <3>1, <3>2, <3>3 DEF NotTwice
      <3> QED BY <3>4, <3>5, <3>6, <3>7, <3>8, Zenon DEF NotTwice
    <2>7. ASSUME NEW i \in 1..created' PROVE Somewhere(i)'
      <3>1. Somewhere(i)
        BY <2>1, <2>7 DEF NotLost
      <3>2. ASSUME NEW s \in Slots, InTasks(s), tasks[s] = i PROVE Somewhere(i)'
        <4>1. InTasks(s)' /\ tasks'[s] = i
          BY <1>t, <2>1, <2>2, <2>4, <3>2 DEF TypeOK
        <4> QED BY <4>1 DEF Somewhere
      <3>3. ASSUME NEW s \in Slots, InBuffer(s), task_buffer[s] = i PROVE Somewhere(i)'
        <4>1. CASE s = b
          <5>1. PICK r \in Slots : r = n
            BY <2>2
          <5>2. InTasks(r)' /\ tasks'[r] = i
            BY <1>t, <2>1, <2>2, <2>4, <3>3, <4>1, <5>1 DEF TypeOK
          <5> QED BY <5>2 DEF Somewhere
        <4>2. CASE s # b
          <5>1. InBuffer(s)' /\ task_buffer'[s] = i
            BY <2>1, <2>2, <2>4, <3>3, <4>2
          <5> QED BY <5>1 DEF Somewhere
        <4> QED BY <4>1, <4>2
      <3> QED BY <2>1, <2>5, <3>1, <3>2, <3>3 DEF Somewhere
    <2> QED BY <2>6, <2>7 DEF NotLost
  <1>15. ASSUME NEW c \in Cores, EnterUser(c) PROVE NotTwice' /\ NotLost'
    <2>1. Same
      BY <1>t, <1>15 DEF Same, EnterUser, Goto, queues, creation, TypeOK, InTasks, InBuffer, Storing, Carries
    <2> QED BY <1>k, <2>1
  <1>16. ASSUME NEW c \in Cores, Overrun(c) PROVE NotTwice' /\ NotLost'
    <2>1. Same
      BY <1>t, <1>16 DEF Same, Overrun, Goto, queues, creation, TypeOK, InTasks, InBuffer, Storing, Carries
    <2> QED BY <1>k, <2>1
  <1>17. ASSUME NEW c \in Cores, KernelIrq(c) PROVE NotTwice' /\ NotLost'
    <2>1. Same
      BY <1>t, <1>17 DEF Same, KernelIrq, Goto, queues, creation, TypeOK, InTasks, InBuffer, Storing, Carries
    <2> QED BY <1>k, <2>1
  <1>18. ASSUME NEW c \in Cores, KernelEoi(c) PROVE NotTwice' /\ NotLost'
    <2>1. Same
      BY <1>t, <1>18 DEF Same, KernelEoi, Goto, queues, creation, TypeOK, InTasks, InBuffer, Storing, Carries
    <2> QED BY <1>k, <2>1
  <1>19. CASE UNCHANGED vars
    <2>1. Same
      BY <1>19 DEF Same, vars, queues, creation, InTasks, InBuffer, Carries
    <2> QED BY <1>k, <2>1
  <1> QED BY <1>1, <1>2, <1>3, <1>4, <1>5, <1>6, <1>7, <1>8, <1>9, <1>10, <1>11, <1>12, <1>13, <1>14, <1>15,
             <1>16, <1>17, <1>18, <1>19 DEF Next, Inside
-----------------------------------------------------------------------------
(* An overrun needs more calls of user_task_create than there are slots. *)
LEMMA StepOverrun == Control /\ NoOverrun /\ [Next]_vars => NoOverrun'
  <1> SUFFICES ASSUME Control, NoOverrun, [Next]_vars, NEW c \in Cores, at'[c] = "overrun"
               PROVE  created' + failed' > CAP
    BY DEF NoOverrun
  <1>t. TypeOK /\ Room /\ Indices /\ Cardinality(Carriers) \in Nat
    BY CarriersFinite DEF Control
  <1>1. created \in Nat /\ failed \in Nat /\ created' \in Nat /\ failed' \in Nat /\ created' + failed' >= created + failed
    BY <1>t DEF Next, Inside, vars, creation, TypeOK, Acquire, Release, PushInc, PushStore, Overrun, GetCopy, GetDec,
       Schedule, Refill, RefillDone, Eoi, KernelEoi, EnterUser, Fork, SetCurrent, UserTaskCreate, InitTask, TimerIrq,
       KernelIrq
  <1>2. CASE at[c] = "overrun"
    BY <1>t, <1>1, <1>2 DEF NoOverrun, TypeOK
  <1>3. CASE at[c] # "overrun"
    <2>1. Overrun(c)
      <3>1. ASSUME NEW k \in Cores, Acquire(k) PROVE FALSE
        BY <1>t, <1>3, EnteredLeft, <3>1 DEF Acquire, Goto, TypeOK
      <3>2. ASSUME NEW k \in Cores, Release(k) PROVE FALSE
        BY <1>t, <1>3, EnteredLeft, <3>2 DEF Release, Goto, TypeOK
      <3>3. ASSUME NEW k \in Cores, PushInc(k) PROVE FALSE
        BY <1>t, <1>3, <3>3 DEF PushInc, Goto, TypeOK
      <3>4. ASSUME NEW k \in Cores, PushStore(k) PROVE FALSE
        BY <1>t, <1>3, <3>4 DEF PushStore, Goto, TypeOK
      <3>5. ASSUME NEW k \in Cores, GetCopy(k) PROVE FALSE
        BY <1>t, <1>3, <3>5 DEF GetCopy, Goto, TypeOK
      <3>6. ASSUME NEW k \in Cores, GetDec(k) PROVE FALSE
        BY <1>t, <1>3, <3>6 DEF GetDec, Goto, TypeOK
      <3>7. ASSUME NEW k \in Cores, Schedule(k) PROVE FALSE
        BY <1>t, <1>3, <3>7 DEF Schedule, Goto, TypeOK
      <3>8. ASSUME NEW k \in Cores, Refill(k) PROVE FALSE
        BY <1>t, <1>3, <3>8 DEF Refill, Goto, TypeOK
      <3>9. ASSUME NEW k \in Cores, RefillDone(k) PROVE FALSE
        BY <1>t, <1>3, <3>9 DEF RefillDone, Goto, TypeOK
      <3>10. ASSUME NEW k \in Cores, Eoi(k) PROVE FALSE
        BY <1>t, <1>3, <3>10 DEF Eoi, Goto, TypeOK
      <3>11. ASSUME NEW k \in Cores, KernelEoi(k) PROVE FALSE
        BY <1>t, <1>3, <3>11 DEF KernelEoi, Goto, TypeOK
      <3>12. ASSUME NEW k \in Cores, EnterUser(k) PROVE FALSE
        BY <1>t, <1>3, <3>12 DEF EnterUser, Goto, TypeOK
      <3>13. ASSUME NEW k \in Cores, InitTask(k) PROVE FALSE
        BY <1>t, <1>3, <3>13 DEF InitTask, Goto, TypeOK
      <3>14. ASSUME NEW k \in Cores, TimerIrq(k) PROVE FALSE
        BY <1>t, <1>3, <3>14 DEF TimerIrq, Goto, TypeOK
      <3>15. ASSUME NEW k \in Cores, KernelIrq(k) PROVE FALSE
        BY <1>t, <1>3, <3>15 DEF KernelIrq, Goto, TypeOK
      <3>16. ASSUME NEW k \in Cores, NEW t \in Tasks, Fork(k, t) PROVE FALSE
        BY <1>t, <1>3, <3>16 DEF Fork, Goto, TypeOK
      <3>17. ASSUME NEW k \in Cores, NEW t \in Tasks, SetCurrent(k, t) PROVE FALSE
        BY <1>t, <1>3, <3>17 DEF SetCurrent, Goto, TypeOK
      <3>18. ASSUME NEW k \in Cores, Overrun(k) PROVE k = c
        BY <1>t, <1>3, <3>18 DEF Overrun, TypeOK
      <3>19. ~UNCHANGED vars
        BY <1>3 DEF vars
      <3> QED BY <3>1, <3>2, <3>3, <3>4, <3>5, <3>6, <3>7, <3>8, <3>9, <3>10, <3>11, <3>12,
                 <3>13, <3>14, <3>15, <3>16, <3>17, <3>18, <3>19 DEF Next, Inside
    <2>2. tasks_buffer_count \notin Slots => tasks_buffer_count = CAP \/ tasks_buffer_count = -1
      BY <1>t DEF TypeOK
    <2>3. tasks_count + 1 \notin Slots => tasks_count + 1 = CAP
      BY <1>t DEF TypeOK
    <2>4. (tasks_count + 1) + (tasks_buffer_count + 1) > CAP
      BY <1>t, <2>1, <2>2, <2>3 DEF Overrun, Indices, Storing, TypeOK
    <2>5. tasks_count \in Int /\ tasks_buffer_count \in Int
      BY <1>t DEF TypeOK
    <2>6. created + failed > CAP
      <3>1. (tasks_count + 1) + (tasks_buffer_count + 1) + Cardinality(Carriers) <= created + failed
        BY <1>t DEF Room
      <3> QED BY <1>t, <1>1, <2>4, <2>5, <3>1
    <2>7. CAP \in Int /\ created + failed \in Int /\ created' + failed' \in Int
      BY <1>1
    <2>8. \A a, b, x \in Int : a >= b /\ b > x => a > x
      OBVIOUS
    <2> QED BY <1>1, <2>6, <2>7, <2>8
  <1> QED BY <1>2, <1>3
-----------------------------------------------------------------------------
(* The inductive invariant. *)
IInv == Control /\ Known /\ RunsAlone /\ NotTwice /\ NotLost /\ NoOverrun

LEMMA Invariance == Spec => []IInv
  <1>1. Init => IInv
    <2>1. Init => NoOverrun
      BY DEF Init, NoOverrun
    <2> QED BY <2>1, InitControl, InitRuns, InitPlaces DEF IInv
  <1>2. IInv /\ [Next]_vars => IInv'
    BY StepControl, StepRuns, StepPlaces, StepOverrun DEF IInv
  <1> QED BY <1>1, <1>2, PTL DEF Spec

(* Type correctness, for any number of tasks and arrays of any size: every *)
(* access to the two arrays that is not counted as an overrun is inside    *)
(* them, get_last and the read of the refill included.                     *)
THEOREM TypeCorrect == Spec => []TypeOK
  <1>1. IInv => TypeOK
    BY DEF IInv, Control
  <1> QED BY <1>1, Invariance, PTL

(* fork, switch_to and the refill store past an array only after more      *)
(* calls of user_task_create than it has slots, on any number of cores and *)
(* with schedule running on several of them at once.                       *)
THEOREM ArraysSuffice == Spec => []NoOverrun
  <1>1. IInv => NoOverrun
    BY DEF IInv
  <1> QED BY <1>1, Invariance, PTL

(* In the 1-N model schedule runs on one core at a time although it gives  *)
(* tasks_lock up.                                                          *)
THEOREM ScheduledAlone == Spec => []ScheduleAlone
  <1>1. IInv => ScheduleAlone
    <2> SUFFICES ASSUME IInv, oneOfN, NEW c \in Cores, NEW k \in Cores, at[c] \in Scheduling, at[k] \in Scheduling
                 PROVE  c = k
      BY DEF ScheduleAlone
    <2> QED BY DEF IInv, Control, ActiveInside
  <1> QED BY <1>1, Invariance, PTL

(* The task a core runs is in no queue, in no local variable, and is run   *)
(* by no other core.                                                       *)
THEOREM RunningIsNotQueued == Spec => []RunningNotQueued
  <1>1. IInv => RunningNotQueued
    <2> SUFFICES ASSUME IInv, NEW c \in Cores, current[c] # ZeroTask
                 PROVE  Places(current[c]) = {} /\ \A k \in Cores \ {c} : current[k] # current[c]
      BY DEF RunningNotQueued
    <2>1. RunsAlone
      BY DEF IInv
    <2> QED BY <2>1 DEF Places, RunsAlone
  <1> QED BY <1>1, Invariance, PTL

(* With the lock free, a task no core started with is in exactly one place. *)
THEOREM TasksAreConserved == Spec => []TasksConserved
  <1>1. IInv => TasksConserved
    <2> SUFFICES ASSUME IInv, holders[tasks_lock] = {}, NEW i \in 1..created,
                        \A c \in Cores : current[c] # i
                 PROVE  Cardinality(Places(i)) = 1
      BY DEF TasksConserved
    <2>1. TypeOK /\ LockHeld /\ NotTwice /\ Somewhere(i) /\ i # ZeroTask
      BY DEF IInv, Control, NotLost
    <2>2. \A c \in Cores : at[c] \notin Critical
      BY <2>1 DEF LockHeld
    <2>3. /\ \A s \in Slots : (InTasks(s) <=> s <= tasks_count)
          /\ \A s \in Slots : (InBuffer(s) <=> s <= tasks_buffer_count)
      BY <2>1, <2>2 DEF InTasks, InBuffer, Critical, Storing, TypeOK
    <2>4. \A c \in Cores : Carries(c) <=> task[c] # ZeroTask
      BY <2>2 DEF Carries, Critical
    <2> DEFINE T == {s \in Slots : s <= tasks_count /\ tasks[s] = i}
               B == {s \in Slots : s <= tasks_buffer_count /\ task_buffer[s] = i}
               C == {c \in Cores : task[c] = i}
    <2>6. Places(i) = {<<"tasks", s>> : s \in T} \cup {<<"buffer", s>> : s \in B} \cup {<<"core", c>> : c \in C}
      BY DEF Places
    <2>7. /\ \A s, r \in T : s = r
          /\ \A s, r \in B : s = r
          /\ \A c, k \in C : c = k
      BY <2>1, <2>3, <2>4 DEF NotTwice
    <2>8. (T = {} \/ B = {}) /\ (T = {} \/ C = {}) /\ (B = {} \/ C = {})
      BY <2>1, <2>3, <2>4 DEF NotTwice
    <2>9. T # {} \/ B # {} \/ C # {}
      BY <2>1, <2>3, <2>4 DEF Somewhere
    <2>10. \E p : Places(i) = {p}
      <3> HIDE DEF T, B, C
      <3>1. CASE T # {}
        <4>1. PICK s \in T : TRUE
          BY <3>1
        <4>2. T = {s} /\ B = {} /\ C = {}
          BY <2>7, <2>8, <4>1
        <4>3. Places(i) = {<<"tasks", s>>}
          BY <2>6, <4>2
        <4> QED BY <4>3
      <3>2. CASE B # {}
        <4>1. PICK s \in B : TRUE
          BY <3>2
        <4>2. B = {s} /\ T = {} /\ C = {}
          BY <2>7, <2>8, <4>1
        <4>3. Places(i) = {<<"buffer", s>>}
          BY <2>6, <4>2
        <4> QED BY <4>3
      <3>3. CASE C # {}
        <4>1. PICK c \in C : TRUE
          BY <3>3
        <4>2. C = {c} /\ T = {} /\ B = {}
          BY <2>7, <2>8, <4>1
        <4>3. Places(i) = {<<"core", c>>}
          BY <2>6, <4>2
        <4> QED BY <4>3
      <3> QED BY <2>9, <3>1, <3>2, <3>3
    <2> QED BY <2>10, FS_Singleton
  <1> QED BY <1>1, Invariance, PTL
=============================================================================
