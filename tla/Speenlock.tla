----------------------------- MODULE Speenlock -----------------------------
(***************************************************************************)
(* The spinlock of src/speenlock.c with the interrupt masking it does.     *)
(*                                                                         *)
(* A core runs a stack of contexts: depth 0 is its thread, every interrupt *)
(* taken at EL1 pushes one more.  Only the top context executes.  Any      *)
(* context may call acquire and then release on any lock; as everywhere in *)
(* the source, a caller releases the lock it holds before it acquires      *)
(* another one.  acquire masks interrupts on the core and release unmasks  *)
(* them WITHOUT restoring what they were, so a handler that uses a lock    *)
(* can itself be interrupted afterwards.                                   *)
(***************************************************************************)
EXTENDS Integers

CONSTANTS Cores,    \* processor ids
          Locks,    \* the struct speenlock objects
          NoLock,   \* the argument of a context that is in no lock call
          NoCpu,    \* the static initializer .cpu_num = -1
          MaxNest   \* bound: interrupts stacked on one core

ASSUME LockConstants ==
    /\ NoLock \notin Locks
    /\ NoCpu \notin Cores
    /\ MaxNest \in Nat

Depths == 0..MaxNest

(***************************************************************************)
(* Control points of a context: "run" is outside the lock code; the others *)
(* name the next statement to execute, in program order.                   *)
(***************************************************************************)
Points == {"run", "test_and_set", "set_cpu_num", "set_name",
           "critical", "clear", "enable_irq"}

(* The points at which the lock word is set on behalf of the context. *)
Owning == {"set_cpu_num", "set_name", "critical", "clear"}

VARIABLES
    locked,    \* locked[l]: the byte test-and-set works on
    cpu_num,   \* cpu_num[l]: who took the lock last (debug information)
    name,      \* name[l]: "clear", "locked" or "unlocked" (debug information)
    masked,    \* masked[c]: PSTATE.I, interrupts are masked on c
    depth,     \* depth[c]: which context of c executes
    at,        \* at[c][d]: the control point of context d of core c
    arg        \* arg[c][d]: the lock that call is about

vars == <<locked, cpu_num, name, masked, depth, at, arg>>

At(c) == at[c][depth[c]]
Arg(c) == arg[c][depth[c]]

Goto(c, from, to) ==
    /\ At(c) = from
    /\ at' = [at EXCEPT ![c][depth[c]] = to]

Init ==
    /\ locked = [l \in Locks |-> FALSE]
    /\ cpu_num = [l \in Locks |-> NoCpu]
    /\ name = [l \in Locks |-> "clear"]
    /\ masked = [c \in Cores |-> FALSE]
    /\ depth = [c \in Cores |-> 0]
    /\ at = [c \in Cores |-> [d \in Depths |-> "run"]]
    /\ arg = [c \in Cores |-> [d \in Depths |-> NoLock]]

-----------------------------------------------------------------------------
(* acquire(lock) *)

(* Faulty variant: acquire spins with interrupts left as they are. *)
DisableIrqUnmasked(c, l) ==
    /\ Goto(c, "run", "test_and_set")
    /\ arg' = [arg EXCEPT ![c][depth[c]] = l]
    /\ UNCHANGED <<locked, cpu_num, name, masked, depth>>

(* disable_irq() *)
DisableIrq(c, l) ==
    /\ Goto(c, "run", "test_and_set")
    /\ masked' = [masked EXCEPT ![c] = TRUE]
    /\ arg' = [arg EXCEPT ![c][depth[c]] = l]
    /\ UNCHANGED <<locked, cpu_num, name, depth>>

(* Faulty variant: the loop tests the byte but does not set it. *)
TestOnly(c) ==
    /\ Goto(c, "test_and_set", "set_cpu_num")
    /\ ~locked[Arg(c)]
    /\ UNCHANGED <<locked, cpu_num, name, masked, depth, arg>>

(* Faulty variant: the byte is set without a look at its old value. *)
SetOnly(c) ==
    /\ Goto(c, "test_and_set", "set_cpu_num")
    /\ locked' = [locked EXCEPT ![Arg(c)] = TRUE]
    /\ UNCHANGED <<cpu_num, name, masked, depth, arg>>

(* The iteration of the loop whose test-and-set returns 0.  The others set *)
(* a byte that is set already: they are the stuttering steps.              *)
TestAndSet(c) ==
    /\ Goto(c, "test_and_set", "set_cpu_num")
    /\ ~locked[Arg(c)]
    /\ locked' = [locked EXCEPT ![Arg(c)] = TRUE]
    /\ UNCHANGED <<cpu_num, name, masked, depth, arg>>

(* lock->cpu_num = get_processor_id() *)
SetCpuNum(c) ==
    /\ Goto(c, "set_cpu_num", "set_name")
    /\ cpu_num' = [cpu_num EXCEPT ![Arg(c)] = c]
    /\ UNCHANGED <<locked, name, masked, depth, arg>>

(* lock->name = "locked", and acquire returns *)
SetName(c) ==
    /\ Goto(c, "set_name", "critical")
    /\ name' = [name EXCEPT ![Arg(c)] = "locked"]
    /\ UNCHANGED <<locked, cpu_num, masked, depth, arg>>

-----------------------------------------------------------------------------
(* release(lock) *)

(* Faulty variant: release leaves the name of a held lock behind. *)
KeepName(c) ==
    /\ Goto(c, "critical", "clear")
    /\ UNCHANGED <<locked, cpu_num, name, masked, depth, arg>>

(* Faulty variant: release unmasks interrupts before it clears the byte. *)
UnmaskFirst(c) ==
    /\ Goto(c, "critical", "clear")
    /\ name' = [name EXCEPT ![Arg(c)] = "unlocked"]
    /\ masked' = [masked EXCEPT ![c] = FALSE]
    /\ UNCHANGED <<locked, cpu_num, depth, arg>>

(* lock->name = "unlocked" *)
ResetName(c) ==
    /\ Goto(c, "critical", "clear")
    /\ name' = [name EXCEPT ![Arg(c)] = "unlocked"]
    /\ UNCHANGED <<locked, cpu_num, masked, depth, arg>>

(* __atomic_clear(&lock->locked) *)
AtomicClear(c) ==
    /\ Goto(c, "clear", "enable_irq")
    /\ locked' = [locked EXCEPT ![Arg(c)] = FALSE]
    /\ UNCHANGED <<cpu_num, name, masked, depth, arg>>

(* enable_irq(), whatever the mask was when acquire was called *)
EnableIrq(c) ==
    /\ Goto(c, "enable_irq", "run")
    /\ masked' = [masked EXCEPT ![c] = FALSE]
    /\ arg' = [arg EXCEPT ![c][depth[c]] = NoLock]
    /\ UNCHANGED <<locked, cpu_num, name, depth>>

-----------------------------------------------------------------------------
(* What happens around the lock code. *)

(* disable_irq() in configure_el1 and init_task, enable_irq() in            *)
(* handle_el0_sync: code outside the lock calls sets the mask as it likes. *)
SetMask(c, b) ==
    /\ At(c) = "run"
    /\ masked[c] # b
    /\ masked' = [masked EXCEPT ![c] = b]
    /\ UNCHANGED <<locked, cpu_num, name, depth, at, arg>>

(* An interrupt is taken: the processor masks interrupts and starts el1_irq. *)
TakeIrq(c) ==
    /\ ~masked[c]
    /\ depth[c] < MaxNest
    /\ depth' = [depth EXCEPT ![c] = @ + 1]
    /\ masked' = [masked EXCEPT ![c] = TRUE]
    /\ UNCHANGED <<locked, cpu_num, name, at, arg>>

(* Faulty variant: the return path runs in a context nothing interrupted. *)
EretFromThread(c) ==
    /\ At(c) = "run"
    /\ depth' = [depth EXCEPT ![c] = @ - 1]
    /\ masked' = [masked EXCEPT ![c] = FALSE]
    /\ UNCHANGED <<locked, cpu_num, name, at, arg>>

(* restore_handler_ctx; eret.  The saved state comes back with interrupts  *)
(* unmasked: otherwise this one would not have been taken.                 *)
Eret(c) ==
    /\ At(c) = "run"
    /\ depth[c] > 0
    /\ depth' = [depth EXCEPT ![c] = @ - 1]
    /\ masked' = [masked EXCEPT ![c] = FALSE]
    /\ UNCHANGED <<locked, cpu_num, name, at, arg>>

(* A statement of the lock code other than the first. *)
LockStep(c) ==
    \/ TestAndSet(c)
    \/ SetCpuNum(c)
    \/ SetName(c)
    \/ ResetName(c)
    \/ AtomicClear(c)
    \/ EnableIrq(c)

CoreStep(c) ==
    \/ LockStep(c)
    \/ \E l \in Locks : DisableIrq(c, l)
    \/ \E b \in BOOLEAN : SetMask(c, b)
    \/ TakeIrq(c)
    \/ Eret(c)

Next == \E c \in Cores : CoreStep(c)

Spec == Init /\ [][Next]_vars

(***************************************************************************)
(* A core that is inside the lock code keeps executing it: there is no     *)
(* scheduler below it, and its critical sections in the source are loops   *)
(* with a bound.  Nothing is assumed of interrupts or of callers.          *)
(***************************************************************************)
FairSpec == Spec /\ \A c \in Cores : WF_vars(LockStep(c))
-----------------------------------------------------------------------------
(* Properties *)

TypeOK ==
    /\ locked \in [Locks -> BOOLEAN]
    /\ cpu_num \in [Locks -> Cores \cup {NoCpu}]
    /\ name \in [Locks -> {"clear", "locked", "unlocked"}]
    /\ masked \in [Cores -> BOOLEAN]
    /\ depth \in [Cores -> Depths]
    /\ at \in [Cores -> [Depths -> Points]]
    /\ arg \in [Cores -> [Depths -> Locks \cup {NoLock}]]

(* Context d of core c has taken l and not cleared it yet. *)
Owns(c, d, l) == at[c][d] \in Owning /\ arg[c][d] = l

(* Two contexts, of one core or of two, never own the same lock: the       *)
(* sections between acquire and release exclude each other.                *)
MutualExclusion ==
    \A c1, c2 \in Cores : \A d1, d2 \in Depths : \A l \in Locks :
        Owns(c1, d1, l) /\ Owns(c2, d2, l) => c1 = c2 /\ d1 = d2

(* A context that spins on a lock never waits for a context of its own     *)
(* core, which could not run before the spinning one returns.  This is     *)
(* what acquire masks interrupts for, and it holds although release        *)
(* unmasks them unconditionally.                                           *)
NoSelfDeadlock ==
    \A c \in Cores : \A d \in Depths :
        at[c][d] = "test_and_set" => \A e \in Depths : ~Owns(c, e, arg[c][d])

(* The debug fields can be trusted: a lock named "locked" is held, and by  *)
(* the core its cpu_num names (the writes of acquire and release are in    *)
(* the order that makes this true).                                        *)
NameTellsHolder ==
    \A l \in Locks : name[l] = "locked" =>
        \E d \in Depths : cpu_num[l] \in Cores /\ Owns(cpu_num[l], d, l)

(* A lock that is taken is cleared again: no interrupt can suspend its     *)
(* holder, so nothing that runs in between can wait for it.                *)
LockReleased == \A l \in Locks : locked[l] ~> ~locked[l]

(* The lock implements the abstract mutex: taking it is the successful     *)
(* test-and-set, giving it up is the atomic clear.                         *)
Mutex == INSTANCE SpinMutex WITH
    holders <- [l \in Locks |-> {c \in Cores : \E d \in Depths : Owns(c, d, l)}]

(* Every behaviour of the lock code is one of the abstract mutex.          *)
ImplementsSpinMutex == Mutex!Spec
=============================================================================
