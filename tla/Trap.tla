-------------------------------- MODULE Trap --------------------------------
(***************************************************************************)
(* Exceptions on one core: src/exception/exception.S, handle_irq_el1 of    *)
(* src/exception/exception.c and init_task of src/scheduler.c, which       *)
(* enters the task of the core.  All of this state belongs to the core.    *)
(*                                                                         *)
(* Registers are named one by one where the code treats them differently;  *)
(* x0_x28 stands for 29 registers that it moves together.  The kernel      *)
(* stack is the sequence of its words, the one at sp first.  Kernel code   *)
(* runs with frame pointers (-fno-omit-frame-pointer): a function keeps    *)
(* x29 and x30 of its caller in its two lowest words.  kernel_main and the *)
(* functions it calls are external; they may take locks, whose release     *)
(* unmasks interrupts.                                                     *)
(***************************************************************************)
EXTENDS Integers, Sequences

CONSTANTS FramePointers,   \* bound: the frame pointers of the functions open at once
          Creations        \* what user_task_create may return: "task", or "zero" for {0}

ASSUME TrapConstants ==
    /\ FramePointers \in Seq(STRING) /\ FramePointers # <<>>
    /\ Creations \subseteq {"task", "zero"}

(* What an address of the low half is translated with, and which of the    *)
(* regions this module touches have a translation there: kpgtbl has the    *)
(* kernel, a task table what user_task_create maps (see Vm), and ttbr0 = 0 *)
(* nothing.                                                                *)
Regions == [kpgtbl |-> {"kstack", "my_cpu", "vectors"},
            task   |-> {"trapframe", "vectors"},
            zero   |-> {}]

General == {"x0_x28", "x29", "x30"}
System == {"sp_el0", "elr_el1", "spsr_el1", "esr_el1", "far_el1"}

(* The frame user_task_create leaves: cleared, but for three fields. *)
Created == [r \in General \cup System |->
              CASE r = "sp_el0" -> "user_stack"
                [] r = "elr_el1" -> "user"
                [] r = "spsr_el1" -> "EL0t_INTR_ON"
                [] OTHER -> "zero"]

(* The words of save_handler_ctx from sp upwards: 272 bytes reserved (29   *)
(* of the 34 words are x0_x28), and far_el1 stored at offset 272.          *)
Frame == <<"x0_x28", "x29", "x30", "elr_el1", "spsr_el1", "esr_el1">>

KernelPoints == {"kernel_main", "init_task", "user_task_create", "print_pgtbl", "el0_irq_ret",
                 "restore_uctx", "restore_elr", "restore_spsr", "restore_rest", "eret"}
HandlerPoints == {"el1_irq", "handle_irq_el1", "restore_handler_ctx", "el1_eret"}
EntryPoints == {"el0_sync", "el0_irq"}
Lost == {"invalid_ex", "fault_loop"}
Points == KernelPoints \cup HandlerPoints \cup EntryPoints \cup Lost \cup {"user"}

VARIABLES
    at,       \* the next step of the core
    regs,     \* the registers
    masked,   \* PSTATE.I
    ttbr0,    \* a member of DOMAIN Regions
    current,  \* my_cpu()->current_task.ttbr0_el1
    stack,    \* the words of the kernel stack
    calls,    \* kernel functions that are open
    before    \* history: what was interrupted

vars == <<at, regs, masked, ttbr0, current, stack, calls, before>>

Init ==
    /\ at = "kernel_main"
    /\ regs = [r \in General \cup System |-> IF r = "x29" THEN FramePointers[1] ELSE "boot"]
    /\ masked = TRUE
    /\ ttbr0 = "kpgtbl"
    /\ current = "zero"
    /\ stack = <<"boot", "boot">>
    /\ calls = 0
    /\ before = [at |-> "kernel_main", regs |-> regs, stack |-> stack]

Mapped(region) == region \in Regions[ttbr0]

(* An access in kernel mode to an address with no translation: the vector  *)
(* for it is invalid_ex, if the vectors can be fetched.                    *)
Fault ==
    /\ at' = IF Mapped("vectors") THEN "invalid_ex" ELSE "fault_loop"
    /\ regs' = [regs EXCEPT !["elr_el1"] = at, !["spsr_el1"] = "EL1h",
                            !["esr_el1"] = "abort", !["far_el1"] = "address"]
    /\ masked' = TRUE
    /\ UNCHANGED <<ttbr0, current, stack, calls, before>>
-----------------------------------------------------------------------------
(* Kernel code *)

(* A function is entered: stp x29, x30, [sp, #-N]! and mov x29, sp *)
Call ==
    /\ at = "kernel_main"
    /\ calls + 1 < Len(FramePointers)
    /\ stack' = <<regs["x29"], regs["x30"]>> \o stack
    /\ regs' = [regs EXCEPT !["x29"] = FramePointers[calls + 2], !["x30"] = "call", !["x0_x28"] = "call"]
    /\ calls' = calls + 1
    /\ UNCHANGED <<at, masked, ttbr0, current, before>>

(* It returns: ldp x29, x30, [sp], #N *)
Return ==
    /\ at = "kernel_main"
    /\ calls > 0
    /\ stack' = SubSeq(stack, 3, Len(stack))
    /\ regs' = [regs EXCEPT !["x29"] = stack[1], !["x30"] = stack[2], !["x0_x28"] = "return"]
    /\ calls' = calls - 1
    /\ UNCHANGED <<at, masked, ttbr0, current, before>>

(* acquire and release around a critical section *)
UseLock ==
    /\ at = "kernel_main"
    /\ masked' = FALSE
    /\ UNCHANGED <<at, regs, ttbr0, current, stack, calls, before>>

(* init_task: disable_irq, and the loop that only a debugger ends *)
InitTask ==
    /\ at = "kernel_main"
    /\ at' = "init_task"
    /\ masked' = TRUE
    /\ UNCHANGED <<regs, ttbr0, current, stack, calls, before>>

(* user_task_create: get_page unmasks interrupts in its release *)
UserTaskCreate ==
    /\ at = "init_task"
    /\ at' = "user_task_create"
    /\ masked' = FALSE
    /\ regs' = [regs EXCEPT !["x0_x28"] = "create"]
    /\ UNCHANGED <<ttbr0, current, stack, calls, before>>

(* The task, or {0}, becomes the current one. *)
SetCurrent ==
    /\ at = "user_task_create"
    /\ at' = "print_pgtbl"
    /\ current' \in Creations
    /\ UNCHANGED <<regs, masked, ttbr0, stack, calls, before>>

(* print_pgtbl: printf uses a lock.  The task is then entered by a call of *)
(* el0_irq_ret, at its address in the upper half.  For {0} the words at    *)
(* address 0, which is mapped, are read as a table, and what they hold may *)
(* lead to an address that is not.                                         *)
PrintPgtbl ==
    /\ at = "print_pgtbl"
    /\ \/ /\ at' = "el0_irq_ret"
          /\ masked' = FALSE
          /\ regs' = [regs EXCEPT !["x0_x28"] = "print", !["x30"] = "init_task"]
          /\ UNCHANGED <<ttbr0, current, stack, calls, before>>
       \/ current = "zero" /\ Fault
-----------------------------------------------------------------------------
(* el0_irq_ret and restore_uctx *)

(* msr ttbr0_el1, x0 *)
El0IrqRet ==
    /\ at = "el0_irq_ret"
    /\ at' = "restore_uctx"
    /\ ttbr0' = current
    /\ regs' = [regs EXCEPT !["x0_x28"] = "scratch"]
    /\ UNCHANGED <<masked, current, stack, calls, before>>

(* The registers loaded come from the trap frame. *)
Load(from, to, loaded) ==
    /\ at = from
    /\ IF Mapped("trapframe")
       THEN /\ at' = to
            /\ regs' = [r \in DOMAIN regs |-> IF r \in loaded THEN Created[r] ELSE regs[r]]
            /\ UNCHANGED <<masked, ttbr0, current, stack, calls, before>>
       ELSE Fault

RestoreSp == Load("restore_uctx", "restore_elr", {"x29", "sp_el0"})
RestoreElr == Load("restore_elr", "restore_spsr", {"elr_el1"})

(* Faulty variant: spsr_el1 is forgotten, as x30 is. *)
RestoreNoSpsr == Load("restore_spsr", "restore_rest", {})

RestoreSpsr == Load("restore_spsr", "restore_rest", {"spsr_el1"})

(* esr_el1, far_el1, and last x1 and x0, which held addresses so far; x30  *)
(* is not loaded.                                                          *)
RestoreRest == Load("restore_rest", "eret", {"esr_el1", "far_el1", "x0_x28"})

Eret ==
    /\ at = "eret"
    /\ at' = regs["elr_el1"]
    /\ masked' = (regs["spsr_el1"] # "EL0t_INTR_ON")
    /\ UNCHANGED <<regs, ttbr0, current, stack, calls, before>>
-----------------------------------------------------------------------------
(* An interrupt in kernel mode: el1_irq *)

Irq ==
    /\ at \in KernelPoints \cup HandlerPoints
    /\ ~masked
    /\ at' = "el1_irq"
    /\ masked' = TRUE
    /\ regs' = [regs EXCEPT !["elr_el1"] = at, !["spsr_el1"] = "EL1h_INTR_ON"]
    /\ before' = [at |-> at, regs |-> regs, stack |-> stack]
    /\ UNCHANGED <<ttbr0, current, stack, calls>>

(* The frame is stored below the stack, and far_el1 over the word above it. *)
SaveHandlerCtx ==
    /\ at = "el1_irq"
    /\ IF Mapped("kstack")
       THEN /\ at' = "handle_irq_el1"
            /\ stack' = [i \in 1..Len(Frame) |-> regs[Frame[i]]]
                        \o [stack EXCEPT ![1] = regs["far_el1"]]
            /\ UNCHANGED <<regs, masked, ttbr0, current, calls, before>>
       ELSE Fault

(* Faulty variant: the handler takes a lock, and its release unmasks. *)
HandlerUnmasks ==
    /\ at = "handle_irq_el1"
    /\ at' = "restore_handler_ctx"
    /\ masked' = FALSE
    /\ regs' = [regs EXCEPT !["x0_x28"] = "handler", !["x29"] = "handler", !["x30"] = "handler"]
    /\ UNCHANGED <<ttbr0, current, stack, calls, before>>

(* handle_irq_el1, for the timer and for a spurious id alike: no lock is   *)
(* taken, and the registers are used.                                      *)
HandleIrqEl1 ==
    /\ at = "handle_irq_el1"
    /\ at' = "restore_handler_ctx"
    /\ regs' = [regs EXCEPT !["x0_x28"] = "handler", !["x29"] = "handler", !["x30"] = "handler"]
    /\ UNCHANGED <<masked, ttbr0, current, stack, calls, before>>

(* The registers as the words at sp say, but for those in kept. *)
Reloaded(kept) ==
    [r \in DOMAIN regs |->
        IF r \in kept \cup {"sp_el0"} THEN regs[r]
        ELSE IF r = "far_el1" THEN stack[Len(Frame) + 1]
        ELSE stack[CHOOSE i \in DOMAIN Frame : Frame[i] = r]]

(* Faulty variant: x30 is not loaded. *)
RestoreWithoutX30 ==
    /\ at = "restore_handler_ctx"
    /\ at' = "el1_eret"
    /\ regs' = Reloaded({"x30"})
    /\ stack' = SubSeq(stack, Len(Frame) + 1, Len(stack))
    /\ UNCHANGED <<masked, ttbr0, current, calls, before>>

(* Faulty variant: less is given back than was reserved. *)
RestoreShort ==
    /\ at = "restore_handler_ctx"
    /\ at' = "el1_eret"
    /\ regs' = Reloaded({})
    /\ stack' = SubSeq(stack, Len(Frame), Len(stack))
    /\ UNCHANGED <<masked, ttbr0, current, calls, before>>

RestoreHandlerCtx ==
    /\ at = "restore_handler_ctx"
    /\ at' = "el1_eret"
    /\ regs' = Reloaded({})
    /\ stack' = SubSeq(stack, Len(Frame) + 1, Len(stack))
    /\ UNCHANGED <<masked, ttbr0, current, calls, before>>

(* The eret at the end of el1_irq *)
El1Eret ==
    /\ at = "el1_eret"
    /\ at' = regs["elr_el1"]
    /\ masked' = (regs["spsr_el1"] # "EL1h_INTR_ON")
    /\ UNCHANGED <<regs, ttbr0, current, stack, calls, before>>
-----------------------------------------------------------------------------
(* Exceptions of the task *)

(* An interrupt, or a synchronous exception: svc or an abort *)
TaskException(entry) ==
    /\ at = "user"
    /\ at' = entry
    /\ masked' = TRUE
    /\ regs' = [regs EXCEPT !["elr_el1"] = "user", !["spsr_el1"] = "EL0t_INTR_ON",
                            !["esr_el1"] = "reason"]
    /\ UNCHANGED <<ttbr0, current, stack, calls, before>>

(* save_uctx begins with a store to the kernel stack, which the table of a *)
(* task does not map.                                                      *)
SaveUctx ==
    /\ at \in EntryPoints
    /\ ~Mapped("kstack")
    /\ Fault

(* mrs x15, far_el1 for ever *)
InvalidEx ==
    /\ at = "invalid_ex"
    /\ regs' = [regs EXCEPT !["x0_x28"] = regs["far_el1"]]
    /\ UNCHANGED <<at, masked, ttbr0, current, stack, calls, before>>

Next ==
    \/ Call
    \/ Return
    \/ UseLock
    \/ InitTask
    \/ UserTaskCreate
    \/ SetCurrent
    \/ PrintPgtbl
    \/ El0IrqRet
    \/ RestoreSp
    \/ RestoreElr
    \/ RestoreSpsr
    \/ RestoreRest
    \/ Eret
    \/ Irq
    \/ SaveHandlerCtx
    \/ HandleIrqEl1
    \/ RestoreHandlerCtx
    \/ El1Eret
    \/ \E entry \in EntryPoints : TaskException(entry)
    \/ SaveUctx
    \/ InvalidEx

Spec == Init /\ [][Next]_vars
-----------------------------------------------------------------------------
(* Properties *)

TypeOK ==
    /\ at \in Points
    /\ DOMAIN regs = General \cup System
    /\ masked \in BOOLEAN
    /\ ttbr0 \in DOMAIN Regions /\ current \in {"task", "zero"}
    /\ calls \in 0..(Len(FramePointers) - 1)
    /\ at \in {"kernel_main", "user"} => Len(stack) = 2 * calls + 2

(* Kernel code that is interrupted goes on where it was, with its general  *)
(* registers, its stack and interrupts on, wherever in init_task the       *)
(* interrupt came.  One word of the stack is the exception, and no other:  *)
(* the lowest one, over which save_handler_ctx stores far_el1.             *)
KernelResumes ==
    [][at = "el1_eret" =>
          /\ at' = before.at
          /\ \A r \in General : regs'[r] = before.regs[r]
          /\ Len(stack') = Len(before.stack)
          /\ \A i \in 2..Len(stack') : stack'[i] = before.stack[i]
          /\ ~masked']_vars

(* An interrupt never interrupts the handler of another one in kernel      *)
(* mode: the 4 KB stack holds one frame at most beyond what the kernel     *)
(* itself uses.  (release unmasks interrupts even in a handler, so that    *)
(* this rests on handle_irq_el1 using no lock.)                            *)
OneHandlerFrame == Len(stack) <= 2 * calls + 2 + Len(Frame)

(* A task starts with what user_task_create put into its frame, although   *)
(* interrupts are on again by then and use the same elr_el1 and spsr_el1   *)
(* that restore_uctx is loading.  x30 is the exception: it is not loaded.  *)
TaskStartsAsCreated ==
    at = "user" =>
        /\ \A r \in DOMAIN regs \ {"x30"} : regs[r] = Created[r]
        /\ ttbr0 = "task"
        /\ ~masked

(* The vector table calls a synchronous exception in kernel mode invalid:  *)
(* it does not happen.                                                     *)
NoInvalidException == at # "invalid_ex"
=============================================================================
