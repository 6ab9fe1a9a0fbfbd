----------------------------- MODULE TrapProofs -----------------------------
(***************************************************************************)
(* Proofs about Trap for every number of functions open at once, whatever  *)
(* user_task_create returns.                                               *)
(***************************************************************************)
EXTENDS Trap, SequenceTheorems, TLAPS

Registers == General \cup System

(* What a register or a word of the stack may hold.                        *)
Words == Points \cup {FramePointers[i] : i \in 1..Len(FramePointers)}
           \cup {"boot", "call", "return", "create", "print", "scratch", "handler", "zero", "user_stack",
                 "EL0t_INTR_ON", "EL1h_INTR_ON", "EL1h", "abort", "address", "reason"}

(* Kernel code before and after the switch of ttbr0 in el0_irq_ret.        *)
Early == {"kernel_main", "init_task", "user_task_create", "print_pgtbl", "el0_irq_ret"}
Loading == {"restore_elr", "restore_spsr", "restore_rest", "eret"}
Framed == {"handle_irq_el1", "restore_handler_ctx"}

Types ==
    /\ at \in Points
    /\ regs \in [Registers -> Words]
    /\ masked \in BOOLEAN
    /\ ttbr0 \in {"kpgtbl", "task", "zero"} /\ current \in {"task", "zero"}
    /\ stack \in Seq(Words)
    /\ calls \in 0..(Len(FramePointers) - 1)
    /\ before.regs \in [Registers -> Words]
    /\ before.stack \in Seq(Words)

StackHeight == Len(stack) = 2 * calls + 2 + (IF at \in Framed THEN Len(Frame) ELSE 0)

MaskedInHandler == at \in HandlerPoints \cup EntryPoints \cup Lost => masked

(* Which table is in ttbr0.  Past its first store the handler has the      *)
(* kernel table, because with another one that store faults.               *)
TableMeans ==
    /\ at \in Early => ttbr0 = "kpgtbl"
    /\ at \in Loading \cup {"user"} => ttbr0 = "task"
    /\ at \in Framed \cup {"el1_eret"} => ttbr0 = "kpgtbl" /\ before.at \in Early
    /\ at = "el1_irq" /\ ttbr0 = "kpgtbl" => before.at \in Early
    /\ at = "restore_uctx" => ttbr0 \in {"task", "zero"}

(* The frame of the handler, and what it says of the interrupted code.     *)
FrameKept ==
    /\ at \in HandlerPoints => Len(before.stack) = 2 * calls + 2
    /\ at = "el1_irq" =>
          /\ \A r \in General : regs[r] = before.regs[r]
          /\ regs["elr_el1"] = before.at /\ regs["spsr_el1"] = "EL1h_INTR_ON"
          /\ stack = before.stack
    /\ at \in Framed =>
          /\ stack[1] = before.regs["x0_x28"]
          /\ stack[2] = before.regs["x29"] /\ stack[3] = before.regs["x30"]
          /\ stack[4] = before.at /\ stack[5] = "EL1h_INTR_ON"
          /\ \A i \in 2..Len(before.stack) : stack[Len(Frame) + i] = before.stack[i]
    /\ at = "el1_eret" =>
          /\ \A r \in General : regs[r] = before.regs[r]
          /\ regs["elr_el1"] = before.at /\ regs["spsr_el1"] = "EL1h_INTR_ON"
          /\ \A i \in 2..Len(before.stack) : stack[i] = before.stack[i]

(* What restore_uctx has loaded so far.                                    *)
Loaded ==
    /\ at \in Loading \cup {"user"} => \A r \in {"x29", "sp_el0"} : regs[r] = Created[r]
    /\ at \in (Loading \ {"restore_elr"}) \cup {"user"} => regs["elr_el1"] = "user"
    /\ at \in {"restore_rest", "eret", "user"} => regs["spsr_el1"] = "EL0t_INTR_ON"
    /\ at \in {"eret", "user"} => \A r \in {"esr_el1", "far_el1", "x0_x28"} : regs[r] = Created[r]
    /\ at = "user" => ~masked

IInv ==
    /\ Types
    /\ StackHeight
    /\ MaskedInHandler
    /\ TableMeans
    /\ FrameKept
    /\ Loaded
-----------------------------------------------------------------------------
(* The words of the frame of save_handler_ctx, one by one. *)
LEMMA FrameWords ==
    /\ Len(Frame) = 6 /\ DOMAIN Frame = 1..6
    /\ Frame[1] = "x0_x28" /\ Frame[2] = "x29" /\ Frame[3] = "x30"
    /\ Frame[4] = "elr_el1" /\ Frame[5] = "spsr_el1" /\ Frame[6] = "esr_el1"
  BY DEF Frame

(* restore_handler_ctx loads each register from the word save_handler_ctx  *)
(* stored it in.                                                           *)
LEMMA ReloadedWords ==
    ASSUME regs \in [Registers -> Words], stack \in Seq(Words), Len(stack) >= 8
    PROVE  /\ Reloaded({}) \in [Registers -> Words]
           /\ Reloaded({})["x0_x28"] = stack[1]
           /\ Reloaded({})["x29"] = stack[2]
           /\ Reloaded({})["x30"] = stack[3]
           /\ Reloaded({})["elr_el1"] = stack[4]
           /\ Reloaded({})["spsr_el1"] = stack[5]
  <1> DEFINE word(r) == CHOOSE i \in DOMAIN Frame : Frame[i] = r
  <1>1. word("x0_x28") = 1 /\ word("x29") = 2 /\ word("x30") = 3
        /\ word("elr_el1") = 4 /\ word("spsr_el1") = 5 /\ word("esr_el1") = 6
    BY FrameWords
  <1>2. DOMAIN regs = Registers
    OBVIOUS
  <1>3. \A i \in 1..8 : stack[i] \in Words
    OBVIOUS
  <1>4. \A r \in Registers :
           Reloaded({})[r] = IF r = "sp_el0" THEN regs[r]
                             ELSE IF r = "far_el1" THEN stack[7]
                             ELSE stack[word(r)]
    BY <1>2, FrameWords DEF Reloaded
  <1> HIDE DEF word
  <1>5. \A r \in Registers : Reloaded({})[r] \in Words
    BY <1>1, <1>3, <1>4 DEF Registers, General, System
  <1>6. Reloaded({}) = [r \in Registers |-> Reloaded({})[r]]
    BY <1>2 DEF Reloaded
  <1> QED
    BY <1>1, <1>4, <1>5, <1>6 DEF Registers, General, System

(* What is pushed is found at its place, and what was there above it. *)
LEMMA Pushed ==
    ASSUME NEW words \in Seq(Words), NEW old \in Seq(Words)
    PROVE  /\ words \o old \in Seq(Words)
           /\ Len(words \o old) = Len(words) + Len(old)
           /\ \A i \in 1..Len(words) : (words \o old)[i] = words[i]
           /\ \A i \in 1..Len(old) : (words \o old)[Len(words) + i] = old[i]
  OBVIOUS

(* What user_task_create leaves in the trap frame. *)
LEMMA CreatedValues ==
    /\ Created \in [Registers -> Words]
    /\ Created["elr_el1"] = "user" /\ Created["spsr_el1"] = "EL0t_INTR_ON"
  BY DEF Created, Words, Registers, General, System, Points

(* A fault in kernel code that holds no handler frame ends in one of the   *)
(* two loops, whatever else is the case.                                   *)
LEMMA FaultIInv ==
    ASSUME IInv, Fault, at \notin Framed
    PROVE  IInv'
  <1>1. at' \in Lost /\ masked'
    BY DEF Fault, Lost
  <1>2. at \in Words
    BY DEF IInv, Types, Words
  <1>3. Types'
    BY <1>1, <1>2 DEF IInv, Types, Fault, Points, Words, Registers, General, System
  <1>4. StackHeight'
    BY <1>1 DEF IInv, StackHeight, Fault, Framed, Lost
  <1> QED
    BY <1>1, <1>3, <1>4 DEF IInv, MaskedInHandler, TableMeans, FrameKept, Loaded, Lost, Early,
       Loading, Framed, HandlerPoints
-----------------------------------------------------------------------------
LEMMA InitIInv == Init => IInv
  <1> SUFFICES ASSUME Init PROVE IInv
    OBVIOUS
  <1>1. FramePointers \in Seq(STRING) /\ Len(FramePointers) \in Nat \ {0}
    BY TrapConstants, EmptySeq
  <1>2. regs \in [Registers -> Words]
    BY <1>1 DEF Init, Registers, Words
  <1>3. stack \in Seq(Words) /\ Len(stack) = 2
    BY DEF Init, Words
  <1>4. Types
    BY <1>1, <1>2, <1>3 DEF Init, Types, Points, KernelPoints
  <1> QED
    BY <1>3, <1>4 DEF Init, IInv, StackHeight, MaskedInHandler, TableMeans, FrameKept, Loaded,
       Early, Loading, Framed, HandlerPoints, EntryPoints, Lost

(* One step of restore_uctx, whichever registers it loads. *)
LEMMA LoadTypes ==
    ASSUME IInv, NEW from, NEW to \in Points, NEW loaded, Load(from, to, loaded), from \notin Framed
    PROVE  \/ IInv'
           \/ /\ at = from /\ at' = to /\ ttbr0 = "task"
              /\ Types'
              /\ \A r \in Registers : regs'[r] = IF r \in loaded THEN Created[r] ELSE regs[r]
              /\ UNCHANGED <<masked, ttbr0, current, stack, calls, before>>
  <1>1. CASE Mapped("trapframe")
    <2>1. ttbr0 = "task"
      BY <1>1 DEF IInv, Types, Mapped, Regions
    <2>2. DOMAIN regs = Registers
      BY DEF IInv, Types
    <2>3. regs' \in [Registers -> Words]
      BY <1>1, <2>2, CreatedValues DEF IInv, Types, Load
    <2>4. Types'
      BY <1>1, <2>3 DEF IInv, Types, Load
    <2> QED
      BY <1>1, <2>1, <2>2, <2>4 DEF Load
  <1>2. CASE ~Mapped("trapframe")
    BY <1>2, FaultIInv DEF Load
  <1> QED
    BY <1>1, <1>2

LEMMA StepIInv == IInv /\ [Next]_vars => IInv'
  <1> SUFFICES ASSUME IInv, [Next]_vars PROVE IInv'
    OBVIOUS
  <1> USE DEF Early, Loading, Framed
  <1>0. /\ FramePointers \in Seq(STRING) /\ Len(FramePointers) \in Nat \ {0}
        /\ \A i \in 1..Len(FramePointers) : FramePointers[i] \in Words
    BY TrapConstants, EmptySeq DEF Words
  <1>00. calls \in Nat /\ calls <= Len(FramePointers) - 1
    BY <1>0 DEF IInv, Types
  <1>1. CASE Call
    <2>1. FramePointers[calls + 2] \in Words
      BY <1>0, <1>1 DEF Call, IInv, Types
    <2>2. regs["x29"] \in Words /\ regs["x30"] \in Words
      BY DEF IInv, Types, Registers, General
    <2>3. stack' \in Seq(Words) /\ Len(stack') = Len(stack) + 2
      <3> DEFINE two == <<regs["x29"], regs["x30"]>>
      <3>1. two \in Seq(Words) /\ Len(two) = 2
        BY <2>2
      <3>2. stack \in Seq(Words) /\ stack' = two \o stack
        BY <1>1 DEF Call, IInv, Types
      <3> HIDE DEF two
      <3>3. two \o stack \in Seq(Words) /\ Len(two \o stack) = Len(two) + Len(stack)
        BY <3>1, <3>2, Pushed
      <3>4. Len(stack) \in Nat
        BY <3>2
      <3> QED
        BY <3>1, <3>2, <3>3, <3>4
    <2>4. regs' \in [Registers -> Words]
      BY <1>1, <2>1 DEF Call, IInv, Types, Words
    <2>5. Types'
      <3>1. calls' \in 0..(Len(FramePointers) - 1)
        BY <1>0, <1>00, <1>1 DEF Call
      <3> QED
        BY <1>1, <2>3, <2>4, <3>1 DEF Call, IInv, Types
    <2>6. StackHeight'
      BY <1>1, <2>3 DEF Call, IInv, StackHeight, Types
    <2> QED
      BY <1>1, <2>5, <2>6 DEF Call, IInv, MaskedInHandler, TableMeans, FrameKept, Loaded,
         HandlerPoints, EntryPoints, Lost
  <1>2. CASE Return
    <2>1. /\ calls \in 0..(Len(FramePointers) - 1) /\ calls >= 1
          /\ stack \in Seq(Words) /\ Len(stack) = 2 * calls + 2
      BY <1>2, FrameWords DEF Return, IInv, Types, StackHeight
    <2>2. stack[1] \in Words /\ stack[2] \in Words
      BY <2>1
    <2>3. stack' \in Seq(Words) /\ Len(stack') = Len(stack) - 2
      BY <1>2, <2>1, SubSeqProperties DEF Return
    <2>4. regs' \in [Registers -> Words]
      BY <1>2, <2>2 DEF Return, IInv, Types, Words
    <2>5. Types'
      <3>1. calls' \in 0..(Len(FramePointers) - 1)
        BY <1>0, <2>1, <1>2 DEF Return
      <3> QED
        BY <1>2, <2>3, <2>4, <3>1 DEF Return, IInv, Types
    <2>6. StackHeight'
      BY <1>2, <2>1, <2>3 DEF Return, IInv, StackHeight
    <2> QED
      BY <1>2, <2>5, <2>6 DEF Return, IInv, MaskedInHandler, TableMeans, FrameKept, Loaded,
         HandlerPoints, EntryPoints, Lost
  <1>3. CASE UseLock
    BY <1>3 DEF UseLock, IInv, Types, StackHeight, MaskedInHandler, TableMeans, FrameKept, Loaded,
         HandlerPoints, EntryPoints, Lost
  <1>4. CASE InitTask
    BY <1>4 DEF InitTask, IInv, Types, StackHeight, MaskedInHandler, TableMeans, FrameKept, Loaded,
         Points, KernelPoints, HandlerPoints, EntryPoints, Lost
  <1>5. CASE UserTaskCreate
    <2>1. regs' \in [Registers -> Words]
      BY <1>5 DEF UserTaskCreate, IInv, Types, Words
    <2> QED
      BY <1>5, <2>1 DEF UserTaskCreate, IInv, Types, StackHeight, MaskedInHandler, TableMeans, FrameKept,
         Loaded, Points, KernelPoints, HandlerPoints, EntryPoints, Lost
  <1>6. CASE SetCurrent
    <2>1. current' \in {"task", "zero"}
      BY <1>6, TrapConstants DEF SetCurrent
    <2> QED
      BY <1>6, <2>1 DEF SetCurrent, IInv, Types, StackHeight, MaskedInHandler, TableMeans, FrameKept,
         Loaded, Points, KernelPoints, HandlerPoints, EntryPoints, Lost
  <1>7. CASE El0IrqRet
    <2>1. regs' \in [Registers -> Words]
      BY <1>7 DEF El0IrqRet, IInv, Types, Words
    <2> QED
      BY <1>7, <2>1 DEF El0IrqRet, IInv, Types, StackHeight, MaskedInHandler, TableMeans, FrameKept,
         Loaded, Points, KernelPoints, HandlerPoints, EntryPoints, Lost
  <1>8. CASE RestoreSp
    <2>1. \/ IInv'
          \/ /\ at = "restore_uctx" /\ at' = "restore_elr" /\ ttbr0 = "task"
             /\ Types'
             /\ \A r \in Registers : regs'[r] = IF r \in {"x29", "sp_el0"} THEN Created[r] ELSE regs[r]
             /\ UNCHANGED <<masked, ttbr0, current, stack, calls, before>>
      <3>1. "restore_elr" \in Points /\ "restore_uctx" \notin Framed
        BY DEF Points, KernelPoints
      <3> QED
        BY <1>8, <3>1, LoadTypes DEF RestoreSp
    <2> QED
      BY <2>1, CreatedValues DEF IInv, StackHeight, MaskedInHandler, TableMeans, FrameKept, Loaded,
         HandlerPoints, EntryPoints, Lost, Registers, General, System
  <1>9. CASE RestoreElr
    <2>1. \/ IInv'
          \/ /\ at = "restore_elr" /\ at' = "restore_spsr" /\ ttbr0 = "task"
             /\ Types'
             /\ \A r \in Registers : regs'[r] = IF r \in {"elr_el1"} THEN Created[r] ELSE regs[r]
             /\ UNCHANGED <<masked, ttbr0, current, stack, calls, before>>
      <3>1. "restore_spsr" \in Points /\ "restore_elr" \notin Framed
        BY DEF Points, KernelPoints
      <3> QED
        BY <1>9, <3>1, LoadTypes DEF RestoreElr
    <2> QED
      BY <2>1, CreatedValues DEF IInv, StackHeight, MaskedInHandler, TableMeans, FrameKept, Loaded,
         HandlerPoints, EntryPoints, Lost, Registers, General, System
  <1>10. CASE RestoreSpsr
    <2>1. \/ IInv'
          \/ /\ at = "restore_spsr" /\ at' = "restore_rest" /\ ttbr0 = "task"
             /\ Types'
             /\ \A r \in Registers : regs'[r] = IF r \in {"spsr_el1"} THEN Created[r] ELSE regs[r]
             /\ UNCHANGED <<masked, ttbr0, current, stack, calls, before>>
      <3>1. "restore_rest" \in Points /\ "restore_spsr" \notin Framed
        BY DEF Points, KernelPoints
      <3> QED
        BY <1>10, <3>1, LoadTypes DEF RestoreSpsr
    <2> QED
      BY <2>1, CreatedValues DEF IInv, StackHeight, MaskedInHandler, TableMeans, FrameKept, Loaded,
         HandlerPoints, EntryPoints, Lost, Registers, General, System
  <1>11. CASE RestoreRest
    <2>1. \/ IInv'
          \/ /\ at = "restore_rest" /\ at' = "eret" /\ ttbr0 = "task"
             /\ Types'
             /\ \A r \in Registers : regs'[r] = IF r \in {"esr_el1", "far_el1", "x0_x28"} THEN Created[r] ELSE regs[r]
             /\ UNCHANGED <<masked, ttbr0, current, stack, calls, before>>
      <3>1. "eret" \in Points /\ "restore_rest" \notin Framed
        BY DEF Points, KernelPoints
      <3> QED
        BY <1>11, <3>1, LoadTypes DEF RestoreRest
    <2> QED
      BY <2>1, CreatedValues DEF IInv, StackHeight, MaskedInHandler, TableMeans, FrameKept, Loaded,
         HandlerPoints, EntryPoints, Lost, Registers, General, System
  <1>12. CASE Eret
    <2>1. at' = "user" /\ ~masked'
      BY <1>12 DEF Eret, IInv, Loaded
    <2> QED
      BY <1>12, <2>1 DEF Eret, IInv, Types, StackHeight, MaskedInHandler, TableMeans, FrameKept, Loaded,
         Points, HandlerPoints, EntryPoints, Lost
  <1>13. CASE Irq
    <2>1. at \in KernelPoints /\ at \in Words /\ at \in Points
      BY <1>13 DEF Irq, IInv, MaskedInHandler, Types, Words
    <2>2. regs' \in [Registers -> Words]
      BY <1>13, <2>1 DEF Irq, IInv, Types, Words
    <2>3. Types'
      BY <1>13, <2>2 DEF Irq, IInv, Types, Points, HandlerPoints
    <2>4. Len(stack) = 2 * calls + 2
      BY <1>00, <2>1, FrameWords DEF IInv, StackHeight, KernelPoints
    <2>5. StackHeight' /\ MaskedInHandler' /\ Loaded'
      BY <1>00, <1>13, <2>4 DEF Irq, StackHeight, MaskedInHandler, Loaded
    <2>6. TableMeans'
      BY <1>13, <2>1 DEF Irq, IInv, TableMeans, KernelPoints
    <2>7. FrameKept'
      BY <1>13, <2>4 DEF Irq, IInv, Types, FrameKept, Registers, General, System
    <2> QED
      BY <2>3, <2>5, <2>6, <2>7 DEF IInv
  <1>14. CASE SaveHandlerCtx
    <2>1. CASE ~Mapped("kstack")
      BY <1>14, <2>1, FaultIInv DEF SaveHandlerCtx
    <2>2. CASE Mapped("kstack")
      <3> DEFINE frame == [i \in 1..Len(Frame) |-> regs[Frame[i]]]
                 rest == [stack EXCEPT ![1] = regs["far_el1"]]
      <3>1. /\ at' = "handle_irq_el1" /\ stack' = frame \o rest
            /\ UNCHANGED <<regs, masked, ttbr0, current, calls, before>>
        BY <1>14, <2>2 DEF SaveHandlerCtx
      <3>2. at = "el1_irq" /\ ttbr0 = "kpgtbl"
        <4>1. ttbr0 \in {"kpgtbl", "task", "zero"} /\ "kstack" \in Regions[ttbr0]
          BY <2>2 DEF Mapped, IInv, Types
        <4> QED
          BY <1>14, <4>1 DEF SaveHandlerCtx, Regions
      <3>3. /\ stack = before.stack /\ stack \in Seq(Words)
            /\ Len(stack) = 2 * calls + 2 /\ calls \in Nat
        BY <1>0, <3>2 DEF IInv, FrameKept, Types, StackHeight
      <3>4. /\ regs["x0_x28"] \in Words /\ regs["x29"] \in Words /\ regs["x30"] \in Words
            /\ regs["elr_el1"] \in Words /\ regs["spsr_el1"] \in Words /\ regs["esr_el1"] \in Words
            /\ regs["far_el1"] \in Words
        BY DEF IInv, Types, Registers, General, System
      <3>5. /\ frame \in Seq(Words) /\ Len(frame) = 6
            /\ frame[1] = regs["x0_x28"] /\ frame[2] = regs["x29"] /\ frame[3] = regs["x30"]
            /\ frame[4] = regs["elr_el1"] /\ frame[5] = regs["spsr_el1"]
        BY <3>4, FrameWords
      <3>6. /\ rest \in Seq(Words) /\ Len(rest) = Len(stack)
            /\ \A i \in 2..Len(stack) : rest[i] = stack[i]
        BY <3>3, <3>4
      <3> HIDE DEF frame, rest
      <3>7. /\ stack' \in Seq(Words) /\ Len(stack') = 6 + Len(stack)
            /\ \A i \in 1..6 : stack'[i] = frame[i]
            /\ \A i \in 1..Len(stack) : stack'[6 + i] = rest[i]
        <4>1. /\ frame \o rest \in Seq(Words)
              /\ Len(frame \o rest) = Len(frame) + Len(rest)
              /\ \A i \in 1..Len(frame) : (frame \o rest)[i] = frame[i]
              /\ \A i \in 1..Len(rest) : (frame \o rest)[Len(frame) + i] = rest[i]
          BY <3>5, <3>6, Pushed
        <4> QED
          BY <4>1, <3>1, <3>5, <3>6
      <3>8. Types' /\ MaskedInHandler'
        BY <3>1, <3>2, <3>7 DEF IInv, Types, MaskedInHandler, Points, HandlerPoints
      <3>9. StackHeight' /\ TableMeans' /\ Loaded'
        BY <3>1, <3>2, <3>3, <3>7, FrameWords DEF IInv, StackHeight, TableMeans, Loaded
      <3>10. FrameKept'
        <4>1. /\ \A r \in General : regs[r] = before.regs[r]
              /\ regs["elr_el1"] = before.at /\ regs["spsr_el1"] = "EL1h_INTR_ON"
          BY <3>2 DEF IInv, FrameKept
        <4>2. \A i \in 2..Len(before.stack) : stack'[6 + i] = before.stack[i]
          <5> SUFFICES ASSUME NEW i \in 2..Len(before.stack) PROVE stack'[6 + i] = before.stack[i]
            OBVIOUS
          <5>1. i \in 2..Len(stack) /\ i \in 1..Len(stack) /\ before.stack[i] = stack[i]
            BY <3>3
          <5> QED
            BY <5>1, <3>6, <3>7
        <4>3. /\ stack'[1] = regs["x0_x28"] /\ stack'[2] = regs["x29"] /\ stack'[3] = regs["x30"]
              /\ stack'[4] = regs["elr_el1"] /\ stack'[5] = regs["spsr_el1"]
          BY <3>5, <3>7
        <4> QED
          BY <3>1, <3>3, <4>1, <4>2, <4>3, FrameWords DEF FrameKept, General
      <3> QED
        BY <3>8, <3>9, <3>10 DEF IInv
    <2> QED
      BY <2>1, <2>2
  <1>15. CASE HandleIrqEl1
    <2>1. regs' \in [Registers -> Words]
      BY <1>15 DEF HandleIrqEl1, IInv, Types, Words
    <2> QED
      BY <1>15, <2>1 DEF HandleIrqEl1, IInv, Types, StackHeight, MaskedInHandler, TableMeans, FrameKept,
         Loaded, Points, HandlerPoints, EntryPoints, Lost
  <1>16. CASE RestoreHandlerCtx
    <2>1. /\ at = "restore_handler_ctx" /\ at' = "el1_eret" /\ regs' = Reloaded({})
          /\ stack' = SubSeq(stack, 7, Len(stack))
          /\ UNCHANGED <<masked, ttbr0, current, calls, before>>
      BY <1>16, FrameWords DEF RestoreHandlerCtx
    <2>2. /\ stack \in Seq(Words) /\ Len(stack) = 2 * calls + 8 /\ calls \in Nat
          /\ regs \in [Registers -> Words]
      BY <1>0, <2>1, FrameWords DEF IInv, Types, StackHeight
    <2>3. /\ regs' \in [Registers -> Words]
          /\ regs'["x0_x28"] = stack[1] /\ regs'["x29"] = stack[2] /\ regs'["x30"] = stack[3]
          /\ regs'["elr_el1"] = stack[4] /\ regs'["spsr_el1"] = stack[5]
      BY <2>1, <2>2, ReloadedWords
    <2>4. /\ stack' \in Seq(Words) /\ Len(stack') = Len(stack) - 6
          /\ \A i \in 1..(Len(stack) - 6) : stack'[i] = stack[6 + i]
      BY <2>1, <2>2, SubSeqProperties
    <2>5. Types' /\ MaskedInHandler'
      BY <2>1, <2>3, <2>4 DEF IInv, Types, MaskedInHandler, Points, HandlerPoints
    <2>6. StackHeight' /\ TableMeans' /\ Loaded'
      BY <2>1, <2>2, <2>4 DEF IInv, StackHeight, TableMeans, Loaded
    <2>7. FrameKept'
      <3>1. /\ Len(before.stack) = 2 * calls + 2
            /\ stack[1] = before.regs["x0_x28"]
            /\ stack[2] = before.regs["x29"] /\ stack[3] = before.regs["x30"]
            /\ stack[4] = before.at /\ stack[5] = "EL1h_INTR_ON"
            /\ \A i \in 2..Len(before.stack) : stack[6 + i] = before.stack[i]
        BY <2>1, FrameWords DEF IInv, FrameKept, HandlerPoints
      <3>2. \A i \in 2..Len(before.stack) : stack'[i] = before.stack[i]
        BY <2>2, <2>4, <3>1
      <3> QED
        BY <2>1, <2>3, <3>1, <3>2 DEF FrameKept, General
    <2> QED
      BY <2>5, <2>6, <2>7 DEF IInv
  <1>17. CASE El1Eret
    <2>1. at' = before.at /\ before.at \in Early
      BY <1>17 DEF El1Eret, IInv, FrameKept, TableMeans
    <2> QED
      BY <1>17, <2>1 DEF El1Eret, IInv, Types, StackHeight, MaskedInHandler, TableMeans, FrameKept,
         Loaded, Points, KernelPoints, HandlerPoints, EntryPoints, Lost
  <1>18. ASSUME NEW entry \in EntryPoints, TaskException(entry)
         PROVE  IInv'
    <2>1. regs' \in [Registers -> Words]
      BY <1>18 DEF TaskException, IInv, Types, Words, Points
    <2> QED
      BY <1>18, <2>1 DEF TaskException, IInv, Types, StackHeight, MaskedInHandler, TableMeans, FrameKept,
         Loaded, Points, HandlerPoints, EntryPoints, Lost
  <1>19. CASE SaveUctx
    BY <1>19, FaultIInv DEF SaveUctx, EntryPoints
  <1>20. CASE InvalidEx
    <2>1. regs' \in [Registers -> Words]
      BY <1>20 DEF InvalidEx, IInv, Types, Registers, System
    <2> QED
      BY <1>20, <2>1 DEF InvalidEx, IInv, Types, StackHeight, MaskedInHandler, TableMeans, FrameKept,
         Loaded, HandlerPoints
  <1>21. CASE PrintPgtbl
    <2>1. CASE at' = "el0_irq_ret" /\ masked' = FALSE
               /\ regs' = [regs EXCEPT !["x0_x28"] = "print", !["x30"] = "init_task"]
               /\ UNCHANGED <<ttbr0, current, stack, calls, before>>
      <3>1. regs' \in [Registers -> Words]
        BY <2>1 DEF IInv, Types, Words, Points, KernelPoints
      <3> QED
        BY <1>21, <2>1, <3>1 DEF PrintPgtbl, IInv, Types, StackHeight, MaskedInHandler, TableMeans, FrameKept,
           Loaded, Points, KernelPoints, HandlerPoints, EntryPoints, Lost
    <2>2. CASE Fault
      BY <1>21, <2>2, FaultIInv DEF PrintPgtbl
    <2> QED
      BY <1>21, <2>1, <2>2 DEF PrintPgtbl
  <1>22. CASE UNCHANGED vars
    BY <1>22 DEF vars, IInv, Types, StackHeight, MaskedInHandler, TableMeans, FrameKept, Loaded
  <1> QED
    BY <1>1, <1>2, <1>3, <1>4, <1>5, <1>6, <1>7, <1>8, <1>9, <1>10, <1>11, <1>12, <1>13, <1>14,
       <1>15, <1>16, <1>17, <1>18, <1>19, <1>20, <1>21, <1>22 DEF Next

LEMMA Invariance == Spec => []IInv
  BY InitIInv, StepIInv, PTL DEF Spec
-----------------------------------------------------------------------------
(* The control stays inside the code of the vectors, init_task and the     *)
(* task, and kernel_main and the task run with the stack at the height     *)
(* their open functions need.                                              *)
THEOREM TypeCorrect == Spec => []TypeOK
  <1>1. ASSUME IInv PROVE TypeOK
    <2>1. DOMAIN Regions = {"kpgtbl", "task", "zero"}
      BY DEF Regions
    <2>2. at \in {"kernel_main", "user"} => at \notin Framed
      BY DEF Framed
    <2>3. at \in {"kernel_main", "user"} => Len(stack) = 2 * calls + 2
      <3>1. calls \in Nat
        BY <1>1, TrapConstants DEF IInv, Types
      <3> QED
        BY <1>1, <2>2, <3>1, FrameWords DEF IInv, StackHeight
    <2> QED
      BY <1>1, <2>1, <2>3 DEF IInv, Types, TypeOK, Registers
  <1> QED
    BY <1>1, Invariance, PTL

(* An interrupt never interrupts the handler of another one in kernel      *)
(* mode: every handler of exception.S runs masked from its entry to its    *)
(* eret, so the stack holds one frame at most.                             *)
THEOREM HandlersDoNotNest == Spec => []OneHandlerFrame
  <1>1. ASSUME IInv PROVE OneHandlerFrame
    <2>1. calls \in Nat /\ Len(stack) \in Nat
      BY <1>1, TrapConstants DEF IInv, Types
    <2> QED
      BY <1>1, <2>1, FrameWords DEF IInv, StackHeight, OneHandlerFrame
  <1> QED
    BY <1>1, Invariance, PTL

(* A task starts with what user_task_create put into its frame: an         *)
(* interrupt that comes while restore_uctx loads elr_el1 and spsr_el1      *)
(* never returns there, because its first store faults.                    *)
THEOREM TaskStarts == Spec => []TaskStartsAsCreated
  <1>1. ASSUME IInv PROVE TaskStartsAsCreated
    <2>1. DOMAIN regs = Registers
      BY <1>1 DEF IInv, Types
    <2> QED
      BY <1>1, <2>1, CreatedValues DEF IInv, Loaded, TableMeans, TaskStartsAsCreated, Loading,
         Registers, General, System
  <1> QED
    BY <1>1, Invariance, PTL

(* The eret at the end of el1_irq continues the interrupted code where it  *)
(* was, with its registers, its stack but for the lowest word, and         *)
(* interrupts on.                                                          *)
THEOREM InterruptIsTransparent == Spec => KernelResumes
  <1> DEFINE Resumes ==
        at = "el1_eret" =>
            /\ at' = before.at
            /\ \A r \in General : regs'[r] = before.regs[r]
            /\ Len(stack') = Len(before.stack)
            /\ \A i \in 2..Len(stack') : stack'[i] = before.stack[i]
            /\ ~masked'
  <1>1. IInv /\ [Next]_vars => [Resumes]_vars
    <2> SUFFICES ASSUME IInv, Next, at = "el1_eret"
                 PROVE  Resumes
      BY DEF vars
    <2>1. masked
      BY DEF IInv, MaskedInHandler, HandlerPoints
    <2>2. El1Eret
      BY <2>1 DEF Next, Call, Return, UseLock, InitTask, UserTaskCreate, SetCurrent, PrintPgtbl, El0IrqRet,
         RestoreSp, RestoreElr, RestoreSpsr, RestoreRest, Load, Eret, Irq, SaveHandlerCtx,
         HandleIrqEl1, RestoreHandlerCtx, TaskException, SaveUctx, InvalidEx, EntryPoints
    <2>3. Len(stack) = 2 * calls + 2 /\ Len(before.stack) = 2 * calls + 2
      <3>1. calls \in Nat
        BY TrapConstants DEF IInv, Types
      <3> QED
        BY <3>1, FrameWords DEF IInv, StackHeight, FrameKept, Framed, HandlerPoints
    <2> QED
      BY <2>2, <2>3 DEF El1Eret, IInv, FrameKept
  <1> QED
    BY <1>1, Invariance, PTL DEF Spec, KernelResumes
=============================================================================
