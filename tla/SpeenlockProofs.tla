-------------------------- MODULE SpeenlockProofs --------------------------
(***************************************************************************)
(* Proofs about Speenlock for every set of cores and locks and every depth *)
(* of interrupt nesting.                                                   *)
(***************************************************************************)
EXTENDS Speenlock, TLAPS

(* A suspended context is outside the lock code.                           *)
SuspendedOutside ==
    \A c \in Cores : \A d \in Depths : d # depth[c] => at[c][d] = "run"

(* Inside the lock code interrupts are masked.                             *)
MaskedInside == \A c \in Cores : At(c) # "run" => masked[c]

(* A call of the lock code is about a lock.                                *)
CallHasLock ==
    \A c \in Cores : \A d \in Depths : at[c][d] # "run" => arg[c][d] \in Locks

(* An owned lock has its byte set.                                         *)
OwnedIsLocked ==
    \A c \in Cores : \A d \in Depths : \A l \in Locks :
        Owns(c, d, l) => locked[l]

(* Past the write of cpu_num, it names the owner.                          *)
OwnerRecorded ==
    \A c \in Cores : \A d \in Depths :
        at[c][d] \in {"set_name", "critical", "clear"}
            => cpu_num[arg[c][d]] = c

(* The name "locked" is there from the end of acquire to the start of      *)
(* release only.                                                           *)
NamedInside ==
    \A l \in Locks : name[l] = "locked" =>
        \E c \in Cores : \E d \in Depths :
            at[c][d] = "critical" /\ arg[c][d] = l

(***************************************************************************)
(* The inductive invariant.  MutualExclusion alone is not inductive: that  *)
(* a clear byte means no owner is OwnedIsLocked, and it survives an        *)
(* interrupt because of MaskedInside and SuspendedOutside.                 *)
(***************************************************************************)
IInv ==
    /\ TypeOK
    /\ SuspendedOutside
    /\ MaskedInside
    /\ CallHasLock
    /\ OwnedIsLocked
    /\ MutualExclusion
    /\ OwnerRecorded
    /\ NamedInside

USE LockConstants DEF Depths

(* The static initializers and an idle machine satisfy the invariant.      *)
LEMMA InitIInv == Init => IInv
  BY DEF Init, IInv, TypeOK, SuspendedOutside, MaskedInside, CallHasLock,
         OwnedIsLocked, MutualExclusion, OwnerRecorded, NamedInside, Owns,
         Owning, Points, At

(* Every statement of the lock code, and everything around it, preserves   *)
(* the types.                                                              *)
LEMMA TypeStep == TypeOK /\ [Next]_vars => TypeOK'
  <1> SUFFICES ASSUME TypeOK, [Next]_vars PROVE TypeOK'
    OBVIOUS
  <1> USE DEF TypeOK, Goto, At, Arg, Points
  <1>1. ASSUME NEW c \in Cores, NEW l \in Locks, DisableIrq(c, l) PROVE TypeOK'
    BY <1>1 DEF DisableIrq
  <1>2. ASSUME NEW c \in Cores, TestAndSet(c) PROVE TypeOK'
    BY <1>2 DEF TestAndSet
  <1>3. ASSUME NEW c \in Cores, SetCpuNum(c) PROVE TypeOK'
    BY <1>3 DEF SetCpuNum
  <1>4. ASSUME NEW c \in Cores, SetName(c) PROVE TypeOK'
    BY <1>4 DEF SetName
  <1>5. ASSUME NEW c \in Cores, ResetName(c) PROVE TypeOK'
    BY <1>5 DEF ResetName
  <1>6. ASSUME NEW c \in Cores, AtomicClear(c) PROVE TypeOK'
    BY <1>6 DEF AtomicClear
  <1>7. ASSUME NEW c \in Cores, EnableIrq(c) PROVE TypeOK'
    BY <1>7 DEF EnableIrq
  <1>8. ASSUME NEW c \in Cores, NEW b \in BOOLEAN, SetMask(c, b) PROVE TypeOK'
    BY <1>8 DEF SetMask
  <1>9. ASSUME NEW c \in Cores, TakeIrq(c) PROVE TypeOK'
    BY <1>9 DEF TakeIrq
  <1>10. ASSUME NEW c \in Cores, Eret(c) PROVE TypeOK'
    BY <1>10 DEF Eret
  <1>11. CASE UNCHANGED vars
    BY <1>11 DEF vars
  <1> QED
    BY <1>1, <1>2, <1>3, <1>4, <1>5, <1>6, <1>7, <1>8, <1>9, <1>10, <1>11
       DEF Next, CoreStep, LockStep

(* The inductive step, one action at a time.                               *)
LEMMA StepIInv == IInv /\ [Next]_vars => IInv'
  <1> SUFFICES ASSUME IInv, [Next]_vars PROVE IInv'
    OBVIOUS
  <1> USE DEF IInv
  <1>0. TypeOK'
    BY TypeStep
  <1> DEFINE Rest == /\ SuspendedOutside /\ MaskedInside /\ CallHasLock
                     /\ OwnedIsLocked /\ MutualExclusion /\ OwnerRecorded
                     /\ NamedInside
  <1> SUFFICES Rest'
    BY <1>0
  <1>1. ASSUME NEW c \in Cores, NEW l \in Locks, DisableIrq(c, l) PROVE Rest'
    <2> USE <1>1 DEF DisableIrq, Goto, TypeOK, At, Arg, Points
    <2>1. SuspendedOutside' /\ MaskedInside' /\ CallHasLock'
      BY DEF SuspendedOutside, MaskedInside, CallHasLock
    <2>2. \A k \in Cores : \A d \in Depths : \A m \in Locks :
            Owns(k, d, m)' => Owns(k, d, m)
      BY DEF Owns, Owning, CallHasLock
    <2>3. OwnedIsLocked' /\ MutualExclusion'
      BY <2>2 DEF OwnedIsLocked, MutualExclusion
    <2>4. OwnerRecorded'
      BY DEF OwnerRecorded
    <2>8. \A k \in Cores : \A d \in Depths :
            at[k][d] = "critical" => /\ at'[k][d] = "critical"
                                     /\ arg'[k][d] = arg[k][d]
      OBVIOUS
    <2>9. NamedInside'
      <3> SUFFICES ASSUME NEW m \in Locks, name'[m] = "locked"
                   PROVE \E k \in Cores : \E d \in Depths :
                            at'[k][d] = "critical" /\ arg'[k][d] = m
        BY DEF NamedInside
      <3>1. PICK k \in Cores, d \in Depths :
                at[k][d] = "critical" /\ arg[k][d] = m
        BY DEF NamedInside
      <3> QED BY <2>8, <3>1
    <2> QED BY <2>1, <2>3, <2>4, <2>9
  <1>2. ASSUME NEW c \in Cores, TestAndSet(c) PROVE Rest'
    <2> USE <1>2 DEF TestAndSet, Goto, TypeOK, At, Arg, Points
    <2>1. SuspendedOutside' /\ MaskedInside' /\ CallHasLock'
      BY DEF SuspendedOutside, MaskedInside, CallHasLock
    <2>2. \A k \in Cores : \A d \in Depths : \A m \in Locks :
            Owns(k, d, m)' => \/ Owns(k, d, m)
                              \/ k = c /\ d = depth[c] /\ m = Arg(c)
      BY DEF Owns, Owning
    <2>3. \A k \in Cores : \A d \in Depths : ~Owns(k, d, Arg(c))
      BY DEF OwnedIsLocked, CallHasLock
    <2>4. MutualExclusion'
      BY <2>2, <2>3 DEF MutualExclusion
    <2>5. OwnedIsLocked'
      BY <2>2 DEF OwnedIsLocked
    <2>6. OwnerRecorded'
      BY DEF OwnerRecorded
    <2>8. \A k \in Cores : \A d \in Depths :
            at[k][d] = "critical" => /\ at'[k][d] = "critical"
                                     /\ arg'[k][d] = arg[k][d]
      OBVIOUS
    <2>9. NamedInside'
      <3> SUFFICES ASSUME NEW m \in Locks, name'[m] = "locked"
                   PROVE \E k \in Cores : \E d \in Depths :
                            at'[k][d] = "critical" /\ arg'[k][d] = m
        BY DEF NamedInside
      <3>1. PICK k \in Cores, d \in Depths :
                at[k][d] = "critical" /\ arg[k][d] = m
        BY DEF NamedInside
      <3> QED BY <2>8, <3>1
    <2> QED BY <2>1, <2>4, <2>5, <2>6, <2>9
  <1>3. ASSUME NEW c \in Cores, SetCpuNum(c) PROVE Rest'
    <2> USE <1>3 DEF SetCpuNum, Goto, TypeOK, At, Arg, Points
    <2>1. SuspendedOutside' /\ MaskedInside' /\ CallHasLock'
      BY DEF SuspendedOutside, MaskedInside, CallHasLock
    <2>2. \A k \in Cores : \A d \in Depths : \A m \in Locks :
            Owns(k, d, m)' <=> Owns(k, d, m)
      BY DEF Owns, Owning
    <2>3. OwnedIsLocked' /\ MutualExclusion'
      BY <2>2 DEF OwnedIsLocked, MutualExclusion
    <2>4. OwnerRecorded'
      BY DEF OwnerRecorded, MutualExclusion, Owns, Owning, CallHasLock
    <2>5. NamedInside'
      BY DEF NamedInside
    <2> QED BY <2>1, <2>3, <2>4, <2>5
  <1>4. ASSUME NEW c \in Cores, SetName(c) PROVE Rest'
    <2> USE <1>4 DEF SetName, Goto, TypeOK, At, Arg, Points
    <2>1. SuspendedOutside' /\ MaskedInside' /\ CallHasLock'
      BY DEF SuspendedOutside, MaskedInside, CallHasLock
    <2>2. \A k \in Cores : \A d \in Depths : \A m \in Locks :
            Owns(k, d, m)' <=> Owns(k, d, m)
      BY DEF Owns, Owning
    <2>3. OwnedIsLocked' /\ MutualExclusion'
      BY <2>2 DEF OwnedIsLocked, MutualExclusion
    <2>4. OwnerRecorded'
      BY DEF OwnerRecorded
    <2>5. NamedInside'
      BY DEF NamedInside, CallHasLock
    <2> QED BY <2>1, <2>3, <2>4, <2>5
  <1>5. ASSUME NEW c \in Cores, ResetName(c) PROVE Rest'
    <2> USE <1>5 DEF ResetName, Goto, TypeOK, At, Arg, Points
    <2>1. SuspendedOutside' /\ MaskedInside' /\ CallHasLock'
      BY DEF SuspendedOutside, MaskedInside, CallHasLock
    <2>2. \A k \in Cores : \A d \in Depths : \A m \in Locks :
            Owns(k, d, m)' <=> Owns(k, d, m)
      BY DEF Owns, Owning
    <2>3. OwnedIsLocked' /\ MutualExclusion'
      BY <2>2 DEF OwnedIsLocked, MutualExclusion
    <2>4. OwnerRecorded'
      BY DEF OwnerRecorded
    <2>5. \A k \in Cores : \A d \in Depths :
            at[k][d] = "critical" /\ arg[k][d] # Arg(c)
                => at'[k][d] = "critical" /\ arg'[k][d] = arg[k][d]
      OBVIOUS
    <2>6. NamedInside'
      BY <2>5 DEF NamedInside, CallHasLock
    <2> QED BY <2>1, <2>3, <2>4, <2>6
  <1>6. ASSUME NEW c \in Cores, AtomicClear(c) PROVE Rest'
    <2> USE <1>6 DEF AtomicClear, Goto, TypeOK, At, Arg, Points
    <2>1. SuspendedOutside' /\ MaskedInside' /\ CallHasLock'
      BY DEF SuspendedOutside, MaskedInside, CallHasLock
    <2>2. \A k \in Cores : \A d \in Depths : \A m \in Locks :
            Owns(k, d, m)' => Owns(k, d, m) /\ ~(k = c /\ d = depth[c])
      BY DEF Owns, Owning
    <2>3. Owns(c, depth[c], Arg(c)) /\ Arg(c) \in Locks
      BY DEF Owns, Owning, CallHasLock
    <2>4. \A k \in Cores : \A d \in Depths : ~Owns(k, d, Arg(c))'
      BY <2>2, <2>3 DEF MutualExclusion
    <2>5. OwnedIsLocked' /\ MutualExclusion'
      BY <2>2, <2>4 DEF OwnedIsLocked, MutualExclusion
    <2>6. OwnerRecorded'
      BY DEF OwnerRecorded
    <2>8. \A k \in Cores : \A d \in Depths :
            at[k][d] = "critical" => /\ at'[k][d] = "critical"
                                     /\ arg'[k][d] = arg[k][d]
      OBVIOUS
    <2>9. NamedInside'
      <3> SUFFICES ASSUME NEW m \in Locks, name'[m] = "locked"
                   PROVE \E k \in Cores : \E d \in Depths :
                            at'[k][d] = "critical" /\ arg'[k][d] = m
        BY DEF NamedInside
      <3>1. PICK k \in Cores, d \in Depths :
                at[k][d] = "critical" /\ arg[k][d] = m
        BY DEF NamedInside
      <3> QED BY <2>8, <3>1
    <2> QED BY <2>1, <2>5, <2>6, <2>9
  <1>7. ASSUME NEW c \in Cores, EnableIrq(c) PROVE Rest'
    <2> USE <1>7 DEF EnableIrq, Goto, TypeOK, At, Arg, Points
    <2>1. SuspendedOutside' /\ MaskedInside' /\ CallHasLock'
      BY DEF SuspendedOutside, MaskedInside, CallHasLock
    <2>2. \A k \in Cores : \A d \in Depths : \A m \in Locks :
            Owns(k, d, m)' => Owns(k, d, m)
      BY DEF Owns, Owning
    <2>3. OwnedIsLocked' /\ MutualExclusion'
      BY <2>2 DEF OwnedIsLocked, MutualExclusion
    <2>4. OwnerRecorded'
      BY DEF OwnerRecorded
    <2>8. \A k \in Cores : \A d \in Depths :
            at[k][d] = "critical" => /\ at'[k][d] = "critical"
                                     /\ arg'[k][d] = arg[k][d]
      OBVIOUS
    <2>9. NamedInside'
      <3> SUFFICES ASSUME NEW m \in Locks, name'[m] = "locked"
                   PROVE \E k \in Cores : \E d \in Depths :
                            at'[k][d] = "critical" /\ arg'[k][d] = m
        BY DEF NamedInside
      <3>1. PICK k \in Cores, d \in Depths :
                at[k][d] = "critical" /\ arg[k][d] = m
        BY DEF NamedInside
      <3> QED BY <2>8, <3>1
    <2> QED BY <2>1, <2>3, <2>4, <2>9
  <1>8. ASSUME NEW c \in Cores, NEW b \in BOOLEAN, SetMask(c, b) PROVE Rest'
    BY <1>8 DEF SetMask, TypeOK, At, SuspendedOutside, MaskedInside, CallHasLock,
                OwnedIsLocked, MutualExclusion, OwnerRecorded, NamedInside, Owns
  <1>9. ASSUME NEW c \in Cores, TakeIrq(c) PROVE Rest'
    <2> USE <1>9 DEF TakeIrq, TypeOK, At
    <2>1. \A d \in Depths : at[c][d] = "run"
      BY DEF SuspendedOutside, MaskedInside
    <2>2. SuspendedOutside' /\ MaskedInside'
      BY <2>1 DEF SuspendedOutside, MaskedInside
    <2>3. CallHasLock' /\ OwnedIsLocked' /\ MutualExclusion'
      BY DEF CallHasLock, OwnedIsLocked, MutualExclusion, Owns
    <2>4. OwnerRecorded' /\ NamedInside'
      BY DEF OwnerRecorded, NamedInside
    <2> QED BY <2>2, <2>3, <2>4
  <1>10. ASSUME NEW c \in Cores, Eret(c) PROVE Rest'
    <2> USE <1>10 DEF Eret, TypeOK, At
    <2>1. \A d \in Depths : at[c][d] = "run"
      BY DEF SuspendedOutside
    <2>2. SuspendedOutside' /\ MaskedInside'
      BY <2>1 DEF SuspendedOutside, MaskedInside
    <2>3. CallHasLock' /\ OwnedIsLocked' /\ MutualExclusion'
      BY DEF CallHasLock, OwnedIsLocked, MutualExclusion, Owns
    <2>4. OwnerRecorded' /\ NamedInside'
      BY DEF OwnerRecorded, NamedInside
    <2> QED BY <2>2, <2>3, <2>4
  <1>11. CASE UNCHANGED vars
    BY <1>11 DEF vars, At, SuspendedOutside, MaskedInside, CallHasLock,
                 OwnedIsLocked, MutualExclusion, OwnerRecorded, NamedInside, Owns
  <1> QED
    BY <1>1, <1>2, <1>3, <1>4, <1>5, <1>6, <1>7, <1>8, <1>9, <1>10, <1>11
       DEF Next, CoreStep, LockStep

(* The invariant holds in every behaviour of the lock code.                *)
LEMMA Invariance == Spec => []IInv
  BY InitIInv, StepIInv, PTL DEF Spec
-----------------------------------------------------------------------------
(* Type correctness of acquire, release and the interrupts around them.    *)
THEOREM TypeCorrect == Spec => []TypeOK
  <1>1. IInv => TypeOK
    BY DEF IInv
  <1> QED
    BY <1>1, Invariance, PTL

(* At most one context of one core is between the test-and-set of acquire  *)
(* and the atomic clear of release, for any number of cores and locks.     *)
THEOREM Exclusion == Spec => []MutualExclusion
  <1>1. IInv => MutualExclusion
    BY DEF IInv
  <1> QED
    BY <1>1, Invariance, PTL

(* The loop of acquire never waits for a context the interrupt it runs in  *)
(* has suspended, however deep interrupts nest.                            *)
THEOREM SelfDeadlockFree == Spec => []NoSelfDeadlock
  <1>1. IInv => NoSelfDeadlock
    BY DEF IInv, NoSelfDeadlock, SuspendedOutside, Owns, Owning, TypeOK
  <1> QED
    BY <1>1, Invariance, PTL

(* The debug fields name and cpu_num of a lock tell its holder.            *)
THEOREM DebugFieldsCorrect == Spec => []NameTellsHolder
  <1>1. ASSUME IInv, NEW l \in Locks, name[l] = "locked"
        PROVE  \E d \in Depths : cpu_num[l] \in Cores /\ Owns(cpu_num[l], d, l)
    <2>1. PICK c \in Cores, d \in Depths : at[c][d] = "critical" /\ arg[c][d] = l
      BY <1>1 DEF IInv, NamedInside
    <2>2. cpu_num[l] = c
      BY <1>1, <2>1 DEF IInv, OwnerRecorded
    <2> QED
      BY <2>1, <2>2 DEF Owns, Owning
  <1>2. IInv => NameTellsHolder
    BY <1>1 DEF NameTellsHolder
  <1> QED
    BY <1>2, Invariance, PTL
-----------------------------------------------------------------------------
(* The abstract state: the cores that own lock l.                          *)
Holders(l) == {c \in Cores : \E d \in Depths : Owns(c, d, l)}

(* Initially nobody holds a lock.                                          *)
LEMMA InitRefines == Init => Mutex!Init
  BY DEF Init, Mutex!Init, Owns, Owning

(* Every step of a core takes one free lock, gives up one it holds, or     *)
(* changes nothing the abstract mutex can see.                             *)
LEMMA StepRefines ==
    IInv /\ IInv' /\ [Next]_vars
        => [Mutex!Next]_([l \in Locks |-> Holders(l)])
  <1> SUFFICES ASSUME IInv, IInv', [Next]_vars
               PROVE  [Mutex!Next]_([l \in Locks |-> Holders(l)])
    OBVIOUS
  <1> DEFINE H == [l \in Locks |-> Holders(l)]
  <1>0. ASSUME \A k \in Cores : \A d \in Depths : \A m \in Locks :
                 Owns(k, d, m)' <=> Owns(k, d, m)
        PROVE  H' = H
    BY <1>0 DEF Holders
  <1>a. ASSUME NEW a \in Locks, NEW S,
               \A m \in Locks : Holders(m)' = IF m = a THEN S ELSE Holders(m)
        PROVE  H' = [H EXCEPT ![a] = S]
    BY <1>a
  <1>1. ASSUME NEW c \in Cores, TestAndSet(c) PROVE Mutex!Next
    <2> USE <1>1 DEF TestAndSet, Goto, TypeOK, At, Arg, Points, IInv
    <2>1. Arg(c) \in Locks /\ \A k \in Cores : \A d \in Depths : ~Owns(k, d, Arg(c))
      BY DEF OwnedIsLocked, CallHasLock
    <2>2. \A k \in Cores : \A d \in Depths : \A m \in Locks :
            Owns(k, d, m)' <=> \/ Owns(k, d, m)
                               \/ k = c /\ d = depth[c] /\ m = Arg(c)
      BY DEF Owns, Owning
    <2>3. Holders(Arg(c)) = {}
      BY <2>1 DEF Holders
    <2>4. \A m \in Locks : Holders(m)' = IF m = Arg(c) THEN {c} ELSE Holders(m)
      BY <2>1, <2>2 DEF Holders
    <2>5. PICK a \in Locks : a = Arg(c)
      BY <2>1
    <2>6. H[a] = {} /\ H' = [H EXCEPT ![a] = {c}]
      BY ONLY <2>3, <2>4, <2>5, <1>a
    <2>7. Mutex!Take(c, a)
      BY ONLY <2>6 DEF Mutex!Take, Holders
    <2> QED
      BY ONLY <2>7, c \in Cores DEF Mutex!Next
  <1>2. ASSUME NEW c \in Cores, AtomicClear(c) PROVE Mutex!Next
    <2> USE <1>2 DEF AtomicClear, Goto, TypeOK, At, Arg, Points, IInv
    <2>1. Arg(c) \in Locks /\ Owns(c, depth[c], Arg(c))
      BY DEF CallHasLock, Owns, Owning
    <2>2. \A k \in Cores : \A d \in Depths : \A m \in Locks :
            Owns(k, d, m)' <=> Owns(k, d, m) /\ m # Arg(c)
      <3>1. \A k \in Cores : \A d \in Depths : \A m \in Locks :
              Owns(k, d, m)' <=> Owns(k, d, m) /\ ~(k = c /\ d = depth[c])
        BY DEF Owns, Owning
      <3>2. \A k \in Cores : \A d \in Depths :
              Owns(k, d, Arg(c)) => k = c /\ d = depth[c]
        BY <2>1 DEF MutualExclusion
      <3>3. \A m \in Locks : Owns(c, depth[c], m) => m = Arg(c)
        BY DEF Owns
      <3> QED BY <3>1, <3>2, <3>3
    <2>3. Holders(Arg(c)) = {c}
      BY <2>1 DEF Holders, MutualExclusion
    <2>4. \A m \in Locks : Holders(m)' = IF m = Arg(c) THEN {} ELSE Holders(m)
      BY <2>2 DEF Holders
    <2>5. PICK a \in Locks : a = Arg(c)
      BY <2>1
    <2>6. H[a] = {c} /\ H' = [H EXCEPT ![a] = {}]
      BY ONLY <2>3, <2>4, <2>5, <1>a
    <2>7. Mutex!Give(c, a)
      BY ONLY <2>6 DEF Mutex!Give, Holders
    <2> QED
      BY ONLY <2>7, c \in Cores DEF Mutex!Next
  <1> USE DEF Goto, TypeOK, At, Arg, Points, IInv
  <1>3. ASSUME NEW c \in Cores, NEW l \in Locks, DisableIrq(c, l) PROVE H' = H
    BY <1>3, <1>0 DEF DisableIrq, Owns, Owning
  <1>4. ASSUME NEW c \in Cores, SetCpuNum(c) PROVE H' = H
    BY <1>4, <1>0 DEF SetCpuNum, Owns, Owning
  <1>5. ASSUME NEW c \in Cores, SetName(c) PROVE H' = H
    BY <1>5, <1>0 DEF SetName, Owns, Owning
  <1>6. ASSUME NEW c \in Cores, ResetName(c) PROVE H' = H
    BY <1>6, <1>0 DEF ResetName, Owns, Owning
  <1>7. ASSUME NEW c \in Cores, EnableIrq(c) PROVE H' = H
    BY <1>7, <1>0 DEF EnableIrq, Owns, Owning
  <1>8. ASSUME NEW c \in Cores, NEW b \in BOOLEAN, SetMask(c, b) PROVE H' = H
    BY <1>8, <1>0 DEF SetMask, Owns
  <1>9. ASSUME NEW c \in Cores, TakeIrq(c) PROVE H' = H
    BY <1>9, <1>0 DEF TakeIrq, Owns
  <1>10. ASSUME NEW c \in Cores, Eret(c) PROVE H' = H
    BY <1>10, <1>0 DEF Eret, Owns
  <1>11. CASE UNCHANGED vars
    BY <1>11, <1>0 DEF vars, Owns
  <1> QED
    BY <1>1, <1>2, <1>3, <1>4, <1>5, <1>6, <1>7, <1>8, <1>9, <1>10, <1>11
       DEF Next, CoreStep, LockStep

(* The spinlock implements the abstract mutex: Scheduler and PaAlloc may   *)
(* treat acquire and release as taking and giving up a lock that has one   *)
(* holder at most.                                                         *)
THEOREM Refinement == Spec => ImplementsSpinMutex
  <1>1. IInv /\ IInv' /\ [Next]_vars
            => [Mutex!Next]_([l \in Locks |->
                   {c \in Cores : \E d \in Depths : Owns(c, d, l)}])
    BY StepRefines DEF Holders
  <1> QED
    BY <1>1, InitRefines, Invariance, PTL DEF Spec, ImplementsSpinMutex, Mutex!Spec
=============================================================================
