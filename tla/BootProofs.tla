----------------------------- MODULE BootProofs -----------------------------
(***************************************************************************)
(* Proofs about Boot for every number of cores and every size of .bss.     *)
(***************************************************************************)
EXTENDS Boot, TLAPS

(* The code that only core 0 runs, and the code that the others wait in.   *)
PrimaryOnly == {"_zero_bss", "_set_bss_flag", "kpgtbl_init", "store_el3",
                "gic400_global_init", "sys_timer_init", "store_el1", "gic400_turn_ond"}
OthersOnly == {"_wait_for_bss_clear", "wait_el3", "wait_el1"}

(* Where core 0 is before it has done what a flag stands for.              *)
BeforeTables == {"_start", "_zero_bss", "_set_bss_flag", "configure_el3", "kpgtbl_init"}
BeforeTimer == BeforeTables \cup {"store_el3", "enable_mmu", "configure_el1",
                                  "gic400_global_init", "sys_timer_init"}

Roles ==
    \A c \in Cores : /\ at[c] \in PrimaryOnly => c = Primary
                     /\ at[c] \in OthersOnly => c # Primary

(* What each flag says when it is set.  The EL3 flag means something only  *)
(* once its word is cleared.                                               *)
FlagsTell ==
    /\ bss_is_clear => zeroed = BssWords
    /\ zeroed >= FlagWord /\ el3_done => tables = "kpgtbl"
    /\ el1_done => spis = "timer"

(* How far core 0 is says what it has done.                                *)
PrimaryTells ==
    /\ at[Primary] \notin {"_start", "_zero_bss"} => zeroed = BssWords
    /\ at[Primary] \in BeforeTables <=> tables # "kpgtbl"
    /\ at[Primary] \in BeforeTimer <=> spis # "timer"

(***************************************************************************)
(* The inductive invariant: TablesBeforeMmu and GlobalBeforeLocal hold     *)
(* because core 0 never goes back, so what it built is not undone later.   *)
(***************************************************************************)
IInv ==
    /\ TypeOK
    /\ Roles
    /\ FlagsTell
    /\ PrimaryTells
    /\ BssClearBeforeC
    /\ TablesBeforeMmu
    /\ GlobalBeforeLocal

USE BootConstants DEF Points, Assembly, El3, El1, Local

(* The invariant holds at reset, whatever .bss contains.                   *)
LEMMA InitIInv == Init => IInv
  <1> SUFFICES ASSUME Init PROVE IInv
    OBVIOUS
  <1> USE DEF Init
  <1>1. TypeOK
    <2>1. at \in [Cores -> Points] /\ gicc \in [Cores -> {"reset", "off", "on"}]
      OBVIOUS
    <2>2. el3_done \in BOOLEAN /\ bss_is_clear \in BOOLEAN /\ el1_done \in BOOLEAN
      OBVIOUS
    <2>3. zeroed \in 0..BssWords
      OBVIOUS
    <2> QED BY <2>1, <2>2, <2>3 DEF TypeOK
  <1>2. Roles /\ FlagsTell
    BY DEF Roles, FlagsTell, PrimaryOnly, OthersOnly
  <1>3. PrimaryTells
    BY DEF PrimaryTells, BeforeTables, BeforeTimer
  <1>4. BssClearBeforeC /\ TablesBeforeMmu /\ GlobalBeforeLocal
    BY DEF BssClearBeforeC, TablesBeforeMmu, GlobalBeforeLocal
  <1> QED
    BY <1>1, <1>2, <1>3, <1>4 DEF IInv

(* The inductive step, one action at a time.                               *)
LEMMA StepIInv == IInv /\ [Next]_vars => IInv'
  <1> SUFFICES ASSUME IInv, [Next]_vars PROVE IInv'
    OBVIOUS
  <1> USE DEF IInv, TypeOK, Roles, FlagsTell, PrimaryTells, BssClearBeforeC,
         TablesBeforeMmu, GlobalBeforeLocal, PrimaryOnly, OthersOnly,
         BeforeTables, BeforeTimer, Goto, flags, gic
  <1>1. ASSUME NEW c \in Cores, Start(c) PROVE IInv'
    BY <1>1 DEF Start
  <1>2. ASSUME NEW c \in Cores, ZeroBss(c) PROVE IInv'
    <2> USE <1>2 DEF ZeroBss
    <2>1. c = Primary /\ tables # "kpgtbl"
      OBVIOUS
    <2>2. el3_done' \in BOOLEAN
      OBVIOUS
    <2>3. zeroed' \in 0..BssWords /\ at' \in [Cores -> Points]
      OBVIOUS
    <2>4. TypeOK'
      BY <2>2, <2>3
    <2>5. zeroed' >= FlagWord => ~el3_done'
      BY <2>1
    <2>6. FlagsTell'
      BY <2>5
    <2>7. Roles' /\ PrimaryTells'
      BY <2>1
    <2>8. BssClearBeforeC' /\ TablesBeforeMmu' /\ GlobalBeforeLocal'
      OBVIOUS
    <2> QED BY <2>4, <2>6, <2>7, <2>8
  <1>3. ASSUME NEW c \in Cores, SetBssFlag(c) PROVE IInv'
    BY <1>3 DEF SetBssFlag
  <1>4. ASSUME NEW c \in Cores, WaitForBssClear(c) PROVE IInv'
    BY <1>4 DEF WaitForBssClear
  <1>5. ASSUME NEW c \in Cores, ConfigureEl3(c) PROVE IInv'
    BY <1>5 DEF ConfigureEl3
  <1>6. ASSUME NEW c \in Cores, KpgtblInit(c) PROVE IInv'
    BY <1>6 DEF KpgtblInit
  <1>7. ASSUME NEW c \in Cores, StoreEl3(c) PROVE IInv'
    BY <1>7 DEF StoreEl3
  <1>8. ASSUME NEW c \in Cores, WaitEl3(c) PROVE IInv'
    BY <1>8 DEF WaitEl3
  <1>9. ASSUME NEW c \in Cores, EnableMmu(c) PROVE IInv'
    BY <1>9 DEF EnableMmu
  <1>10. ASSUME NEW c \in Cores, ConfigureEl1(c) PROVE IInv'
    BY <1>10 DEF ConfigureEl1
  <1>11. ASSUME NEW c \in Cores, GlobalInit(c) PROVE IInv'
    BY <1>11 DEF GlobalInit
  <1>12. ASSUME NEW c \in Cores, EnableSysTimer(c) PROVE IInv'
    BY <1>12 DEF EnableSysTimer
  <1>13. ASSUME NEW c \in Cores, StoreEl1(c) PROVE IInv'
    BY <1>13 DEF StoreEl1
  <1>14. ASSUME NEW c \in Cores, WaitEl1(c) PROVE IInv'
    BY <1>14 DEF WaitEl1
  <1>15. ASSUME NEW c \in Cores, LocalInit(c) PROVE IInv'
    BY <1>15 DEF LocalInit
  <1>16. ASSUME NEW c \in Cores, LocalBanked(c) PROVE IInv'
    BY <1>16 DEF LocalBanked
  <1>17. ASSUME NEW c \in Cores, TurnOnInterface(c) PROVE IInv'
    BY <1>17 DEF TurnOnInterface
  <1>18. ASSUME NEW c \in Cores, TurnOnDistributor(c) PROVE IInv'
    BY <1>18 DEF TurnOnDistributor
  <1>19. CASE UNCHANGED vars
    BY <1>19 DEF vars
  <1> QED
    BY <1>1, <1>2, <1>3, <1>4, <1>5, <1>6, <1>7, <1>8, <1>9, <1>10, <1>11,
       <1>12, <1>13, <1>14, <1>15, <1>16, <1>17, <1>18, <1>19
       DEF Next, CoreStep

(* The invariant holds during the whole boot.                              *)
LEMMA Invariance == Spec => []IInv
  BY InitIInv, StepIInv, PTL DEF Spec
-----------------------------------------------------------------------------
(* Type correctness of the boot code.                                      *)
THEOREM TypeCorrect == Spec => []TypeOK
  <1>1. IInv => TypeOK
    BY DEF IInv
  <1> QED
    BY <1>1, Invariance, PTL

(* _wait_for_bss_clear keeps the other cores off their stacks until .bss   *)
(* is cleared.                                                             *)
THEOREM StacksSafe == Spec => []BssClearBeforeC
  <1>1. IInv => BssClearBeforeC
    BY DEF IInv
  <1> QED
    BY <1>1, Invariance, PTL

(* The EL3 flag, garbage at first, still lets no core turn its MMU on      *)
(* before kpgtbl_init is over.                                             *)
THEOREM MmuSafe == Spec => []TablesBeforeMmu
  <1>1. IInv => TablesBeforeMmu
    BY DEF IInv
  <1> QED
    BY <1>1, Invariance, PTL

(* The EL1 flag lets no core into gic400_local_init before the shared      *)
(* interrupts are configured.                                              *)
THEOREM GicOrder == Spec => []GlobalBeforeLocal
  <1>1. IInv => GlobalBeforeLocal
    BY DEF IInv
  <1> QED
    BY <1>1, Invariance, PTL
=============================================================================
