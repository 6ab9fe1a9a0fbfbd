-------------------------------- MODULE Boot --------------------------------
(***************************************************************************)
(* How the cores come up: src/boot.S, src/start.c and the parts of         *)
(* src/GIC400.c they call.  All cores start at _start together.  Core 0    *)
(* clears .bss, builds the page list and the kernel page table at EL3,     *)
(* and configures the devices at EL1; the others wait for it at three      *)
(* flags: _bss_is_clear, and the two flags global_initialization_is_       *)
(* completed_el3 and _el1.  The EL3 flag lies in .bss itself, so it holds  *)
(* garbage until core 0 has cleared it, and so do the stacks on which the  *)
(* cores run C code; the other two flags are part of the loaded image.     *)
(*                                                                         *)
(* Accesses made with the MMU off are taken to be seen in program order.   *)
(***************************************************************************)
EXTENDS Integers

CONSTANTS Cores,     \* processor ids
          Primary,   \* core 0
          BssWords,  \* words of .bss: the loop of _zero_bss
          FlagWord   \* the word that holds the EL3 flag

ASSUME BootConstants ==
    /\ Primary \in Cores
    /\ BssWords \in Nat
    /\ FlagWord \in 1..BssWords

(* Control points, in program order.  The code of _start is assembly and   *)
(* uses no memory but the flag.                                            *)
Assembly == {"_start", "_zero_bss", "_set_bss_flag", "_wait_for_bss_clear"}
El3 == {"configure_el3", "kpgtbl_init", "store_el3", "wait_el3", "enable_mmu"}
El1 == {"configure_el1", "gic400_global_init", "sys_timer_init", "store_el1", "wait_el1"}
Local == {"gic400_local_init", "local_banked", "gic400_turn_oni", "gic400_turn_ond",
          "kernel_main"}
Points == Assembly \cup El3 \cup El1 \cup Local

VARIABLES
    bss_is_clear,  \* _bss_is_clear
    zeroed,        \* words of .bss cleared so far
    el3_done,      \* global_initialization_is_completed_el3
    el1_done,      \* global_initialization_is_completed_el1
    tables,        \* what core 0 has built: "none", "pages", "kpgtbl"
    gicd,          \* the distributor (shared): "reset", "off", "on"
    spis,          \* the shared interrupts: "reset", "configured", "timer"
    gicc,          \* gicc[c]: the interface of c: "reset", "off", "on"
    at

vars == <<bss_is_clear, zeroed, el3_done, el1_done, tables, gicd, spis, gicc, at>>
flags == <<bss_is_clear, el3_done, el1_done>>
gic == <<gicd, spis, gicc>>

Goto(c, from, to) ==
    /\ at[c] = from
    /\ at' = [at EXCEPT ![c] = to]

Init ==
    /\ bss_is_clear = FALSE
    /\ zeroed = 0
    /\ el3_done \in BOOLEAN
    /\ el1_done = FALSE
    /\ tables = "none"
    /\ gicd = "reset"
    /\ spis = "reset"
    /\ gicc = [c \in Cores |-> "reset"]
    /\ at = [c \in Cores |-> "_start"]
-----------------------------------------------------------------------------
(* boot.S *)

(* cbnz x0, _wait_for_bss_clear *)
Start(c) ==
    /\ Goto(c, "_start", IF c = Primary THEN "_zero_bss" ELSE "_wait_for_bss_clear")
    /\ UNCHANGED <<flags, zeroed, tables, gic>>

(* Faulty variant: the end of the range is cleared as well. *)
ZeroBssPastEnd(c) ==
    /\ \/ Goto(c, "_zero_bss", "_zero_bss") /\ zeroed <= BssWords
       \/ Goto(c, "_zero_bss", "_set_bss_flag") /\ zeroed > BssWords
    /\ zeroed' = IF zeroed <= BssWords THEN zeroed + 1 ELSE zeroed
    /\ el3_done' = (IF zeroed + 1 = FlagWord THEN FALSE ELSE el3_done)
    /\ UNCHANGED <<bss_is_clear, el1_done, tables, gic>>

(* One turn of _zero_bss, its last one leaving the loop *)
ZeroBss(c) ==
    /\ \/ Goto(c, "_zero_bss", "_zero_bss") /\ zeroed < BssWords
       \/ Goto(c, "_zero_bss", "_set_bss_flag") /\ zeroed = BssWords
    /\ zeroed' = IF zeroed < BssWords THEN zeroed + 1 ELSE zeroed
    /\ el3_done' = (IF zeroed + 1 = FlagWord THEN FALSE ELSE el3_done)
    /\ UNCHANGED <<bss_is_clear, el1_done, tables, gic>>

(* str x1, [x5] *)
SetBssFlag(c) ==
    /\ Goto(c, "_set_bss_flag", "configure_el3")
    /\ bss_is_clear' = TRUE
    /\ UNCHANGED <<zeroed, el3_done, el1_done, tables, gic>>

(* Faulty variant: the other cores go on at once. *)
WaitForNothing(c) ==
    /\ Goto(c, "_wait_for_bss_clear", "configure_el3")
    /\ UNCHANGED <<flags, zeroed, tables, gic>>

(* The turn of _wait_for_bss_clear that finds the flag set *)
WaitForBssClear(c) ==
    /\ Goto(c, "_wait_for_bss_clear", "configure_el3")
    /\ bss_is_clear
    /\ UNCHANGED <<flags, zeroed, tables, gic>>
-----------------------------------------------------------------------------
(* configure_el3 *)

(* Faulty variant: the flag is set before kpgtbl_init. *)
PublishEarly(c) ==
    /\ Goto(c, "configure_el3", IF c = Primary THEN "kpgtbl_init" ELSE "wait_el3")
    /\ tables' = IF c = Primary THEN "pages" ELSE tables
    /\ el3_done' = (c = Primary \/ el3_done)
    /\ UNCHANGED <<bss_is_clear, el1_done, zeroed, gic>>

(* The registers of the core, then core 0 calls init_pa_alloc *)
ConfigureEl3(c) ==
    /\ Goto(c, "configure_el3", IF c = Primary THEN "kpgtbl_init" ELSE "wait_el3")
    /\ tables' = IF c = Primary THEN "pages" ELSE tables
    /\ UNCHANGED <<flags, zeroed, gic>>

(* kpgtbl_init: with the pages of the real layout it never fails *)
KpgtblInit(c) ==
    /\ Goto(c, "kpgtbl_init", "store_el3")
    /\ tables' = "kpgtbl"
    /\ UNCHANGED <<flags, zeroed, gic>>

StoreEl3(c) ==
    /\ Goto(c, "store_el3", "enable_mmu")
    /\ el3_done' = TRUE
    /\ UNCHANGED <<bss_is_clear, el1_done, zeroed, tables, gic>>

WaitEl3(c) ==
    /\ Goto(c, "wait_el3", "enable_mmu")
    /\ el3_done
    /\ UNCHANGED <<flags, zeroed, tables, gic>>

(* ttbr0, ttbr1, enable_mmu, and eret to configure_el1 *)
EnableMmu(c) ==
    /\ Goto(c, "enable_mmu", "configure_el1")
    /\ UNCHANGED <<flags, zeroed, tables, gic>>
-----------------------------------------------------------------------------
(* configure_el1 *)

(* Core 0 initializes the UART and goes on to the devices *)
ConfigureEl1(c) ==
    /\ Goto(c, "configure_el1", IF c = Primary THEN "gic400_global_init" ELSE "wait_el1")
    /\ UNCHANGED <<flags, zeroed, tables, gic>>

(* The distributor is turned off and the shared interrupts are configured *)
GlobalInit(c) ==
    /\ Goto(c, "gic400_global_init", "sys_timer_init")
    /\ gicd' = "off"
    /\ spis' = "configured"
    /\ UNCHANGED <<flags, zeroed, tables, gicc>>

(* sys_timer_init and gic400_enable_sys_timer(3) *)
EnableSysTimer(c) ==
    /\ Goto(c, "sys_timer_init", "store_el1")
    /\ spis' = "timer"
    /\ UNCHANGED <<flags, zeroed, tables, gicd, gicc>>

(* Faulty variant: the flag of EL3 is set a second time. *)
StoreOtherFlag(c) ==
    /\ Goto(c, "store_el1", "gic400_local_init")
    /\ el3_done' = TRUE
    /\ UNCHANGED <<bss_is_clear, el1_done, zeroed, tables, gic>>

StoreEl1(c) ==
    /\ Goto(c, "store_el1", "gic400_local_init")
    /\ el1_done' = TRUE
    /\ UNCHANGED <<bss_is_clear, el3_done, zeroed, tables, gic>>

(* Faulty variant: the flag of EL3 is read again. *)
WaitOtherFlag(c) ==
    /\ Goto(c, "wait_el1", "gic400_local_init")
    /\ el3_done
    /\ UNCHANGED <<flags, zeroed, tables, gic>>

WaitEl1(c) ==
    /\ Goto(c, "wait_el1", "gic400_local_init")
    /\ el1_done
    /\ UNCHANGED <<flags, zeroed, tables, gic>>

(* GIC400_DISTRIBUTOR->ctl = CTL_DISABLE, on every core *)
LocalInit(c) ==
    /\ Goto(c, "gic400_local_init", "local_banked")
    /\ gicd' = "off"
    /\ UNCHANGED <<flags, zeroed, tables, spis, gicc>>

(* The interface is turned off and the banked registers are written *)
LocalBanked(c) ==
    /\ Goto(c, "local_banked", "gic400_turn_oni")
    /\ gicc' = [gicc EXCEPT ![c] = "off"]
    /\ UNCHANGED <<flags, zeroed, tables, gicd, spis>>

(* gic400_turn_oni and disable_irq *)
TurnOnInterface(c) ==
    /\ Goto(c, "gic400_turn_oni",
            IF c = Primary THEN "gic400_turn_ond" ELSE "kernel_main")
    /\ gicc' = [gicc EXCEPT ![c] = "on"]
    /\ UNCHANGED <<flags, zeroed, tables, gicd, spis>>

TurnOnDistributor(c) ==
    /\ Goto(c, "gic400_turn_ond", "kernel_main")
    /\ gicd' = "on"
    /\ UNCHANGED <<flags, zeroed, tables, spis, gicc>>
-----------------------------------------------------------------------------
CoreStep(c) ==
    \/ Start(c)
    \/ ZeroBss(c)
    \/ SetBssFlag(c)
    \/ WaitForBssClear(c)
    \/ ConfigureEl3(c)
    \/ KpgtblInit(c)
    \/ StoreEl3(c)
    \/ WaitEl3(c)
    \/ EnableMmu(c)
    \/ ConfigureEl1(c)
    \/ GlobalInit(c)
    \/ EnableSysTimer(c)
    \/ StoreEl1(c)
    \/ WaitEl1(c)
    \/ LocalInit(c)
    \/ LocalBanked(c)
    \/ TurnOnInterface(c)
    \/ TurnOnDistributor(c)

Next == \E c \in Cores : CoreStep(c)

Spec == Init /\ [][Next]_vars

(* Every core keeps executing. *)
FairSpec == Spec /\ \A c \in Cores : WF_vars(CoreStep(c))
-----------------------------------------------------------------------------
(* Properties *)

TypeOK ==
    /\ bss_is_clear \in BOOLEAN /\ el3_done \in BOOLEAN /\ el1_done \in BOOLEAN
    /\ zeroed \in 0..BssWords
    /\ tables \in {"none", "pages", "kpgtbl"}
    /\ gicd \in {"reset", "off", "on"}
    /\ spis \in {"reset", "configured", "timer"}
    /\ gicc \in [Cores -> {"reset", "off", "on"}]
    /\ at \in [Cores -> Points]

(* No core runs C code, on its stack in .bss, while core 0 still clears    *)
(* .bss.                                                                   *)
BssClearBeforeC ==
    \A c \in Cores : at[c] \notin Assembly => zeroed = BssWords

(* No core turns its MMU on before the kernel page table is built, though  *)
(* the flag it waits for starts with whatever RAM holds.                   *)
TablesBeforeMmu ==
    \A c \in Cores : at[c] \in {"enable_mmu"} \cup El1 \cup Local => tables = "kpgtbl"

(* No core programs its part of the interrupt controller before the shared *)
(* part is configured and the timer interrupt enabled: gic400_global_init  *)
(* never runs over a local configuration.                                  *)
GlobalBeforeLocal ==
    \A c \in Cores : at[c] \in Local => spis = "timer"

(* Every core reaches kernel_main.                                         *)
AllReachKernelMain == <>(\A c \in Cores : at[c] = "kernel_main")

(* "call this for each core": the local initialization of the cores, in    *)
(* whatever order they do it, leaves the distributor on as core 0 wanted.  *)
DistributorOn ==
    (\A c \in Cores : at[c] = "kernel_main") => gicd = "on"
=============================================================================
