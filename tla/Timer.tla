------------------------------- MODULE Timer -------------------------------
(***************************************************************************)
(* The system timer of src/sys_timer.c and the handlers of                 *)
(* src/exception/exception.c that recharge it, on several cores.           *)
(*                                                                         *)
(* The timer is hardware: a free-running counter, a compare register, and  *)
(* a status bit that is set when the two are equal and stays set until it  *)
(* is written.  The status bit is the interrupt line, level-sensitive      *)
(* (icfg = 0 in gic400_global_init).                                       *)
(*                                                                         *)
(* The controller is external.  While the distributor is on it signals the *)
(* line to the cores.  A core that asks for it gets the id and has it      *)
(* active until it writes the end; while the line is not signalled to a    *)
(* core, the core reads the spurious id.  How many cores can have it       *)
(* active at once the source leaves open: by the comment on that write     *)
(* (GIC400.c:67) and by GIC400.h:109 the model is N-N, where the handling  *)
(* mode can be configured at all (GIC400.h:108); the GIC-400 handles       *)
(* shared interrupts by the 1-N model.  oneOfN is either.                  *)
(***************************************************************************)
EXTENDS Integers

CONSTANTS Cores,     \* processor ids
          Boot,      \* the core that calls sys_timer_init (id 0)
          Word,      \* values of a register of the timer (2^32)
          Recharge,  \* SCHEDULER_RECHARGE_TIME (120000)
          MaxDelay   \* ticks from the read of the counter to the clear of the status

(* sys_timer_recharge is three register accesses, made with interrupts     *)
(* masked: two of them take much less than the 120 ms they program.        *)
ASSUME TimerConstants ==
    /\ Boot \in Cores
    /\ Word \in Nat /\ Recharge \in Nat /\ MaxDelay \in Nat
    /\ 2 * MaxDelay < Recharge /\ Recharge < Word

Recharging == {"read", "write", "clear"}
Handling == Recharging \cup {"schedule", "eoi"}
Booted == {"off", "completed", "gic400_local_init", "gic400_turn_ond"}
Handlers == {"handle_irq_el0", "handle_irq_el1"}

VARIABLES
    oneOfN,      \* one core at a time has a shared interrupt active (1-N), or each its own (N-N)
    counter,     \* counter_lower
    compare,     \* compare[3]
    status,      \* bit 3 of control_status
    active,      \* the cores on which SYS_TIMER_3 is active
    distributor, \* GIC400_DISTRIBUTOR->ctl is CTL_ENABLE
    at,          \* at[c]: the next step of core c
    caller,      \* caller[c]: the function that recharges
    from,        \* from[c]: where the interrupt found core c
    cl,          \* cl[c]: the local variable of sys_timer_recharge
    since        \* history: ticks since the last recharge read the counter, up to Recharge

timer == <<counter, compare, status, since>>
vars == <<oneOfN, timer, active, distributor, at, caller, from, cl>>

Goto(c, here, there) ==
    /\ at[c] = here
    /\ at' = [at EXCEPT ![c] = there]

(* Core 0 comes to sys_timer_init after gic400_global_init, which turned   *)
(* the distributor off.  The registers of the timer hold anything.         *)
Init ==
    /\ oneOfN \in BOOLEAN
    /\ counter \in 0..(Word - 1) /\ compare \in 0..(Word - 1)
    /\ status \in BOOLEAN
    /\ since = Recharge
    /\ active = {}
    /\ distributor = FALSE
    /\ at = [c \in Cores |-> IF c = Boot THEN "read" ELSE "off"]
    /\ caller = [c \in Cores |-> "sys_timer_init"]
    /\ from = [c \in Cores |-> "run"]
    /\ cl = [c \in Cores |-> 0]
-----------------------------------------------------------------------------
(* The hardware *)

Tick ==
    /\ \A c \in Cores : at[c] \in {"write", "clear"} => (counter - cl[c]) % Word < MaxDelay
    /\ counter' = (counter + 1) % Word
    /\ status' = (status \/ counter' = compare)
    /\ since' = IF since < Recharge THEN since + 1 ELSE since
    /\ UNCHANGED <<oneOfN, compare, active, distributor, at, caller, from, cl>>

Signalled(c) ==
    /\ status /\ distributor
    /\ c \notin active
    /\ oneOfN => active = {}
-----------------------------------------------------------------------------
(* sys_timer_recharge *)

ReadCounter(c) ==
    /\ Goto(c, "read", "write")
    /\ cl' = [cl EXCEPT ![c] = counter]
    /\ since' = 0
    /\ UNCHANGED <<oneOfN, counter, compare, status, active, distributor, caller, from>>

(* Faulty variant: the sum is kept in a wider register. *)
WriteWide(c) ==
    /\ Goto(c, "write", "clear")
    /\ compare' = cl[c] + Recharge
    /\ UNCHANGED <<oneOfN, counter, status, since, active, distributor, caller, from, cl>>

(* Faulty variant: the sum saturates instead of wrapping around. *)
WriteSaturated(c) ==
    /\ Goto(c, "write", "clear")
    /\ compare' = IF cl[c] + Recharge < Word THEN cl[c] + Recharge ELSE Word - 1
    /\ UNCHANGED <<oneOfN, counter, status, since, active, distributor, caller, from, cl>>

WriteCompare(c) ==
    /\ Goto(c, "write", "clear")
    /\ compare' = (cl[c] + Recharge) % Word
    /\ UNCHANGED <<oneOfN, counter, status, since, active, distributor, caller, from, cl>>

(* Where sys_timer_recharge returns to *)
Recharged(c) ==
    CASE caller[c] = "sys_timer_init" -> "completed"
      [] caller[c] = "handle_irq_el0" -> "schedule"
      [] caller[c] = "handle_irq_el1" -> "eoi"

(* Faulty variant: the status bit is not written. *)
ClearNothing(c) ==
    /\ Goto(c, "clear", Recharged(c))
    /\ UNCHANGED <<oneOfN, timer, active, distributor, caller, from, cl>>

ClearStatus(c) ==
    /\ Goto(c, "clear", Recharged(c))
    /\ status' = FALSE
    /\ UNCHANGED <<oneOfN, counter, compare, since, active, distributor, caller, from, cl>>

-----------------------------------------------------------------------------
(* The rest of configure_el1, with interrupts masked (see Boot)            *)

(* gic400_enable_sys_timer(3), and the flag that the other cores wait for  *)
Complete ==
    /\ at[Boot] = "completed"
    /\ at' = [c \in Cores |-> "gic400_local_init"]
    /\ UNCHANGED <<oneOfN, timer, active, distributor, caller, from, cl>>

(* gic400_local_init turns the distributor off on every core.              *)
LocalInit(c) ==
    /\ Goto(c, "gic400_local_init", IF c = Boot THEN "gic400_turn_ond" ELSE "masked")
    /\ distributor' = FALSE
    /\ UNCHANGED <<oneOfN, timer, active, caller, from, cl>>

TurnOnd ==
    /\ Goto(Boot, "gic400_turn_ond", "masked")
    /\ distributor' = TRUE
    /\ UNCHANGED <<oneOfN, timer, active, caller, from, cl>>
-----------------------------------------------------------------------------
(* kernel_main and the tasks: acquire and init_task mask interrupts, the   *)
(* last release and the return to a task unmask them.                      *)

Mask(c) ==
    /\ Goto(c, "run", "masked")
    /\ UNCHANGED <<oneOfN, timer, active, distributor, caller, from, cl>>

Unmask(c) ==
    /\ Goto(c, "masked", "run")
    /\ UNCHANGED <<oneOfN, timer, active, distributor, caller, from, cl>>
-----------------------------------------------------------------------------
(* handle_irq_el0 and handle_irq_el1 *)

(* A core that runs a task, kernel code with interrupts on, or schedule,   *)
(* whose release turns them on, is interrupted.                            *)
TakeIrq(c, handler) ==
    /\ at[c] \in {"run", "schedule"}
    /\ at[c] = "schedule" => handler = "handle_irq_el1"
    /\ Signalled(c)
    /\ at' = [at EXCEPT ![c] = "ask"]
    /\ caller' = [caller EXCEPT ![c] = handler]
    /\ from' = [from EXCEPT ![c] = at[c]]
    /\ UNCHANGED <<oneOfN, timer, active, distributor, cl>>

(* gic400_ask: in the 1-N model another core may have been faster. *)
Ask(c) ==
    /\ at[c] = "ask"
    /\ \/ /\ Signalled(c)
          /\ active' = active \cup {c}
          /\ at' = [at EXCEPT ![c] = "read"]
       \/ /\ ~Signalled(c)
          /\ at' = [at EXCEPT ![c] = from[c]]
          /\ UNCHANGED active
    /\ UNCHANGED <<oneOfN, timer, distributor, caller, from, cl>>

(* Faulty variant: the end of interrupt is written before schedule is done. *)
ScheduleEoiFirst(c) ==
    /\ active' = active \ {c}
    /\ at[c] = "schedule"
    /\ at' = [at EXCEPT ![c] = IF c \in active THEN "schedule" ELSE "eoi"]
    /\ UNCHANGED <<oneOfN, timer, distributor, caller, from, cl>>

(* schedule, of any duration *)
Schedule(c) ==
    /\ Goto(c, "schedule", "eoi")
    /\ UNCHANGED <<oneOfN, timer, active, distributor, caller, from, cl>>

(* Faulty variant: one path of the handler returns without gic400_eoi. *)
EoiMissing(c) ==
    /\ Goto(c, "eoi", from[c])
    /\ active' = IF caller[c] = "handle_irq_el1" THEN active ELSE active \ {c}
    /\ UNCHANGED <<oneOfN, timer, distributor, caller, from, cl>>

Eoi(c) ==
    /\ Goto(c, "eoi", from[c])
    /\ active' = active \ {c}
    /\ UNCHANGED <<oneOfN, timer, distributor, caller, from, cl>>
-----------------------------------------------------------------------------
(* A step of the boot, or of a handler that has begun *)
Inside(c) ==
    \/ LocalInit(c)
    \/ ReadCounter(c)
    \/ WriteCompare(c)
    \/ ClearStatus(c)
    \/ Ask(c)
    \/ Schedule(c)
    \/ Eoi(c)

TakeAny == \E c \in Cores, handler \in Handlers : TakeIrq(c, handler)

Next ==
    \/ Tick
    \/ Complete
    \/ TurnOnd
    \/ TakeAny
    \/ \E c \in Cores : Inside(c) \/ Mask(c) \/ Unmask(c)

Spec == Init /\ [][Next]_vars

(***************************************************************************)
(* Time passes, the boot and the handlers go on, and an interrupt that is  *)
(* signalled to cores with interrupts on, again and again, is taken.  That *)
(* a core turns its interrupts on is not assumed: configure_el1 calls      *)
(* kernel_main with interrupts off, and init_task spins with them off.     *)
(***************************************************************************)
FairSpec ==
    /\ Spec
    /\ WF_vars(Tick) /\ WF_vars(Complete) /\ WF_vars(TurnOnd)
    /\ \A c \in Cores : WF_vars(Inside(c))
    /\ SF_vars(TakeAny)
-----------------------------------------------------------------------------
(* Properties *)

TypeOK ==
    /\ oneOfN \in BOOLEAN
    /\ counter \in 0..(Word - 1) /\ compare \in 0..(Word - 1)
    /\ status \in BOOLEAN
    /\ since \in 0..Recharge
    /\ active \subseteq Cores
    /\ distributor \in BOOLEAN
    /\ at \in [Cores -> Handling \cup Booted \cup {"run", "masked", "ask"}]
    /\ caller \in [Cores -> Handlers \cup {"sys_timer_init"}]
    /\ from \in [Cores -> {"run", "schedule"}]
    /\ cl \in [Cores -> 0..(Word - 1)]

Idle == \A c \in Cores : at[c] \notin Recharging

(* A match is never missed: whenever no recharge is under way, either the  *)
(* interrupt is pending or the counter meets the compare register within a *)
(* period, through every wrap-around of the sum and of the counter.  A     *)
(* value the counter has passed would cost a whole turn, 71 minutes.  In   *)
(* the 1-N model it is exactly Recharge ticks from the last reading; in    *)
(* the N-N model one core may write a sum older than another core's, or    *)
(* clear a status the other has not seen.                                  *)
NextTickSet ==
    Idle /\ ~status =>
        /\ (compare - counter) % Word \in 1..Recharge
        /\ oneOfN => (compare - counter) % Word = Recharge - since

(* In the 1-N model no interrupt comes early, or twice for one match: one  *)
(* is pending only Recharge ticks after the last recharge.  In particular  *)
(* the status bit of the old match does not survive the recharge, and a    *)
(* match while the controller is off is kept until it is on.               *)
NotEarly == oneOfN /\ Idle /\ status => since = Recharge

(* In the 1-N model one core at a time handles the timer interrupt; in     *)
(* either, no core is interrupted by the next one in its handler, although *)
(* schedule turns interrupts on and may take longer than a period.         *)
HandledOnce ==
    \A c \in Cores :
        /\ at[c] \in Handling /\ caller[c] # "sys_timer_init" =>
               c \in active /\ (oneOfN => active = {c})
        /\ from[c] = "run"

Listening == distributor /\ \E c \in Cores : at[c] = "run"

(* The timer never stops, no matter what the registers held at reset: the  *)
(* cores are interrupted again and again, as long as again and again a     *)
(* core has interrupts on and the distributor is on (Boot shows how a late *)
(* core leaves it off).                                                    *)
TicksForever == []<>Listening => []<>(\E c \in Cores : at[c] = "eoi")
=============================================================================
