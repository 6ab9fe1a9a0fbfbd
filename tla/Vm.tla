--------------------------------- MODULE Vm ---------------------------------
(***************************************************************************)
(* Translation tables: walk, mapva and kpgtbl_init of src/vm.c and         *)
(* user_task_create of src/scheduler.c, which builds the address space of  *)
(* a task.  Core Primary builds the kernel table alone at boot; afterwards *)
(* several cores create tasks at once and compete for pages.               *)
(*                                                                         *)
(* A virtual address is the sequence of its Levels table indices (the page *)
(* offset is always rounded away).  A page from the allocator is the page  *)
(* freepages, counting down, as PaAlloc shows; get_page and                *)
(* get_page_unsafe are one step each, as PagePool allows.  Pages contain   *)
(* garbage until they are cleared.                                         *)
(***************************************************************************)
EXTENDS Integers, Sequences, FiniteSets, Functions

CONSTANTS Cores, Primary,
          NumPages,     \* bound: pages of the allocator
          PoolSizes,    \* how many of them may be free when the tables are built
          MaxCalls,     \* bound: calls of user_task_create
          Levels,       \* table levels (4)
          Fan,          \* table indices (0..511)
          TMP, KERN, SHARED, DEVICES, KSTACK, MY_CPU,  \* ranges of kpgtbl_init
          TRAPFRAME, STACK, TRAMPOLINE, USER           \* ranges of user_task_create

VAs == [1..Levels -> Fan]

ASSUME VmConstants ==
    /\ Primary \in Cores
    /\ NumPages \in Nat /\ PoolSizes \subseteq 0..NumPages
    /\ MaxCalls \in Nat
    /\ Levels \in Nat /\ Levels > 1
    /\ IsFiniteSet(Fan)
    /\ {TMP, KERN, SHARED, DEVICES, KSTACK, MY_CPU, TRAMPOLINE, USER} \subseteq Seq(VAs)
    /\ KERN # <<>>
    /\ {TRAPFRAME, STACK} \subseteq VAs

(* The layout: two ranges overlap only where the shared section lies in    *)
(* the kernel image, and the trap frame and the stack of a task are        *)
(* entries of one table of the last level.                                 *)
ASSUME VmLayout ==
    /\ LET image == Range(TMP) \cup Range(KERN) \cup Range(SHARED)
       IN  /\ Range(DEVICES) \cap (image \cup Range(KSTACK) \cup Range(MY_CPU)) = {}
           /\ Range(KSTACK) \cap (image \cup Range(MY_CPU)) = {}
           /\ Range(MY_CPU) \cap image = {}
    /\ TRAPFRAME # STACK
    /\ \A l \in 1..(Levels - 1) : TRAPFRAME[l] = STACK[l]
    /\ {TRAPFRAME, STACK} \cap (Range(TRAMPOLINE) \cup Range(USER)) = {}
    /\ Range(TRAMPOLINE) \cap Range(USER) = {}
    /\ IsInjective(KSTACK) /\ IsInjective(MY_CPU) /\ IsInjective(USER)

Pages == 1..NumPages
Null == 0                 \* the page at address 0, and the answer of get_page when it fails
KPGTBL == NumPages + 1    \* the static array kpgtbl

(* Descriptors.  A page descriptor keeps the output address and the memory *)
(* type (attribute index and shareability); the access permissions are the *)
(* same in all of them.                                                    *)
Invalid == [kind |-> "invalid", to |-> Null, pa |-> <<"none">>, type |-> "none"]
Table(p) == [Invalid EXCEPT !.kind = "table", !.to = p]
Zeroed == [i \in Fan |-> Invalid]
Garbage == [i \in Fan |-> Table(Null)]

Leaf(pa, type) ==
    [kind |-> "page", to |-> Null, pa |-> pa, type |-> type]

(* A call of mapva.  checked tells whether the caller looks at its result. *)
Map(va, pa, type, checked) == [va |-> va, pa |-> pa, type |-> type, checked |-> checked]

Identity(range, type) ==
    [i \in DOMAIN range |-> Map(range[i], <<"same", range[i]>>, type, TRUE)]
Indexed(range, name) ==
    [i \in DOMAIN range |-> Map(range[i], <<name, i>>, "normal", TRUE)]

(* Faulty variant: the shared section is mapped before the kernel image.   *)
SharedFirst ==
    Identity(TMP, "normal") \o Identity(SHARED, "inner_shareable")
    \o Identity(KERN, "normal") \o Identity(DEVICES, "device")
    \o Indexed(KSTACK, "kstack1") \o Indexed(MY_CPU, "cpus")

(* The calls of kpgtbl_init in order.  The shared section is part of the   *)
(* kernel image and is mapped twice; the loop for the top half has no      *)
(* iteration.                                                              *)
KernelMaps ==
    Identity(TMP, "normal") \o Identity(KERN, "normal")
    \o Identity(SHARED, "inner_shareable") \o Identity(DEVICES, "device")
    \o Indexed(KSTACK, "kstack1") \o Indexed(MY_CPU, "cpus")

(* The calls of user_task_create in order. *)
UserMaps(tf, stack) ==
    << Map(TRAPFRAME, <<"pool", tf>>, "normal", FALSE),
       Map(STACK, <<"pool", stack>>, "normal", FALSE) >>
    \o Identity(TRAMPOLINE, "normal") \o Indexed(USER, "main")

VARIABLES
    freepages,  \* the page get_page gives next, Null when there is none
    mem,        \* mem[p]: page p seen as a table
    kernel,     \* kpgtbl_init: "running", "ok" or "failed"
    at,         \* at[c]: "idle", "tf", "stack" or "walk"
    job,        \* job[c]: the local variables of the call c is in
    made,       \* the tasks created
    calls       \* calls of user_task_create so far

vars == <<freepages, mem, kernel, at, job, made, calls>>

NoJob == [root |-> Null, tf |-> Null, stack |-> Null, req |-> 1, level |-> 1, table |-> Null]

Init ==
    /\ freepages \in PoolSizes
    /\ mem = [p \in 0..KPGTBL |-> IF p = KPGTBL THEN Zeroed ELSE Garbage]
    /\ kernel = "running"
    /\ at = [c \in Cores |-> IF c = Primary THEN "walk" ELSE "idle"]
    /\ job = [c \in Cores |-> IF c = Primary
                THEN [NoJob EXCEPT !.root = KPGTBL, !.table = KPGTBL] ELSE NoJob]
    /\ made = {}
    /\ calls = 0
-----------------------------------------------------------------------------
(* user_task_create, up to its first mapping *)

(* Faulty variant: the end of the list is not looked for. *)
TakeAlways(c, from, to, field) ==
    /\ at[c] = from
    /\ at' = [at EXCEPT ![c] = to]
    /\ mem' = [mem EXCEPT ![freepages] = Zeroed]
    /\ job' = [job EXCEPT ![c] = [@ EXCEPT ![field] = freepages, !.table = job[c].root]]
    /\ freepages' = freepages - 1

(* get_page and zero_range; the result is not looked at, so that the page  *)
(* at address 0 is cleared when the list is empty.  The first walk starts  *)
(* at the root.                                                            *)
Take(c, from, to, field) ==
    /\ at[c] = from
    /\ at' = [at EXCEPT ![c] = to]
    /\ mem' = [mem EXCEPT ![freepages] = Zeroed]
    /\ job' = [job EXCEPT ![c] = [@ EXCEPT ![field] = freepages, !.table = job[c].root]]
    /\ freepages' = IF freepages = Null THEN Null ELSE freepages - 1

TakePgtbl(c) ==
    /\ kernel # "running"
    /\ calls < MaxCalls
    /\ Take(c, "idle", "tf", "root")
    /\ calls' = calls + 1
    /\ UNCHANGED <<kernel, made>>

TakeTrapframe(c) ==
    /\ Take(c, "tf", "stack", "tf")
    /\ UNCHANGED <<kernel, made, calls>>

TakeStack(c) ==
    /\ Take(c, "stack", "walk", "stack")
    /\ UNCHANGED <<kernel, made, calls>>
-----------------------------------------------------------------------------
(* walk and mapva, for the kernel table and for the table of a task *)

InKernel(c) == job[c].root = KPGTBL
Maps(c) == IF InKernel(c) THEN KernelMaps ELSE UserMaps(job[c].tf, job[c].stack)
Current(c) == Maps(c)[job[c].req]
Index(c) == Current(c).va[job[c].level]
Entry(c) == mem[job[c].table][Index(c)]

Walking(c) == at[c] = "walk" /\ job[c].level < Levels

(* The entry is valid: walk goes down one level. *)
Descend(c) ==
    /\ Walking(c)
    /\ Entry(c).kind # "invalid"
    /\ job' = [job EXCEPT ![c].table = Entry(c).to, ![c].level = @ + 1]
    /\ UNCHANGED <<freepages, mem, kernel, at, made, calls>>

(* Faulty variant: the new table is not cleared. *)
AllocDirty(c) ==
    /\ Walking(c)
    /\ Entry(c).kind = "invalid"
    /\ freepages # Null
    /\ mem' = [mem EXCEPT ![job[c].table][Index(c)] = Table(freepages)]
    /\ job' = [job EXCEPT ![c].table = freepages, ![c].level = @ + 1]
    /\ freepages' = freepages - 1
    /\ UNCHANGED <<kernel, at, made, calls>>

(* Faulty variant: the page stays on the list. *)
AllocKeep(c) ==
    /\ Walking(c)
    /\ Entry(c).kind = "invalid"
    /\ freepages # Null
    /\ mem' = [mem EXCEPT ![freepages] = Zeroed,
                          ![job[c].table][Index(c)] = Table(freepages)]
    /\ job' = [job EXCEPT ![c].table = freepages, ![c].level = @ + 1]
    /\ UNCHANGED <<freepages, kernel, at, made, calls>>

(* The entry is not valid: walk gets a page, clears it and links it. *)
Alloc(c) ==
    /\ Walking(c)
    /\ Entry(c).kind = "invalid"
    /\ freepages # Null
    /\ mem' = [mem EXCEPT ![freepages] = Zeroed,
                          ![job[c].table][Index(c)] = Table(freepages)]
    /\ job' = [job EXCEPT ![c].table = freepages, ![c].level = @ + 1]
    /\ freepages' = freepages - 1
    /\ UNCHANGED <<kernel, at, made, calls>>

(* mapva has returned to its caller.  A caller that is done, or that found *)
(* a failure, leaves: kpgtbl_init sets the flag of configure_el3 either    *)
(* way, user_task_create returns the task or {0}.                          *)
Returned(c, ok) ==
    IF (ok \/ ~Current(c).checked) /\ job[c].req < Len(Maps(c))
    THEN /\ job' = [job EXCEPT ![c].req = @ + 1, ![c].level = 1,
                               ![c].table = job[c].root]
         /\ UNCHANGED <<kernel, at, made>>
    ELSE /\ job' = [job EXCEPT ![c] = NoJob]
         /\ at' = [at EXCEPT ![c] = "idle"]
         /\ IF InKernel(c)
            THEN kernel' = (IF ok THEN "ok" ELSE "failed") /\ UNCHANGED made
            ELSE /\ made' = IF ok THEN made \cup {[root |-> job[c].root, tf |-> job[c].tf,
                                                   stack |-> job[c].stack]}
                                  ELSE made
                 /\ UNCHANGED kernel

(* No page for a table: walk returns 1 and mapva -1.  The tables linked so *)
(* far stay.                                                               *)
MapFails(c) ==
    /\ Walking(c)
    /\ Entry(c).kind = "invalid"
    /\ freepages = Null
    /\ Returned(c, FALSE)
    /\ UNCHANGED <<freepages, mem, calls>>

(* walk returns the entry of the last level and mapva writes it, whatever  *)
(* it held.                                                                *)
SetPte(c) ==
    /\ at[c] = "walk"
    /\ job[c].level = Levels
    /\ mem' = [mem EXCEPT ![job[c].table][Index(c)] = Leaf(Current(c).pa, Current(c).type)]
    /\ Returned(c, TRUE)
    /\ UNCHANGED <<freepages, calls>>

Next ==
    \E c \in Cores :
        \/ TakePgtbl(c)
        \/ TakeTrapframe(c)
        \/ TakeStack(c)
        \/ Descend(c)
        \/ Alloc(c)
        \/ MapFails(c)
        \/ SetPte(c)

Spec == Init /\ [][Next]_vars
-----------------------------------------------------------------------------
(* Properties *)

TypeOK ==
    /\ freepages \in 0..NumPages
    /\ \A p \in 0..KPGTBL : \A i \in Fan :
         mem[p][i].kind \in {"invalid", "table", "page"} /\ mem[p][i].to \in 0..NumPages
    /\ kernel \in {"running", "ok", "failed"}
    /\ \A c \in Cores : /\ at[c] \in {"idle", "tf", "stack", "walk"}
                        /\ job[c].table \in 0..KPGTBL
                        /\ job[c].level \in 1..Levels
    /\ \A t \in made : t.root \in Pages /\ t.tf \in Pages /\ t.stack \in Pages

(* What the processor finds for va in the tables below root: it follows    *)
(* table descriptors and stops at the first other one.                     *)
Translate(root, va) ==
    LET entry[l \in 1..Levels] ==
            IF l = 1 THEN mem[root][va[1]]
            ELSE IF entry[l - 1].kind = "table" THEN mem[entry[l - 1].to][va[l]]
            ELSE Invalid
    IN  entry[Levels]

In(va, range) == \E i \in DOMAIN range : range[i] = va
Position(va, range) == CHOOSE i \in DOMAIN range : range[i] = va

(* The reference: what each address of the kernel is for.                  *)
KernelWanted(va) ==
    CASE In(va, SHARED) -> Leaf(<<"same", va>>, "inner_shareable")
      [] In(va, KERN \o TMP) /\ ~In(va, SHARED) -> Leaf(<<"same", va>>, "normal")
      [] In(va, DEVICES) -> Leaf(<<"same", va>>, "device")
      [] In(va, KSTACK) -> Leaf(<<"kstack1", Position(va, KSTACK)>>, "normal")
      [] In(va, MY_CPU) -> Leaf(<<"cpus", Position(va, MY_CPU)>>, "normal")
      [] OTHER -> Invalid

(* The reference: what each address of task t is for.                      *)
TaskWanted(t, va) ==
    CASE va = TRAPFRAME -> Leaf(<<"pool", t.tf>>, "normal")
      [] va = STACK -> Leaf(<<"pool", t.stack>>, "normal")
      [] In(va, TRAMPOLINE) -> Leaf(<<"same", va>>, "normal")
      [] In(va, USER) -> Leaf(<<"main", Position(va, USER)>>, "normal")
      [] OTHER -> Invalid

(* When kpgtbl_init succeeds, every address of the kernel translates to    *)
(* what it is for, the shared section with its own memory type though it   *)
(* is mapped twice, and no other address translates: the pages between the *)
(* stacks stay guards.  Tasks created later change nothing in it.          *)
KernelMapped ==
    kernel = "ok" => \A va \in VAs : Translate(KPGTBL, va) = KernelWanted(va)

(* The address space of a task is complete and holds nothing else, though  *)
(* two results of mapva and all of get_page are ignored, pages run out at  *)
(* any moment and other cores build theirs meanwhile.                      *)
TasksMapped ==
    \A t \in made : \A va \in VAs : Translate(t.root, va) = TaskWanted(t, va)

(* No table is part of two address spaces or occurs twice in one, and no   *)
(* trap frame, stack or root serves as a table too.                        *)
TablesPrivate ==
    LET links == {e \in (((freepages + 1)..NumPages) \cup {KPGTBL}) \X Fan :
                     mem[e[1]][e[2]].to \in Pages}
        targets == {mem[e[1]][e[2]].to : e \in links}
    IN  /\ Cardinality(targets) = Cardinality(links)
        /\ \A t \in made : targets \cap {t.root, t.tf, t.stack} = {}
=============================================================================
