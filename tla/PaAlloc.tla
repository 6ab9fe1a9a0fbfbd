------------------------------ MODULE PaAlloc ------------------------------
(***************************************************************************)
(* The physical page allocator of src/pa_alloc.c and its callers.          *)
(*                                                                         *)
(* Pages are numbered from the one at MEM_TMP_START (1) to the one below   *)
(* MEM_TMP_END (NumPages).  The free list is threaded through the first    *)
(* word of the free pages themselves, so an owner that writes to its page  *)
(* overwrites what was a link.  Core Boot builds the list and takes pages  *)
(* for the kernel page table without the lock (init_pa_alloc,              *)
(* get_page_unsafe); the other cores are let in by the EL3 completion flag *)
(* of src/start.c and everybody uses get_page from then on.  pa_alloc_lock *)
(* is a byte here: Speenlock shows that acquire and release are its        *)
(* test-and-set and its clear.                                             *)
(***************************************************************************)
EXTENDS Integers

CONSTANTS Cores,     \* processor ids
          Boot,      \* the core that configures the machine (id 0)
          NumPages   \* bound: pages between MEM_TMP_START and MEM_TMP_END

ASSUME PaConstants ==
    /\ Boot \in Cores
    /\ NumPages \in Nat

Pages == 1..NumPages
TERMINAL_PAGE == 0       \* MEM_START, below every page
Null == -1               \* the address 0
Words == Pages \cup {TERMINAL_PAGE, Null}

(* Control points of a core: the next statement of get_page or free_page.  *)
Points == {"idle", "load", "unlink", "release", "release_fail",
           "free_enter", "free_link", "free_head", "free_release"}

VARIABLES
    freepages,  \* head of the free list
    next,       \* next[p]: the first word of page p
    counter,    \* alloc_pages_counter of init_pa_alloc: pages pushed so far
    phase,      \* "init_pa_alloc", "kpgtbl_init", or "ready": the flag is set
    locked,     \* the byte of pa_alloc_lock
    at,         \* at[c]: control point of core c
    page,       \* page[c]: the local variable page
    held        \* held[c]: the pages c got from the allocator and may write

vars == <<freepages, next, counter, phase, locked, at, page, held>>

Goto(c, from, to) ==
    /\ at[c] = from
    /\ at' = [at EXCEPT ![c] = to]

(* RAM holds anything at reset. *)
Init ==
    /\ freepages = TERMINAL_PAGE
    /\ next \in [Pages -> Words]
    /\ counter = 0
    /\ phase = "init_pa_alloc"
    /\ locked = FALSE
    /\ at = [c \in Cores |-> "idle"]
    /\ page = [c \in Cores |-> Null]
    /\ held = [c \in Cores |-> {}]
-----------------------------------------------------------------------------
(* Configuration by the boot core, at EL3 *)

(* One iteration of the loop of init_pa_alloc. *)
Push ==
    /\ phase = "init_pa_alloc"
    /\ counter < NumPages
    /\ LET pointer == counter + 1 IN
         /\ next' = [next EXCEPT ![pointer] = freepages]
         /\ freepages' = pointer
    /\ counter' = counter + 1
    /\ UNCHANGED <<phase, locked, at, page, held>>

(* init_pa_alloc returns counter. *)
InitDone ==
    /\ phase = "init_pa_alloc"
    /\ counter = NumPages
    /\ phase' = "kpgtbl_init"
    /\ UNCHANGED <<freepages, next, counter, locked, at, page, held>>

(* get_page_unsafe, called by walk for a table of the kernel page table. *)
GetPageUnsafe ==
    /\ phase = "kpgtbl_init"
    /\ freepages # TERMINAL_PAGE
    /\ freepages' = next[freepages]
    /\ held' = [held EXCEPT ![Boot] = @ \cup {freepages}]
    /\ UNCHANGED <<next, counter, phase, locked, at, page>>

(* kpgtbl_init is over, with every range mapped or because get_page_unsafe *)
(* returned 0 (configure_el3 does not look at the result): the flag is set. *)
Publish ==
    /\ phase = "kpgtbl_init"
    /\ phase' = "ready"
    /\ UNCHANGED <<freepages, next, counter, locked, at, page, held>>
-----------------------------------------------------------------------------
(* get_page() *)

(* Faulty variant: a core does not wait for the flag. *)
AcquireEarly(c) ==
    /\ ~locked
    /\ Goto(c, "idle", "load")
    /\ locked' = TRUE
    /\ UNCHANGED <<freepages, next, counter, phase, page, held>>

(* Faulty variant: the lock is not taken. *)
AcquireNothing(c) ==
    /\ phase = "ready"
    /\ Goto(c, "idle", "load")
    /\ UNCHANGED <<freepages, next, counter, phase, locked, page, held>>

(* acquire(&pa_alloc_lock).  Only code that runs after configure_el3 calls *)
(* get_page.                                                               *)
Acquire(c) ==
    /\ phase = "ready"
    /\ ~locked
    /\ Goto(c, "idle", "load")
    /\ locked' = TRUE
    /\ UNCHANGED <<freepages, next, counter, phase, page, held>>

(* Faulty variant: the test looks at the link, one page too early. *)
LoadHeadShort(c) ==
    /\ Goto(c, "load", IF freepages = TERMINAL_PAGE \/ next[freepages] = TERMINAL_PAGE
                       THEN "release_fail" ELSE "unlink")
    /\ page' = [page EXCEPT ![c] = freepages]
    /\ UNCHANGED <<freepages, next, counter, phase, locked, held>>

(* page = freepages, and the test for the end of the list *)
LoadHead(c) ==
    /\ Goto(c, "load", IF freepages = TERMINAL_PAGE THEN "release_fail" ELSE "unlink")
    /\ page' = [page EXCEPT ![c] = freepages]
    /\ UNCHANGED <<freepages, next, counter, phase, locked, held>>

(* Faulty variant: the page below the last one is never given out. *)
UnlinkTwo(c) ==
    /\ Goto(c, "unlink", "release")
    /\ freepages' = IF next[page[c]] \in Pages THEN next[next[page[c]]] ELSE next[page[c]]
    /\ UNCHANGED <<next, counter, phase, locked, page, held>>

(* freepages = page->next *)
Unlink(c) ==
    /\ Goto(c, "unlink", "release")
    /\ freepages' = next[page[c]]
    /\ UNCHANGED <<next, counter, phase, locked, page, held>>

(* release(&pa_alloc_lock); return page *)
Release(c) ==
    /\ Goto(c, "release", "idle")
    /\ locked' = FALSE
    /\ held' = [held EXCEPT ![c] = @ \cup {page[c]}]
    /\ page' = [page EXCEPT ![c] = Null]
    /\ UNCHANGED <<freepages, next, counter, phase>>

(* release(&pa_alloc_lock); return 0 *)
ReleaseFail(c) ==
    /\ Goto(c, "release_fail", "idle")
    /\ locked' = FALSE
    /\ page' = [page EXCEPT ![c] = Null]
    /\ UNCHANGED <<freepages, next, counter, phase, held>>
-----------------------------------------------------------------------------
(* What a caller does with its pages. *)

(* Faulty variant: the range starts one page too low. *)
ZeroBelow(c, p) ==
    /\ p \in held[c]
    /\ next' = [q \in Pages |-> IF q = p \/ q = p - 1 THEN Null ELSE next[q]]
    /\ UNCHANGED <<freepages, counter, phase, locked, at, page, held>>

(* zero_range(page, 0x1000): memset to 0 of the whole page *)
ZeroRange(c, p) ==
    /\ p \in held[c]
    /\ next' = [next EXCEPT ![p] = Null]
    /\ UNCHANGED <<freepages, counter, phase, locked, at, page, held>>

(* A table descriptor, a saved register or data: any word. *)
Store(c, p, w) ==
    /\ p \in held[c]
    /\ next' = [next EXCEPT ![p] = w]
    /\ UNCHANGED <<freepages, counter, phase, locked, at, page, held>>
-----------------------------------------------------------------------------
(* free_page(paddr), which no code of the repository calls yet.  It starts *)
(* with release where it should acquire.                                   *)

FreePage(c, p) ==
    /\ phase = "ready"
    /\ p \in held[c]
    /\ Goto(c, "idle", "free_enter")
    /\ page' = [page EXCEPT ![c] = p]
    /\ held' = [held EXCEPT ![c] = @ \ {p}]
    /\ UNCHANGED <<freepages, next, counter, phase, locked>>

(* release(&pa_alloc_lock): the byte is cleared, whoever set it *)
FreeEnter(c) ==
    /\ Goto(c, "free_enter", "free_link")
    /\ locked' = FALSE
    /\ UNCHANGED <<freepages, next, counter, phase, page, held>>

(* page->next = freepages *)
FreeLink(c) ==
    /\ Goto(c, "free_link", "free_head")
    /\ next' = [next EXCEPT ![page[c]] = freepages]
    /\ UNCHANGED <<freepages, counter, phase, locked, page, held>>

(* freepages = page *)
FreeHead(c) ==
    /\ Goto(c, "free_head", "free_release")
    /\ freepages' = page[c]
    /\ UNCHANGED <<next, counter, phase, locked, page, held>>

(* release(&pa_alloc_lock); return true *)
FreeRelease(c) ==
    /\ Goto(c, "free_release", "idle")
    /\ locked' = FALSE
    /\ page' = [page EXCEPT ![c] = Null]
    /\ UNCHANGED <<freepages, next, counter, phase, held>>

FreeStep(c) ==
    \/ \E p \in Pages : FreePage(c, p)
    \/ FreeEnter(c)
    \/ FreeLink(c)
    \/ FreeHead(c)
    \/ FreeRelease(c)
-----------------------------------------------------------------------------
BootStep ==
    \/ Push
    \/ InitDone
    \/ GetPageUnsafe
    \/ Publish

GetPage(c) ==
    \/ Acquire(c)
    \/ LoadHead(c)
    \/ Unlink(c)
    \/ Release(c)
    \/ ReleaseFail(c)

Use(c) ==
    \/ \E p \in Pages : ZeroRange(c, p)
    \/ \E p \in Pages, w \in Words : Store(c, p, w)

Next ==
    \/ BootStep
    \/ \E c \in Cores : GetPage(c) \/ Use(c)

(* The allocator as the repository uses it. *)
Spec == Init /\ [][Next]_vars

(* The allocator with its whole interface. *)
SpecWithFree == Init /\ [][Next \/ \E c \in Cores : FreeStep(c)]_vars
-----------------------------------------------------------------------------
(* Properties *)

TypeOK ==
    /\ freepages \in Pages \cup {TERMINAL_PAGE}
    /\ next \in [Pages -> Words]
    /\ counter \in 0..NumPages
    /\ phase \in {"init_pa_alloc", "kpgtbl_init", "ready"}
    /\ locked \in BOOLEAN
    /\ at \in [Cores -> Points]
    /\ page \in [Cores -> Words]
    /\ held \in [Cores -> SUBSET Pages]

(* The pages core c owns, the one get_page is about to return included. *)
Owned(c) == held[c] \cup (IF at[c] = "release" THEN {page[c]} ELSE {})

(* No page is given to two cores, nor twice to one: what get_page returns  *)
(* is in nobody's hands.                                                   *)
NoDoubleAlloc ==
    /\ \A c, k \in Cores : c # k => Owned(c) \cap Owned(k) = {}
    /\ \A c \in Cores : at[c] = "release" => page[c] \notin held[c]

(* "each page it is pointer to LOWER address": the list is intact, whatever *)
(* the owners of other pages write, and a page on it is in nobody's hands. *)
FreeListIntact ==
    \A p \in 1..freepages :
        /\ next[p] = p - 1
        /\ \A c \in Cores : p \notin Owned(c)

(* No page is lost: every page init_pa_alloc pushed is on the list or has  *)
(* an owner, at every moment.                                              *)
NoPageLost ==
    \A p \in 1..counter : p <= freepages \/ \E c \in Cores : p \in Owned(c)

(* The allocator implements the abstract pool.  A call is decided where it *)
(* unlinks the page or sees the end of the list.                           *)
Pool == INSTANCE PagePool WITH
    free <- 1..freepages,
    owned <- [c \in Cores |-> Owned(c)],
    answer <- [c \in Cores |-> CASE at[c] = "release" -> "page"
                                 [] at[c] = "release_fail" -> "refused"
                                 [] OTHER -> "none"]

(* Every behaviour of the allocator is one of the abstract pool: a page is *)
(* granted from the free ones and refused only when there is none.         *)
ImplementsPagePool == Pool!Spec
=============================================================================
