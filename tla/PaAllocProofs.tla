--------------------------- MODULE PaAllocProofs ---------------------------
(***************************************************************************)
(* Proofs about PaAlloc for every set of cores and every number of pages.  *)
(***************************************************************************)
EXTENDS PaAlloc, TLAPS

Inside == {"load", "unlink", "release", "release_fail"}

(* Before the flag is set the boot core works alone.                       *)
BootAlone ==
    /\ phase # "ready" => \A c \in Cores : at[c] = "idle"
    /\ phase = "init_pa_alloc" =>
         /\ freepages = counter
         /\ \A c \in Cores : held[c] = {}
    /\ freepages <= counter

(* get_page holds the lock, and no other call runs.                        *)
LockedInside ==
    /\ \A c \in Cores : at[c] \in Inside \cup {"idle"}
    /\ \A c \in Cores : at[c] \in Inside => locked
    /\ \A c, k \in Cores : at[c] \in Inside /\ at[k] \in Inside => c = k

(* What get_page has read of the list is still true when it is used.       *)
FreshHead ==
    \A c \in Cores :
        /\ at[c] = "unlink" => page[c] = freepages /\ freepages \in Pages
        /\ at[c] = "release" => page[c] \in Pages
        /\ at[c] = "release_fail" => freepages = TERMINAL_PAGE

(***************************************************************************)
(* The inductive invariant.  Which pages are on the list cannot be said by *)
(* following links: FreeListIntact says it by position instead, because    *)
(* pages are pushed in ascending order and only popped afterwards.         *)
(***************************************************************************)
IInv ==
    /\ TypeOK
    /\ BootAlone
    /\ LockedInside
    /\ FreshHead
    /\ NoDoubleAlloc
    /\ FreeListIntact
    /\ NoPageLost

USE PaConstants DEF Pages, Words, TERMINAL_PAGE, Null

(* The invariant holds at reset, whatever RAM contains.                    *)
LEMMA InitIInv == Init => IInv
  <1> SUFFICES ASSUME Init PROVE IInv
    OBVIOUS
  <1> USE DEF Init
  <1>0. TypeOK
    <2>1. page \in [Cores -> Words] /\ next \in [Pages -> Words]
      OBVIOUS
    <2>2. held \in [Cores -> SUBSET Pages]
      OBVIOUS
    <2>3. at \in [Cores -> Points]
      BY DEF Points
    <2>4. freepages \in Pages \cup {TERMINAL_PAGE} /\ counter \in 0..NumPages
      OBVIOUS
    <2>5. locked \in BOOLEAN /\ phase \in {"init_pa_alloc", "kpgtbl_init", "ready"}
      OBVIOUS
    <2> QED BY <2>1, <2>2, <2>3, <2>4, <2>5 DEF TypeOK
  <1>1. BootAlone /\ LockedInside /\ FreshHead
    BY DEF BootAlone, LockedInside, FreshHead, Inside
  <1>2. \A c \in Cores : Owned(c) = {}
    BY DEF Owned
  <1>3. NoDoubleAlloc /\ FreeListIntact /\ NoPageLost
    BY <1>2 DEF NoDoubleAlloc, FreeListIntact, NoPageLost
  <1> QED
    BY <1>0, <1>1, <1>3 DEF IInv

(* The inductive step, one action at a time.                               *)
LEMMA StepIInv == IInv /\ [Next]_vars => IInv'
  <1> SUFFICES ASSUME IInv, [Next]_vars PROVE IInv'
    OBVIOUS
  <1> USE DEF IInv, TypeOK, Points, Inside
  <1>1. CASE Push
    <2> USE <1>1 DEF Push
    <2>1. TypeOK' /\ BootAlone' /\ LockedInside' /\ FreshHead'
      BY DEF BootAlone, LockedInside, FreshHead
    <2>2. \A c \in Cores : Owned(c) = {} /\ Owned(c)' = {}
      BY DEF Owned, BootAlone
    <2>3. NoDoubleAlloc'
      BY DEF NoDoubleAlloc, Owned
    <2>4. freepages' = freepages + 1 /\ counter' = freepages'
      BY DEF BootAlone
    <2>5. \A p \in 1..freepages' : p = freepages + 1 \/ p \in 1..freepages
      BY <2>4
    <2>6. \A p \in 1..freepages' : next'[p] = p - 1
      BY <2>4, <2>5 DEF FreeListIntact, BootAlone
    <2>7. FreeListIntact' /\ NoPageLost'
      BY <2>2, <2>4, <2>6 DEF FreeListIntact, NoPageLost
    <2> QED BY <2>1, <2>3, <2>7
  <1>2. CASE InitDone
    BY <1>2 DEF InitDone, BootAlone, LockedInside, FreshHead, NoDoubleAlloc,
                FreeListIntact, NoPageLost, Owned
  <1>3. CASE GetPageUnsafe
    <2> USE <1>3 DEF GetPageUnsafe
    <2>1. next[freepages] = freepages - 1
      BY DEF FreeListIntact
    <2>2. TypeOK' /\ BootAlone' /\ LockedInside' /\ FreshHead'
      BY <2>1 DEF BootAlone, LockedInside, FreshHead
    <2>3. \A c \in Cores : at[c] = "idle" /\ Owned(c) = held[c] /\ Owned(c)' = held'[c]
      BY DEF Owned, BootAlone
    <2>4. \A c \in Cores : freepages \notin held[c]
      BY <2>3 DEF FreeListIntact
    <2>5. NoDoubleAlloc'
      BY <2>3, <2>4 DEF NoDoubleAlloc
    <2>6. /\ freepages \in Pages /\ freepages' = freepages - 1
          /\ next' = next /\ counter' = counter /\ counter \in Nat
          /\ held' = [held EXCEPT ![Boot] = @ \cup {freepages}]
          /\ held \in [Cores -> SUBSET Pages]
      BY <2>1 DEF TypeOK
    <2>7. FreeListIntact'
      <3> SUFFICES ASSUME NEW p \in 1..freepages'
                   PROVE  next'[p] = p - 1 /\ \A c \in Cores : p \notin Owned(c)'
        BY DEF FreeListIntact
      <3>1. p \in 1..freepages /\ p # freepages
        BY <2>6
      <3>2. next[p] = p - 1 /\ \A c \in Cores : p \notin held[c]
        BY <2>3, <3>1 DEF FreeListIntact
      <3>3. \A c \in Cores : p \notin held'[c]
        BY <2>6, <3>1, <3>2
      <3> QED BY <2>3, <2>6, <3>2, <3>3
    <2>8. NoPageLost'
      <3> SUFFICES ASSUME NEW p \in 1..counter', ~(p <= freepages')
                   PROVE  \E c \in Cores : p \in Owned(c)'
        BY DEF NoPageLost
      <3>1. CASE p = freepages
        BY <2>3, <2>6, <3>1
      <3>2. CASE p # freepages
        <4>1. ~(p <= freepages) /\ p \in 1..counter
          BY <2>6, <3>2
        <4>2. PICK c \in Cores : p \in held[c]
          BY <2>3, <4>1 DEF NoPageLost
        <4> QED BY <2>3, <2>6, <4>2
      <3> QED BY <3>1, <3>2
    <2> QED BY <2>2, <2>5, <2>7, <2>8
  <1>4. CASE Publish
    BY <1>4 DEF Publish, BootAlone, LockedInside, FreshHead, NoDoubleAlloc,
                FreeListIntact, NoPageLost, Owned
  <1>5. ASSUME NEW c \in Cores, Acquire(c) PROVE IInv'
    <2> USE <1>5 DEF Acquire, Goto
    <2>1. TypeOK' /\ BootAlone' /\ LockedInside' /\ FreshHead'
      BY DEF BootAlone, LockedInside, FreshHead
    <2>2. \A k \in Cores : Owned(k)' = Owned(k)
      BY DEF Owned
    <2>3. NoDoubleAlloc' /\ FreeListIntact' /\ NoPageLost'
      BY <2>2 DEF NoDoubleAlloc, FreeListIntact, NoPageLost
    <2> QED BY <2>1, <2>3
  <1>6. ASSUME NEW c \in Cores, LoadHead(c) PROVE IInv'
    <2> USE <1>6 DEF LoadHead, Goto
    <2>1. TypeOK' /\ BootAlone' /\ LockedInside' /\ FreshHead'
      BY DEF BootAlone, LockedInside, FreshHead
    <2>2. \A k \in Cores : Owned(k)' = Owned(k)
      BY DEF Owned
    <2>3. NoDoubleAlloc' /\ FreeListIntact' /\ NoPageLost'
      BY <2>2 DEF NoDoubleAlloc, FreeListIntact, NoPageLost
    <2> QED BY <2>1, <2>3
  <1>7. ASSUME NEW c \in Cores, Unlink(c) PROVE IInv'
    <2> USE <1>7 DEF Unlink, Goto
    <2>1. page[c] = freepages /\ freepages \in Pages /\ next[freepages] = freepages - 1
      BY DEF FreshHead, FreeListIntact
    <2>2. TypeOK' /\ BootAlone' /\ LockedInside' /\ FreshHead'
      BY <2>1 DEF BootAlone, LockedInside, FreshHead
    <2>3. Owned(c) = held[c] /\ Owned(c)' = held[c] \cup {freepages}
      BY <2>1 DEF Owned
    <2>4. \A k \in Cores : k # c => Owned(k)' = Owned(k)
      BY DEF Owned
    <2>5. \A k \in Cores : freepages \notin Owned(k)
      BY <2>1 DEF FreeListIntact
    <2>6. NoDoubleAlloc'
      BY <2>1, <2>3, <2>4, <2>5 DEF NoDoubleAlloc
    <2>7. FreeListIntact'
      BY <2>1, <2>3, <2>4 DEF FreeListIntact
    <2>8. \A p \in 1..counter : p <= freepages => p <= freepages' \/ p \in Owned(c)'
      BY <2>1, <2>3
    <2>9. \A p \in Pages : \A k \in Cores : p \in Owned(k) => p \in Owned(k)'
      BY <2>3, <2>4
    <2>10. NoPageLost'
      BY <2>8, <2>9 DEF NoPageLost
    <2> QED BY <2>2, <2>6, <2>7, <2>10
  <1>8. ASSUME NEW c \in Cores, Release(c) PROVE IInv'
    <2> USE <1>8 DEF Release, Goto
    <2>1. TypeOK' /\ BootAlone' /\ LockedInside' /\ FreshHead'
      BY DEF BootAlone, LockedInside, FreshHead
    <2>2. \A k \in Cores : Owned(k)' = Owned(k)
      BY DEF Owned
    <2>3. NoDoubleAlloc' /\ FreeListIntact' /\ NoPageLost'
      BY <2>2 DEF NoDoubleAlloc, FreeListIntact, NoPageLost
    <2> QED BY <2>1, <2>3
  <1>9. ASSUME NEW c \in Cores, ReleaseFail(c) PROVE IInv'
    <2> USE <1>9 DEF ReleaseFail, Goto
    <2>1. TypeOK' /\ BootAlone' /\ LockedInside' /\ FreshHead'
      BY DEF BootAlone, LockedInside, FreshHead
    <2>2. \A k \in Cores : Owned(k)' = Owned(k)
      BY DEF Owned
    <2>3. NoDoubleAlloc' /\ FreeListIntact' /\ NoPageLost'
      BY <2>2 DEF NoDoubleAlloc, FreeListIntact, NoPageLost
    <2> QED BY <2>1, <2>3
  <1>10. ASSUME NEW c \in Cores, NEW p \in Pages, NEW w \in Words,
                ZeroRange(c, p) \/ Store(c, p, w)
         PROVE  IInv'
    <2> USE <1>10 DEF ZeroRange, Store
    <2>1. TypeOK' /\ BootAlone' /\ LockedInside' /\ FreshHead'
      BY DEF BootAlone, LockedInside, FreshHead
    <2>2. \A k \in Cores : Owned(k)' = Owned(k)
      BY DEF Owned
    <2>3. p \in Owned(c)
      BY DEF Owned
    <2>4. NoDoubleAlloc' /\ FreeListIntact' /\ NoPageLost'
      BY <2>2, <2>3 DEF NoDoubleAlloc, FreeListIntact, NoPageLost
    <2> QED BY <2>1, <2>4
  <1>11. CASE UNCHANGED vars
    BY <1>11 DEF vars, BootAlone, LockedInside, FreshHead, NoDoubleAlloc,
                 FreeListIntact, NoPageLost, Owned
  <1> QED
    <2>1. ASSUME NEW c \in Cores, NEW p \in Pages, ZeroRange(c, p) PROVE IInv'
      BY <2>1, <1>10
    <2> QED
      BY <1>1, <1>2, <1>3, <1>4, <1>5, <1>6, <1>7, <1>8, <1>9, <1>10, <1>11, <2>1
         DEF Next, BootStep, GetPage, Use

(* The invariant holds in every behaviour of the allocator.                *)
LEMMA Invariance == Spec => []IInv
  BY InitIInv, StepIInv, PTL DEF Spec
-----------------------------------------------------------------------------
(* Type correctness of the allocator: in particular freepages is never a   *)
(* word that an owner wrote into its page.                                 *)
THEOREM TypeCorrect == Spec => []TypeOK
  <1>1. IInv => TypeOK
    BY DEF IInv
  <1> QED
    BY <1>1, Invariance, PTL

(* get_page and get_page_unsafe never give out a page twice.               *)
THEOREM AllocExclusive == Spec => []NoDoubleAlloc
  <1>1. IInv => NoDoubleAlloc
    BY DEF IInv
  <1> QED
    BY <1>1, Invariance, PTL

(* The links of the free pages survive every write of the page owners.     *)
THEOREM ListIntact == Spec => []FreeListIntact
  <1>1. IInv => FreeListIntact
    BY DEF IInv
  <1> QED
    BY <1>1, Invariance, PTL

(* No page that init_pa_alloc pushed disappears.                           *)
THEOREM Conservation == Spec => []NoPageLost
  <1>1. IInv => NoPageLost
    BY DEF IInv
  <1> QED
    BY <1>1, Invariance, PTL
-----------------------------------------------------------------------------
(* The abstract answer to the call core c is in.                           *)
Answer(c) == CASE at[c] = "release" -> "page"
               [] at[c] = "release_fail" -> "refused"
               [] OTHER -> "none"

(* The abstract state.                                                     *)
Abstract == <<1..freepages, [c \in Cores |-> Owned(c)], [c \in Cores |-> Answer(c)]>>

(* At reset the pool is empty.                                             *)
LEMMA InitRefines == Init => Pool!Init
  <1> SUFFICES ASSUME Init PROVE Pool!Init
    OBVIOUS
  <1>1. \A c \in Cores : Owned(c) = {} /\ Answer(c) = "none"
    BY DEF Init, Owned, Answer
  <1>2. 1..freepages = {}
    BY DEF Init
  <1> QED
    BY <1>1, <1>2 DEF Pool!Init, Answer

(* Every step supplies, grants or refuses, ends a call, or is invisible to *)
(* the abstract pool.                                                      *)
LEMMA StepRefines == IInv /\ [Next]_vars => Pool!Next \/ Abstract' = Abstract
  <1> SUFFICES ASSUME IInv, [Next]_vars PROVE Pool!Next \/ Abstract' = Abstract
    OBVIOUS
  <1> DEFINE O == [c \in Cores |-> Owned(c)]
             A == [c \in Cores |-> Answer(c)]
  <1> USE DEF IInv, TypeOK, Points, Inside
  <1>1. CASE Push
    <2> USE <1>1 DEF Push
    <2> DEFINE p == counter + 1
    <2>1. \A c \in Cores : Owned(c) = {} /\ Owned(c)' = {} /\ Answer(c)' = Answer(c)
      BY DEF Owned, BootAlone, Answer
    <2>2. p \in Pages /\ 1..freepages' = (1..freepages) \cup {p}
      BY DEF BootAlone
    <2>3. O' = O /\ A' = A
      BY <2>1
    <2>4. Pool!Supply(p)
      BY <2>1, <2>2, <2>3 DEF Pool!Supply, Answer
    <2> QED BY <2>2, <2>4 DEF Pool!Next
  <1>2. CASE InitDone
    BY <1>2 DEF InitDone, Abstract, Owned, Answer
  <1>3. CASE GetPageUnsafe
    <2> USE <1>3 DEF GetPageUnsafe
    <2>1. next[freepages] = freepages - 1 /\ freepages \in Pages
      BY DEF FreeListIntact
    <2>2. \A c \in Cores : /\ at[c] = "idle"
                          /\ Owned(c) = held[c] /\ Owned(c)' = held'[c]
                          /\ Answer(c) = "none" /\ Answer(c)' = "none"
      BY DEF Owned, BootAlone, Answer
    <2>3. freepages \in 1..freepages /\ 1..freepages' = (1..freepages) \ {freepages}
      BY <2>1
    <2>4. O' = [O EXCEPT ![Boot] = @ \cup {freepages}]
      BY <2>2
    <2>5. A' = [A EXCEPT ![Boot] = "none"]
      BY <2>2
    <2>6. PICK q \in Pages : q = freepages
      BY <2>1
    <2>7. Pool!Grant(Boot, q, "none")
      BY ONLY <2>2, <2>3, <2>4, <2>5, <2>6, PaConstants DEF Pool!Grant, Answer
    <2> QED BY <2>7 DEF Pool!Next
  <1>4. CASE Publish
    BY <1>4 DEF Publish, Abstract, Owned, Answer
  <1>5. ASSUME NEW c \in Cores, Acquire(c) PROVE Abstract' = Abstract
    BY <1>5 DEF Acquire, Goto, Abstract, Owned, Answer
  <1>6. ASSUME NEW c \in Cores, LoadHead(c) PROVE Pool!Next \/ Abstract' = Abstract
    <2> USE <1>6 DEF LoadHead, Goto
    <2>1. O' = O
      BY DEF Owned
    <2>2. CASE freepages = TERMINAL_PAGE
      <3>1. Answer(c) = "none" /\ Answer(c)' = "refused"
        BY <2>2 DEF Answer
      <3>2. \A k \in Cores : k # c => Answer(k)' = Answer(k)
        BY DEF Answer
      <3>3. A' = [A EXCEPT ![c] = "refused"] /\ A[c] = "none"
        BY <3>1, <3>2
      <3>4. 1..freepages = {} /\ freepages' = freepages
        BY <2>2
      <3>5. Pool!Refuse(c)
        BY ONLY <2>1, <3>3, <3>4 DEF Pool!Refuse, Answer
      <3> QED BY <3>5 DEF Pool!Next
    <2>3. CASE freepages # TERMINAL_PAGE
      <3>1. \A k \in Cores : Answer(k)' = Answer(k)
        BY <2>3 DEF Answer
      <3> QED BY <2>1, <3>1 DEF Abstract
    <2> QED BY <2>2, <2>3
  <1>7. ASSUME NEW c \in Cores, Unlink(c) PROVE Pool!Next
    <2> USE <1>7 DEF Unlink, Goto
    <2>1. page[c] = freepages /\ freepages \in Pages /\ next[freepages] = freepages - 1
      BY DEF FreshHead, FreeListIntact
    <2>2. freepages \in 1..freepages /\ 1..freepages' = (1..freepages) \ {freepages}
      BY <2>1
    <2>3. /\ Owned(c)' = Owned(c) \cup {freepages}
          /\ \A k \in Cores : k # c => Owned(k)' = Owned(k)
      BY <2>1 DEF Owned
    <2>4. O' = [O EXCEPT ![c] = @ \cup {freepages}]
      BY <2>3
    <2>5. /\ Answer(c) = "none" /\ Answer(c)' = "page"
          /\ \A k \in Cores : k # c => Answer(k)' = Answer(k)
      BY DEF Answer
    <2>6. A' = [A EXCEPT ![c] = "page"] /\ A[c] = "none"
      BY <2>5
    <2>7. PICK q \in Pages : q = freepages
      BY <2>1
    <2>8. Pool!Grant(c, q, "page")
      BY ONLY <2>2, <2>4, <2>6, <2>7 DEF Pool!Grant, Answer
    <2> QED BY <2>8 DEF Pool!Next
  <1>8. ASSUME NEW c \in Cores, Release(c) \/ ReleaseFail(c) PROVE Pool!Next
    <2> USE <1>8 DEF Release, ReleaseFail, Goto
    <2>1. O' = O
      BY DEF Owned
    <2>2. /\ Answer(c) # "none" /\ Answer(c)' = "none"
          /\ \A k \in Cores : k # c => Answer(k)' = Answer(k)
      BY DEF Answer
    <2>3. A' = [A EXCEPT ![c] = "none"] /\ A[c] # "none"
      BY <2>2
    <2>4. Pool!Return(c)
      BY <2>1, <2>3 DEF Pool!Return, Answer
    <2> QED BY <2>4 DEF Pool!Next
  <1>9. ASSUME NEW c \in Cores, NEW p \in Pages, ZeroRange(c, p)
        PROVE Abstract' = Abstract
    BY <1>9 DEF ZeroRange, Abstract, Owned, Answer
  <1>10. ASSUME NEW c \in Cores, NEW p \in Pages, NEW w \in Words, Store(c, p, w)
         PROVE Abstract' = Abstract
    BY <1>10 DEF Store, Abstract, Owned, Answer
  <1>11. CASE UNCHANGED vars
    BY <1>11 DEF vars, Abstract, Owned, Answer
  <1> QED
    BY <1>1, <1>2, <1>3, <1>4, <1>5, <1>6, <1>7, <1>8, <1>9, <1>10, <1>11
       DEF Next, BootStep, GetPage, Use

(* The allocator implements the abstract pool of pages: get_page grants a  *)
(* page that is free and returns 0 only when there is none.                *)
THEOREM Refinement == Spec => ImplementsPagePool
  <1>1. IInv /\ [Next]_vars =>
          [Pool!Next]_<<1..freepages, [c \in Cores |-> Owned(c)],
                        [c \in Cores |-> CASE at[c] = "release" -> "page"
                                            [] at[c] = "release_fail" -> "refused"
                                            [] OTHER -> "none"]>>
    BY StepRefines DEF Abstract, Answer
  <1> QED
    BY <1>1, InitRefines, Invariance, PTL DEF Spec, ImplementsPagePool, Pool!Spec
=============================================================================
