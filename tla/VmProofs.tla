------------------------------ MODULE VmProofs ------------------------------
(***************************************************************************)
(* Proofs about Vm for every pool of pages, every layout of the ranges,    *)
(* tables of every size and depth, and any number of cores.                *)
(***************************************************************************)
EXTENDS Vm, FiniteSetTheorems, SequenceTheorems, WellFoundedInduction, TLAPS

Jobs == [root : 0..KPGTBL, tf : 0..NumPages, stack : 0..NumPages, req : Nat \ {0},
         level : 1..Levels, table : 0..KPGTBL]

(* Pages that have left the list. *)
Used == (freepages + 1)..NumPages

Types ==
    /\ freepages \in 0..NumPages
    /\ DOMAIN mem = 0..KPGTBL /\ \A p \in 0..KPGTBL : DOMAIN mem[p] = Fan
    /\ kernel \in {"running", "ok", "failed"}
    /\ at \in [Cores -> {"idle", "tf", "stack", "walk"}]
    /\ job \in [Cores -> Jobs]

(* Core Primary builds the kernel table alone, and nobody builds it after. *)
KernelTurn ==
    /\ kernel = "running" =>
          /\ at[Primary] = "walk" /\ job[Primary].root = KPGTBL
          /\ \A c \in Cores \ {Primary} : at[c] = "idle"
    /\ kernel # "running" => \A c \in Cores : job[c].root # KPGTBL

(* The local variables of user_task_create and of walk. *)
JobMeans ==
    \A c \in Cores :
        /\ at[c] = "idle" => job[c] = NoJob
        /\ at[c] \in {"tf", "stack"} => job[c].level = 1 /\ job[c].req = 1
        /\ at[c] = "walk" => job[c].req \in 1..Len(Maps(c))
        /\ job[c].root \in {Null, KPGTBL} \cup Used
        /\ job[c].tf \in {Null} \cup Used /\ job[c].stack \in {Null} \cup Used

RootsDiffer ==
    \A c, d \in Cores : c # d /\ job[c].root # Null => job[c].root # job[d].root

(* A core whose get_page failed: whatever it got before, its table is      *)
(* empty, no page is left, and it stays at the first level.                *)
Missing(c) ==
    /\ job[c].root # KPGTBL
    /\ \/ at[c] \in {"tf", "stack", "walk"} /\ job[c].root = Null
       \/ at[c] \in {"stack", "walk"} /\ job[c].tf = Null
       \/ at[c] = "walk" /\ job[c].stack = Null

Empty(p) == \A i \in Fan : mem[p][i] = Invalid

ShortOfPages ==
    \A c \in Cores :
        /\ at[c] \in {"tf", "stack"} => job[c].root # KPGTBL /\ Empty(job[c].root)
        /\ Missing(c) => freepages = Null
        /\ Missing(c) /\ at[c] = "walk" =>
              /\ job[c].level = 1 /\ job[c].table = job[c].root
              /\ Empty(job[c].root)

(* lv tells the level of every page that serves as a table, 0 for a page   *)
(* that does not, and owner the root it is reached from.                   *)
Entries(lv, owner) ==
    /\ lv \in [0..KPGTBL -> 0..Levels] /\ owner \in [0..KPGTBL -> 0..KPGTBL]
    /\ \A p \in 0..freepages : lv[p] = 0
    /\ lv[KPGTBL] = 1 /\ owner[KPGTBL] = KPGTBL
    /\ \A p \in 0..KPGTBL : \A i \in Fan :
          /\ mem[p][i].kind \in {"invalid", "table", "page"}
          /\ lv[p] = 0 \/ mem[p][i].kind # "table" => mem[p][i].to = Null
          /\ lv[p] > 0 /\ mem[p][i].kind = "table" =>
                /\ lv[p] < Levels
                /\ mem[p][i].to \in Pages
                /\ lv[mem[p][i].to] = lv[p] + 1
                /\ owner[mem[p][i].to] = owner[p]
          /\ lv[p] > 0 /\ mem[p][i].kind = "page" => lv[p] = Levels

Walks(lv, owner) ==
    /\ \A c \in Cores :
          /\ at[c] # "idle" /\ job[c].root # Null =>
                lv[job[c].root] = 1 /\ owner[job[c].root] = job[c].root
          /\ at[c] = "walk" /\ job[c].root # Null =>
                lv[job[c].table] = job[c].level /\ owner[job[c].table] = job[c].root
          /\ lv[job[c].tf] = 0 /\ lv[job[c].stack] = 0
    /\ \A t \in made : /\ t.root \in Used /\ t.tf \in Used /\ t.stack \in Used
                       /\ lv[t.root] = 1 /\ lv[t.tf] = 0 /\ lv[t.stack] = 0

(* pre tells with which indices a table is reached from its root: a table  *)
(* of level l by the first l - 1 of them.                                  *)
Alike(f, g, n) == \A k \in 1..n : f[k] = g[k]

Paths(lv, owner, pre) ==
    /\ pre \in [0..KPGTBL -> VAs]
    /\ \A p \in 0..KPGTBL :
          /\ lv[p] = 1 => owner[p] = p
          /\ lv[p] > 0 => lv[owner[p]] = 1
          /\ lv[p] > 1 => \E q \in 0..KPGTBL, i \in Fan :
                lv[q] = lv[p] - 1 /\ mem[q][i].kind = "table" /\ mem[q][i].to = p
          /\ \A i \in Fan : lv[p] > 0 /\ mem[p][i].kind = "table" =>
                pre[mem[p][i].to][lv[p]] = i /\ Alike(pre[mem[p][i].to], pre[p], lv[p] - 1)
    /\ \A p, q \in 0..KPGTBL :
          lv[p] > 0 /\ lv[p] = lv[q] /\ owner[p] = owner[q] /\ Alike(pre[p], pre[q], lv[p] - 1)
             => p = q

(* There are tables for va below root down to level n. *)
Chain(lv, owner, pre, root, va, n) ==
    \A l \in 1..n : \E p \in 0..KPGTBL :
        lv[p] = l /\ owner[p] = root /\ Alike(pre[p], va, l - 1)

(* What the first n calls of mapva leave for va. *)
Latest(maps, n, va, entry) ==
    \/ entry = Invalid /\ \A k \in 1..n : maps[k].va # va
    \/ \E k \in 1..n : /\ maps[k].va = va
                       /\ \A j \in (k + 1)..n : maps[j].va # va
                       /\ entry = Leaf(maps[k].pa, maps[k].type)

(* The tables below root in memory m hold what the first n calls leave,    *)
(* and no more.                                                            *)
Reflects(m, lv, owner, pre, root, maps, n) ==
    /\ \A p \in 0..KPGTBL, i \in Fan :
          lv[p] = Levels /\ owner[p] = root =>
              Latest(maps, n, [pre[p] EXCEPT ![Levels] = i], m[p][i])
    /\ \A k \in 1..n : Chain(lv, owner, pre, root, maps[k].va, Levels)

(* No table of root is below level n. *)
NothingBelow(lv, owner, root, n) ==
    \A p \in 0..KPGTBL : lv[p] > n => owner[p] # root

(* The calls of mapva before the current one have left what they should.   *)
(* A call whose result is ignored may have failed; then there is no table  *)
(* of the last level and no page for one, and no later call succeeds.      *)
Built(lv, owner, pre, c) ==
    /\ Alike(pre[job[c].table], Current(c).va, job[c].level - 1)
    /\ Chain(lv, owner, pre, job[c].root, Current(c).va, job[c].level)
    /\ job[c].req = 1 => NothingBelow(lv, owner, job[c].root, job[c].level)
    /\ \/ /\ freepages = Null /\ job[c].root # KPGTBL
          /\ NothingBelow(lv, owner, job[c].root, Levels - 1)
       \/ Reflects(mem, lv, owner, pre, job[c].root, Maps(c), job[c].req - 1)

JobContents(lv, owner, pre, c) ==
    job[c].root # Null =>
        /\ at[c] \in {"tf", "stack"} => NothingBelow(lv, owner, job[c].root, 1)
        /\ at[c] = "walk" => Built(lv, owner, pre, c)

TaskContents(lv, owner, pre, t) ==
    Reflects(mem, lv, owner, pre, t.root, UserMaps(t.tf, t.stack), Len(UserMaps(t.tf, t.stack)))

KernelContents(lv, owner, pre) ==
    Reflects(mem, lv, owner, pre, KPGTBL, KernelMaps, Len(KernelMaps))

Contents(lv, owner, pre) ==
    /\ \A c \in Cores : JobContents(lv, owner, pre, c)
    /\ \A c \in Cores : \A t \in made : job[c].root # t.root
    /\ \A t \in made : TaskContents(lv, owner, pre, t)
    /\ kernel = "ok" => KernelContents(lv, owner, pre)

Full(lv, owner, pre) ==
    /\ Entries(lv, owner)
    /\ Walks(lv, owner)
    /\ Paths(lv, owner, pre)
    /\ Contents(lv, owner, pre)

Shape == \E lv, owner, pre : Full(lv, owner, pre)

(* A table is linked once. *)
OneParent ==
    \A p, q \in 0..KPGTBL : \A i, j \in Fan :
        mem[p][i].to # Null /\ mem[p][i].to = mem[q][j].to => p = q /\ i = j

IInv ==
    /\ Types
    /\ KernelTurn
    /\ JobMeans
    /\ RootsDiffer
    /\ ShortOfPages
    /\ Shape
    /\ OneParent
-----------------------------------------------------------------------------
LEMMA Sizes ==
    /\ NumPages \in Nat /\ Levels \in Nat /\ Levels > 1
    /\ Null = 0 /\ KPGTBL = NumPages + 1 /\ Pages = 1..NumPages
  BY VmConstants DEF Null, KPGTBL, Pages

LEMMA PageRanges ==
    /\ 0..NumPages \subseteq 0..KPGTBL /\ KPGTBL \in 0..KPGTBL /\ KPGTBL \notin 0..NumPages
    /\ Null \in 0..NumPages /\ Pages \subseteq 0..KPGTBL
  BY Sizes

LEMMA Descriptors ==
    /\ Invalid.kind = "invalid" /\ Invalid.to = Null
    /\ \A p : Table(p).kind = "table" /\ Table(p).to = p
    /\ \A pa, type : Leaf(pa, type).kind = "page" /\ Leaf(pa, type).to = Null
  BY DEF Invalid, Table, Leaf

LEMMA NoJobValues ==
    /\ NoJob \in Jobs
    /\ NoJob.root = Null /\ NoJob.tf = Null /\ NoJob.stack = Null
    /\ NoJob.req = 1 /\ NoJob.level = 1 /\ NoJob.table = Null
  BY Sizes DEF NoJob, Jobs

(* The calls of mapva, whatever the layout. *)
Requests == [va : VAs,
             pa : ({"same"} \X VAs) \cup ({"kstack1", "cpus", "main", "pool"} \X Nat),
             type : {"normal", "inner_shareable", "device"},
             checked : BOOLEAN]

LEMMA IdentityRequests ==
    ASSUME NEW range \in Seq(VAs), NEW type \in {"normal", "inner_shareable", "device"}
    PROVE  Identity(range, type) \in Seq(Requests) /\ Len(Identity(range, type)) = Len(range)
  <1>1. \A i \in 1..Len(range) : Map(range[i], <<"same", range[i]>>, type, TRUE) \in Requests
    BY DEF Map, Requests
  <1>2. Len(range) \in Nat /\ DOMAIN range = 1..Len(range)
    OBVIOUS
  <1>3. Identity(range, type) \in [1..Len(range) -> Requests]
    BY <1>1, <1>2 DEF Identity
  <1>4. Identity(range, type) \in Seq(Requests)
    BY <1>2, <1>3, SeqDef
  <1> QED
    BY <1>2, <1>3, <1>4, LenProperties

LEMMA IndexedRequests ==
    ASSUME NEW range \in Seq(VAs), NEW name \in {"kstack1", "cpus", "main"}
    PROVE  Indexed(range, name) \in Seq(Requests)
  <1>1. \A i \in 1..Len(range) : Map(range[i], <<name, i>>, "normal", TRUE) \in Requests
    BY DEF Map, Requests
  <1>2. Len(range) \in Nat /\ DOMAIN range = 1..Len(range)
    OBVIOUS
  <1>3. Indexed(range, name) \in [1..Len(range) -> Requests]
    BY <1>1, <1>2 DEF Indexed
  <1> QED
    BY <1>2, <1>3, SeqDef

LEMMA KernelRequests == KernelMaps \in Seq(Requests) /\ Len(KernelMaps) >= 1
  <1>1. {TMP, KERN, SHARED, DEVICES, KSTACK, MY_CPU} \subseteq Seq(VAs) /\ Len(KERN) >= 1
    BY VmConstants
  <1>2. /\ Identity(TMP, "normal") \in Seq(Requests)
        /\ Identity(KERN, "normal") \in Seq(Requests) /\ Len(Identity(KERN, "normal")) >= 1
        /\ Identity(SHARED, "inner_shareable") \in Seq(Requests)
        /\ Identity(DEVICES, "device") \in Seq(Requests)
        /\ Indexed(KSTACK, "kstack1") \in Seq(Requests)
        /\ Indexed(MY_CPU, "cpus") \in Seq(Requests)
    BY <1>1, IdentityRequests, IndexedRequests
  <1> QED
    BY <1>2 DEF KernelMaps

LEMMA UserRequests ==
    ASSUME NEW tf \in 0..NumPages, NEW stack \in 0..NumPages
    PROVE  UserMaps(tf, stack) \in Seq(Requests) /\ Len(UserMaps(tf, stack)) >= 1
  <1> DEFINE two == << Map(TRAPFRAME, <<"pool", tf>>, "normal", FALSE),
                       Map(STACK, <<"pool", stack>>, "normal", FALSE) >>
  <1>1. two \in Seq(Requests) /\ Len(two) = 2
    BY VmConstants DEF Map, Requests
  <1>2. Identity(TRAMPOLINE, "normal") \in Seq(Requests) /\ Indexed(USER, "main") \in Seq(Requests)
    BY VmConstants, IdentityRequests, IndexedRequests
  <1>3. UserMaps(tf, stack) = two \o Identity(TRAMPOLINE, "normal") \o Indexed(USER, "main")
    BY DEF UserMaps
  <1> HIDE DEF two
  <1>4. /\ two \o Identity(TRAMPOLINE, "normal") \in Seq(Requests)
        /\ Len(two \o Identity(TRAMPOLINE, "normal"))
             = Len(two) + Len(Identity(TRAMPOLINE, "normal"))
    BY <1>1, <1>2, ConcatProperties
  <1>5. Len(Identity(TRAMPOLINE, "normal")) \in Nat /\ Len(Indexed(USER, "main")) \in Nat
    BY <1>2
  <1>6. Len(two \o Identity(TRAMPOLINE, "normal")) >= 2
    BY <1>1, <1>4, <1>5
  <1> QED
    BY <1>2, <1>3, <1>4, <1>5, <1>6

LEMMA MapsRequests ==
    ASSUME Types, NEW c \in Cores
    PROVE  Maps(c) \in Seq(Requests) /\ Len(Maps(c)) >= 1
  <1>1. job[c].tf \in 0..NumPages /\ job[c].stack \in 0..NumPages
    BY DEF Types, Jobs
  <1> QED
    BY <1>1, KernelRequests, UserRequests DEF Maps

(* walk always looks at an entry of the table. *)
LEMMA IndexInTable ==
    ASSUME Types, JobMeans, NEW c \in Cores, at[c] = "walk"
    PROVE  Index(c) \in Fan
  <1>1. Current(c) \in Requests
    BY MapsRequests DEF JobMeans, Current
  <1>2. Current(c).va \in [1..Levels -> Fan] /\ job[c].level \in 1..Levels
    BY <1>1 DEF Requests, VAs, Types, Jobs
  <1> QED
    BY <1>2 DEF Index
-----------------------------------------------------------------------------
(* A table is known by its path, and the path of a table continues the one *)
(* of the table that links it.                                             *)
LEMMA SamePath ==
    ASSUME NEW lv, NEW owner, NEW pre, Paths(lv, owner, pre),
           NEW p \in 0..KPGTBL, NEW q \in 0..KPGTBL, lv[p] > 0, lv[p] = lv[q],
           owner[p] = owner[q], Alike(pre[p], pre[q], lv[p] - 1)
    PROVE  p = q
  BY DEF Paths

LEMMA LinkPath ==
    ASSUME NEW lv, NEW owner, NEW pre, Paths(lv, owner, pre),
           NEW p \in 0..KPGTBL, NEW i \in Fan, lv[p] > 0, mem[p][i].kind = "table"
    PROVE  pre[mem[p][i].to][lv[p]] = i /\ Alike(pre[mem[p][i].to], pre[p], lv[p] - 1)
  BY DEF Paths

(* The table below p for va is the one that p's entry for va links.        *)
LEMMA Linked ==
    ASSUME NEW lv, NEW owner, NEW pre, Entries(lv, owner), Paths(lv, owner, pre),
           NEW va \in VAs, NEW p \in 0..KPGTBL, NEW q \in 0..KPGTBL,
           lv[p] > 0, lv[q] = lv[p] + 1, owner[q] = owner[p],
           Alike(pre[p], va, lv[p] - 1), Alike(pre[q], va, lv[p])
    PROVE  mem[p][va[lv[p]]].kind = "table" /\ mem[p][va[lv[p]]].to = q
  <1>1. lv[p] \in Nat /\ lv[q] \in Nat /\ lv[q] > 1 /\ lv[q] - 1 = lv[p]
    BY DEF Entries
  <1>2. PICK r \in 0..KPGTBL, i \in Fan :
           lv[r] = lv[p] /\ mem[r][i].kind = "table" /\ mem[r][i].to = q
    BY <1>1 DEF Paths
  <1>3. owner[r] = owner[p]
    BY <1>1, <1>2 DEF Entries
  <1>4. pre[q][lv[p]] = i /\ Alike(pre[q], pre[r], lv[p] - 1)
    <2>1. lv[r] > 0
      BY <1>2
    <2>2. pre[mem[r][i].to][lv[r]] = i /\ Alike(pre[mem[r][i].to], pre[r], lv[r] - 1)
      BY <1>2, <2>1, LinkPath
    <2> QED
      BY <1>2, <2>2
  <1>5. Alike(pre[r], pre[p], lv[p] - 1)
    BY <1>1, <1>4 DEF Alike
  <1>6. r = p
    BY <1>2, <1>3, <1>5, SamePath
  <1>7. va[lv[p]] = i
    BY <1>1, <1>4 DEF Alike
  <1> QED
    BY <1>2, <1>6, <1>7

(* What a step changes in the tables: pages that were tables stay what     *)
(* they were, and only the address space of the core that acts gets new    *)
(* tables or new leaves.                                                   *)
Kept(lv, owner, pre, lv2, owner2, pre2) ==
    \A p \in 0..KPGTBL :
        lv[p] > 0 => lv2[p] = lv[p] /\ owner2[p] = owner[p] /\ pre2[p] = pre[p]

Apart(lv, owner, lv2, owner2, root) ==
    \A p \in 0..KPGTBL :
        lv2[p] > 1 /\ owner2[p] = root =>
            /\ lv[p] = lv2[p] /\ owner[p] = root
            /\ lv2[p] = Levels => mem'[p] = mem[p]

LEMMA ChainKept ==
    ASSUME NEW lv, NEW owner, NEW pre, NEW lv2, NEW owner2, NEW pre2,
           Kept(lv, owner, pre, lv2, owner2, pre2),
           NEW root, NEW va, NEW n \in Nat, Chain(lv, owner, pre, root, va, n)
    PROVE  Chain(lv2, owner2, pre2, root, va, n)
  <1> SUFFICES ASSUME NEW l \in 1..n
               PROVE  \E p \in 0..KPGTBL :
                          lv2[p] = l /\ owner2[p] = root /\ Alike(pre2[p], va, l - 1)
    BY DEF Chain
  <1>1. PICK p \in 0..KPGTBL : lv[p] = l /\ owner[p] = root /\ Alike(pre[p], va, l - 1)
    BY DEF Chain
  <1>2. lv[p] > 0
    BY <1>1
  <1> QED
    BY <1>1, <1>2 DEF Kept

LEMMA ReflectsKept ==
    ASSUME NEW lv, NEW owner, NEW pre, NEW lv2, NEW owner2, NEW pre2,
           Kept(lv, owner, pre, lv2, owner2, pre2),
           NEW root, Apart(lv, owner, lv2, owner2, root),
           NEW maps, NEW n, Reflects(mem, lv, owner, pre, root, maps, n)
    PROVE  Reflects(mem', lv2, owner2, pre2, root, maps, n)
  <1>1. ASSUME NEW p \in 0..KPGTBL, NEW i \in Fan, lv2[p] = Levels, owner2[p] = root
        PROVE  Latest(maps, n, [pre2[p] EXCEPT ![Levels] = i], mem'[p][i])
    <2>1. lv[p] = Levels /\ owner[p] = root /\ mem'[p] = mem[p]
      BY <1>1, Sizes DEF Apart
    <2>2. pre2[p] = pre[p]
      BY <2>1, Sizes DEF Kept
    <2> QED
      BY <2>1, <2>2 DEF Reflects
  <1>2. \A k \in 1..n : Chain(lv2, owner2, pre2, root, maps[k].va, Levels)
    BY ChainKept, Sizes DEF Reflects
  <1> QED
    BY <1>1, <1>2 DEF Reflects

LEMMA NothingBelowKept ==
    ASSUME NEW lv, NEW owner, NEW pre, NEW lv2, NEW owner2, NEW pre2,
           NEW root, Apart(lv, owner, lv2, owner2, root),
           NEW n \in Nat \ {0}, NothingBelow(lv, owner, root, n),
           lv2 \in [0..KPGTBL -> 0..Levels]
    PROVE  NothingBelow(lv2, owner2, root, n)
  <1> SUFFICES ASSUME NEW p \in 0..KPGTBL, lv2[p] > n, owner2[p] = root PROVE FALSE
    BY DEF NothingBelow
  <1>1. lv2[p] > 1
    BY Sizes
  <1> QED
    BY <1>1 DEF Apart, NothingBelow

(* A step of core c leaves the other address spaces as they are. *)
LEMMA OthersKept ==
    ASSUME IInv, NEW c \in Cores,
           NEW lv, NEW owner, NEW pre, NEW lv2, NEW owner2, NEW pre2,
           Full(lv, owner, pre), lv2 \in [0..KPGTBL -> 0..Levels],
           Kept(lv, owner, pre, lv2, owner2, pre2),
           \A root \in 0..KPGTBL : root # job[c].root => Apart(lv, owner, lv2, owner2, root),
           \A d \in Cores \ {c} : at'[d] = at[d] /\ job'[d] = job[d],
           freepages = Null => freepages' = Null
    PROVE  /\ \A d \in Cores \ {c} : JobContents(lv2, owner2, pre2, d)'
           /\ \A t \in made : TaskContents(lv2, owner2, pre2, t)'
           /\ kernel = "ok" => KernelContents(lv2, owner2, pre2)'
  <1>1. ASSUME NEW d \in Cores \ {c}
        PROVE  JobContents(lv2, owner2, pre2, d)'
    <2> SUFFICES ASSUME job[d].root # Null
                 PROVE  /\ at[d] \in {"tf", "stack"} => NothingBelow(lv2, owner2, job[d].root, 1)
                        /\ at[d] = "walk" => Built(lv2, owner2, pre2, d)'
      BY <1>1 DEF JobContents
    <2>1. /\ job'[d] = job[d] /\ job[d].root \in 0..KPGTBL
          /\ job[d].level \in 1..Levels /\ job[d].table \in 0..KPGTBL
          /\ Apart(lv, owner, lv2, owner2, job[d].root)
          /\ JobContents(lv, owner, pre, d)
      <3>1. job[d] \in Jobs
        BY DEF IInv, Types
      <3>2. job[d].root # job[c].root
        BY DEF IInv, RootsDiffer
      <3> QED
        BY <3>1, <3>2 DEF Jobs, Full, Contents
    <2>2. ASSUME at[d] \in {"tf", "stack"} PROVE NothingBelow(lv2, owner2, job[d].root, 1)
      BY <2>1, <2>2, NothingBelowKept DEF JobContents
    <2>3. ASSUME at[d] = "walk" PROVE Built(lv2, owner2, pre2, d)'
      <3>1. Built(lv, owner, pre, d)
        BY <2>1, <2>3 DEF JobContents
      <3>2. Maps(d)' = Maps(d) /\ Current(d)' = Current(d)
        BY <2>1 DEF Maps, InKernel, Current
      <3>3. Alike(pre2[job[d].table], Current(d).va, job[d].level - 1)
        <4>1. lv[job[d].table] > 0
          BY <2>1, <2>3 DEF Full, Walks
        <4>2. pre2[job[d].table] = pre[job[d].table]
          BY <2>1, <4>1 DEF Kept
        <4> QED
          BY <3>1, <4>2 DEF Built
      <3>4. Chain(lv2, owner2, pre2, job[d].root, Current(d).va, job[d].level)
        BY <2>1, <3>1, ChainKept DEF Built
      <3>5. job[d].req = 1 => NothingBelow(lv2, owner2, job[d].root, job[d].level)
        BY <2>1, <3>1, NothingBelowKept DEF Built
      <3>6. \/ /\ freepages' = Null /\ job[d].root # KPGTBL
               /\ NothingBelow(lv2, owner2, job[d].root, Levels - 1)
            \/ Reflects(mem', lv2, owner2, pre2, job[d].root, Maps(d), job[d].req - 1)
        <4>1. CASE Reflects(mem, lv, owner, pre, job[d].root, Maps(d), job[d].req - 1)
          BY <2>1, <4>1, ReflectsKept
        <4>2. CASE /\ freepages = Null /\ job[d].root # KPGTBL
                   /\ NothingBelow(lv, owner, job[d].root, Levels - 1)
          <5>1. Levels - 1 \in Nat \ {0}
            BY Sizes
          <5> QED
            BY <2>1, <4>2, <5>1, NothingBelowKept
        <4> QED
          BY <3>1, <4>1, <4>2 DEF Built
      <3> QED
        BY <2>1, <3>2, <3>3, <3>4, <3>5, <3>6 DEF Built
    <2> QED
      BY <2>2, <2>3
  <1>2. ASSUME NEW t \in made PROVE TaskContents(lv2, owner2, pre2, t)'
    <2>1. t.root \in 0..KPGTBL /\ t.root # job[c].root
      BY PageRanges, Sizes DEF Full, Walks, Contents, Used, IInv, Types
    <2>2. Apart(lv, owner, lv2, owner2, t.root) /\ TaskContents(lv, owner, pre, t)
      BY <2>1 DEF Full, Contents
    <2> QED
      BY <2>2, ReflectsKept DEF TaskContents
  <1>3. ASSUME kernel = "ok" PROVE KernelContents(lv2, owner2, pre2)'
    <2>1. KPGTBL \in 0..KPGTBL /\ KPGTBL # job[c].root
      BY <1>3, PageRanges DEF IInv, KernelTurn
    <2>2. Apart(lv, owner, lv2, owner2, KPGTBL) /\ KernelContents(lv, owner, pre)
      BY <1>3, <2>1 DEF Full, Contents
    <2> QED
      BY <2>2, ReflectsKept DEF KernelContents
  <1> QED
    BY <1>1, <1>2, <1>3

LEMMA PathsKept ==
    ASSUME NEW lv, NEW owner, NEW pre, Entries(lv, owner), Paths(lv, owner, pre),
           \A p \in 0..KPGTBL, i \in Fan :
               lv[p] > 0 /\ (mem[p][i].kind = "table" \/ mem'[p][i].kind = "table") =>
                   mem'[p][i] = mem[p][i]
    PROVE  Paths(lv, owner, pre)'
  <1>0. \A p \in 0..KPGTBL : lv[p] \in Nat
    BY DEF Entries
  <1>1. ASSUME NEW p \in 0..KPGTBL, lv[p] > 1
        PROVE  \E q \in 0..KPGTBL, i \in Fan :
                   lv[q] = lv[p] - 1 /\ mem'[q][i].kind = "table" /\ mem'[q][i].to = p
    <2>1. PICK q \in 0..KPGTBL, i \in Fan :
             lv[q] = lv[p] - 1 /\ mem[q][i].kind = "table" /\ mem[q][i].to = p
      BY <1>1 DEF Paths
    <2>2. lv[q] > 0
      BY <1>0, <1>1, <2>1
    <2> QED
      BY <2>1, <2>2
  <1>2. ASSUME NEW p \in 0..KPGTBL, NEW i \in Fan, lv[p] > 0, mem'[p][i].kind = "table"
        PROVE  /\ pre[mem'[p][i].to][lv[p]] = i
               /\ Alike(pre[mem'[p][i].to], pre[p], lv[p] - 1)
    BY <1>2 DEF Paths
  <1> QED
    BY <1>1, <1>2 DEF Paths

LEMMA SameLabels ==
    ASSUME NEW lv, NEW owner, NEW pre, NEW root,
           \A p \in 0..KPGTBL : lv[p] = Levels /\ owner[p] = root => mem'[p] = mem[p]
    PROVE  Kept(lv, owner, pre, lv, owner, pre) /\ Apart(lv, owner, lv, owner, root)
  BY DEF Kept, Apart


(* At the root, with nothing asked for yet. *)
LEMMA RootChain ==
    ASSUME NEW lv, NEW owner, NEW pre, NEW root \in 0..KPGTBL, lv[root] = 1, owner[root] = root,
           NEW va
    PROVE  Alike(pre[root], va, 1 - 1) /\ Chain(lv, owner, pre, root, va, 1)
  <1>1. \A f : Alike(f, va, 1 - 1)
    BY DEF Alike
  <1>2. ASSUME NEW l \in 1..1
        PROVE  \E p \in 0..KPGTBL : lv[p] = l /\ owner[p] = root /\ Alike(pre[p], va, l - 1)
    <2>1. l = 1
      OBVIOUS
    <2> QED
      BY <1>1, <2>1
  <1> QED
    BY <1>1, <1>2 DEF Chain

LEMMA NothingReflected ==
    ASSUME NEW lv, NEW owner, NEW pre, NEW root, NothingBelow(lv, owner, root, 1), NEW m, NEW maps
    PROVE  Reflects(m, lv, owner, pre, root, maps, 1 - 1)
  <1>1. \A p \in 0..KPGTBL : ~(lv[p] = Levels /\ owner[p] = root)
    BY Sizes DEF NothingBelow
  <1>2. ~\E k : k \in 1..(1 - 1)
    OBVIOUS
  <1> QED
    BY <1>1, <1>2 DEF Reflects
-----------------------------------------------------------------------------
LEMMA InitIInv == Init => IInv
  <1> SUFFICES ASSUME Init PROVE IInv
    OBVIOUS
  <1>1. freepages \in 0..NumPages /\ Primary \in Cores
    BY VmConstants DEF Init
  <1>2. \A c \in Cores : job[c] \in Jobs /\ at[c] \in {"idle", "walk"}
    <2>1. [NoJob EXCEPT !.root = KPGTBL, !.table = KPGTBL] \in Jobs
      <3>1. NoJob \in Jobs /\ KPGTBL \in 0..KPGTBL
        BY NoJobValues, PageRanges
      <3> QED
        BY <3>1 DEF Jobs
    <2> QED
      BY <2>1, NoJobValues DEF Init
  <1>3. /\ at[Primary] = "walk" /\ job[Primary].root = KPGTBL /\ job[Primary].table = KPGTBL
        /\ job[Primary].tf = Null /\ job[Primary].stack = Null
        /\ job[Primary].req = 1 /\ job[Primary].level = 1
    BY <1>1 DEF Init, NoJob
  <1>4. \A c \in Cores \ {Primary} : at[c] = "idle" /\ job[c] = NoJob
    BY DEF Init
  <1>5. /\ DOMAIN mem = 0..KPGTBL /\ \A p \in 0..KPGTBL : DOMAIN mem[p] = Fan
        /\ \A p \in 0..KPGTBL, i \in Fan :
             mem[p][i] = IF p = KPGTBL THEN Invalid ELSE Table(Null)
    BY DEF Init, Zeroed, Garbage
  <1>6. Types
    BY <1>1, <1>2, <1>5 DEF Init, Types
  <1>7. KernelTurn
    BY <1>3, <1>4 DEF Init, KernelTurn
  <1>8. JobMeans
    <2>1. Maps(Primary) = KernelMaps
      BY <1>3 DEF Maps, InKernel
    <2>2. 1 \in 1..Len(Maps(Primary))
      BY <2>1, KernelRequests
    <2> QED
      BY <1>1, <1>3, <1>4, <2>2, NoJobValues DEF JobMeans
  <1>9. RootsDiffer
    BY <1>4, NoJobValues, <1>3, Sizes DEF RootsDiffer
  <1>10. ShortOfPages
    BY <1>3, <1>4 DEF ShortOfPages, Missing
  <1>11. Shape
    <2> DEFINE lv == [p \in 0..KPGTBL |-> IF p = KPGTBL THEN 1 ELSE 0]
               owner == [p \in 0..KPGTBL |-> p]
               pre == [p \in 0..KPGTBL |-> KERN[1]]
    <2>1. Entries(lv, owner)
      BY <1>1, <1>5, Sizes, Descriptors DEF Entries
    <2>2. Walks(lv, owner)
      BY <1>1, <1>3, <1>4, NoJobValues, Sizes DEF Init, Walks
    <2>3. Paths(lv, owner, pre)
      <3>1. KERN[1] \in VAs
        BY VmConstants
      <3>2. pre \in [0..KPGTBL -> VAs]
        BY <3>1
      <3>3. \A p \in 0..KPGTBL : lv[p] > 0 <=> p = KPGTBL
        OBVIOUS
      <3>4. \A i \in Fan : mem[KPGTBL][i].kind # "table"
        BY <1>5, PageRanges, Descriptors
      <3>5. lv[KPGTBL] = 1 /\ owner[KPGTBL] = KPGTBL /\ lv \in [0..KPGTBL -> 0..1]
        BY PageRanges
      <3> HIDE DEF lv, owner, pre
      <3> QED
        BY <3>2, <3>3, <3>4, <3>5 DEF Paths
    <2>4. Contents(lv, owner, pre)
      <3>1. \A p \in 0..KPGTBL : ~(lv[p] > 1)
        OBVIOUS
      <3>2. lv[KPGTBL] = 1 /\ owner[KPGTBL] = KPGTBL /\ KPGTBL \in 0..KPGTBL
        BY PageRanges
      <3> HIDE DEF lv, owner, pre
      <3>3. Built(lv, owner, pre, Primary)
        <4>1. NothingBelow(lv, owner, KPGTBL, 1)
          BY <3>1 DEF NothingBelow
        <4> QED
          BY <1>3, <3>2, <4>1, RootChain, NothingReflected DEF Built
      <3>4. \A c \in Cores : JobContents(lv, owner, pre, c)
        BY <1>3, <1>4, <3>3, NoJobValues DEF JobContents
      <3>5. made = {} /\ kernel # "ok"
        BY DEF Init
      <3> QED
        BY <3>4, <3>5 DEF Contents
    <2> HIDE DEF lv, owner, pre
    <2> QED
      BY <2>1, <2>2, <2>3, <2>4 DEF Shape, Full
  <1>12. OneParent
    BY <1>5, Descriptors DEF OneParent
  <1> QED
    BY <1>6, <1>7, <1>8, <1>9, <1>10, <1>11, <1>12 DEF IInv
-----------------------------------------------------------------------------
(* What get_page and zero_range do to the memory. *)
LEMMA TakeMemory ==
    ASSUME Types, mem' = [mem EXCEPT ![freepages] = Zeroed],
           freepages' = IF freepages = Null THEN Null ELSE freepages - 1
    PROVE  /\ DOMAIN mem' = 0..KPGTBL /\ \A p \in 0..KPGTBL : DOMAIN mem'[p] = Fan
           /\ freepages \in 0..KPGTBL
           /\ \A p \in 0..KPGTBL : p # freepages => mem'[p] = mem[p]
           /\ \A i \in Fan : mem'[freepages][i] = Invalid
           /\ freepages' \in 0..NumPages /\ freepages' <= freepages
           /\ Used \subseteq Used'
           /\ freepages # Null => freepages \in Used' /\ freepages \notin Used
           /\ freepages = Null => freepages' = Null
  BY Sizes DEF Types, Zeroed, Used

(* The entries are as a step that takes a page needs them, when the page   *)
(* becomes no table.                                                       *)
LEMMA TakeEntries ==
    ASSUME Types, mem' = [mem EXCEPT ![freepages] = Zeroed],
           freepages' = IF freepages = Null THEN Null ELSE freepages - 1,
           NEW lv, NEW owner, Entries(lv, owner)
    PROVE  Entries(lv, owner)'
  <1>1. \A p \in 0..freepages' : lv[p] = 0
    BY TakeMemory, Sizes DEF Entries, Types
  <1>2. lv[freepages] = 0
    BY Sizes DEF Entries, Types
  <1>3. ASSUME NEW p \in 0..KPGTBL, NEW i \in Fan
        PROVE  /\ mem'[p][i].kind \in {"invalid", "table", "page"}
               /\ lv[p] = 0 \/ mem'[p][i].kind # "table" => mem'[p][i].to = Null
               /\ lv[p] > 0 => mem'[p][i] = mem[p][i]
    <2>1. CASE p = freepages
      BY <1>2, <2>1, TakeMemory, Descriptors
    <2>2. CASE p # freepages
      BY <2>2, TakeMemory DEF Entries
    <2> QED
      BY <2>1, <2>2
  <1> QED
    BY <1>1, <1>3 DEF Entries

(* A page that becomes no table changes no address space. *)
LEMMA TakeContents ==
    ASSUME IInv, NEW c \in Cores, NEW lv, NEW owner, NEW pre, Full(lv, owner, pre),
           mem' = [mem EXCEPT ![freepages] = Zeroed],
           freepages' = IF freepages = Null THEN Null ELSE freepages - 1,
           \A d \in Cores \ {c} : at'[d] = at[d] /\ job'[d] = job[d]
    PROVE  /\ Paths(lv, owner, pre)'
           /\ \A d \in Cores \ {c} : JobContents(lv, owner, pre, d)'
           /\ \A t \in made : TaskContents(lv, owner, pre, t)'
           /\ kernel = "ok" => KernelContents(lv, owner, pre)'
  <1>1. lv[freepages] = 0 /\ lv \in [0..KPGTBL -> 0..Levels]
    <2>1. freepages \in 0..freepages
      BY Sizes DEF IInv, Types
    <2> QED
      BY <2>1 DEF Full, Entries
  <1>2. \A p \in 0..KPGTBL : lv[p] > 0 => mem'[p] = mem[p]
    BY <1>1, TakeMemory DEF IInv
  <1>3. Paths(lv, owner, pre)'
    BY <1>2, PathsKept DEF Full
  <1>4. \A p \in 0..KPGTBL : lv[p] = Levels => mem'[p] = mem[p]
    BY <1>2, Sizes
  <1>5. /\ Kept(lv, owner, pre, lv, owner, pre)
        /\ \A root \in 0..KPGTBL : Apart(lv, owner, lv, owner, root)
    BY <1>4, SameLabels
  <1>6. /\ \A d \in Cores \ {c} : JobContents(lv, owner, pre, d)'
        /\ \A t \in made : TaskContents(lv, owner, pre, t)'
        /\ kernel = "ok" => KernelContents(lv, owner, pre)'
    BY <1>1, <1>5, OthersKept
  <1> QED
    BY <1>3, <1>6

LEMMA TakeParents ==
    ASSUME Types, mem' = [mem EXCEPT ![freepages] = Zeroed],
           freepages' = IF freepages = Null THEN Null ELSE freepages - 1,
           OneParent
    PROVE  OneParent'
  <1> SUFFICES ASSUME NEW p \in 0..KPGTBL, NEW q \in 0..KPGTBL, NEW i \in Fan, NEW j \in Fan,
                      mem'[p][i].to # Null, mem'[p][i].to = mem'[q][j].to
               PROVE  p = q /\ i = j
    BY DEF OneParent
  <1>1. p # freepages /\ q # freepages
    BY TakeMemory, Descriptors
  <1> QED
    BY <1>1, TakeMemory DEF OneParent

(* A page is given a level or an owner. *)
Labelled(f, page, x) == [p \in 0..KPGTBL |-> IF p = page THEN x ELSE f[p]]

LEMMA TakePgtblIInv ==
    ASSUME IInv, NEW c \in Cores, TakePgtbl(c)
    PROVE  IInv'
  <1>1. /\ mem' = [mem EXCEPT ![freepages] = Zeroed]
        /\ freepages' = IF freepages = Null THEN Null ELSE freepages - 1
        /\ UNCHANGED <<kernel, made>>
        /\ Types
    BY DEF TakePgtbl, Take, IInv
  <1>2. /\ at[c] = "idle" /\ at'[c] = "tf"
        /\ at' \in [Cores -> {"idle", "tf", "stack", "walk"}]
        /\ \A d \in Cores \ {c} : at'[d] = at[d] /\ job'[d] = job[d]
    BY DEF TakePgtbl, Take, IInv, Types
  <1>3. /\ job'[c].root = freepages /\ job'[c].table = job[c].root
        /\ job'[c].tf = job[c].tf /\ job'[c].stack = job[c].stack
        /\ job'[c].req = job[c].req /\ job'[c].level = job[c].level
        /\ job' \in [Cores -> Jobs]
    <2>1. job[c] \in Jobs /\ freepages \in 0..NumPages
      BY DEF IInv, Types
    <2>2. job'[c] = [job[c] EXCEPT !["root"] = freepages, !.table = job[c].root]
      BY DEF TakePgtbl, Take, IInv, Types
    <2>3. job'[c] \in Jobs
      <3>1. freepages \in 0..KPGTBL /\ job[c].root \in 0..KPGTBL
        BY <2>1, PageRanges DEF Jobs
      <3> QED
        BY <2>1, <2>2, <3>1 DEF Jobs
    <2>4. job' = [job EXCEPT ![c] = job'[c]]
      BY <2>2 DEF TakePgtbl, Take, IInv, Types
    <2> QED
      BY <2>1, <2>2, <2>3, <2>4 DEF IInv, Types, Jobs
  <1>4. Types'
    BY <1>1, <1>2, <1>3, TakeMemory DEF Types
  <1>5. job[c] = NoJob /\ kernel # "running" /\ \A d \in Cores : job[d].root \in {Null} \cup Used
    BY <1>2 DEF TakePgtbl, IInv, JobMeans, KernelTurn
  <1>6. freepages # KPGTBL
    BY <1>1, Sizes DEF Types
  <1>7. KernelTurn'
    BY <1>1, <1>2, <1>3, <1>5, <1>6 DEF IInv, KernelTurn
  <1>8. JobMeans'
    BY <1>1, <1>2, <1>3, <1>5, NoJobValues, TakeMemory DEF IInv, JobMeans, Maps, InKernel
  <1>9. RootsDiffer'
    <2>1. \A d \in Cores : freepages # Null => job[d].root # freepages
      BY <1>1, <1>5, TakeMemory
    <2> QED
      BY <1>2, <1>3, <2>1 DEF IInv, RootsDiffer
  <1>10. ShortOfPages'
    <2>1. \A d \in Cores : Missing(d)' => freepages' = Null
      <3>1. CASE freepages = Null
        BY <3>1, <1>1
      <3>2. CASE freepages # Null
        BY <3>2, <1>2, <1>3 DEF Missing, IInv, ShortOfPages
      <3> QED
        BY <3>1, <3>2
    <2>2. \A d \in Cores \ {c} : Empty(job[d].root) => Empty(job[d].root)'
      BY <1>1, <1>2, TakeMemory DEF Empty, IInv, Types, Jobs
    <2>3. Empty(job[c].root)'
      BY <1>1, <1>3, TakeMemory DEF Empty
    <2> QED
      BY <1>2, <1>3, <1>6, <2>1, <2>2, <2>3 DEF IInv, ShortOfPages, Missing
  <1>11. Shape'
    <2> PICK lv, owner, pre : /\ Entries(lv, owner) /\ Walks(lv, owner)
                              /\ Paths(lv, owner, pre) /\ Contents(lv, owner, pre)
      BY DEF IInv, Shape, Full
    <2>1. Entries(lv, owner)'
      BY <1>1, TakeEntries
    <2>2. CASE freepages = Null
      <3>1. Walks(lv, owner)'
        BY <1>1, <1>2, <1>3, <2>2, TakeMemory DEF Walks
      <3>2. /\ Paths(lv, owner, pre)'
            /\ \A d \in Cores \ {c} : JobContents(lv, owner, pre, d)'
            /\ \A t \in made : TaskContents(lv, owner, pre, t)'
            /\ kernel = "ok" => KernelContents(lv, owner, pre)'
        BY <1>1, <1>2, TakeContents DEF Full
      <3>3. Contents(lv, owner, pre)'
        <4>1. JobContents(lv, owner, pre, c)'
          BY <1>3, <2>2 DEF JobContents
        <4>2. \A d \in Cores : \A t \in made : job'[d].root # t.root
          <5>1. job'[c].root = job[c].root
            BY <1>3, <1>5, <2>2, NoJobValues
          <5> QED
            BY <1>2, <5>1 DEF Contents
        <4>3. \A d \in Cores : JobContents(lv, owner, pre, d)'
          BY <3>2, <4>1
        <4> QED
          BY <1>1, <3>2, <4>2, <4>3 DEF Contents
      <3> QED
        BY <2>1, <3>1, <3>2, <3>3 DEF Shape, Full
    <2>3. CASE freepages # Null
      <3>0. /\ freepages \in 0..KPGTBL /\ freepages \in Used' /\ freepages \notin Used
            /\ freepages # KPGTBL /\ lv[freepages] = 0
            /\ lv \in [0..KPGTBL -> 0..Levels] /\ owner \in [0..KPGTBL -> 0..KPGTBL]
            /\ freepages' = freepages - 1
        BY <1>1, <1>6, <2>3, TakeMemory DEF Entries, Types
      <3>a. PICK lv2 : lv2 = Labelled(lv, freepages, 1)
        OBVIOUS
      <3>b. PICK owner2 : owner2 = Labelled(owner, freepages, freepages)
        OBVIOUS
      <3>1. /\ lv2 \in [0..KPGTBL -> 0..Levels] /\ owner2 \in [0..KPGTBL -> 0..KPGTBL]
            /\ \A p \in 0..KPGTBL : p # freepages => lv2[p] = lv[p] /\ owner2[p] = owner[p]
            /\ lv2[freepages] = 1 /\ owner2[freepages] = freepages
        <4>1. 1 \in 0..Levels
          BY Sizes
        <4>2. /\ lv2 \in [0..KPGTBL -> 0..Levels]
              /\ \A p \in 0..KPGTBL : p # freepages => lv2[p] = lv[p]
              /\ lv2[freepages] = 1
          BY <3>0, <3>a, <4>1 DEF Labelled
        <4>3. /\ owner2 \in [0..KPGTBL -> 0..KPGTBL]
              /\ \A p \in 0..KPGTBL : p # freepages => owner2[p] = owner[p]
              /\ owner2[freepages] = freepages
          BY <3>0, <3>b DEF Labelled
        <4> QED
          BY <4>2, <4>3
      <3>2. Entries(lv2, owner2)'
        <4>1. \A p \in 0..freepages' : lv2[p] = 0
          BY <2>1, <3>0, <3>1, <1>1, Sizes DEF Entries, Types
        <4>2. ASSUME NEW p \in 0..KPGTBL, NEW i \in Fan
              PROVE  /\ mem'[p][i].kind \in {"invalid", "table", "page"}
                     /\ lv2[p] = 0 \/ mem'[p][i].kind # "table" => mem'[p][i].to = Null
                     /\ lv2[p] > 0 /\ mem'[p][i].kind = "table" =>
                           /\ lv2[p] < Levels
                           /\ mem'[p][i].to \in Pages
                           /\ lv2[mem'[p][i].to] = lv2[p] + 1
                           /\ owner2[mem'[p][i].to] = owner2[p]
                     /\ lv2[p] > 0 /\ mem'[p][i].kind = "page" => lv2[p] = Levels
          <5>1. CASE p = freepages
            BY <1>1, <5>1, <3>1, TakeMemory, Descriptors
          <5>2. CASE p # freepages
            <6>1. lv2[p] = lv[p] /\ owner2[p] = owner[p] /\ lv[p] \in Nat
              BY <3>0, <3>1, <5>2
            <6>2. lv[p] > 0 /\ mem'[p][i].kind = "table" =>
                    mem'[p][i].to \in 0..KPGTBL /\ mem'[p][i].to # freepages
              <7> SUFFICES ASSUME lv[p] > 0, mem'[p][i].kind = "table"
                           PROVE  mem'[p][i].to \in 0..KPGTBL /\ mem'[p][i].to # freepages
                OBVIOUS
              <7>1. mem'[p][i].to \in Pages /\ lv[mem'[p][i].to] = lv[p] + 1
                BY <2>1 DEF Entries
              <7>2. mem'[p][i].to # freepages
                BY <3>0, <6>1, <7>1
              <7> QED
                BY <7>1, <7>2, PageRanges
            <6> QED
              BY <2>1, <3>1, <6>1, <6>2 DEF Entries
          <5> QED
            BY <5>1, <5>2
        <4>3. lv2[KPGTBL] = 1 /\ owner2[KPGTBL] = KPGTBL
          BY <3>0, <3>1, PageRanges DEF Entries
        <4> QED
          BY <3>1, <4>1, <4>2, <4>3 DEF Entries
      <3>3. Walks(lv2, owner2)'
        <4>1. ASSUME NEW d \in Cores, d # c
              PROVE  /\ at'[d] # "idle" /\ job'[d].root # Null =>
                          lv2[job'[d].root] = 1 /\ owner2[job'[d].root] = job'[d].root
                     /\ at'[d] = "walk" /\ job'[d].root # Null =>
                          /\ lv2[job'[d].table] = job'[d].level
                          /\ owner2[job'[d].table] = job'[d].root
                     /\ lv2[job'[d].tf] = 0 /\ lv2[job'[d].stack] = 0
          <5>1. /\ job[d].root # freepages /\ job[d].tf # freepages /\ job[d].stack # freepages
                /\ job[d].root \in 0..KPGTBL /\ job[d].tf \in 0..KPGTBL /\ job[d].stack \in 0..KPGTBL
                /\ job[d].table \in 0..KPGTBL /\ job[d].level \in 1..Levels
            <6>1. job[d] \in Jobs
              BY DEF IInv, Types
            <6>2. job[d].tf \in {Null} \cup Used /\ job[d].stack \in {Null} \cup Used
              BY DEF IInv, JobMeans
            <6> QED
              BY <3>0, <1>5, <2>3, <6>1, <6>2, PageRanges DEF Jobs
          <5>2. at[d] = "walk" /\ job[d].root # Null => job[d].table # freepages
            BY <3>0, <5>1 DEF Walks
          <5>3. lv2[job[d].root] = lv[job[d].root] /\ owner2[job[d].root] = owner[job[d].root]
            BY <3>1, <5>1
          <5>4. lv2[job[d].tf] = lv[job[d].tf] /\ lv2[job[d].stack] = lv[job[d].stack]
            BY <3>1, <5>1
          <5>5. at[d] = "walk" /\ job[d].root # Null =>
                  /\ lv2[job[d].table] = lv[job[d].table]
                  /\ owner2[job[d].table] = owner[job[d].table]
            BY <3>1, <5>1, <5>2
          <5>6. at'[d] = at[d] /\ job'[d] = job[d]
            BY <1>2, <4>1
          <5> QED
            BY <5>3, <5>4, <5>5, <5>6, Zenon DEF Walks
        <4>2. /\ lv2[job'[c].root] = 1 /\ owner2[job'[c].root] = job'[c].root
              /\ lv2[job'[c].tf] = 0 /\ lv2[job'[c].stack] = 0
          <5>1. lv[Null] = 0 /\ Null \in 0..KPGTBL
            BY <1>1, Sizes DEF Entries, Types
          <5> QED
            BY <1>3, <1>5, <2>3, <3>1, <5>1, NoJobValues
        <4>3. ASSUME NEW t \in made
              PROVE  /\ t.root \in Used' /\ t.tf \in Used' /\ t.stack \in Used'
                     /\ lv2[t.root] = 1 /\ lv2[t.tf] = 0 /\ lv2[t.stack] = 0
          <5>1. Used \subseteq 0..KPGTBL /\ Used \subseteq Used'
            BY <1>1, TakeMemory, Sizes DEF Used, Types
          <5> QED
            BY <3>0, <3>1, <5>1 DEF Walks
        <4> QED
          BY <1>1, <1>2, <4>1, <4>2, <4>3, Zenon DEF Walks
      <3>4. Paths(lv, owner, pre)'
        BY <1>1, <1>2, TakeContents DEF Full
      <3>5. Paths(lv2, owner2, pre)'
        <4>1. ASSUME NEW p \in 0..KPGTBL
              PROVE  /\ lv2[p] = 1 => owner2[p] = p
                     /\ lv2[p] > 0 => lv2[owner2[p]] = 1
                     /\ lv2[p] > 1 => \E q \in 0..KPGTBL, i \in Fan :
                           lv2[q] = lv2[p] - 1 /\ mem'[q][i].kind = "table" /\ mem'[q][i].to = p
                     /\ \A i \in Fan : lv2[p] > 0 /\ mem'[p][i].kind = "table" =>
                           /\ pre[mem'[p][i].to][lv2[p]] = i
                           /\ Alike(pre[mem'[p][i].to], pre[p], lv2[p] - 1)
          <5>1. CASE p = freepages
            BY <1>1, <3>1, <5>1, TakeMemory, Descriptors
          <5>2. CASE p # freepages
            <6>1. lv2[p] = lv[p] /\ owner2[p] = owner[p] /\ lv[p] \in Nat
              BY <3>0, <3>1, <5>2
            <6>2. /\ lv[p] = 1 => owner[p] = p
                  /\ lv[p] > 0 => lv[owner[p]] = 1
                  /\ \A i \in Fan : lv[p] > 0 /\ mem'[p][i].kind = "table" =>
                        /\ pre[mem'[p][i].to][lv[p]] = i
                        /\ Alike(pre[mem'[p][i].to], pre[p], lv[p] - 1)
              BY <3>4 DEF Paths
            <6>3. lv[p] > 0 => lv2[owner[p]] = 1
              BY <3>0, <3>1, <6>2
            <6>4. ASSUME lv[p] > 1
                  PROVE  \E q \in 0..KPGTBL, i \in Fan :
                           lv2[q] = lv[p] - 1 /\ mem'[q][i].kind = "table" /\ mem'[q][i].to = p
              <7>1. PICK q \in 0..KPGTBL, i \in Fan :
                      lv[q] = lv[p] - 1 /\ mem'[q][i].kind = "table" /\ mem'[q][i].to = p
                BY <3>4, <6>4 DEF Paths
              <7>2. q # freepages
                BY <3>0, <6>1, <6>4, <7>1
              <7> QED
                BY <3>1, <7>1, <7>2
            <6> QED
              BY <6>1, <6>2, <6>3, <6>4
          <5> QED
            BY <5>1, <5>2
        <4>2. ASSUME NEW p \in 0..KPGTBL, NEW q \in 0..KPGTBL, lv2[p] > 0, lv2[p] = lv2[q],
                     owner2[p] = owner2[q], Alike(pre[p], pre[q], lv2[p] - 1)
              PROVE  p = q
          <5>1. CASE lv2[p] = 1
            <6>1. owner2[p] = p /\ owner2[q] = q
              BY <4>1, <4>2, <5>1, Zenon
            <6> QED
              BY <4>2, <6>1
          <5>2. CASE lv2[p] # 1
            <6>1. p # freepages /\ q # freepages
              BY <3>1, <4>2, <5>2
            <6> QED
              BY <3>1, <4>2, <6>1 DEF Paths
          <5> QED
            BY <5>1, <5>2
        <4>3. pre \in [0..KPGTBL -> VAs]
          BY DEF Paths
        <4> QED
          BY <4>1, <4>2, <4>3, Zenon DEF Paths
      <3>6. Contents(lv2, owner2, pre)'
        <4>1. Kept(lv, owner, pre, lv2, owner2, pre)
          BY <3>0, <3>1 DEF Kept
        <4>2. \A root \in 0..KPGTBL : Apart(lv, owner, lv2, owner2, root)
          <5>1. \A p \in 0..KPGTBL : lv2[p] > 1 => p # freepages
            BY <3>1
          <5> QED
            BY <1>1, <3>1, <5>1, TakeMemory DEF Apart
        <4>3. /\ \A d \in Cores \ {c} : JobContents(lv2, owner2, pre, d)'
              /\ \A t \in made : TaskContents(lv2, owner2, pre, t)'
              /\ kernel = "ok" => KernelContents(lv2, owner2, pre)'
          BY <1>1, <1>2, <3>1, <4>1, <4>2, OthersKept DEF Full
        <4>4. JobContents(lv2, owner2, pre, c)'
          <5>1. NothingBelow(lv2, owner2, freepages, 1)
            <6> SUFFICES ASSUME NEW p \in 0..KPGTBL, lv2[p] > 1
                         PROVE  owner2[p] # freepages
              BY DEF NothingBelow
            <6>1. p # freepages /\ lv[p] > 1 /\ owner2[p] = owner[p]
              BY <3>1
            <6>2. lv[owner[p]] = 1
              BY <3>0, <6>1 DEF Paths
            <6> QED
              BY <3>0, <6>1, <6>2
          <5> QED
            BY <1>2, <1>3, <5>1 DEF JobContents
        <4>5. \A d \in Cores : \A t \in made : job'[d].root # t.root
          <5>1. \A t \in made : t.root # freepages
            BY <3>0 DEF Walks
          <5> QED
            BY <1>2, <1>3, <5>1 DEF Contents
        <4>6. \A d \in Cores : JobContents(lv2, owner2, pre, d)'
          BY <4>3, <4>4
        <4> QED
          BY <1>1, <4>3, <4>5, <4>6 DEF Contents
      <3> QED
        BY <3>2, <3>3, <3>5, <3>6 DEF Shape, Full
    <2> QED
      BY <2>2, <2>3
  <1>12. OneParent'
    BY <1>1, TakeParents DEF IInv
  <1> QED
    BY <1>4, <1>7, <1>8, <1>9, <1>10, <1>11, <1>12 DEF IInv

LEMMA TakeTrapframeIInv ==
    ASSUME IInv, NEW c \in Cores, TakeTrapframe(c)
    PROVE  IInv'
  <1>1. /\ mem' = [mem EXCEPT ![freepages] = Zeroed]
        /\ freepages' = IF freepages = Null THEN Null ELSE freepages - 1
        /\ UNCHANGED <<kernel, made>>
        /\ Types
    BY DEF TakeTrapframe, Take, IInv
  <1>2. /\ at[c] = "tf" /\ at'[c] = "stack"
        /\ at' \in [Cores -> {"idle", "tf", "stack", "walk"}]
        /\ \A d \in Cores \ {c} : at'[d] = at[d] /\ job'[d] = job[d]
    BY DEF TakeTrapframe, Take, IInv, Types
  <1>3. /\ job'[c].tf = freepages /\ job'[c].table = job[c].root
        /\ job'[c].root = job[c].root /\ job'[c].stack = job[c].stack
        /\ job'[c].req = job[c].req /\ job'[c].level = job[c].level
        /\ job' \in [Cores -> Jobs]
    <2>1. job[c] \in Jobs /\ freepages \in 0..NumPages
      BY DEF IInv, Types
    <2>2. job'[c] = [job[c] EXCEPT !["tf"] = freepages, !.table = job[c].root]
      BY DEF TakeTrapframe, Take, IInv, Types
    <2>3. job'[c] \in Jobs
      <3>1. freepages \in 0..KPGTBL /\ job[c].root \in 0..KPGTBL
        BY <2>1, PageRanges DEF Jobs
      <3> QED
        BY <2>1, <2>2, <3>1 DEF Jobs
    <2>4. job' = [job EXCEPT ![c] = job'[c]]
      BY <2>2 DEF TakeTrapframe, Take, IInv, Types
    <2> QED
      BY <2>1, <2>2, <2>3, <2>4 DEF IInv, Types, Jobs
  <1>4. Types'
    BY <1>1, <1>2, <1>3, TakeMemory DEF Types
  <1>5. kernel # "running" /\ \A d \in Cores : job[d].root \in {Null} \cup Used
    BY <1>2 DEF IInv, JobMeans, KernelTurn, ShortOfPages
  <1>6. job'[c].root = job[c].root /\ job'[c].root # KPGTBL
    BY <1>2, <1>3 DEF IInv, ShortOfPages
  <1>7. KernelTurn'
    BY <1>1, <1>2, <1>3, <1>5, <1>6 DEF IInv, KernelTurn
  <1>8. JobMeans'
    BY <1>1, <1>2, <1>3, TakeMemory DEF IInv, JobMeans, Maps, InKernel
  <1>9. RootsDiffer'
    BY <1>2, <1>6 DEF IInv, RootsDiffer
  <1>10. ShortOfPages'
    <2>1. \A d \in Cores : Missing(d)' => freepages' = Null
      <3>1. CASE freepages = Null
        BY <3>1, <1>1
      <3>2. CASE freepages # Null
        BY <3>2, <1>2, <1>3, <1>6 DEF Missing, IInv, ShortOfPages
      <3> QED
        BY <3>1, <3>2
    <2>2. \A d \in Cores : Empty(job[d].root) => Empty(job[d].root)'
      <3> SUFFICES ASSUME NEW d \in Cores, Empty(job[d].root)
                   PROVE  Empty(job[d].root)'
        OBVIOUS
      <3>1. job'[d].root = job[d].root /\ job[d].root \in 0..KPGTBL
        BY <1>2, <1>6 DEF IInv, Types, Jobs
      <3>2. \A i \in Fan : mem'[job[d].root][i] = Invalid
        BY <1>1, <3>1, TakeMemory DEF Empty, IInv
      <3> QED
        BY <3>1, <3>2 DEF Empty
    <2>3. job'[c].level = 1
      BY <1>2, <1>3 DEF IInv, JobMeans
    <2> QED
      BY <1>2, <1>3, <1>6, <2>1, <2>2, <2>3 DEF IInv, ShortOfPages, Missing
  <1>11. Shape'
    <2> PICK lv, owner, pre : /\ Entries(lv, owner) /\ Walks(lv, owner)
                              /\ Paths(lv, owner, pre) /\ Contents(lv, owner, pre)
      BY DEF IInv, Shape, Full
    <2>1. Entries(lv, owner)'
      BY <1>1, TakeEntries
    <2>2. lv[freepages] = 0
      BY <1>1, Sizes DEF Entries, Types
    <2>3. Used \subseteq Used'
      BY <1>1, TakeMemory
    <2>4. Walks(lv, owner)'
      BY <1>1, <1>2, <1>3, <2>2, <2>3 DEF Walks, IInv, JobMeans
    <2>5. /\ Paths(lv, owner, pre)'
          /\ \A d \in Cores \ {c} : JobContents(lv, owner, pre, d)'
          /\ \A t \in made : TaskContents(lv, owner, pre, t)'
          /\ kernel = "ok" => KernelContents(lv, owner, pre)'
      BY <1>1, <1>2, TakeContents DEF Full
    <2>6. JobContents(lv, owner, pre, c)'
      BY <1>2, <1>6 DEF JobContents, Contents
    <2>7. Contents(lv, owner, pre)'
      <3>1. \A d \in Cores : \A t \in made : job'[d].root # t.root
        BY <1>2, <1>6 DEF Contents
      <3>2. \A d \in Cores : JobContents(lv, owner, pre, d)'
        BY <2>5, <2>6
      <3> QED
        BY <1>1, <2>5, <3>1, <3>2 DEF Contents
    <2> QED
      BY <2>1, <2>4, <2>5, <2>7 DEF Shape, Full
  <1>12. OneParent'
    BY <1>1, TakeParents DEF IInv
  <1> QED
    BY <1>4, <1>7, <1>8, <1>9, <1>10, <1>11, <1>12 DEF IInv

LEMMA TakeStackIInv ==
    ASSUME IInv, NEW c \in Cores, TakeStack(c)
    PROVE  IInv'
  <1>1. /\ mem' = [mem EXCEPT ![freepages] = Zeroed]
        /\ freepages' = IF freepages = Null THEN Null ELSE freepages - 1
        /\ UNCHANGED <<kernel, made>>
        /\ Types
    BY DEF TakeStack, Take, IInv
  <1>2. /\ at[c] = "stack" /\ at'[c] = "walk"
        /\ at' \in [Cores -> {"idle", "tf", "stack", "walk"}]
        /\ \A d \in Cores \ {c} : at'[d] = at[d] /\ job'[d] = job[d]
    BY DEF TakeStack, Take, IInv, Types
  <1>3. /\ job'[c].stack = freepages /\ job'[c].table = job[c].root
        /\ job'[c].root = job[c].root /\ job'[c].tf = job[c].tf
        /\ job'[c].req = job[c].req /\ job'[c].level = job[c].level
        /\ job' \in [Cores -> Jobs]
    <2>1. job[c] \in Jobs /\ freepages \in 0..NumPages
      BY DEF IInv, Types
    <2>2. job'[c] = [job[c] EXCEPT !["stack"] = freepages, !.table = job[c].root]
      BY DEF TakeStack, Take, IInv, Types
    <2>3. job'[c] \in Jobs
      <3>1. freepages \in 0..KPGTBL /\ job[c].root \in 0..KPGTBL
        BY <2>1, PageRanges DEF Jobs
      <3> QED
        BY <2>1, <2>2, <3>1 DEF Jobs
    <2>4. job' = [job EXCEPT ![c] = job'[c]]
      BY <2>2 DEF TakeStack, Take, IInv, Types
    <2> QED
      BY <2>1, <2>2, <2>3, <2>4 DEF IInv, Types, Jobs
  <1>4. Types'
    BY <1>1, <1>2, <1>3, TakeMemory DEF Types
  <1>5. kernel # "running" /\ \A d \in Cores : job[d].root \in {Null} \cup Used
    BY <1>2 DEF IInv, JobMeans, KernelTurn, ShortOfPages
  <1>6. job'[c].root = job[c].root /\ job'[c].root # KPGTBL
    BY <1>2, <1>3 DEF IInv, ShortOfPages
  <1>7. KernelTurn'
    BY <1>1, <1>2, <1>3, <1>5, <1>6 DEF IInv, KernelTurn
  <1>8. JobMeans'
    <2>1. job'[c].req = 1 /\ 1 \in 1..Len(Maps(c)')
      <3>1. Maps(c)' \in Seq(Requests) /\ Len(Maps(c)') >= 1
        <4>1. job'[c].tf \in 0..NumPages /\ job'[c].stack \in 0..NumPages
          BY <1>3 DEF Jobs
        <4> QED
          BY <4>1, KernelRequests, UserRequests DEF Maps
      <3> QED
        BY <1>2, <1>3, <3>1 DEF IInv, JobMeans
    <2> QED
      BY <1>1, <1>2, <1>3, <2>1, TakeMemory DEF IInv, JobMeans, Maps, InKernel
  <1>9. RootsDiffer'
    BY <1>2, <1>6 DEF IInv, RootsDiffer
  <1>10. ShortOfPages'
    <2>1. \A d \in Cores : Missing(d)' => freepages' = Null
      <3>1. CASE freepages = Null
        BY <3>1, <1>1
      <3>2. CASE freepages # Null
        BY <3>2, <1>2, <1>3, <1>6 DEF Missing, IInv, ShortOfPages
      <3> QED
        BY <3>1, <3>2
    <2>2. \A d \in Cores : Empty(job[d].root) => Empty(job[d].root)'
      <3> SUFFICES ASSUME NEW d \in Cores, Empty(job[d].root)
                   PROVE  Empty(job[d].root)'
        OBVIOUS
      <3>1. job'[d].root = job[d].root /\ job[d].root \in 0..KPGTBL
        BY <1>2, <1>6 DEF IInv, Types, Jobs
      <3>2. \A i \in Fan : mem'[job[d].root][i] = Invalid
        BY <1>1, <3>1, TakeMemory DEF Empty, IInv
      <3> QED
        BY <3>1, <3>2 DEF Empty
    <2>3. job'[c].level = 1
      BY <1>2, <1>3 DEF IInv, JobMeans
    <2> QED
      BY <1>2, <1>3, <1>6, <2>1, <2>2, <2>3 DEF IInv, ShortOfPages, Missing
  <1>11. Shape'
    <2> PICK lv, owner, pre : /\ Entries(lv, owner) /\ Walks(lv, owner)
                              /\ Paths(lv, owner, pre) /\ Contents(lv, owner, pre)
      BY DEF IInv, Shape, Full
    <2>1. Entries(lv, owner)'
      BY <1>1, TakeEntries
    <2>2. lv[freepages] = 0
      BY <1>1, Sizes DEF Entries, Types
    <2>3. Used \subseteq Used'
      BY <1>1, TakeMemory
    <2>4. Walks(lv, owner)'
      BY <1>1, <1>2, <1>3, <2>2, <2>3 DEF Walks, IInv, JobMeans
    <2>5. /\ Paths(lv, owner, pre)'
          /\ \A d \in Cores \ {c} : JobContents(lv, owner, pre, d)'
          /\ \A t \in made : TaskContents(lv, owner, pre, t)'
          /\ kernel = "ok" => KernelContents(lv, owner, pre)'
      BY <1>1, <1>2, TakeContents DEF Full
    <2>6. JobContents(lv, owner, pre, c)'
      <3> SUFFICES ASSUME job[c].root # Null
                   PROVE  Built(lv, owner, pre, c)'
        BY <1>2, <1>6 DEF JobContents
      <3>1. NothingBelow(lv, owner, job[c].root, 1)
        BY <1>2 DEF Contents, JobContents
      <3>2. lv[job[c].root] = 1 /\ owner[job[c].root] = job[c].root
        BY <1>2 DEF Walks
      <3>3. job'[c].level = 1 /\ job'[c].req = 1 /\ job'[c].root \in 0..KPGTBL
        BY <1>2, <1>3 DEF IInv, JobMeans, Jobs
      <3>4. job'[c].table = job'[c].root
        BY <1>3
      <3> QED
        BY <1>6, <3>1, <3>2, <3>3, <3>4, RootChain, NothingReflected DEF Built
    <2>7. Contents(lv, owner, pre)'
      <3>1. \A d \in Cores : \A t \in made : job'[d].root # t.root
        BY <1>2, <1>6 DEF Contents
      <3>2. \A d \in Cores : JobContents(lv, owner, pre, d)'
        BY <2>5, <2>6
      <3> QED
        BY <1>1, <2>5, <3>1, <3>2 DEF Contents
    <2> QED
      BY <2>1, <2>4, <2>5, <2>7 DEF Shape, Full
  <1>12. OneParent'
    BY <1>1, TakeParents DEF IInv
  <1> QED
    BY <1>4, <1>7, <1>8, <1>9, <1>10, <1>11, <1>12 DEF IInv
-----------------------------------------------------------------------------
(* A core that walks and has all its pages is at a table of its own        *)
(* address space, at the level it counts.                                  *)
LEMMA WalkingTable ==
    ASSUME IInv, NEW c \in Cores, at[c] = "walk", ~Missing(c),
           NEW lv, NEW owner, Entries(lv, owner), Walks(lv, owner)
    PROVE  /\ job[c].root # Null
           /\ job[c].table \in 0..KPGTBL /\ job[c].level \in 1..Levels
           /\ lv[job[c].table] = job[c].level /\ owner[job[c].table] = job[c].root
           /\ job[c].table \notin 0..freepages
           /\ Index(c) \in Fan
  <1>1. job[c] \in Jobs
    BY DEF IInv, Types
  <1>2. job[c].table \in 0..KPGTBL /\ job[c].level \in 1..Levels
    BY <1>1 DEF Jobs
  <1>3. job[c].root # Null
    BY Sizes DEF Missing
  <1>4. lv[job[c].table] = job[c].level /\ owner[job[c].table] = job[c].root
    BY <1>3 DEF Walks
  <1>5. job[c].table \notin 0..freepages
    BY <1>2, <1>4 DEF Entries
  <1>6. Index(c) \in Fan
    BY IndexInTable DEF IInv
  <1> QED
    BY <1>2, <1>3, <1>4, <1>5, <1>6

(* A core that lacks a page finds nothing in its table. *)
LEMMA MissingTable ==
    ASSUME IInv, NEW c \in Cores, at[c] = "walk", Missing(c)
    PROVE  /\ freepages = Null /\ job[c].level = 1
           /\ Entry(c).kind = "invalid"
  <1>1. Index(c) \in Fan
    BY IndexInTable DEF IInv
  <1> QED
    BY <1>1, Descriptors DEF IInv, ShortOfPages, Entry, Empty

LEMMA DescendIInv ==
    ASSUME IInv, NEW c \in Cores, Descend(c)
    PROVE  IInv'
  <1>1. at[c] = "walk" /\ job[c].level < Levels /\ ~Missing(c)
    BY MissingTable DEF Descend, Walking
  <1>2. UNCHANGED <<freepages, mem, kernel, at, made>> /\ UNCHANGED Used
    BY DEF Descend, Used
  <1> PICK lv, owner, pre : /\ Entries(lv, owner) /\ Walks(lv, owner)
                            /\ Paths(lv, owner, pre) /\ Contents(lv, owner, pre)
    BY DEF IInv, Shape, Full
  <1>3. /\ job[c].root # Null
        /\ job[c].table \in 0..KPGTBL /\ job[c].level \in 1..Levels
        /\ lv[job[c].table] = job[c].level /\ owner[job[c].table] = job[c].root
        /\ Index(c) \in Fan
    BY <1>1, WalkingTable
  <1>4. /\ Entry(c).to \in Pages
        /\ lv[Entry(c).to] = job[c].level + 1 /\ owner[Entry(c).to] = job[c].root
    <2>1. Entry(c).kind = "table"
      <3>1. /\ Entry(c).kind \in {"invalid", "table", "page"}
            /\ lv[job[c].table] > 0 /\ Entry(c).kind = "page" => lv[job[c].table] = Levels
        BY <1>3 DEF Entries, Entry
      <3>2. lv[job[c].table] > 0 /\ lv[job[c].table] # Levels
        BY <1>1, <1>3, Sizes
      <3> QED
        BY <3>1, <3>2 DEF Descend
    <2> QED
      BY <1>3, <2>1 DEF Entries, Entry
  <1>5. /\ job' \in [Cores -> Jobs]
        /\ job'[c].table = Entry(c).to /\ job'[c].level = job[c].level + 1
        /\ job'[c].root = job[c].root /\ job'[c].tf = job[c].tf /\ job'[c].stack = job[c].stack
        /\ job'[c].req = job[c].req
        /\ \A d \in Cores \ {c} : job'[d] = job[d]
    <2>1. Entry(c).to \in 0..KPGTBL /\ job[c].level + 1 \in 1..Levels
      BY <1>1, <1>3, <1>4, Sizes, PageRanges
    <2>2. job \in [Cores -> Jobs]
      BY DEF IInv, Types
    <2>3. job' = [job EXCEPT ![c] = [job[c] EXCEPT !.table = Entry(c).to, !.level = job[c].level + 1]]
      BY <2>2 DEF Descend
    <2> QED
      BY <2>1, <2>2, <2>3 DEF Jobs
  <1>6. Types'
    BY <1>2, <1>5 DEF IInv, Types
  <1>x. KernelTurn'
    <2>1. \A d \in Cores : job'[d].root = job[d].root
      BY <1>5
    <2> QED
      BY <1>2, <2>1, VmConstants DEF IInv, KernelTurn
  <1>7. JobMeans'
    BY <1>1, <1>2, <1>5 DEF IInv, JobMeans, Maps, InKernel
  <1>8. RootsDiffer'
    BY <1>5 DEF IInv, RootsDiffer
  <1>9. ShortOfPages'
    BY <1>1, <1>2, <1>5 DEF IInv, ShortOfPages, Missing, Empty
  <1>10. Shape'
    <2>1. Entries(lv, owner)'
      BY <1>2 DEF Entries
    <2>2. Walks(lv, owner)'
      BY <1>2, <1>4, <1>5 DEF Walks
    <2>3. Paths(lv, owner, pre)'
      BY <1>2, PathsKept
    <2>4. Contents(lv, owner, pre)'
      <3>1. /\ \A d \in Cores \ {c} : JobContents(lv, owner, pre, d)'
            /\ \A t \in made : TaskContents(lv, owner, pre, t)'
            /\ kernel = "ok" => KernelContents(lv, owner, pre)'
        <4>1. /\ Kept(lv, owner, pre, lv, owner, pre)
              /\ \A root \in 0..KPGTBL : Apart(lv, owner, lv, owner, root)
          BY <1>2, SameLabels
        <4> QED
          BY <1>2, <1>5, <4>1, OthersKept DEF Full, Entries
      <3>2. Built(lv, owner, pre, c)
        BY <1>1, <1>3 DEF Contents, JobContents
      <3>3. Maps(c)' = Maps(c) /\ Current(c)' = Current(c)
        BY <1>5 DEF Maps, InKernel, Current
      <3>4. Alike(pre[Entry(c).to], Current(c).va, job[c].level)
        <4>1. /\ pre[Entry(c).to][job[c].level] = Index(c)
              /\ Alike(pre[Entry(c).to], pre[job[c].table], job[c].level - 1)
          <5>1. Entry(c).kind = "table"
            BY <1>1, <1>3 DEF Descend, Entry, Entries
          <5> QED
            BY <1>3, <5>1 DEF Paths, Entry
        <4> QED
          BY <1>3, <3>2, <4>1 DEF Built, Alike, Index
      <3>5. Chain(lv, owner, pre, job[c].root, Current(c).va, job[c].level + 1)
        <4> SUFFICES ASSUME NEW l \in 1..(job[c].level + 1)
                     PROVE  \E p \in 0..KPGTBL :
                              lv[p] = l /\ owner[p] = job[c].root /\ Alike(pre[p], Current(c).va, l - 1)
          BY DEF Chain
        <4>1. CASE l = job[c].level + 1
          <5>1. l - 1 = job[c].level
            BY <1>3, <4>1
          <5> QED
            BY <1>4, <3>4, <4>1, <5>1, PageRanges
        <4>2. CASE l # job[c].level + 1
          <5>1. l \in 1..job[c].level
            BY <1>3, <4>2
          <5> QED
            BY <3>2, <5>1 DEF Built, Chain
        <4> QED
          BY <4>1, <4>2
      <3>6. job[c].req = 1 => NothingBelow(lv, owner, job[c].root, job[c].level + 1)
        <4>1. \A p \in 0..KPGTBL : lv[p] > job[c].level + 1 => lv[p] > job[c].level
          BY <1>3 DEF Entries
        <4> QED
          BY <3>2, <4>1 DEF Built, NothingBelow
      <3>7. Built(lv, owner, pre, c)'
        <4>1. Alike(pre[job'[c].table], Current(c)'.va, job'[c].level - 1)
          <5>1. job'[c].level - 1 = job[c].level
            BY <1>3, <1>5
          <5> QED
            BY <1>5, <3>3, <3>4, <5>1, Zenon
        <4>2. Chain(lv, owner, pre, job'[c].root, Current(c)'.va, job'[c].level)
          BY <1>5, <3>3, <3>5
        <4>3. job'[c].req = 1 => NothingBelow(lv, owner, job'[c].root, job'[c].level)
          BY <1>5, <3>6
        <4>4. \/ /\ freepages' = Null /\ job'[c].root # KPGTBL
                 /\ NothingBelow(lv, owner, job'[c].root, Levels - 1)
              \/ Reflects(mem', lv, owner, pre, job'[c].root, Maps(c)', job'[c].req - 1)
          BY <1>2, <1>5, <3>2, <3>3 DEF Built
        <4> QED
          BY <4>1, <4>2, <4>3, <4>4 DEF Built
      <3>8. \A d \in Cores : JobContents(lv, owner, pre, d)'
        BY <1>1, <1>2, <3>1, <3>7 DEF JobContents
      <3>9. \A d \in Cores : \A t \in made : job'[d].root # t.root
        BY <1>5 DEF Contents
      <3> QED
        BY <1>2, <3>1, <3>8, <3>9 DEF Contents
    <2> QED
      BY <2>1, <2>2, <2>3, <2>4 DEF Shape, Full
  <1>11. OneParent'
    BY <1>2 DEF IInv, OneParent
  <1> QED
    BY <1>6, <1>x, <1>7, <1>8, <1>9, <1>10, <1>11 DEF IInv

(* mapva returns: the caller goes on at the root with the next address, or *)
(* leaves.  The memory has changed, if at all, in a way that keeps the     *)
(* tables in order.                                                        *)
LEMMA ReturnedIInv ==
    ASSUME IInv, NEW c \in Cores, at[c] = "walk", NEW ok \in BOOLEAN, Returned(c, ok),
           UNCHANGED freepages, ok => ~Missing(c),
           DOMAIN mem' = 0..KPGTBL, \A p \in 0..KPGTBL : DOMAIN mem'[p] = Fan,
           \A d \in Cores : at[d] # "idle" => mem'[job[d].root] = mem[job[d].root],
           NEW lv, NEW owner, NEW pre, Full(lv, owner, pre),
           Entries(lv, owner)', Paths(lv, owner, pre)', OneParent',
           \A root \in 0..KPGTBL : root # job[c].root => Apart(lv, owner, lv, owner, root),
           ok => Reflects(mem', lv, owner, pre, job[c].root, Maps(c), job[c].req),
           ~ok /\ ~Current(c).checked =>
               /\ freepages = Null /\ job[c].root # KPGTBL
               /\ job[c].root # Null => NothingBelow(lv, owner, job[c].root, Levels - 1)
    PROVE  IInv'
  <1>0. UNCHANGED Used /\ job \in [Cores -> Jobs] /\ job[c] \in Jobs
    BY DEF Used, IInv, Types
  <1>w. Walks(lv, owner) /\ Entries(lv, owner) /\ Contents(lv, owner, pre)
    BY DEF Full
  <1>k. Kept(lv, owner, pre, lv, owner, pre) /\ lv \in [0..KPGTBL -> 0..Levels]
    BY <1>w DEF Kept, Entries
  <1>1. CASE (ok \/ ~Current(c).checked) /\ job[c].req < Len(Maps(c))
    <2>1. UNCHANGED <<kernel, at, made>>
      BY <1>1 DEF Returned
    <2>2. job' = [job EXCEPT ![c] = [job[c] EXCEPT !.req = job[c].req + 1, !.level = 1,
                                                   !.table = job[c].root]]
      BY <1>0, <1>1 DEF Returned
    <2>3. /\ job' \in [Cores -> Jobs]
          /\ job'[c].table = job[c].root /\ job'[c].level = 1 /\ job'[c].req = job[c].req + 1
          /\ job'[c].root = job[c].root /\ job'[c].tf = job[c].tf /\ job'[c].stack = job[c].stack
          /\ \A d \in Cores \ {c} : job'[d] = job[d]
      <3>1. 1 \in 1..Levels /\ job[c].root \in 0..KPGTBL /\ job[c].req + 1 \in Nat \ {0}
        BY <1>0, Sizes DEF Jobs
      <3> QED
        BY <1>0, <2>2, <3>1 DEF Jobs
    <2>4. Types' /\ KernelTurn'
      BY <2>1, <2>3 DEF IInv, Types, KernelTurn
    <2>5. JobMeans'
      <3>1. Maps(c)' = Maps(c) /\ \A d \in Cores \ {c} : Maps(d)' = Maps(d)
        BY <2>3 DEF Maps, InKernel
      <3>2. job'[c].req \in 1..Len(Maps(c)')
        BY <1>1, <2>3, <3>1 DEF IInv, JobMeans
      <3> QED
        BY <1>0, <2>1, <2>3, <3>1, <3>2 DEF IInv, JobMeans
    <2>6. RootsDiffer'
      BY <2>3 DEF IInv, RootsDiffer
    <2>7. ShortOfPages'
      BY <2>1, <2>3 DEF IInv, ShortOfPages, Missing, Empty
    <2>8. Walks(lv, owner)'
      BY <1>0, <1>w, <2>1, <2>3 DEF Walks
    <2>9. Contents(lv, owner, pre)'
      <3>1. /\ \A d \in Cores \ {c} : JobContents(lv, owner, pre, d)'
            /\ \A t \in made : TaskContents(lv, owner, pre, t)'
            /\ kernel = "ok" => KernelContents(lv, owner, pre)'
        BY <1>k, <2>1, <2>3, OthersKept
      <3>2. ASSUME job[c].root # Null PROVE Built(lv, owner, pre, c)'
        <4>1. job[c].root \in 0..KPGTBL /\ lv[job[c].root] = 1 /\ owner[job[c].root] = job[c].root
          BY <1>0, <1>w, <3>2 DEF Jobs, Walks
        <4>2. /\ Alike(pre[job'[c].table], Current(c)'.va, job'[c].level - 1)
              /\ Chain(lv, owner, pre, job'[c].root, Current(c)'.va, job'[c].level)
          <5>1. job'[c].level - 1 = 1 - 1
            BY <2>3
          <5>2. /\ Alike(pre[job[c].root], Current(c)'.va, 1 - 1)
                /\ Chain(lv, owner, pre, job[c].root, Current(c)'.va, 1)
            BY <4>1, RootChain
          <5> QED
            BY <2>3, <5>1, <5>2, Zenon
        <4>3. job'[c].req # 1 /\ job'[c].req - 1 = job[c].req
          <5>1. job[c].req \in Nat \ {0}
            BY <1>0 DEF Jobs
          <5> QED
            BY <2>3, <5>1
        <4>4. Maps(c)' = Maps(c)
          BY <2>3 DEF Maps, InKernel
        <4>5. \/ /\ freepages' = Null /\ job'[c].root # KPGTBL
                 /\ NothingBelow(lv, owner, job'[c].root, Levels - 1)
              \/ Reflects(mem', lv, owner, pre, job'[c].root, Maps(c)', job'[c].req - 1)
          BY <1>1, <2>3, <3>2, <4>3, <4>4
        <4> QED
          BY <4>2, <4>3, <4>5 DEF Built
      <3>3. \A d \in Cores : JobContents(lv, owner, pre, d)'
        BY <2>1, <2>3, <3>1, <3>2 DEF JobContents
      <3>4. \A d \in Cores : \A t \in made : job'[d].root # t.root
        BY <1>w, <2>3 DEF Contents
      <3> QED
        BY <2>1, <3>1, <3>3, <3>4 DEF Contents
    <2> QED
      BY <2>4, <2>5, <2>6, <2>7, <2>8, <2>9 DEF IInv, Shape, Full
  <1>2. CASE ~((ok \/ ~Current(c).checked) /\ job[c].req < Len(Maps(c)))
    <2>1. /\ job' = [job EXCEPT ![c] = NoJob] /\ at' = [at EXCEPT ![c] = "idle"]
          /\ IF InKernel(c)
             THEN kernel' = (IF ok THEN "ok" ELSE "failed") /\ UNCHANGED made
             ELSE /\ made' = IF ok THEN made \cup {[root |-> job[c].root, tf |-> job[c].tf,
                                                    stack |-> job[c].stack]}
                                   ELSE made
                  /\ UNCHANGED kernel
      BY <1>2 DEF Returned
    <2>2. /\ job' \in [Cores -> Jobs] /\ job'[c] = NoJob
          /\ at' \in [Cores -> {"idle", "tf", "stack", "walk"}] /\ at'[c] = "idle"
          /\ \A d \in Cores \ {c} : job'[d] = job[d] /\ at'[d] = at[d]
      BY <1>0, <2>1, NoJobValues DEF IInv, Types
    <2>3. Types'
      BY <2>1, <2>2 DEF IInv, Types
    <2>4. KernelTurn'
      <3>1. CASE InKernel(c)
        <4>1. kernel = "running" /\ kernel' # "running"
          BY <2>1, <3>1 DEF InKernel, IInv, KernelTurn
        <4>2. c = Primary /\ \A d \in Cores \ {c} : job[d] = NoJob
          BY <4>1 DEF IInv, KernelTurn, JobMeans
        <4> QED
          BY <4>1, <4>2, <2>2, NoJobValues, Sizes DEF KernelTurn
      <3>2. CASE ~InKernel(c)
        <4>1. kernel # "running" /\ kernel' = kernel
          BY <2>1, <3>2 DEF InKernel, IInv, KernelTurn
        <4> QED
          BY <4>1, <2>2, NoJobValues, Sizes DEF IInv, KernelTurn
      <3> QED
        BY <3>1, <3>2
    <2>5. JobMeans'
      <3>1. \A d \in Cores \ {c} : Maps(d)' = Maps(d)
        BY <2>2 DEF Maps, InKernel
      <3> QED
        BY <1>0, <2>2, <3>1, NoJobValues DEF IInv, JobMeans
    <2>6. RootsDiffer'
      BY <2>2, NoJobValues DEF IInv, RootsDiffer
    <2>7. ShortOfPages'
      BY <2>2 DEF IInv, ShortOfPages, Missing, Empty
    <2>8. Walks(lv, owner)'
      <3>1. \A t \in made' : /\ t.root \in Used' /\ t.tf \in Used' /\ t.stack \in Used'
                             /\ lv[t.root] = 1 /\ lv[t.tf] = 0 /\ lv[t.stack] = 0
        <4>1. CASE InKernel(c) \/ ~ok
          BY <1>0, <1>w, <2>1, <4>1 DEF Walks
        <4>2. CASE ~InKernel(c) /\ ok
          <5>1. job[c].root \in Used /\ job[c].tf \in Used /\ job[c].stack \in Used
            BY <4>2 DEF Missing, InKernel, IInv, JobMeans
          <5>2. lv[job[c].root] = 1 /\ lv[job[c].tf] = 0 /\ lv[job[c].stack] = 0
            BY <1>w, <4>2 DEF Missing, InKernel, Walks
          <5> QED
            BY <1>0, <1>w, <2>1, <4>2, <5>1, <5>2 DEF Walks
        <4> QED
          BY <4>1, <4>2
      <3>2. lv[Null] = 0
        BY <1>w, Sizes DEF Entries, IInv, Types
      <3> QED
        BY <1>w, <2>2, <3>1, <3>2, NoJobValues DEF Walks
    <2>9. Contents(lv, owner, pre)'
      <3>1. /\ \A d \in Cores \ {c} : JobContents(lv, owner, pre, d)'
            /\ \A t \in made : TaskContents(lv, owner, pre, t)'
            /\ kernel = "ok" => KernelContents(lv, owner, pre)'
        BY <1>k, <2>2, OthersKept
      <3>2. \A d \in Cores : JobContents(lv, owner, pre, d)'
        BY <2>2, <3>1, NoJobValues DEF JobContents
      <3>3. ok => job[c].req = Len(Maps(c))
        BY <1>2, MapsRequests DEF IInv, JobMeans
      <3>4. \A d \in Cores : \A t \in made : job'[d].root # t.root
        <4>1. \A t \in made : t.root # Null
          BY <1>w, Sizes DEF Walks, Used, IInv, Types
        <4> QED
          BY <1>w, <2>2, <4>1, NoJobValues DEF Contents
      <3>5. CASE InKernel(c)
        <4>1. kernel' = "ok" => KernelContents(lv, owner, pre)'
          BY <2>1, <3>3, <3>5 DEF KernelContents, InKernel, Maps
        <4> QED
          BY <2>1, <3>1, <3>2, <3>4, <3>5, <4>1 DEF Contents
      <3>6. CASE ~InKernel(c) /\ ~ok
        BY <2>1, <3>1, <3>2, <3>4, <3>6 DEF Contents
      <3>7. CASE ~InKernel(c) /\ ok
        <4>a. PICK new : new = [root |-> job[c].root, tf |-> job[c].tf, stack |-> job[c].stack]
          OBVIOUS
        <4>1. made' = made \cup {new} /\ kernel' = kernel
          BY <2>1, <3>7, <4>a
        <4>2. new.root = job[c].root /\ new.tf = job[c].tf /\ new.stack = job[c].stack
          BY <4>a
        <4>3. TaskContents(lv, owner, pre, new)'
          BY <3>3, <3>7, <4>2 DEF TaskContents, Maps
        <4>4. \A d \in Cores : job'[d].root # new.root
          <5>1. job[c].root # Null
            BY <3>7 DEF Missing, InKernel
          <5>2. \A d \in Cores \ {c} : job[d].root # job[c].root
            BY <5>1 DEF IInv, RootsDiffer
          <5> QED
            BY <2>2, <4>2, <5>1, <5>2, NoJobValues
        <4> QED
          BY <3>1, <3>2, <3>4, <4>1, <4>3, <4>4 DEF Contents
      <3> QED
        BY <3>5, <3>6, <3>7
    <2> QED
      BY <2>3, <2>4, <2>5, <2>6, <2>7, <2>8, <2>9 DEF IInv, Shape, Full
  <1> QED
    BY <1>1, <1>2

(* kpgtbl_init looks at every result of mapva, user_task_create at all but *)
(* the first two.                                                          *)
LEMMA KernelChecked == \A k \in 1..Len(KernelMaps) : KernelMaps[k].checked
  <1> DEFINE Checked == {r \in Requests : r.checked}
  <1>1. \A range \in Seq(VAs), type \in {"normal", "inner_shareable", "device"} :
           Identity(range, type) \in Seq(Checked)
    <2> SUFFICES ASSUME NEW range \in Seq(VAs), NEW type \in {"normal", "inner_shareable", "device"}
                 PROVE  Identity(range, type) \in Seq(Checked)
      OBVIOUS
    <2>1. Identity(range, type) \in Seq(Requests) /\ Len(Identity(range, type)) = Len(range)
      BY IdentityRequests
    <2>2. \A i \in 1..Len(range) : Identity(range, type)[i].checked
      BY DEF Identity, Map
    <2> QED
      BY <2>1, <2>2
  <1>2. \A range \in Seq(VAs), name \in {"kstack1", "cpus"} : Indexed(range, name) \in Seq(Checked)
    <2> SUFFICES ASSUME NEW range \in Seq(VAs), NEW name \in {"kstack1", "cpus"}
                 PROVE  Indexed(range, name) \in Seq(Checked)
      OBVIOUS
    <2>1. Indexed(range, name) \in Seq(Requests)
      BY IndexedRequests
    <2>2. \A i \in DOMAIN range : Indexed(range, name)[i].checked
      BY DEF Indexed, Map
    <2>3. DOMAIN Indexed(range, name) = DOMAIN range
      BY DEF Indexed
    <2> QED
      BY <2>1, <2>2, <2>3
  <1>3. {TMP, KERN, SHARED, DEVICES, KSTACK, MY_CPU} \subseteq Seq(VAs)
    BY VmConstants
  <1>4. KernelMaps \in Seq(Checked)
    <2>1. /\ Identity(TMP, "normal") \in Seq(Checked)
          /\ Identity(KERN, "normal") \in Seq(Checked)
          /\ Identity(SHARED, "inner_shareable") \in Seq(Checked)
          /\ Identity(DEVICES, "device") \in Seq(Checked)
          /\ Indexed(KSTACK, "kstack1") \in Seq(Checked)
          /\ Indexed(MY_CPU, "cpus") \in Seq(Checked)
      BY <1>1, <1>2, <1>3
    <2> HIDE DEF Checked
    <2> QED
      BY <2>1 DEF KernelMaps
  <1> QED
    BY <1>4

LEMMA UserUnchecked ==
    ASSUME NEW tf \in 0..NumPages, NEW stack \in 0..NumPages,
           NEW k \in 1..Len(UserMaps(tf, stack)), ~UserMaps(tf, stack)[k].checked
    PROVE  k \in {1, 2}
  <1> DEFINE two == << Map(TRAPFRAME, <<"pool", tf>>, "normal", FALSE),
                       Map(STACK, <<"pool", stack>>, "normal", FALSE) >>
             low == Identity(TRAMPOLINE, "normal")
             high == Indexed(USER, "main")
  <1>1. two \in Seq(Requests) /\ Len(two) = 2
    BY VmConstants DEF Map, Requests
  <1>2. /\ low \in Seq(Requests) /\ high \in Seq(Requests)
        /\ \A i \in 1..Len(low) : low[i].checked
        /\ \A i \in 1..Len(high) : high[i].checked
    <2>1. low \in Seq(Requests) /\ high \in Seq(Requests)
      BY VmConstants, IdentityRequests, IndexedRequests
    <2>2. \A i \in DOMAIN low : low[i].checked
      BY DEF Identity, Map
    <2>3. \A i \in DOMAIN high : high[i].checked
      BY DEF Indexed, Map
    <2> HIDE DEF low, high
    <2> QED
      BY <2>1, <2>2, <2>3
  <1>3. UserMaps(tf, stack) = two \o low \o high
    BY DEF UserMaps
  <1> HIDE DEF two, low, high
  <1>a. PICK both : both = two \o low
    OBVIOUS
  <1>t. two \in Seq(Requests) /\ low \in Seq(Requests)
    BY <1>1, <1>2
  <1>b. /\ both \in Seq(Requests) /\ Len(both) = 2 + Len(low)
        /\ \A i \in 1..(2 + Len(low)) : both[i] = IF i <= 2 THEN two[i] ELSE low[i - 2]
    <2>1. /\ two \o low \in Seq(Requests) /\ Len(two \o low) = Len(two) + Len(low)
          /\ \A i \in 1..(Len(two) + Len(low)) :
               (two \o low)[i] = IF i <= Len(two) THEN two[i] ELSE low[i - Len(two)]
      BY <1>t, ConcatProperties
    <2> QED
      BY <1>1, <1>a, <2>1
  <1>c. /\ Len(both \o high) = Len(both) + Len(high)
        /\ \A i \in 1..(Len(both) + Len(high)) :
             (both \o high)[i] = IF i <= Len(both) THEN both[i] ELSE high[i - Len(both)]
    BY <1>2, <1>b, ConcatProperties
  <1>d. /\ UserMaps(tf, stack) = both \o high /\ Len(low) \in Nat /\ Len(high) \in Nat
        /\ k \in 1..(Len(both) + Len(high))
    BY <1>2, <1>3, <1>a, <1>c
  <1> SUFFICES ASSUME k > 2 PROVE FALSE
    BY <1>d
  <1>4. CASE k <= 2 + Len(low)
    <2>1. k - 2 \in 1..Len(low) /\ both[k] = low[k - 2] /\ (both \o high)[k] = both[k]
      BY <1>b, <1>c, <1>d, <1>4
    <2> QED
      BY <1>2, <1>d, <2>1
  <1>5. CASE k > 2 + Len(low)
    <2>1. k - Len(both) \in 1..Len(high) /\ (both \o high)[k] = high[k - Len(both)]
      BY <1>b, <1>c, <1>d, <1>5
    <2> QED
      BY <1>2, <1>d, <2>1
  <1> QED
    BY <1>d, <1>4, <1>5

LEMMA FirstTwo ==
    ASSUME NEW tf \in 0..NumPages, NEW stack \in 0..NumPages
    PROVE  UserMaps(tf, stack)[1].va = TRAPFRAME /\ UserMaps(tf, stack)[2].va = STACK
  <1> DEFINE two == << Map(TRAPFRAME, <<"pool", tf>>, "normal", FALSE),
                       Map(STACK, <<"pool", stack>>, "normal", FALSE) >>
             low == Identity(TRAMPOLINE, "normal")
             high == Indexed(USER, "main")
  <1>1. two \in Seq(Requests) /\ Len(two) = 2
    BY VmConstants DEF Map, Requests
  <1>2. low \in Seq(Requests) /\ high \in Seq(Requests)
    BY VmConstants, IdentityRequests, IndexedRequests
  <1>3. two[1].va = TRAPFRAME /\ two[2].va = STACK
    BY DEF Map
  <1>4. UserMaps(tf, stack) = two \o low \o high
    BY DEF UserMaps
  <1> HIDE DEF two, low, high
  <1>5. /\ two \o low \in Seq(Requests) /\ Len(two \o low) = 2 + Len(low)
        /\ (two \o low)[1] = two[1] /\ (two \o low)[2] = two[2]
    <2>1. /\ two \o low \in Seq(Requests) /\ Len(two \o low) = Len(two) + Len(low)
          /\ \A i \in 1..(Len(two) + Len(low)) :
               (two \o low)[i] = IF i <= Len(two) THEN two[i] ELSE low[i - Len(two)]
      BY <1>1, <1>2, ConcatProperties
    <2>2. 1 \in 1..(2 + Len(low)) /\ 2 \in 1..(2 + Len(low))
      BY <1>2
    <2> QED
      BY <1>1, <2>1, <2>2
  <1>6. (two \o low \o high)[1] = two[1] /\ (two \o low \o high)[2] = two[2]
    <2>1. /\ 1 \in 1..(Len(two \o low) + Len(high)) /\ 2 \in 1..(Len(two \o low) + Len(high))
          /\ 1 <= Len(two \o low) /\ 2 <= Len(two \o low)
      BY <1>2, <1>5
    <2> QED
      BY <1>2, <1>5, <2>1, ConcatProperties
  <1> QED
    BY <1>3, <1>4, <1>6

(* The trap frame and the stack share their table of the last level, so    *)
(* that the second call of mapva fails only when the first one has.        *)
LEMMA IgnoredFailure ==
    ASSUME IInv, NEW c \in Cores, at[c] = "walk", job[c].level < Levels,
           Entry(c).kind = "invalid", ~Current(c).checked, job[c].root # Null,
           NEW lv, NEW owner, NEW pre, Full(lv, owner, pre)
    PROVE  NothingBelow(lv, owner, job[c].root, Levels - 1)
  <1>1. /\ job[c] \in Jobs /\ job[c].level \in 1..Levels /\ job[c].table \in 0..KPGTBL
        /\ job[c].tf \in 0..NumPages /\ job[c].stack \in 0..NumPages
        /\ job[c].req \in 1..Len(Maps(c))
    BY DEF IInv, Types, Jobs, JobMeans
  <1>2. Maps(c) = UserMaps(job[c].tf, job[c].stack)
    BY <1>1, KernelChecked DEF Current, Maps
  <1>3. job[c].req \in {1, 2}
    BY <1>1, <1>2, UserUnchecked DEF Current
  <1>4. Built(lv, owner, pre, c)
    BY DEF Full, Contents, JobContents
  <1>5. CASE job[c].req = 1
    <2>1. \A p \in 0..KPGTBL : lv[p] > Levels - 1 => lv[p] > job[c].level
      <3>1. lv \in [0..KPGTBL -> 0..Levels]
        BY DEF Full, Entries
      <3>2. job[c].level \in Nat /\ Levels \in Nat /\ job[c].level < Levels
        BY <1>1, Sizes
      <3>3. \A p \in 0..KPGTBL : lv[p] \in Nat
        BY <3>1
      <3> QED
        BY <3>2, <3>3
    <2> QED
      BY <1>4, <1>5, <2>1 DEF Built, NothingBelow
  <1>6. CASE job[c].req = 2
    <2> SUFFICES ASSUME Reflects(mem, lv, owner, pre, job[c].root, Maps(c), job[c].req - 1)
                 PROVE  FALSE
      BY <1>4 DEF Built
    <2>1. Current(c).va = STACK /\ Maps(c)[1].va = TRAPFRAME /\ STACK \in VAs
      <3>1. Maps(c)[1].va = TRAPFRAME /\ Maps(c)[2].va = STACK
        BY <1>1, <1>2, FirstTwo
      <3> QED
        BY <1>6, <3>1, VmConstants DEF Current
    <2>2. Chain(lv, owner, pre, job[c].root, TRAPFRAME, Levels)
      BY <1>6, <2>1 DEF Reflects
    <2>3. PICK q \in 0..KPGTBL :
             /\ lv[q] = job[c].level + 1 /\ owner[q] = job[c].root
             /\ Alike(pre[q], TRAPFRAME, job[c].level)
      <3>1. job[c].level \in 1..Levels /\ Levels \in Nat
        BY <1>1, Sizes
      <3>2. job[c].level + 1 \in 1..Levels /\ (job[c].level + 1) - 1 = job[c].level
        BY <3>1
      <3> QED
        BY <2>2, <3>2 DEF Chain
    <2>4. Alike(pre[q], STACK, job[c].level)
      <3>1. \A l \in 1..job[c].level : l \in 1..(Levels - 1)
        BY <1>1, Sizes
      <3> QED
        BY <2>3, <3>1, VmLayout DEF Alike
    <2>5. lv[job[c].table] = job[c].level /\ owner[job[c].table] = job[c].root
      BY DEF Full, Walks
    <2>6. Alike(pre[job[c].table], STACK, job[c].level - 1)
      BY <1>4, <2>1 DEF Built
    <2>7. mem[job[c].table][STACK[job[c].level]].kind = "table"
      <3> PICK p \in 0..KPGTBL : p = job[c].table
        BY <1>1
      <3>1. lv[p] > 0 /\ lv[q] = lv[p] + 1
        BY <1>1, <2>3, <2>5
      <3>2. Entries(lv, owner) /\ Paths(lv, owner, pre) /\ owner[q] = owner[p]
        BY <2>3, <2>5 DEF Full
      <3>3. Alike(pre[p], STACK, lv[p] - 1) /\ Alike(pre[q], STACK, lv[p])
        BY <2>4, <2>5, <2>6
      <3>4. mem[p][STACK[lv[p]]].kind = "table"
        BY <2>1, <3>1, <3>2, <3>3, Linked
      <3> QED
        BY <2>5, <3>4
    <2> QED
      BY <2>1, <2>7 DEF Entry, Index
  <1> QED
    BY <1>3, <1>5, <1>6

LEMMA MapFailsIInv ==
    ASSUME IInv, NEW c \in Cores, MapFails(c)
    PROVE  IInv'
  <1>1. /\ at[c] = "walk" /\ job[c].level < Levels /\ Entry(c).kind = "invalid"
        /\ freepages = Null /\ Returned(c, FALSE) /\ UNCHANGED <<freepages, mem>>
    BY DEF MapFails, Walking
  <1> PICK lv, owner, pre : Full(lv, owner, pre)
    BY DEF IInv, Shape
  <1>2. Entries(lv, owner)' /\ OneParent' /\ Paths(lv, owner, pre)'
    BY <1>1 DEF Full, Entries, Paths, IInv, OneParent
  <1>3. DOMAIN mem' = 0..KPGTBL /\ \A p \in 0..KPGTBL : DOMAIN mem'[p] = Fan
    BY <1>1 DEF IInv, Types
  <1>4. \A d \in Cores : at[d] # "idle" => mem'[job[d].root] = mem[job[d].root]
    BY <1>1
  <1>5. \A root \in 0..KPGTBL : Apart(lv, owner, lv, owner, root)
    BY <1>1, SameLabels
  <1>6. ASSUME ~Current(c).checked
        PROVE  /\ job[c].root # KPGTBL
               /\ job[c].root # Null => NothingBelow(lv, owner, job[c].root, Levels - 1)
    <2>1. job[c].root # KPGTBL
      BY <1>1, <1>6, KernelChecked DEF Current, Maps, InKernel, IInv, JobMeans
    <2> QED
      BY <1>1, <1>6, <2>1, IgnoredFailure
  <1> QED
    BY <1>1, <1>2, <1>3, <1>4, <1>5, <1>6, ReturnedIInv

LEMMA LatestNext ==
    ASSUME NEW maps, NEW n \in Nat \ {0}, NEW va, NEW entry,
           Latest(maps, n - 1, va, entry), maps[n].va # va
    PROVE  Latest(maps, n, va, entry)
  <1>1. CASE entry = Invalid /\ \A k \in 1..(n - 1) : maps[k].va # va
    <2>1. \A k \in 1..n : k = n \/ k \in 1..(n - 1)
      OBVIOUS
    <2> QED
      BY <1>1, <2>1 DEF Latest
  <1>2. ASSUME NEW k \in 1..(n - 1), maps[k].va = va,
               \A j \in (k + 1)..(n - 1) : maps[j].va # va,
               entry = Leaf(maps[k].pa, maps[k].type)
        PROVE  Latest(maps, n, va, entry)
    <2>1. k \in 1..n /\ \A j \in (k + 1)..n : j = n \/ j \in (k + 1)..(n - 1)
      OBVIOUS
    <2> QED
      BY <1>2, <2>1 DEF Latest
  <1> QED
    BY <1>1, <1>2 DEF Latest

LEMMA SetPteIInv ==
    ASSUME IInv, NEW c \in Cores, SetPte(c)
    PROVE  IInv'
  <1>0. at[c] = "walk" /\ job[c].level = Levels /\ Returned(c, TRUE) /\ UNCHANGED freepages
    BY DEF SetPte
  <1>1. ~Missing(c)
    BY <1>0, MissingTable, Sizes
  <1> PICK lv, owner, pre : /\ Entries(lv, owner) /\ Walks(lv, owner)
                            /\ Paths(lv, owner, pre) /\ Contents(lv, owner, pre)
    BY DEF IInv, Shape, Full
  <1>2. /\ job[c].table \in 0..KPGTBL /\ lv[job[c].table] = Levels /\ Index(c) \in Fan
        /\ owner[job[c].table] = job[c].root /\ job[c].root # Null
    BY <1>0, <1>1, WalkingTable
  <1>l. PICK leaf : leaf = Leaf(Current(c).pa, Current(c).type)
    OBVIOUS
  <1>3. /\ leaf.kind = "page" /\ leaf.to = Null
        /\ mem' = [mem EXCEPT ![job[c].table][Index(c)] = leaf]
    BY <1>l, Descriptors DEF SetPte
  <1>4. DOMAIN mem = 0..KPGTBL /\ \A p \in 0..KPGTBL : DOMAIN mem[p] = Fan
    BY DEF IInv, Types
  <1>5. /\ DOMAIN mem' = 0..KPGTBL /\ \A p \in 0..KPGTBL : DOMAIN mem'[p] = Fan
        /\ \A p \in 0..KPGTBL : p # job[c].table => mem'[p] = mem[p]
        /\ \A i \in Fan : mem'[job[c].table][i] = IF i = Index(c) THEN leaf ELSE mem[job[c].table][i]
    BY <1>2, <1>3, <1>4
  <1>6. \A d \in Cores : at[d] # "idle" => mem'[job[d].root] = mem[job[d].root]
    <2> SUFFICES ASSUME NEW d \in Cores, at[d] # "idle" PROVE mem'[job[d].root] = mem[job[d].root]
      OBVIOUS
    <2>1. job[d].root \in 0..KPGTBL
      BY DEF IInv, Types, Jobs
    <2>2. lv[job[d].root] \in {0, 1}
      <3>1. lv[Null] = 0
        BY Sizes DEF Entries, IInv, Types
      <3> QED
        BY <3>1 DEF Walks
    <2> QED
      BY <1>2, <1>5, <2>1, <2>2, Sizes
  <1>7. Entries(lv, owner)'
    <2>1. ASSUME NEW p \in 0..KPGTBL, NEW i \in Fan
          PROVE  \/ mem'[p][i] = mem[p][i]
                 \/ lv[p] = Levels /\ mem'[p][i].kind = "page" /\ mem'[p][i].to = Null
      BY <1>2, <1>3, <1>5
    <2> QED
      BY <1>0, <2>1 DEF Entries
  <1>8. OneParent'
    <2> SUFFICES ASSUME NEW p \in 0..KPGTBL, NEW q \in 0..KPGTBL, NEW i \in Fan, NEW j \in Fan,
                        mem'[p][i].to # Null, mem'[p][i].to = mem'[q][j].to
                 PROVE  p = q /\ i = j
      BY DEF OneParent
    <2>1. mem'[p][i] = mem[p][i] /\ mem'[q][j] = mem[q][j]
      BY <1>3, <1>5
    <2> QED
      BY <2>1 DEF IInv, OneParent
  <1>9. Paths(lv, owner, pre)'
    <2>1. \A i \in Fan : mem[job[c].table][i].kind # "table"
      <3>1. lv[job[c].table] > 0 /\ ~(lv[job[c].table] < Levels)
        BY <1>2, Sizes
      <3> QED
        BY <1>2, <3>1 DEF Entries
    <2> QED
      BY <1>3, <1>5, <2>1, PathsKept
  <1>10. \A root \in 0..KPGTBL : root # job[c].root => Apart(lv, owner, lv, owner, root)
    BY <1>2, <1>5, SameLabels
  <1>11. Reflects(mem', lv, owner, pre, job[c].root, Maps(c), job[c].req)
    <2>1. Built(lv, owner, pre, c)
      BY <1>0, <1>2 DEF Contents, JobContents
    <2>2. /\ job[c].req \in 1..Len(Maps(c)) /\ job[c].req \in Nat \ {0}
          /\ Current(c) \in Requests /\ Current(c).va \in VAs
          /\ Current(c) = Maps(c)[job[c].req]
      <3>1. job[c].req \in 1..Len(Maps(c)) /\ Maps(c) \in Seq(Requests)
        BY <1>0, MapsRequests DEF IInv, JobMeans
      <3>2. job[c].req \in Nat \ {0}
        BY DEF IInv, Types, Jobs
      <3>3. Current(c) = Maps(c)[job[c].req] /\ Current(c) \in Requests
        BY <3>1 DEF Current
      <3> QED
        BY <3>1, <3>2, <3>3 DEF Requests
    <2>3. Reflects(mem, lv, owner, pre, job[c].root, Maps(c), job[c].req - 1)
      <3>1. ~NothingBelow(lv, owner, job[c].root, Levels - 1)
        BY <1>2, Sizes DEF NothingBelow
      <3> QED
        BY <2>1, <3>1 DEF Built
    <2>4. ASSUME NEW k \in 1..job[c].req
          PROVE  Chain(lv, owner, pre, job[c].root, Maps(c)[k].va, Levels)
      <3>1. CASE k = job[c].req
        BY <1>0, <2>1, <2>2, <3>1 DEF Built
      <3>2. CASE k # job[c].req
        <4>1. k \in 1..(job[c].req - 1)
          BY <2>2, <3>2
        <4> QED
          BY <2>3, <4>1 DEF Reflects
      <3> QED
        BY <3>1, <3>2
    <2>5. ASSUME NEW p \in 0..KPGTBL, NEW i \in Fan, lv[p] = Levels, owner[p] = job[c].root
          PROVE  Latest(Maps(c), job[c].req, [pre[p] EXCEPT ![Levels] = i], mem'[p][i])
      <3>0. pre[p] \in VAs /\ Levels \in 1..Levels
        BY Sizes DEF Paths
      <3>1. CASE p = job[c].table /\ i = Index(c)
        <4>1. [pre[p] EXCEPT ![Levels] = i] = Current(c).va
          <5>1. Alike(pre[p], Current(c).va, Levels - 1) /\ Current(c).va[Levels] = i
            BY <1>0, <2>1, <3>1 DEF Built, Index
          <5>2. \A l \in 1..Levels : l # Levels => pre[p][l] = Current(c).va[l]
            BY <5>1, Sizes DEF Alike
          <5> QED
            BY <2>2, <3>0, <5>1, <5>2 DEF VAs
        <4>2. mem'[p][i] = Leaf(Current(c).pa, Current(c).type)
          BY <1>l, <1>5, <3>1
        <4>3. job[c].req \in 1..job[c].req /\ ~\E j : j \in (job[c].req + 1)..job[c].req
          BY <2>2
        <4> QED
          BY <2>2, <4>1, <4>2, <4>3 DEF Latest
      <3>2. CASE ~(p = job[c].table /\ i = Index(c))
        <4>1. mem'[p][i] = mem[p][i]
          BY <1>5, <3>2
        <4>2. [pre[p] EXCEPT ![Levels] = i] # Current(c).va
          <5> SUFFICES ASSUME [pre[p] EXCEPT ![Levels] = i] = Current(c).va PROVE FALSE
            OBVIOUS
          <5>1. i = Current(c).va[Levels] /\ \A l \in 1..Levels : l # Levels => pre[p][l] = Current(c).va[l]
            BY <3>0 DEF VAs
          <5>2. i = Index(c)
            BY <1>0, <5>1 DEF Index
          <5>3. Alike(pre[p], pre[job[c].table], Levels - 1)
            <6>1. Alike(pre[job[c].table], Current(c).va, Levels - 1)
              BY <1>0, <2>1 DEF Built
            <6> QED
              BY <5>1, <6>1, Sizes DEF Alike
          <5>4. p = job[c].table
            BY <1>2, <2>5, <5>3, Sizes DEF Paths
          <5> QED
            BY <3>2, <5>2, <5>4
        <4>3. Latest(Maps(c), job[c].req - 1, [pre[p] EXCEPT ![Levels] = i], mem[p][i])
          BY <2>3, <2>5 DEF Reflects
        <4>4. Maps(c)[job[c].req].va # [pre[p] EXCEPT ![Levels] = i]
          BY <2>2, <4>2
        <4> QED
          BY <2>2, <4>1, <4>3, <4>4, LatestNext
      <3> QED
        BY <3>1, <3>2
    <2> QED
      BY <2>4, <2>5 DEF Reflects
  <1> QED
    BY <1>0, <1>1, <1>5, <1>6, <1>7, <1>8, <1>9, <1>10, <1>11, ReturnedIInv DEF Full
-----------------------------------------------------------------------------
(* walk takes a page, clears it and links it: the page becomes a table of  *)
(* the next level in the address space of the core.                        *)
LEMMA AllocIInv ==
    ASSUME IInv, NEW c \in Cores, Alloc(c)
    PROVE  IInv'
  <1>1. /\ at[c] = "walk" /\ job[c].level < Levels /\ freepages # Null /\ freepages' = freepages - 1
        /\ UNCHANGED <<kernel, at, made>> /\ ~Missing(c)
    BY DEF Alloc, Walking, IInv, ShortOfPages
  <1>2. /\ freepages \in Pages /\ freepages' \in 0..NumPages /\ freepages \in 0..KPGTBL
        /\ freepages # KPGTBL
        /\ Used' = Used \cup {freepages} /\ freepages \notin Used /\ Used \subseteq 0..NumPages
    BY <1>1, Sizes DEF IInv, Types, Used
  <1> PICK lv, owner, pre : /\ Entries(lv, owner) /\ Walks(lv, owner)
                            /\ Paths(lv, owner, pre) /\ Contents(lv, owner, pre)
    BY DEF IInv, Shape, Full
  <1>3. /\ job[c].root # Null
        /\ job[c].table \in 0..KPGTBL /\ job[c].level \in 1..Levels
        /\ lv[job[c].table] = job[c].level /\ owner[job[c].table] = job[c].root
        /\ job[c].table # freepages
        /\ Index(c) \in Fan
    <2>1. freepages \in 0..freepages
      BY <1>2, Sizes
    <2> QED
      BY <1>1, <2>1, WalkingTable
  <1>4. lv[freepages] = 0
    BY <1>2, Sizes DEF Entries
  <1>5. DOMAIN mem = 0..KPGTBL /\ \A p \in 0..KPGTBL : DOMAIN mem[p] = Fan
    BY DEF IInv, Types
  <1>6. /\ DOMAIN mem' = 0..KPGTBL /\ \A p \in 0..KPGTBL : DOMAIN mem'[p] = Fan
        /\ \A p \in 0..KPGTBL : p \notin {job[c].table, freepages} => mem'[p] = mem[p]
        /\ \A i \in Fan : mem'[freepages][i] = Invalid
        /\ \A i \in Fan : mem'[job[c].table][i] =
                            IF i = Index(c) THEN Table(freepages) ELSE mem[job[c].table][i]
    BY <1>2, <1>3, <1>5 DEF Alloc, Zeroed
  <1>7. /\ job' \in [Cores -> Jobs]
        /\ job'[c].table = freepages /\ job'[c].level = job[c].level + 1
        /\ job'[c].root = job[c].root /\ job'[c].tf = job[c].tf /\ job'[c].stack = job[c].stack
        /\ job'[c].req = job[c].req
        /\ \A d \in Cores \ {c} : job'[d] = job[d]
    <2>1. freepages \in 0..KPGTBL /\ job[c].level + 1 \in 1..Levels
      BY <1>1, <1>2, <1>3, Sizes
    <2>2. job \in [Cores -> Jobs]
      BY DEF IInv, Types
    <2>3. job' = [job EXCEPT ![c] = [job[c] EXCEPT !.table = freepages, !.level = job[c].level + 1]]
      BY <2>2 DEF Alloc
    <2> QED
      BY <2>1, <2>2, <2>3 DEF Jobs
  <1>8. Types'
    BY <1>1, <1>2, <1>6, <1>7 DEF IInv, Types
  <1>9. KernelTurn'
    <2>1. \A d \in Cores : job'[d].root = job[d].root
      BY <1>7
    <2> QED
      BY <1>1, <2>1, VmConstants DEF IInv, KernelTurn
  <1>10. JobMeans'
    <2>1. \A d \in Cores : Maps(d)' = Maps(d)
      BY <1>7 DEF Maps, InKernel
    <2> QED
      BY <1>1, <1>2, <1>7, <2>1 DEF IInv, JobMeans
  <1>11. RootsDiffer'
    BY <1>7 DEF IInv, RootsDiffer
  <1>12. ShortOfPages'
    <2>1. \A d \in Cores : ~Missing(d)'
      BY <1>1, <1>7 DEF IInv, ShortOfPages, Missing
    <2>2. ASSUME NEW d \in Cores, at[d] \in {"tf", "stack"}
          PROVE  job'[d].root # KPGTBL /\ Empty(job[d].root)'
      <3>1. d # c /\ job'[d] = job[d] /\ job[d].root # KPGTBL /\ Empty(job[d].root)
        BY <1>1, <1>7, <2>2 DEF IInv, ShortOfPages
      <3>2. job[d].root # Null
        BY <1>1, <2>2 DEF IInv, ShortOfPages, Missing
      <3>3. job[d].root # job[c].table
        BY <1>3, <2>2, <3>1, <3>2 DEF Walks, IInv, RootsDiffer
      <3>4. job[d].root \in 0..KPGTBL
        BY DEF IInv, Types, Jobs
      <3> QED
        BY <1>6, <3>1, <3>3, <3>4 DEF Empty
    <2> QED
      BY <1>1, <2>1, <2>2 DEF ShortOfPages
  <1>13. Shape'
    <2>0. lv \in [0..KPGTBL -> 0..Levels] /\ owner \in [0..KPGTBL -> 0..KPGTBL]
      BY DEF Entries
    <2>a. PICK lv2 : lv2 = Labelled(lv, freepages, job[c].level + 1)
      OBVIOUS
    <2>b. PICK owner2 : owner2 = Labelled(owner, freepages, job[c].root)
      OBVIOUS
    <2>1. /\ lv2 \in [0..KPGTBL -> 0..Levels]
          /\ \A p \in 0..KPGTBL : p # freepages => lv2[p] = lv[p]
          /\ lv2[freepages] = job[c].level + 1
      <3>1. job[c].level + 1 \in 0..Levels
        BY <1>1, <1>3, Sizes
      <3> QED
        BY <1>2, <2>0, <2>a, <3>1 DEF Labelled
    <2>2. /\ owner2 \in [0..KPGTBL -> 0..KPGTBL]
          /\ \A p \in 0..KPGTBL : p # freepages => owner2[p] = owner[p]
          /\ owner2[freepages] = job[c].root
      <3>1. job[c].root \in 0..KPGTBL
        BY DEF IInv, Types, Jobs
      <3> QED
        BY <1>2, <2>0, <2>b, <3>1 DEF Labelled
    <2>3. Entries(lv2, owner2)'
      <3>1. \A p \in 0..freepages' : lv2[p] = 0
        <4>1. \A p \in 0..freepages' : p \in 0..freepages /\ p \in 0..KPGTBL /\ p # freepages
          BY <1>1, <1>2, Sizes
        <4> QED
          BY <2>1, <4>1 DEF Entries
      <3>2. ASSUME NEW p \in 0..KPGTBL, NEW i \in Fan
            PROVE  /\ mem'[p][i].kind \in {"invalid", "table", "page"}
                   /\ lv2[p] = 0 \/ mem'[p][i].kind # "table" => mem'[p][i].to = Null
                   /\ lv2[p] > 0 /\ mem'[p][i].kind = "table" =>
                         /\ lv2[p] < Levels
                         /\ mem'[p][i].to \in Pages
                         /\ lv2[mem'[p][i].to] = lv2[p] + 1
                         /\ owner2[mem'[p][i].to] = owner2[p]
                   /\ lv2[p] > 0 /\ mem'[p][i].kind = "page" => lv2[p] = Levels
        <4>1. CASE p = freepages
          BY <1>6, <4>1, Descriptors
        <4>2. CASE p = job[c].table /\ i = Index(c)
          <5>1. mem'[p][i].kind = "table" /\ mem'[p][i].to = freepages
            BY <1>6, <4>2, Descriptors
          <5>2. lv2[p] = job[c].level /\ owner2[p] = job[c].root
            BY <1>3, <2>1, <2>2, <4>2
          <5>3. job[c].level \in 1..Levels /\ job[c].level < Levels
            BY <1>1, <1>3
          <5>4. lv2[p] > 0 /\ lv2[p] < Levels /\ lv2[freepages] = lv2[p] + 1
            BY <2>1, <5>2, <5>3
          <5> QED
            BY <1>2, <2>2, <5>1, <5>2, <5>4
        <4>3. CASE p # freepages /\ ~(p = job[c].table /\ i = Index(c))
          <5>1. lv2[p] = lv[p] /\ owner2[p] = owner[p] /\ lv[p] \in Nat
            BY <2>0, <2>1, <2>2, <4>3
          <5>2. mem'[p][i] = mem[p][i]
            BY <1>6, <4>3
          <5>3. ASSUME lv[p] > 0, mem[p][i].kind = "table"
                PROVE  mem[p][i].to \in 0..KPGTBL /\ mem[p][i].to # freepages
            <6>1. mem[p][i].to \in Pages /\ lv[mem[p][i].to] = lv[p] + 1
              BY <5>3 DEF Entries
            <6>2. mem[p][i].to # freepages
              BY <1>4, <5>1, <6>1
            <6> QED
              BY <6>1, <6>2, PageRanges
          <5> QED
            BY <2>1, <2>2, <5>1, <5>2, <5>3 DEF Entries
        <4> QED
          BY <4>1, <4>2, <4>3
      <3>3. lv2[KPGTBL] = 1 /\ owner2[KPGTBL] = KPGTBL
        BY <1>2, <2>1, <2>2, PageRanges DEF Entries
      <3> QED
        BY <2>1, <2>2, <3>1, <3>2, <3>3 DEF Entries
    <2>4. Walks(lv2, owner2)'
      <3>1. ASSUME NEW d \in Cores
            PROVE  /\ job[d].root # freepages /\ job[d].tf # freepages /\ job[d].stack # freepages
                   /\ job[d].root \in 0..KPGTBL /\ job[d].tf \in 0..KPGTBL /\ job[d].stack \in 0..KPGTBL
                   /\ job[d].table \in 0..KPGTBL /\ job[d].level \in 1..Levels
        <4>1. job[d] \in Jobs
          BY DEF IInv, Types
        <4>2. /\ job[d].tf \in {Null} \cup Used /\ job[d].stack \in {Null} \cup Used
              /\ job[d].root \in {Null, KPGTBL} \cup Used
          BY DEF IInv, JobMeans
        <4> QED
          BY <1>1, <1>2, <4>1, <4>2, PageRanges DEF Jobs
      <3>2. ASSUME NEW d \in Cores, at[d] = "walk", job[d].root # Null
            PROVE  job[d].table # freepages
        BY <1>4, <3>1, <3>2 DEF Walks
      <3>3. \A d \in Cores :
               /\ at[d] # "idle" /\ job[d].root # Null =>
                     lv2[job[d].root] = 1 /\ owner2[job[d].root] = job[d].root
               /\ at[d] = "walk" /\ job[d].root # Null =>
                     lv2[job[d].table] = job[d].level /\ owner2[job[d].table] = job[d].root
               /\ lv2[job[d].tf] = 0 /\ lv2[job[d].stack] = 0
        <4> SUFFICES ASSUME NEW d \in Cores
                     PROVE  /\ at[d] # "idle" /\ job[d].root # Null =>
                                 lv2[job[d].root] = 1 /\ owner2[job[d].root] = job[d].root
                            /\ at[d] = "walk" /\ job[d].root # Null =>
                                 /\ lv2[job[d].table] = job[d].level
                                 /\ owner2[job[d].table] = job[d].root
                            /\ lv2[job[d].tf] = 0 /\ lv2[job[d].stack] = 0
          OBVIOUS
        <4>1. lv2[job[d].root] = lv[job[d].root] /\ owner2[job[d].root] = owner[job[d].root]
          BY <2>1, <2>2, <3>1
        <4>2. lv2[job[d].tf] = lv[job[d].tf] /\ lv2[job[d].stack] = lv[job[d].stack]
          BY <2>1, <3>1
        <4>3. at[d] = "walk" /\ job[d].root # Null =>
                /\ lv2[job[d].table] = lv[job[d].table]
                /\ owner2[job[d].table] = owner[job[d].table]
          BY <2>1, <2>2, <3>1, <3>2
        <4> QED
          BY <4>1, <4>2, <4>3, Zenon DEF Walks
      <3>4. ASSUME NEW t \in made
            PROVE  /\ t.root \in Used' /\ t.tf \in Used' /\ t.stack \in Used'
                   /\ lv2[t.root] = 1 /\ lv2[t.tf] = 0 /\ lv2[t.stack] = 0
        BY <1>2, <2>1, PageRanges DEF Walks
      <3> QED
        BY <1>1, <1>7, <2>1, <2>2, <3>3, <3>4 DEF Walks
    <2>c. PICK pre2 : pre2 = Labelled(pre, freepages, [pre[job[c].table] EXCEPT ![job[c].level] = Index(c)])
      OBVIOUS
    <2>5. /\ pre2 \in [0..KPGTBL -> VAs]
          /\ \A p \in 0..KPGTBL : p # freepages => pre2[p] = pre[p]
          /\ pre2[freepages][job[c].level] = Index(c)
          /\ Alike(pre2[freepages], pre[job[c].table], job[c].level - 1)
      <3>1. pre \in [0..KPGTBL -> VAs] /\ pre[job[c].table] \in VAs
        BY <1>3 DEF Paths
      <3>2. [pre[job[c].table] EXCEPT ![job[c].level] = Index(c)] \in VAs
        BY <1>3, <3>1 DEF VAs
      <3>3. pre2[freepages] = [pre[job[c].table] EXCEPT ![job[c].level] = Index(c)]
        BY <1>2, <2>c DEF Labelled
      <3>4. Alike(pre2[freepages], pre[job[c].table], job[c].level - 1)
        <4>1. \A l \in 1..(job[c].level - 1) : l \in 1..Levels /\ l # job[c].level
          BY <1>3, Sizes
        <4> QED
          BY <3>1, <3>3, <4>1 DEF Alike, VAs
      <3>5. pre2[freepages][job[c].level] = Index(c)
        BY <1>3, <3>1, <3>3 DEF VAs
      <3>6. /\ pre2 \in [0..KPGTBL -> VAs]
            /\ \A p \in 0..KPGTBL : p # freepages => pre2[p] = pre[p]
        BY <2>c, <3>1, <3>2 DEF Labelled
      <3> QED
        BY <3>4, <3>5, <3>6
    <2>6. Kept(lv, owner, pre, lv2, owner2, pre2)
      BY <1>4, <2>1, <2>2, <2>5 DEF Kept
    <2>7. \A root \in 0..KPGTBL : root # job[c].root => Apart(lv, owner, lv2, owner2, root)
      <3> SUFFICES ASSUME NEW root \in 0..KPGTBL, root # job[c].root,
                          NEW p \in 0..KPGTBL, lv2[p] > 1, owner2[p] = root
                   PROVE  lv[p] = lv2[p] /\ owner[p] = root /\ mem'[p] = mem[p]
        BY DEF Apart
      <3>1. p # freepages
        BY <2>2
      <3>2. lv[p] = lv2[p] /\ owner[p] = root
        BY <2>1, <2>2, <3>1
      <3>3. p # job[c].table
        BY <1>3, <3>2
      <3> QED
        BY <1>6, <3>1, <3>2, <3>3
    <2>8. Built(lv, owner, pre, c)
      BY <1>1, <1>3 DEF Contents, JobContents
    <2>9. Current(c).va \in VAs /\ Current(c).va[job[c].level] = Index(c)
      <3>1. Current(c) \in Requests
        BY <1>1, MapsRequests DEF IInv, JobMeans, Current
      <3> QED
        BY <3>1 DEF Requests, Index
    <2>10. Alike(pre2[freepages], Current(c).va, job[c].level)
      BY <1>3, <2>5, <2>8, <2>9 DEF Built, Alike
    <2>11. ASSUME NEW q \in 0..KPGTBL, lv[q] = job[c].level + 1, owner[q] = job[c].root
           PROVE  ~Alike(pre[q], Current(c).va, job[c].level)
      <3> SUFFICES ASSUME Alike(pre[q], Current(c).va, job[c].level) PROVE FALSE
        OBVIOUS
      <3>1. /\ lv[job[c].table] > 0 /\ lv[q] = lv[job[c].table] + 1
            /\ owner[q] = owner[job[c].table]
            /\ Alike(pre[job[c].table], Current(c).va, lv[job[c].table] - 1)
            /\ Alike(pre[q], Current(c).va, lv[job[c].table])
        BY <1>3, <2>8, <2>11 DEF Built
      <3>2. mem[job[c].table][Current(c).va[lv[job[c].table]]].kind = "table"
        BY <1>3, <2>9, <3>1, Linked
      <3> QED
        BY <1>3, <2>9, <3>2 DEF Alloc, Entry
    <2>12. Paths(lv2, owner2, pre2)'
      <3>1. ASSUME NEW p \in 0..KPGTBL
            PROVE  /\ lv2[p] = 1 => owner2[p] = p
                   /\ lv2[p] > 0 => lv2[owner2[p]] = 1
        <4>1. CASE p = freepages
          <5>1. job[c].root \in 0..KPGTBL /\ lv[job[c].root] = 1
            BY <1>1, <1>3 DEF Walks, IInv, Types, Jobs
          <5>2. lv2[job[c].root] = 1 /\ lv2[p] # 1
            BY <1>3, <1>4, <2>1, <4>1, <5>1
          <5> QED
            BY <2>2, <4>1, <5>2
        <4>2. CASE p # freepages
          <5>1. /\ lv[p] = 1 => owner[p] = p
                /\ lv[p] > 0 => lv[owner[p]] = 1
                /\ owner[p] \in 0..KPGTBL
            BY <2>0 DEF Paths
          <5>2. lv[p] > 0 => owner[p] # freepages
            BY <1>4, <5>1
          <5> QED
            BY <2>1, <2>2, <4>2, <5>1, <5>2
        <4> QED
          BY <4>1, <4>2
      <3>2. ASSUME NEW p \in 0..KPGTBL, lv2[p] > 1
            PROVE  \E q \in 0..KPGTBL, i \in Fan :
                      lv2[q] = lv2[p] - 1 /\ mem'[q][i].kind = "table" /\ mem'[q][i].to = p
        <4>1. CASE p = freepages
          <5>1. lv2[job[c].table] = lv2[p] - 1
            BY <1>3, <2>1, <4>1
          <5>2. mem'[job[c].table][Index(c)].kind = "table" /\ mem'[job[c].table][Index(c)].to = p
            BY <1>3, <1>6, <4>1, Descriptors
          <5> QED
            BY <1>3, <5>1, <5>2
        <4>2. CASE p # freepages
          <5>0. lv[p] > 1 /\ lv2[p] = lv[p] /\ lv[p] \in Nat
            BY <2>0, <2>1, <3>2, <4>2
          <5>1. PICK q \in 0..KPGTBL, i \in Fan :
                   lv[q] = lv[p] - 1 /\ mem[q][i].kind = "table" /\ mem[q][i].to = p
            BY <5>0 DEF Paths
          <5>2. q # freepages
            BY <1>4, <5>0, <5>1
          <5>3. ~(q = job[c].table /\ i = Index(c))
            BY <5>1 DEF Alloc, Entry
          <5>4. mem'[q][i] = mem[q][i]
            BY <1>6, <5>2, <5>3
          <5> QED
            BY <2>1, <5>0, <5>1, <5>2, <5>4
        <4> QED
          BY <4>1, <4>2
      <3>3. ASSUME NEW p \in 0..KPGTBL, NEW i \in Fan, lv2[p] > 0, mem'[p][i].kind = "table"
            PROVE  /\ pre2[mem'[p][i].to][lv2[p]] = i
                   /\ Alike(pre2[mem'[p][i].to], pre2[p], lv2[p] - 1)
        <4>0. p # freepages
          BY <1>6, <3>3, Descriptors
        <4>1. lv2[p] = lv[p] /\ pre2[p] = pre[p] /\ lv[p] \in Nat
          BY <2>0, <2>1, <2>5, <4>0
        <4>2. CASE p = job[c].table /\ i = Index(c)
          <5>1. mem'[p][i].to = freepages
            BY <1>6, <4>2, Descriptors
          <5> QED
            BY <1>3, <2>5, <4>1, <4>2, <5>1
        <4>3. CASE ~(p = job[c].table /\ i = Index(c))
          <5>1. mem'[p][i] = mem[p][i]
            BY <1>6, <4>0, <4>3
          <5>2. /\ pre[mem[p][i].to][lv[p]] = i
                /\ Alike(pre[mem[p][i].to], pre[p], lv[p] - 1)
            BY <3>3, <4>1, <5>1 DEF Paths
          <5>3. mem[p][i].to \in Pages /\ lv[mem[p][i].to] = lv[p] + 1
            BY <3>3, <4>1, <5>1 DEF Entries
          <5>4. mem[p][i].to \in 0..KPGTBL /\ mem[p][i].to # freepages
            <6>1. mem[p][i].to # freepages
              BY <1>4, <4>1, <5>3
            <6> QED
              BY <5>3, <6>1, PageRanges
          <5> QED
            BY <2>5, <4>1, <5>1, <5>2, <5>4
        <4> QED
          BY <4>2, <4>3
      <3>4. ASSUME NEW q \in 0..KPGTBL, q # freepages, lv2[q] = job[c].level + 1,
                   owner2[q] = job[c].root
            PROVE  /\ ~Alike(pre2[freepages], pre2[q], job[c].level)
                   /\ ~Alike(pre2[q], pre2[freepages], job[c].level)
        <4>1. ~Alike(pre[q], Current(c).va, job[c].level) /\ pre2[q] = pre[q]
          BY <2>1, <2>2, <2>5, <2>11, <3>4
        <4> QED
          BY <2>10, <4>1 DEF Alike
      <3>5. ASSUME NEW p \in 0..KPGTBL, NEW q \in 0..KPGTBL, lv2[p] > 0, lv2[p] = lv2[q],
                   owner2[p] = owner2[q], Alike(pre2[p], pre2[q], lv2[p] - 1)
            PROVE  p = q
        <4>1. CASE p # freepages /\ q # freepages
          <5>1. /\ lv2[p] = lv[p] /\ lv2[q] = lv[q] /\ owner2[p] = owner[p] /\ owner2[q] = owner[q]
                /\ pre2[p] = pre[p] /\ pre2[q] = pre[q]
            BY <2>1, <2>2, <2>5, <4>1
          <5>2. lv[p] > 0 /\ lv[p] = lv[q] /\ owner[p] = owner[q] /\ Alike(pre[p], pre[q], lv[p] - 1)
            BY <3>5, <5>1
          <5> QED
            BY <5>2, SamePath
        <4>2. CASE p = freepages \/ q = freepages
          <5>1. lv2[p] = job[c].level + 1 /\ lv2[p] - 1 = job[c].level
            BY <1>3, <2>1, <3>5, <4>2
          <5>2. Alike(pre2[p], pre2[q], job[c].level)
            BY <3>5, <5>1
          <5> QED
            BY <2>2, <3>4, <3>5, <4>2, <5>1, <5>2
        <4> QED
          BY <4>1, <4>2
      <3> QED
        BY <2>5, <3>1, <3>2, <3>3, <3>5, Zenon DEF Paths
    <2>13. Contents(lv2, owner2, pre2)'
      <3>1. /\ \A d \in Cores \ {c} : JobContents(lv2, owner2, pre2, d)'
            /\ \A t \in made : TaskContents(lv2, owner2, pre2, t)'
            /\ kernel = "ok" => KernelContents(lv2, owner2, pre2)'
        BY <1>1, <1>7, <2>1, <2>6, <2>7, OthersKept DEF Full
      <3>2. Maps(c)' = Maps(c) /\ Current(c)' = Current(c)
        BY <1>7 DEF Maps, InKernel, Current
      <3>3. job'[c].level - 1 = job[c].level
        BY <1>3, <1>7
      <3>4. Chain(lv2, owner2, pre2, job[c].root, Current(c).va, job[c].level + 1)
        <4> SUFFICES ASSUME NEW l \in 1..(job[c].level + 1)
                     PROVE  \E p \in 0..KPGTBL :
                              lv2[p] = l /\ owner2[p] = job[c].root /\ Alike(pre2[p], Current(c).va, l - 1)
          BY DEF Chain
        <4>1. CASE l = job[c].level + 1
          <5>1. l - 1 = job[c].level
            BY <1>3, <4>1
          <5> QED
            BY <1>2, <2>1, <2>2, <2>10, <4>1, <5>1
        <4>2. CASE l # job[c].level + 1
          <5>1. l \in 1..job[c].level
            BY <1>3, <4>2
          <5>2. Chain(lv2, owner2, pre2, job[c].root, Current(c).va, job[c].level)
            BY <1>3, <2>6, <2>8, ChainKept DEF Built
          <5> QED
            BY <5>1, <5>2 DEF Chain
        <4> QED
          BY <4>1, <4>2
      <3>5. job[c].req = 1 => NothingBelow(lv2, owner2, job[c].root, job[c].level + 1)
        <4> SUFFICES ASSUME job[c].req = 1, NEW p \in 0..KPGTBL, lv2[p] > job[c].level + 1
                     PROVE  owner2[p] # job[c].root
          BY DEF NothingBelow
        <4>1. p # freepages
          BY <1>3, <2>1
        <4>2. lv[p] > job[c].level /\ owner2[p] = owner[p]
          BY <1>3, <2>1, <2>2, <4>1
        <4> QED
          BY <2>8, <4>2 DEF Built, NothingBelow
      <3>6. Reflects(mem', lv2, owner2, pre2, job[c].root, Maps(c), job[c].req - 1)
        <4>1. Reflects(mem, lv, owner, pre, job[c].root, Maps(c), job[c].req - 1)
          BY <1>1, <2>8 DEF Built
        <4>2. ASSUME NEW k \in 1..(job[c].req - 1)
              PROVE  Chain(lv2, owner2, pre2, job[c].root, Maps(c)[k].va, Levels)
          BY <2>6, <4>1, ChainKept, Sizes DEF Reflects
        <4>3. ASSUME NEW p \in 0..KPGTBL, NEW i \in Fan, lv2[p] = Levels, owner2[p] = job[c].root
              PROVE  Latest(Maps(c), job[c].req - 1, [pre2[p] EXCEPT ![Levels] = i], mem'[p][i])
          <5>1. CASE p = freepages
            <6>1. job[c].level + 1 = Levels
              BY <2>1, <4>3, <5>1
            <6>2. mem'[p][i] = Invalid
              BY <1>6, <5>1
            <6>3. ASSUME NEW k \in 1..(job[c].req - 1),
                         Maps(c)[k].va = [pre2[p] EXCEPT ![Levels] = i]
                  PROVE  FALSE
              <7>1. Levels \in 1..Levels /\ Levels - 1 = job[c].level
                BY <1>3, <6>1, Sizes
              <7>2. PICK q \in 0..KPGTBL :
                       lv[q] = Levels /\ owner[q] = job[c].root /\ Alike(pre[q], Maps(c)[k].va, Levels - 1)
                BY <4>1, <7>1 DEF Reflects, Chain
              <7>3. \A l \in 1..job[c].level : Maps(c)[k].va[l] = pre2[p][l]
                <8>1. pre2[p] \in VAs
                  BY <2>5
                <8>2. \A l \in 1..job[c].level : l \in 1..Levels /\ l # Levels
                  BY <1>1, <1>3, Sizes
                <8> QED
                  BY <6>3, <8>1, <8>2 DEF VAs
              <7>4. Alike(pre[q], Current(c).va, job[c].level)
                BY <2>10, <5>1, <7>1, <7>2, <7>3 DEF Alike
              <7> QED
                BY <2>11, <6>1, <7>2, <7>4
            <6> QED
              BY <6>2, <6>3 DEF Latest
          <5>2. CASE p # freepages
            <6>1. lv[p] = Levels /\ owner[p] = job[c].root /\ pre2[p] = pre[p]
              BY <2>1, <2>2, <2>5, <4>3, <5>2
            <6>2. p # job[c].table
              BY <1>1, <1>3, <6>1
            <6> QED
              BY <1>6, <4>1, <5>2, <6>1, <6>2 DEF Reflects
          <5> QED
            BY <5>1, <5>2
        <4> QED
          BY <4>2, <4>3 DEF Reflects
      <3>7. Built(lv2, owner2, pre2, c)'
        <4>1. Alike(pre2[job'[c].table], Current(c)'.va, job'[c].level - 1)
          BY <1>7, <2>10, <3>2, <3>3, Zenon
        <4>2. Chain(lv2, owner2, pre2, job'[c].root, Current(c)'.va, job'[c].level)
          BY <1>7, <3>2, <3>4
        <4>3. job'[c].req = 1 => NothingBelow(lv2, owner2, job'[c].root, job'[c].level)
          BY <1>7, <3>5
        <4>4. Reflects(mem', lv2, owner2, pre2, job'[c].root, Maps(c)', job'[c].req - 1)
          BY <1>7, <3>2, <3>6
        <4> QED
          BY <4>1, <4>2, <4>3, <4>4 DEF Built
      <3>8. \A d \in Cores : JobContents(lv2, owner2, pre2, d)'
        BY <1>1, <3>1, <3>7 DEF JobContents
      <3>9. \A d \in Cores : \A t \in made : job'[d].root # t.root
        BY <1>7 DEF Contents
      <3> QED
        BY <1>1, <3>1, <3>8, <3>9 DEF Contents
    <2> QED
      BY <2>3, <2>4, <2>12, <2>13 DEF Shape, Full
  <1>14. OneParent'
    <2>1. ASSUME NEW p \in 0..KPGTBL, NEW i \in Fan, mem'[p][i].to # Null
          PROVE  \/ p = job[c].table /\ i = Index(c) /\ mem'[p][i].to = freepages
                 \/ mem'[p][i] = mem[p][i] /\ mem[p][i].to # freepages
      <3>1. CASE p = freepages
        BY <1>6, <2>1, <3>1, Descriptors
      <3>2. CASE p = job[c].table /\ i = Index(c)
        BY <1>6, <3>2, Descriptors
      <3>3. CASE p # freepages /\ ~(p = job[c].table /\ i = Index(c))
        <4>1. mem'[p][i] = mem[p][i]
          BY <1>6, <3>3
        <4>2. lv[p] > 0 /\ mem[p][i].kind = "table"
          <5>1. lv[p] \in Nat
            BY DEF Entries
          <5> QED
            BY <2>1, <4>1, <5>1 DEF Entries
        <4>3. lv[mem[p][i].to] = lv[p] + 1 /\ lv[p] \in Nat
          BY <4>2 DEF Entries
        <4> QED
          BY <1>4, <4>1, <4>3
      <3> QED
        BY <3>1, <3>2, <3>3
    <2> SUFFICES ASSUME NEW p \in 0..KPGTBL, NEW q \in 0..KPGTBL, NEW i \in Fan, NEW j \in Fan,
                        mem'[p][i].to # Null, mem'[p][i].to = mem'[q][j].to
                 PROVE  p = q /\ i = j
      BY DEF OneParent
    <2> QED
      BY <2>1 DEF IInv, OneParent
  <1> QED
    BY <1>8, <1>9, <1>10, <1>11, <1>12, <1>13, <1>14 DEF IInv

LEMMA StepIInv == IInv /\ [Next]_vars => IInv'
  <1>1. ASSUME IInv, Next PROVE IInv'
    <2> PICK c \in Cores : \/ TakePgtbl(c) \/ TakeTrapframe(c) \/ TakeStack(c)
                           \/ Descend(c) \/ Alloc(c) \/ MapFails(c) \/ SetPte(c)
      BY <1>1 DEF Next
    <2> QED
      BY <1>1, TakePgtblIInv, TakeTrapframeIInv, TakeStackIInv, DescendIInv, AllocIInv,
         MapFailsIInv, SetPteIInv
  <1>2. ASSUME IInv, UNCHANGED vars PROVE IInv'
    <2>1. UNCHANGED <<freepages, mem, kernel, at, job, made>>
      BY <1>2 DEF vars
    <2>2. Types' /\ KernelTurn' /\ RootsDiffer' /\ OneParent'
      BY <1>2, <2>1 DEF IInv, Types, KernelTurn, RootsDiffer, OneParent
    <2>3. JobMeans'
      BY <1>2, <2>1 DEF IInv, JobMeans, Used, Maps, InKernel
    <2>4. ShortOfPages'
      BY <1>2, <2>1 DEF IInv, ShortOfPages, Missing, Empty
    <2>5. Shape'
      <3> PICK lv, owner, pre : /\ Entries(lv, owner) /\ Walks(lv, owner)
                                /\ Paths(lv, owner, pre) /\ Contents(lv, owner, pre)
        BY <1>2 DEF IInv, Shape, Full
      <3>1. Entries(lv, owner)' /\ Walks(lv, owner)'
        BY <2>1 DEF Entries, Walks, Used
      <3>2. Paths(lv, owner, pre)'
        BY <2>1 DEF Paths
      <3>3. Contents(lv, owner, pre)'
        BY <2>1 DEF Contents, JobContents, TaskContents, KernelContents, Built, Current, Maps, InKernel
      <3> QED
        BY <3>1, <3>2, <3>3 DEF Shape, Full
    <2> QED
      BY <2>2, <2>3, <2>4, <2>5 DEF IInv
  <1> QED
    BY <1>1, <1>2

LEMMA Invariance == Spec => []IInv
  BY InitIInv, StepIInv, PTL DEF Spec
-----------------------------------------------------------------------------
(* Entries, cursors and tasks stay within the pool: although no result of  *)
(* get_page is looked at in user_task_create, a task that it returns has   *)
(* three real pages, because without one the first walk of a checked mapva *)
(* fails.                                                                  *)
THEOREM TypeCorrect == Spec => []TypeOK
  <1>1. ASSUME IInv PROVE TypeOK
    <2> PICK lv, owner, pre : /\ Entries(lv, owner) /\ Walks(lv, owner)
                              /\ Paths(lv, owner, pre) /\ Contents(lv, owner, pre)
      BY <1>1 DEF IInv, Shape, Full
    <2>1. ASSUME NEW p \in 0..KPGTBL, NEW i \in Fan
          PROVE  mem[p][i].kind \in {"invalid", "table", "page"} /\ mem[p][i].to \in 0..NumPages
      <3>1. lv[p] \in Nat
        BY DEF Entries
      <3>2. mem[p][i].to = Null \/ mem[p][i].to \in Pages
        BY <3>1 DEF Entries
      <3>3. mem[p][i].kind \in {"invalid", "table", "page"}
        BY DEF Entries
      <3>4. Null \in 0..NumPages /\ Pages \subseteq 0..NumPages
        BY Sizes
      <3> QED
        BY <3>2, <3>3, <3>4
    <2>2. \A t \in made : t.root \in Pages /\ t.tf \in Pages /\ t.stack \in Pages
      <3>1. Used \subseteq Pages
        BY <1>1, Sizes DEF IInv, Types, Used
      <3> QED
        BY <3>1 DEF Walks
    <2>3. \A c \in Cores : /\ at[c] \in {"idle", "tf", "stack", "walk"}
                           /\ job[c].table \in 0..KPGTBL /\ job[c].level \in 1..Levels
      BY <1>1 DEF IInv, Types, Jobs
    <2> QED
      BY <1>1, <2>1, <2>2, <2>3 DEF IInv, Types, TypeOK
  <1> QED
    BY <1>1, Invariance, PTL

(* No table is part of two address spaces or occurs twice in one, and no   *)
(* trap frame, stack or root of a task serves as a table: walk links only  *)
(* the page it has just taken off the list.                                *)
THEOREM AddressSpacesDisjoint == Spec => []TablesPrivate
  <1>1. ASSUME IInv PROVE TablesPrivate
    <2> DEFINE space == (((freepages + 1)..NumPages) \cup {KPGTBL}) \X Fan
               links == {e \in space : mem[e[1]][e[2]].to \in Pages}
               targets == {mem[e[1]][e[2]].to : e \in links}
    <2>1. IsFiniteSet(links)
      <3>1. IsFiniteSet((freepages + 1)..NumPages)
        BY <1>1, Sizes, FS_Interval DEF IInv, Types
      <3>2. IsFiniteSet(((freepages + 1)..NumPages) \cup {KPGTBL})
        BY <3>1, FS_Singleton, FS_Union
      <3>3. IsFiniteSet(space)
        BY <3>2, VmConstants, FS_Product
      <3> QED
        BY <3>3, FS_Subset
    <2>2. \A e \in links : /\ e[1] \in 0..KPGTBL /\ e[2] \in Fan /\ e = <<e[1], e[2]>>
                           /\ mem[e[1]][e[2]].to # Null
      BY <1>1, Sizes DEF IInv, Types
    <2>3. \A e, f \in links : mem[e[1]][e[2]].to = mem[f[1]][f[2]].to => e = f
      BY <1>1, <2>2 DEF IInv, OneParent
    <2>4. Cardinality(targets) = Cardinality(links)
      <3> DEFINE to == [e \in links |-> mem[e[1]][e[2]].to]
      <3>1. to \in [links -> targets]
        OBVIOUS
      <3>2. \A e, f \in links : to[e] = to[f] => e = f
        BY <2>3
      <3>3. \A q \in targets : \E e \in links : to[e] = q
        OBVIOUS
      <3> HIDE DEF links, targets, to
      <3>4. ExistsBijection(links, targets)
        <4>1. to \in Injection(links, targets)
          BY <3>1, <3>2 DEF Injection, IsInjective
        <4>2. to \in Surjection(links, targets)
          BY <3>1, <3>3 DEF Surjection
        <4> QED
          BY <4>1, <4>2 DEF ExistsBijection, Bijection
      <3> QED
        BY <2>1, <3>4, FS_Bijection
    <2>5. \A t \in made : targets \cap {t.root, t.tf, t.stack} = {}
      <3> PICK lv, owner, pre : /\ Entries(lv, owner) /\ Walks(lv, owner)
                                /\ Paths(lv, owner, pre) /\ Contents(lv, owner, pre)
        BY <1>1 DEF IInv, Shape, Full
      <3>1. ASSUME NEW e \in links
            PROVE  lv[mem[e[1]][e[2]].to] \notin {0, 1}
        <4>1. /\ e[1] \in 0..KPGTBL /\ e[2] \in Fan /\ mem[e[1]][e[2]].to # Null
          BY <2>2
        <4>2. lv[e[1]] \in Nat
          BY <4>1 DEF Entries
        <4>3. lv[e[1]] > 0 /\ mem[e[1]][e[2]].kind = "table"
          BY <4>1, <4>2 DEF Entries
        <4>4. lv[mem[e[1]][e[2]].to] = lv[e[1]] + 1
          BY <4>1, <4>3 DEF Entries
        <4> QED
          BY <4>2, <4>3, <4>4
      <3> QED
        BY <3>1 DEF Walks
    <2> QED
      BY <2>4, <2>5 DEF TablesPrivate
  <1> QED
    BY <1>1, Invariance, PTL
-----------------------------------------------------------------------------
LEMMA LeastNat ==
    ASSUME NEW T \in SUBSET Nat, T # {}
    PROVE  \E x \in T : \A y \in T : x <= y
  <1>1. PICK x \in T : \A y \in T : ~(<<y, x>> \in OpToRel(<, Nat))
    BY NatLessThanWellFounded, WFMin
  <1>2. \A y, z \in Nat : <<y, z>> \in OpToRel(<, Nat) <=> y < z
    BY DEF OpToRel
  <1>3. \A y \in T : ~(y < x)
    BY <1>1, <1>2
  <1> QED
    BY <1>3

(* What the processor meets level by level.  The entries exist: the levels *)
(* are finitely many and each depends on the one before.                   *)
Lookup(root, va, h) ==
    h = [l \in 1..Levels |->
            IF l = 1 THEN mem[root][va[1]]
            ELSE IF h[l - 1].kind = "table" THEN mem[h[l - 1].to][va[l]]
            ELSE Invalid]

(* Either there is a table for va at level l and the processor finds it,   *)
(* or there is none and it has stopped before.                             *)
Found(lv, owner, pre, root, va, l, entry) ==
    \/ \E p \in 0..KPGTBL : /\ lv[p] = l /\ owner[p] = root /\ Alike(pre[p], va, l - 1)
                            /\ entry = mem[p][va[l]]
    \/ /\ entry = Invalid
       /\ \A p \in 0..KPGTBL : lv[p] = l /\ owner[p] = root => ~Alike(pre[p], va, l - 1)

LEMMA FoundNext ==
    ASSUME NEW lv, NEW owner, NEW pre, Entries(lv, owner), Paths(lv, owner, pre),
           NEW root, NEW va \in VAs, NEW l \in 1..Levels, l > 1, NEW e,
           Found(lv, owner, pre, root, va, l - 1, e)
    PROVE  Found(lv, owner, pre, root, va, l,
                 IF e.kind = "table" THEN mem[e.to][va[l]] ELSE Invalid)
  <1>0. l - 1 \in 1..Levels /\ l - 1 \in Nat /\ (l - 1) + 1 = l /\ l - 1 > 0 /\ l - 1 # Levels
    BY Sizes
  <1>1. ASSUME NEW p \in 0..KPGTBL, lv[p] = l - 1, owner[p] = root,
               Alike(pre[p], va, l - 1 - 1), e = mem[p][va[l - 1]]
        PROVE  Found(lv, owner, pre, root, va, l,
                     IF e.kind = "table" THEN mem[e.to][va[l]] ELSE Invalid)
    <2>0. va[l - 1] \in Fan
      BY <1>0 DEF VAs
    <2>1. CASE e.kind = "table"
      <3>1. e.to \in Pages /\ lv[e.to] = l /\ owner[e.to] = root
        BY <1>0, <1>1, <2>0, <2>1 DEF Entries
      <3>2. pre[e.to][l - 1] = va[l - 1] /\ Alike(pre[e.to], pre[p], l - 1 - 1)
        BY <1>0, <1>1, <2>0, <2>1 DEF Paths
      <3>3. Alike(pre[e.to], va, l - 1)
        BY <1>0, <1>1, <3>2 DEF Alike
      <3>4. e.to \in 0..KPGTBL
        BY <3>1, PageRanges
      <3> QED
        BY <2>1, <3>1, <3>3, <3>4 DEF Found
    <2>2. CASE e.kind # "table"
      <3>1. ASSUME NEW q \in 0..KPGTBL, lv[q] = l, owner[q] = root
            PROVE  ~Alike(pre[q], va, l - 1)
        <4> SUFFICES ASSUME Alike(pre[q], va, l - 1) PROVE FALSE
          OBVIOUS
        <4>1. /\ lv[p] > 0 /\ lv[q] = lv[p] + 1 /\ owner[q] = owner[p]
              /\ Alike(pre[p], va, lv[p] - 1) /\ Alike(pre[q], va, lv[p])
          BY <1>0, <1>1, <3>1
        <4>2. mem[p][va[lv[p]]].kind = "table"
          BY <4>1, Linked
        <4> QED
          BY <1>1, <2>2, <4>2
      <3> QED
        BY <2>2, <3>1 DEF Found
    <2> QED
      BY <2>1, <2>2
  <1>2. ASSUME e = Invalid,
               \A p \in 0..KPGTBL : lv[p] = l - 1 /\ owner[p] = root => ~Alike(pre[p], va, l - 1 - 1)
        PROVE  Found(lv, owner, pre, root, va, l,
                     IF e.kind = "table" THEN mem[e.to][va[l]] ELSE Invalid)
    <2>1. e.kind # "table"
      BY <1>2, Descriptors
    <2>2. ASSUME NEW q \in 0..KPGTBL, lv[q] = l, owner[q] = root, Alike(pre[q], va, l - 1)
          PROVE  FALSE
      <3>1. PICK p \in 0..KPGTBL, i \in Fan :
               lv[p] = l - 1 /\ mem[p][i].kind = "table" /\ mem[p][i].to = q
        BY <2>2 DEF Paths
      <3>2. owner[p] = root
        BY <1>0, <2>2, <3>1 DEF Entries
      <3>3. Alike(pre[q], pre[p], l - 1 - 1)
        BY <1>0, <3>1 DEF Paths
      <3>4. Alike(pre[p], va, l - 1 - 1)
        BY <1>0, <2>2, <3>3 DEF Alike
      <3> QED
        BY <1>2, <3>1, <3>2, <3>4
    <2> QED
      BY <2>1, <2>2 DEF Found
  <1> QED
    BY <1>1, <1>2 DEF Found

LEMMA FoundEverywhere ==
    ASSUME NEW lv, NEW owner, NEW pre, Entries(lv, owner), Paths(lv, owner, pre),
           NEW root \in 0..KPGTBL, lv[root] = 1, owner[root] = root,
           NEW va \in VAs, NEW h, Lookup(root, va, h)
    PROVE  \A l \in 1..Levels : Found(lv, owner, pre, root, va, l, h[l])
  <1> DEFINE Bad == {l \in 1..Levels : ~Found(lv, owner, pre, root, va, l, h[l])}
  <1> SUFFICES ASSUME Bad # {} PROVE FALSE
    OBVIOUS
  <1>1. PICK l \in Bad : \A k \in Bad : l <= k
    <2>1. Bad \in SUBSET Nat
      OBVIOUS
    <2> HIDE DEF Bad
    <2> QED
      BY <2>1, LeastNat
  <1>2. l \in 1..Levels /\ 1 \in 1..Levels
    BY Sizes
  <1>3. CASE l = 1
    <2>1. h[1] = mem[root][va[1]]
      BY <1>2 DEF Lookup
    <2>2. Alike(pre[root], va, 1 - 1)
      BY DEF Alike
    <2>3. Found(lv, owner, pre, root, va, 1, h[1])
      BY <2>1, <2>2 DEF Found
    <2> QED
      BY <1>3, <2>3
  <1>4. CASE l # 1
    <2>1. l > 1 /\ l - 1 \in 1..Levels /\ ~(l <= l - 1)
      BY <1>2, <1>4, Sizes
    <2>2. Found(lv, owner, pre, root, va, l - 1, h[l - 1])
      BY <1>1, <2>1
    <2>3. h[l] = IF h[l - 1].kind = "table" THEN mem[h[l - 1].to][va[l]] ELSE Invalid
      BY <1>2, <1>4 DEF Lookup
    <2>4. Found(lv, owner, pre, root, va, l, h[l])
      BY <1>2, <2>1, <2>2, <2>3, FoundNext
    <2> QED
      BY <2>4
  <1> QED
    BY <1>3, <1>4

LEMMA FoundOnce ==
    ASSUME NEW lv, NEW owner, NEW pre, Paths(lv, owner, pre),
           NEW root, NEW va, NEW l \in Nat \ {0}, NEW e, NEW f,
           Found(lv, owner, pre, root, va, l, e), Found(lv, owner, pre, root, va, l, f)
    PROVE  e = f
  <1>1. ASSUME NEW p \in 0..KPGTBL, lv[p] = l, owner[p] = root, Alike(pre[p], va, l - 1),
               NEW q \in 0..KPGTBL, lv[q] = l, owner[q] = root, Alike(pre[q], va, l - 1)
        PROVE  p = q
    <2>1. Alike(pre[p], pre[q], lv[p] - 1)
      BY <1>1 DEF Alike
    <2> QED
      BY <1>1, <2>1 DEF Paths
  <1> QED
    BY <1>1 DEF Found

LEMMA LookupExists ==
    ASSUME NEW lv, NEW owner, NEW pre, Entries(lv, owner), Paths(lv, owner, pre),
           NEW root \in 0..KPGTBL, lv[root] = 1, owner[root] = root, NEW va \in VAs
    PROVE  \E h : Lookup(root, va, h)
  <1> DEFINE Fits(l, p) == p \in 0..KPGTBL /\ lv[p] = l /\ owner[p] = root /\ Alike(pre[p], va, l - 1)
             g == [l \in 1..Levels |->
                     IF \E p : Fits(l, p) THEN mem[CHOOSE p : Fits(l, p)][va[l]] ELSE Invalid]
  <1>1. ASSUME NEW l \in 1..Levels
        PROVE  Found(lv, owner, pre, root, va, l, g[l])
    <2>1. CASE \E p : Fits(l, p)
      <3>1. Fits(l, CHOOSE p : Fits(l, p)) /\ g[l] = mem[CHOOSE p : Fits(l, p)][va[l]]
        BY <2>1
      <3> QED
        BY <3>1 DEF Found
    <2>2. CASE ~\E p : Fits(l, p)
      <3>1. g[l] = Invalid
        BY <2>2
      <3> QED
        BY <2>2, <3>1 DEF Found
    <2> QED
      BY <2>1, <2>2
  <1>2. DOMAIN g = 1..Levels /\ g = [l \in 1..Levels |-> g[l]]
    OBVIOUS
  <1> HIDE DEF g
  <1>3. ASSUME NEW l \in 1..Levels
        PROVE  g[l] = IF l = 1 THEN mem[root][va[1]]
                      ELSE IF g[l - 1].kind = "table" THEN mem[g[l - 1].to][va[l]]
                      ELSE Invalid
    <2>1. CASE l = 1
      <3>1. Found(lv, owner, pre, root, va, 1, mem[root][va[1]])
        <4>1. Alike(pre[root], va, 1 - 1)
          BY DEF Alike
        <4> QED
          BY <4>1 DEF Found
      <3> QED
        BY <1>1, <2>1, <3>1, FoundOnce
    <2>2. CASE l # 1
      <3>1. l > 1 /\ l - 1 \in 1..Levels /\ l \in Nat \ {0}
        BY <2>2, Sizes
      <3>2. Found(lv, owner, pre, root, va, l,
                  IF g[l - 1].kind = "table" THEN mem[g[l - 1].to][va[l]] ELSE Invalid)
        BY <1>1, <3>1, FoundNext
      <3>3. g[l] = IF g[l - 1].kind = "table" THEN mem[g[l - 1].to][va[l]] ELSE Invalid
        BY <1>1, <3>1, <3>2, FoundOnce
      <3> QED
        BY <2>2, <3>3
    <2> QED
      BY <2>1, <2>2
  <1>4. Lookup(root, va, g)
    BY <1>2, <1>3 DEF Lookup
  <1> QED
    BY <1>4

LEMMA TranslateLookup ==
    ASSUME NEW root, NEW va, \E h : Lookup(root, va, h)
    PROVE  \E h : Lookup(root, va, h) /\ Translate(root, va) = h[Levels]
  BY DEF Translate, Lookup

(* The processor finds for each address what the calls of mapva have left  *)
(* for it.                                                                 *)
LEMMA Translated ==
    ASSUME NEW lv, NEW owner, NEW pre, Entries(lv, owner), Paths(lv, owner, pre),
           NEW root \in 0..KPGTBL, lv[root] = 1, owner[root] = root,
           NEW maps, NEW n, Reflects(mem, lv, owner, pre, root, maps, n), NEW va \in VAs
    PROVE  Latest(maps, n, va, Translate(root, va))
  <1>1. PICK h : Lookup(root, va, h) /\ Translate(root, va) = h[Levels]
    BY LookupExists, TranslateLookup
  <1>2. Levels \in 1..Levels
    BY Sizes
  <1>3. Found(lv, owner, pre, root, va, Levels, h[Levels])
    BY <1>1, <1>2, FoundEverywhere
  <1>4. ASSUME NEW p \in 0..KPGTBL, lv[p] = Levels, owner[p] = root, Alike(pre[p], va, Levels - 1),
               h[Levels] = mem[p][va[Levels]]
        PROVE  Latest(maps, n, va, h[Levels])
    <2>1. va[Levels] \in Fan /\ pre[p] \in VAs
      BY <1>2 DEF VAs, Paths
    <2>2. [pre[p] EXCEPT ![Levels] = va[Levels]] = va
      <3>1. \A l \in 1..Levels : l # Levels => pre[p][l] = va[l]
        BY <1>4, Sizes DEF Alike
      <3> QED
        BY <1>2, <2>1, <3>1 DEF VAs
    <2>3. Latest(maps, n, [pre[p] EXCEPT ![Levels] = va[Levels]], mem[p][va[Levels]])
      BY <1>4, <2>1 DEF Reflects
    <2> QED
      BY <1>4, <2>2, <2>3
  <1>5. ASSUME h[Levels] = Invalid,
               \A p \in 0..KPGTBL : lv[p] = Levels /\ owner[p] = root => ~Alike(pre[p], va, Levels - 1)
        PROVE  Latest(maps, n, va, h[Levels])
    <2>1. ASSUME NEW k \in 1..n, maps[k].va = va PROVE FALSE
      <3>1. Chain(lv, owner, pre, root, va, Levels)
        BY <2>1 DEF Reflects
      <3> QED
        BY <1>2, <1>5, <3>1 DEF Chain
    <2> QED
      BY <1>5, <2>1 DEF Latest
  <1> QED
    BY <1>1, <1>3, <1>4, <1>5 DEF Found
-----------------------------------------------------------------------------
(* What a sequence of calls of mapva leaves, range by range. *)
Asks(maps, va) == \E k \in 1..Len(maps) : maps[k].va = va

LEMMA LatestConcat ==
    ASSUME NEW s \in Seq(Requests), NEW t \in Seq(Requests), NEW va, NEW entry,
           Latest(s \o t, Len(s \o t), va, entry)
    PROVE  \/ Asks(t, va) /\ Latest(t, Len(t), va, entry)
           \/ ~Asks(t, va) /\ Latest(s, Len(s), va, entry)
  <1>1. /\ Len(s) \in Nat /\ Len(t) \in Nat /\ Len(s \o t) = Len(s) + Len(t)
        /\ \A i \in 1..(Len(s) + Len(t)) : (s \o t)[i] = IF i <= Len(s) THEN s[i] ELSE t[i - Len(s)]
    BY ConcatProperties
  <1>2. /\ \A i \in 1..Len(s) : i \in 1..Len(s \o t) /\ (s \o t)[i] = s[i]
        /\ \A i \in 1..Len(t) : Len(s) + i \in 1..Len(s \o t) /\ (s \o t)[Len(s) + i] = t[i]
    BY <1>1
  <1>3. ASSUME entry = Invalid, \A k \in 1..Len(s \o t) : (s \o t)[k].va # va
        PROVE  ~Asks(t, va) /\ Latest(s, Len(s), va, entry)
    BY <1>2, <1>3 DEF Asks, Latest
  <1>4. ASSUME NEW k \in 1..Len(s \o t), (s \o t)[k].va = va,
               \A j \in (k + 1)..Len(s \o t) : (s \o t)[j].va # va,
               entry = Leaf((s \o t)[k].pa, (s \o t)[k].type)
        PROVE  \/ Asks(t, va) /\ Latest(t, Len(t), va, entry)
               \/ ~Asks(t, va) /\ Latest(s, Len(s), va, entry)
    <2>1. CASE k <= Len(s)
      <3>1. k \in 1..Len(s) /\ s[k].va = va /\ entry = Leaf(s[k].pa, s[k].type)
        BY <1>1, <1>4, <2>1
      <3>2. \A j \in (k + 1)..Len(s) : s[j].va # va
        <4>1. \A j \in (k + 1)..Len(s) : j \in (k + 1)..Len(s \o t) /\ (s \o t)[j] = s[j]
          BY <1>1, <3>1
        <4> QED
          BY <1>4, <4>1
      <3>3. ~Asks(t, va)
        <4>1. \A i \in 1..Len(t) : Len(s) + i \in (k + 1)..Len(s \o t)
          BY <1>1, <3>1
        <4> QED
          BY <1>2, <1>4, <4>1 DEF Asks
      <3> QED
        BY <3>1, <3>2, <3>3 DEF Latest
    <2>2. CASE k > Len(s)
      <3>1. /\ k - Len(s) \in 1..Len(t) /\ t[k - Len(s)].va = va
            /\ entry = Leaf(t[k - Len(s)].pa, t[k - Len(s)].type)
        BY <1>1, <1>4, <2>2
      <3>2. \A j \in (k - Len(s) + 1)..Len(t) : t[j].va # va
        <4>1. \A j \in (k - Len(s) + 1)..Len(t) :
                 j \in 1..Len(t) /\ Len(s) + j \in (k + 1)..Len(s \o t)
          BY <1>1, <3>1
        <4> QED
          BY <1>2, <1>4, <4>1
      <3> QED
        BY <3>1, <3>2 DEF Asks, Latest
    <2> QED
      BY <1>1, <2>1, <2>2
  <1> QED
    BY <1>3, <1>4 DEF Latest

LEMMA LatestUnasked ==
    ASSUME NEW maps, NEW va, NEW entry, Latest(maps, Len(maps), va, entry), ~Asks(maps, va)
    PROVE  entry = Invalid
  BY DEF Latest, Asks

LEMMA LatestIdentity ==
    ASSUME NEW range \in Seq(VAs), NEW type \in {"normal", "inner_shareable", "device"},
           NEW va, NEW entry
    PROVE  /\ Asks(Identity(range, type), va) <=> In(va, range)
           /\ Latest(Identity(range, type), Len(Identity(range, type)), va, entry) /\ In(va, range) =>
                entry = Leaf(<<"same", va>>, type)
  <1>1. Len(Identity(range, type)) = Len(range) /\ DOMAIN range = 1..Len(range)
    BY IdentityRequests
  <1>2. \A k \in 1..Len(range) :
           /\ Identity(range, type)[k].va = range[k]
           /\ Identity(range, type)[k].pa = <<"same", range[k]>>
           /\ Identity(range, type)[k].type = type
    BY <1>1 DEF Identity, Map
  <1>3. Asks(Identity(range, type), va) <=> In(va, range)
    BY <1>1, <1>2 DEF Asks, In
  <1>4. ASSUME Latest(Identity(range, type), Len(Identity(range, type)), va, entry), In(va, range)
        PROVE  entry = Leaf(<<"same", va>>, type)
    <2>1. Asks(Identity(range, type), va)
      BY <1>3, <1>4
    <2>2. PICK k \in 1..Len(range) :
             /\ Identity(range, type)[k].va = va
             /\ entry = Leaf(Identity(range, type)[k].pa, Identity(range, type)[k].type)
      BY <1>1, <1>4, <2>1 DEF Latest, Asks
    <2> QED
      BY <1>2, <2>2
  <1> QED
    BY <1>3, <1>4

LEMMA LatestIndexed ==
    ASSUME NEW range \in Seq(VAs), NEW name \in {"kstack1", "cpus", "main"}, IsInjective(range),
           NEW va, NEW entry
    PROVE  /\ Asks(Indexed(range, name), va) <=> In(va, range)
           /\ Latest(Indexed(range, name), Len(Indexed(range, name)), va, entry) /\ In(va, range) =>
                entry = Leaf(<<name, Position(va, range)>>, "normal")
  <1>1. Len(Indexed(range, name)) = Len(range) /\ DOMAIN range = 1..Len(range)
    <2>1. DOMAIN Indexed(range, name) = DOMAIN range
      BY DEF Indexed
    <2>2. Indexed(range, name) \in Seq(Requests)
      BY IndexedRequests
    <2> QED
      BY <2>1, <2>2
  <1>2. \A k \in 1..Len(range) :
           /\ Indexed(range, name)[k].va = range[k]
           /\ Indexed(range, name)[k].pa = <<name, k>>
           /\ Indexed(range, name)[k].type = "normal"
    BY <1>1 DEF Indexed, Map
  <1>3. Asks(Indexed(range, name), va) <=> In(va, range)
    BY <1>1, <1>2 DEF Asks, In
  <1>4. ASSUME Latest(Indexed(range, name), Len(Indexed(range, name)), va, entry), In(va, range)
        PROVE  entry = Leaf(<<name, Position(va, range)>>, "normal")
    <2>1. Asks(Indexed(range, name), va)
      BY <1>3, <1>4
    <2>2. PICK k \in 1..Len(range) :
             /\ Indexed(range, name)[k].va = va
             /\ entry = Leaf(Indexed(range, name)[k].pa, Indexed(range, name)[k].type)
      BY <1>1, <1>4, <2>1 DEF Latest, Asks
    <2>3. Position(va, range) \in DOMAIN range /\ range[Position(va, range)] = va
      BY <1>4 DEF In, Position
    <2>4. Position(va, range) = k
      BY <1>1, <1>2, <2>2, <2>3 DEF IsInjective
    <2> QED
      BY <1>2, <2>2, <2>4
  <1> QED
    BY <1>3, <1>4

LEMMA ThenIdentity ==
    ASSUME NEW s \in Seq(Requests), NEW range \in Seq(VAs),
           NEW type \in {"normal", "inner_shareable", "device"}, NEW va, NEW entry,
           Latest(s \o Identity(range, type), Len(s \o Identity(range, type)), va, entry)
    PROVE  \/ In(va, range) /\ entry = Leaf(<<"same", va>>, type)
           \/ ~In(va, range) /\ Latest(s, Len(s), va, entry)
  <1>1. Identity(range, type) \in Seq(Requests)
    BY IdentityRequests
  <1>2. \/ /\ Asks(Identity(range, type), va)
           /\ Latest(Identity(range, type), Len(Identity(range, type)), va, entry)
        \/ ~Asks(Identity(range, type), va) /\ Latest(s, Len(s), va, entry)
    BY <1>1, LatestConcat
  <1> QED
    BY <1>2, LatestIdentity

LEMMA ThenIndexed ==
    ASSUME NEW s \in Seq(Requests), NEW range \in Seq(VAs), IsInjective(range),
           NEW name \in {"kstack1", "cpus", "main"}, NEW va, NEW entry,
           Latest(s \o Indexed(range, name), Len(s \o Indexed(range, name)), va, entry)
    PROVE  \/ In(va, range) /\ entry = Leaf(<<name, Position(va, range)>>, "normal")
           \/ ~In(va, range) /\ Latest(s, Len(s), va, entry)
  <1>1. Indexed(range, name) \in Seq(Requests)
    BY IndexedRequests
  <1>2. \/ /\ Asks(Indexed(range, name), va)
           /\ Latest(Indexed(range, name), Len(Indexed(range, name)), va, entry)
        \/ ~Asks(Indexed(range, name), va) /\ Latest(s, Len(s), va, entry)
    BY <1>1, LatestConcat
  <1> QED
    BY <1>2, LatestIndexed

LEMMA InRange == \A va, range : In(va, range) <=> va \in Range(range)
  BY DEF In, Range

LEMMA InConcat ==
    ASSUME NEW r \in Seq(VAs), NEW s \in Seq(VAs), NEW va
    PROVE  In(va, r \o s) <=> In(va, r) \/ In(va, s)
  <1>1. /\ Len(r) \in Nat /\ Len(s) \in Nat /\ DOMAIN r = 1..Len(r) /\ DOMAIN s = 1..Len(s)
        /\ DOMAIN (r \o s) = 1..(Len(r) + Len(s))
        /\ \A i \in 1..(Len(r) + Len(s)) : (r \o s)[i] = IF i <= Len(r) THEN r[i] ELSE s[i - Len(r)]
    BY ConcatProperties
  <1>2. ASSUME In(va, r \o s) PROVE In(va, r) \/ In(va, s)
    BY <1>1, <1>2 DEF In
  <1>3. ASSUME In(va, r) PROVE In(va, r \o s)
    BY <1>1, <1>3 DEF In
  <1>4. ASSUME In(va, s) PROVE In(va, r \o s)
    <2>1. PICK i \in 1..Len(s) : s[i] = va
      BY <1>1, <1>4 DEF In
    <2>2. Len(r) + i \in 1..(Len(r) + Len(s)) /\ (r \o s)[Len(r) + i] = s[i]
      BY <1>1
    <2> QED
      BY <1>1, <2>1, <2>2 DEF In
  <1> QED
    BY <1>2, <1>3, <1>4

(* The kernel table: what the calls of kpgtbl_init leave for an address is *)
(* what the address is for.                                                *)
LEMMA KernelLatest ==
    ASSUME NEW va, NEW entry, Latest(KernelMaps, Len(KernelMaps), va, entry)
    PROVE  entry = KernelWanted(va)
  <1>0. /\ TMP \in Seq(VAs) /\ KERN \in Seq(VAs) /\ SHARED \in Seq(VAs) /\ DEVICES \in Seq(VAs)
        /\ KSTACK \in Seq(VAs) /\ MY_CPU \in Seq(VAs)
        /\ IsInjective(KSTACK) /\ IsInjective(MY_CPU)
    BY VmConstants, VmLayout
  <1>a. PICK s1 : s1 = Identity(TMP, "normal")
    OBVIOUS
  <1>b. PICK s2 : s2 = s1 \o Identity(KERN, "normal")
    OBVIOUS
  <1>c. PICK s3 : s3 = s2 \o Identity(SHARED, "inner_shareable")
    OBVIOUS
  <1>d. PICK s4 : s4 = s3 \o Identity(DEVICES, "device")
    OBVIOUS
  <1>e. PICK s5 : s5 = s4 \o Indexed(KSTACK, "kstack1")
    OBVIOUS
  <1>1. KernelMaps = s5 \o Indexed(MY_CPU, "cpus")
    BY <1>a, <1>b, <1>c, <1>d, <1>e DEF KernelMaps
  <1>2. s1 \in Seq(Requests)
    BY <1>0, <1>a, IdentityRequests
  <1>3. s2 \in Seq(Requests)
    BY <1>0, <1>2, <1>b, IdentityRequests, ConcatProperties
  <1>4. s3 \in Seq(Requests)
    BY <1>0, <1>3, <1>c, IdentityRequests, ConcatProperties
  <1>5. s4 \in Seq(Requests)
    BY <1>0, <1>4, <1>d, IdentityRequests, ConcatProperties
  <1>6. s5 \in Seq(Requests)
    BY <1>0, <1>5, <1>e, IndexedRequests, ConcatProperties
  <1>7. \/ In(va, MY_CPU) /\ entry = Leaf(<<"cpus", Position(va, MY_CPU)>>, "normal")
        \/ ~In(va, MY_CPU) /\ Latest(s5, Len(s5), va, entry)
    BY <1>0, <1>1, <1>6, ThenIndexed
  <1>8. Latest(s5, Len(s5), va, entry) =>
          \/ In(va, KSTACK) /\ entry = Leaf(<<"kstack1", Position(va, KSTACK)>>, "normal")
          \/ ~In(va, KSTACK) /\ Latest(s4, Len(s4), va, entry)
    BY <1>0, <1>5, <1>e, ThenIndexed
  <1>9. Latest(s4, Len(s4), va, entry) =>
          \/ In(va, DEVICES) /\ entry = Leaf(<<"same", va>>, "device")
          \/ ~In(va, DEVICES) /\ Latest(s3, Len(s3), va, entry)
    BY <1>0, <1>4, <1>d, ThenIdentity
  <1>10. Latest(s3, Len(s3), va, entry) =>
          \/ In(va, SHARED) /\ entry = Leaf(<<"same", va>>, "inner_shareable")
          \/ ~In(va, SHARED) /\ Latest(s2, Len(s2), va, entry)
    BY <1>0, <1>3, <1>c, ThenIdentity
  <1>11. Latest(s2, Len(s2), va, entry) =>
          \/ In(va, KERN) /\ entry = Leaf(<<"same", va>>, "normal")
          \/ ~In(va, KERN) /\ Latest(s1, Len(s1), va, entry)
    BY <1>0, <1>2, <1>b, ThenIdentity
  <1>12. Latest(s1, Len(s1), va, entry) =>
          \/ In(va, TMP) /\ entry = Leaf(<<"same", va>>, "normal")
          \/ ~In(va, TMP) /\ entry = Invalid
    BY <1>0, <1>a, LatestUnasked, LatestIdentity
  <1>13. In(va, KERN \o TMP) <=> In(va, KERN) \/ In(va, TMP)
    BY <1>0, InConcat
  <1>14. /\ In(va, DEVICES) => ~In(va, TMP) /\ ~In(va, KERN) /\ ~In(va, SHARED)
                               /\ ~In(va, KSTACK) /\ ~In(va, MY_CPU)
         /\ In(va, KSTACK) => ~In(va, TMP) /\ ~In(va, KERN) /\ ~In(va, SHARED) /\ ~In(va, MY_CPU)
         /\ In(va, MY_CPU) => ~In(va, TMP) /\ ~In(va, KERN) /\ ~In(va, SHARED)
    BY VmLayout, InRange
  <1>15. CASE In(va, MY_CPU)
    BY <1>7, <1>13, <1>14, <1>15 DEF KernelWanted
  <1>16. CASE ~In(va, MY_CPU) /\ In(va, KSTACK)
    BY <1>7, <1>8, <1>13, <1>14, <1>16 DEF KernelWanted
  <1>17. CASE ~In(va, MY_CPU) /\ ~In(va, KSTACK) /\ In(va, DEVICES)
    BY <1>7, <1>8, <1>9, <1>13, <1>14, <1>17 DEF KernelWanted
  <1>18. CASE ~In(va, MY_CPU) /\ ~In(va, KSTACK) /\ ~In(va, DEVICES) /\ In(va, SHARED)
    BY <1>7, <1>8, <1>9, <1>10, <1>18 DEF KernelWanted
  <1>19. CASE ~In(va, MY_CPU) /\ ~In(va, KSTACK) /\ ~In(va, DEVICES) /\ ~In(va, SHARED)
    BY <1>7, <1>8, <1>9, <1>10, <1>11, <1>12, <1>13, <1>19 DEF KernelWanted
  <1> QED
    BY <1>15, <1>16, <1>17, <1>18, <1>19

(* The tables of a task, in the same way. *)
LEMMA TaskLatest ==
    ASSUME NEW t, t.tf \in 0..NumPages, t.stack \in 0..NumPages, NEW va, NEW entry,
           Latest(UserMaps(t.tf, t.stack), Len(UserMaps(t.tf, t.stack)), va, entry)
    PROVE  entry = TaskWanted(t, va)
  <1>0. TRAMPOLINE \in Seq(VAs) /\ USER \in Seq(VAs) /\ IsInjective(USER)
    BY VmConstants, VmLayout
  <1>a. PICK s1 : s1 = << Map(TRAPFRAME, <<"pool", t.tf>>, "normal", FALSE),
                          Map(STACK, <<"pool", t.stack>>, "normal", FALSE) >>
    OBVIOUS
  <1>b. PICK s2 : s2 = s1 \o Identity(TRAMPOLINE, "normal")
    OBVIOUS
  <1>1. UserMaps(t.tf, t.stack) = s2 \o Indexed(USER, "main")
    BY <1>a, <1>b DEF UserMaps
  <1>2. s1 \in Seq(Requests) /\ Len(s1) = 2
    BY <1>a, VmConstants DEF Map, Requests
  <1>3. s2 \in Seq(Requests)
    BY <1>0, <1>2, <1>b, IdentityRequests, ConcatProperties
  <1>4. \/ In(va, USER) /\ entry = Leaf(<<"main", Position(va, USER)>>, "normal")
        \/ ~In(va, USER) /\ Latest(s2, Len(s2), va, entry)
    BY <1>0, <1>1, <1>3, ThenIndexed
  <1>5. Latest(s2, Len(s2), va, entry) =>
          \/ In(va, TRAMPOLINE) /\ entry = Leaf(<<"same", va>>, "normal")
          \/ ~In(va, TRAMPOLINE) /\ Latest(s1, Len(s1), va, entry)
    BY <1>0, <1>2, <1>b, ThenIdentity
  <1>6. /\ s1[1].va = TRAPFRAME /\ s1[1].pa = <<"pool", t.tf>> /\ s1[1].type = "normal"
        /\ s1[2].va = STACK /\ s1[2].pa = <<"pool", t.stack>> /\ s1[2].type = "normal"
    BY <1>a DEF Map
  <1>7. ASSUME Latest(s1, 2, va, entry)
        PROVE  \/ va = TRAPFRAME /\ entry = Leaf(<<"pool", t.tf>>, "normal")
               \/ va = STACK /\ entry = Leaf(<<"pool", t.stack>>, "normal")
               \/ va \notin {TRAPFRAME, STACK} /\ entry = Invalid
    <2>1. 1..2 = {1, 2}
      OBVIOUS
    <2> QED
      BY <1>6, <1>7, <2>1 DEF Latest
  <1>8. /\ In(va, USER) => va \notin {TRAPFRAME, STACK} /\ ~In(va, TRAMPOLINE)
        /\ In(va, TRAMPOLINE) => va \notin {TRAPFRAME, STACK}
        /\ TRAPFRAME # STACK
    BY VmLayout, InRange
  <1>9. CASE In(va, USER)
    BY <1>4, <1>8, <1>9 DEF TaskWanted
  <1>10. CASE ~In(va, USER) /\ In(va, TRAMPOLINE)
    BY <1>4, <1>5, <1>8, <1>10 DEF TaskWanted
  <1>11. CASE ~In(va, USER) /\ ~In(va, TRAMPOLINE)
    BY <1>2, <1>4, <1>5, <1>7, <1>8, <1>11 DEF TaskWanted
  <1> QED
    BY <1>9, <1>10, <1>11

(* When kpgtbl_init succeeds, the processor finds for every address of the *)
(* kernel what it is for and nothing for any other one: the shared section *)
(* keeps its own memory type though the kernel image is mapped over it     *)
(* first, the guard pages stay unmapped, and later tasks change nothing.   *)
THEOREM KernelAddressSpace == Spec => []KernelMapped
  <1>1. ASSUME IInv PROVE KernelMapped
    <2> SUFFICES ASSUME kernel = "ok", NEW va \in VAs
                 PROVE  Translate(KPGTBL, va) = KernelWanted(va)
      BY DEF KernelMapped
    <2> PICK lv, owner, pre : Full(lv, owner, pre)
      BY <1>1 DEF IInv, Shape
    <2>1. /\ Entries(lv, owner) /\ Paths(lv, owner, pre)
          /\ KPGTBL \in 0..KPGTBL /\ lv[KPGTBL] = 1 /\ owner[KPGTBL] = KPGTBL
      BY PageRanges DEF Full, Entries
    <2>2. Reflects(mem, lv, owner, pre, KPGTBL, KernelMaps, Len(KernelMaps))
      BY DEF Full, Contents, KernelContents
    <2>3. Latest(KernelMaps, Len(KernelMaps), va, Translate(KPGTBL, va))
      BY <2>1, <2>2, Translated
    <2> QED
      BY <2>3, KernelLatest
  <1> QED
    BY <1>1, Invariance, PTL

(* The address space of every task that user_task_create returns is        *)
(* complete and holds nothing else, although two results of mapva and all  *)
(* of get_page are ignored and the pages may run out at any moment.        *)
THEOREM TaskAddressSpaces == Spec => []TasksMapped
  <1>1. ASSUME IInv PROVE TasksMapped
    <2> SUFFICES ASSUME NEW t \in made, NEW va \in VAs
                 PROVE  Translate(t.root, va) = TaskWanted(t, va)
      BY DEF TasksMapped
    <2> PICK lv, owner, pre : Full(lv, owner, pre)
      BY <1>1 DEF IInv, Shape
    <2>1. /\ t.root \in 0..KPGTBL /\ t.tf \in 0..NumPages /\ t.stack \in 0..NumPages
          /\ lv[t.root] = 1
      <3>1. Used \subseteq 0..NumPages
        BY <1>1, Sizes DEF IInv, Types, Used
      <3> QED
        BY <3>1, PageRanges DEF Full, Walks
    <2>2. Entries(lv, owner) /\ Paths(lv, owner, pre) /\ owner[t.root] = t.root
      BY <2>1 DEF Full, Paths
    <2>3. Reflects(mem, lv, owner, pre, t.root, UserMaps(t.tf, t.stack), Len(UserMaps(t.tf, t.stack)))
      BY DEF Full, Contents, TaskContents
    <2>4. Latest(UserMaps(t.tf, t.stack), Len(UserMaps(t.tf, t.stack)), va, Translate(t.root, va))
      BY <2>1, <2>2, <2>3, Translated
    <2> QED
      BY <2>1, <2>4, TaskLatest
  <1> QED
    BY <1>1, Invariance, PTL
=============================================================================
