------------------------------- MODULE Memory -------------------------------
(***************************************************************************)
(* The page allocator of kernel/memory.c.                                  *)
(*                                                                         *)
(* A kernel thread takes pages from kern_pool and kern_vaddr, a process    *)
(* from user_pool and its own user_vaddr; both map them in a page table.   *)
(* Kernel threads, and a process that starts, run with interrupts on and   *)
(* are preempted between any two steps.  System calls run with interrupts  *)
(* off: only a mutex that another thread has makes them give up the CPU.   *)
(* main allocates before any other thread runs, until it turns interrupts  *)
(* on.                                                                     *)
(* The mutex of a pool is the abstract mutex that thread/lock.c implements *)
(* (Thread!ImplementsMutex); the nested lock of pfree is always granted.   *)
(*                                                                         *)
(* A bitmap_scan and the bitmap_sets that follow it are separate steps;    *)
(* the sets of one allocation are one step.  The page table of the kernel  *)
(* exists from the start (loader.S); those of a process are made on        *)
(* demand, from kern_pool.                                                 *)
(***************************************************************************)
EXTENDS Bitmap

CONSTANTS
  KThreads,    \* kernel threads
  Procs,       \* processes
  main,        \* the kernel thread that boots
  Loads,       \* the sets of tasks that boot may leave running
  KLen,        \* bytes of the bitmaps of kern_pool and kern_vaddr
  ULen,        \* bytes of the bitmap of user_pool
  VLen,        \* bytes of the bitmap of a user_vaddr
  TablePages,  \* the pages one page table maps, 1024
  StackPage,   \* the page of USER_STACK_VADDR
  MaxCount,    \* bound: the most pages of one request
  MaxOwned,    \* bound: the most allocations each thread has at a time
  NULL

Threads == KThreads \cup Procs

ASSUME MemoryAssumption ==
  /\ KThreads \cap Procs = {} /\ main \in KThreads /\ "kernel" \notin Procs
  /\ \A l \in Loads : l \subseteq Threads
  /\ {KLen, ULen, VLen, TablePages, MaxCount} \subseteq Nat \ {0}
  /\ MaxOwned \in [Threads -> Nat]
  /\ StackPage \in 1 .. VLen * ByteBits - 1
  /\ NULL \notin Threads \cup Nat

Pools   == {"kern_pool", "user_pool"}
KPages  == 0 .. KLen * ByteBits - 1
UPages  == 0 .. ULen * ByteBits - 1
VPages  == 0 .. VLen * ByteBits - 1
Regions == {v \div TablePages : v \in VPages}

VARIABLES
  load,     \* the tasks that allocate after boot
  pool,     \* the pool_bitmap of kern_pool and user_pool
  vaddr,    \* the vaddr_bitmap of kern_vaddr (of a kernel thread) and of
            \* each user_vaddr
  pte,      \* the page each present pte maps a page to, or NULL
  pde,      \* the page table each present pde of a process points to, or NULL
  mutex,    \* the holder of the mutex of a pool, or NULL
  booting,  \* main has not called intr_enable yet
  off,      \* the thread that runs with interrupts off, or NULL
  pc,       \* where each thread is; "out" is outside of the allocator
  call,     \* the call a thread is in: its kind and its range of pages
  idx,      \* the loop counter of malloc_page or free_page
  bit,      \* the result of the last bitmap_scan of palloc
  tbit,     \* the same, for a page table
  own,      \* the ranges <<first, count>> each thread was given
  started,  \* the processes that have called get_page for their stack
  panic     \* "none", or the ASSERT that failed

vars == <<load, pool, vaddr, pte, pde, mutex, off, pc, call, idx, bit, tbit, own,
          started, booting, panic>>

\* kern_vaddr is one bitmap for all kernel threads, and so is their table.
Space(t) == IF t \in KThreads THEN "kernel" ELSE t
Spaces   == {"kernel"} \cup Procs
Pool(t)  == IF t \in KThreads THEN "kern_pool" ELSE "user_pool"

NoCall == [kind |-> "none", first |-> 0, count |-> 0]

\* mem_pool_init, and processes that process_execute made.
Init ==
  /\ load \in Loads
  /\ pool  = [p \in Pools |->
                bitmap_init(IF p = "kern_pool" THEN KLen ELSE ULen)]
  /\ vaddr = [s \in Spaces |->
                bitmap_init(IF s = "kernel" THEN KLen ELSE VLen)]
  /\ pte   = [s \in Spaces |->
                [v \in IF s = "kernel" THEN KPages ELSE VPages |-> NULL]]
  /\ pde   = [p \in Procs |-> [r \in Regions |-> NULL]]
  /\ mutex = [p \in Pools |-> NULL]
  /\ off   = NULL
  /\ booting = TRUE
  /\ pc    = [t \in Threads |-> "out"]
  /\ call  = [t \in Threads |-> NoCall]
  /\ idx   = [t \in Threads |-> 0]
  /\ bit   = [t \in Threads |-> NULL]
  /\ tbit  = [t \in Threads |-> NULL]
  /\ own   = [t \in Threads |-> {}]
  /\ started = {}
  /\ panic = "none"

-----------------------------------------------------------------------------
At(t, p) == /\ panic = "none" /\ off \in {NULL, t} /\ pc[t] = p
            /\ booting => t = main

Goto(t, p) == pc' = [pc EXCEPT ![t] = p]

\* ASSERT(cond): the rest of a step that fails it is never looked at.
ASSERT(cond, name) == panic' = IF cond THEN "none" ELSE name

Call(t, kind, first, count, p) ==
  /\ call' = [call EXCEPT ![t] =
                [kind |-> kind, first |-> first, count |-> count]]
  /\ Goto(t, p)
  /\ UNCHANGED <<pool, vaddr, pte, pde, mutex, idx, bit, tbit, own, panic>>

\* thread_start and process_execute, which main calls while it boots: pages
\* from the kernel pool, without its mutex.
get_kern_pages(t, n) ==
  /\ At(t, "out") /\ booting
  /\ Cardinality(own[t]) < MaxOwned[t]
  /\ Call(t, "get_kern_pages", 0, n, "vaddr_scan")
  /\ UNCHANGED <<off, started>>

\* sys_malloc of more than 1024 bytes or of a new arena, and get_user_pages.
sys_malloc(t, n) ==
  /\ At(t, "out") /\ (booting \/ t \in (load \ Procs) \cup started)
  /\ Cardinality(own[t]) < MaxOwned[t]
  /\ Call(t, "malloc", 0, n, "lock")
  /\ off' = IF t \in Procs THEN t ELSE NULL
  /\ UNCHANGED started

\* sys_free of a large block or of the last block of an arena.
sys_free(t, r) ==
  /\ At(t, "out") /\ r \in own[t]
  /\ call' = [call EXCEPT ![t] =
                [kind |-> "free", first |-> r[1], count |-> r[2]]]
  /\ own' = [own EXCEPT ![t] = @ \ {r}]
  /\ off' = IF t \in Procs THEN t ELSE NULL
  /\ Goto(t, "lock")
  /\ UNCHANGED <<pool, vaddr, pte, pde, mutex, idx, bit, tbit, started, panic>>

\* start_process: get_page(PF_USER, USER_STACK_VADDR).
start_process(t) ==
  /\ At(t, "out") /\ t \in (load \cap Procs) \ started
  /\ Call(t, "get_page", StackPage, 1, "lock")
  /\ started' = started \cup {t}
  /\ UNCHANGED off

-----------------------------------------------------------------------------
\* The interrupt state of a system call, again when it has the mutex.
InCall(t) == IF t \in Procs /\ call[t].kind # "get_page" THEN t ELSE NULL

mutex_lock(t) ==
  /\ At(t, "lock") /\ mutex[Pool(t)] = NULL
  /\ mutex' = [mutex EXCEPT ![Pool(t)] = t]
  /\ off' = InCall(t)
  /\ Goto(t, CASE call[t].kind = "malloc"   -> "vaddr_scan"
               [] call[t].kind = "free"     -> "vaddr_remove"
               [] call[t].kind = "get_page" -> "stack_set")
  /\ UNCHANGED <<pool, vaddr, pte, pde, call, idx, bit, tbit, own, started,
                 panic>>

\* The mutex is taken: sem_down blocks, another thread runs.
block(t) ==
  /\ At(t, "lock") /\ off = t /\ mutex[Pool(t)] # NULL
  /\ off' = NULL
  /\ UNCHANGED <<pool, vaddr, pte, pde, mutex, pc, call, idx, bit, tbit, own,
                 started, panic>>

\* The return of a call, with the mutex unlocked if the call locked it, and
\* with the pages if it got them.
Return(t, got) ==
  /\ mutex' = [mutex EXCEPT ![Pool(t)] = IF @ = t THEN NULL ELSE @]
  /\ own' = [own EXCEPT ![t] = @ \cup got]
  /\ off' = NULL
  /\ call' = [call EXCEPT ![t] = NoCall]
  /\ idx' = [idx EXCEPT ![t] = 0]
  /\ bit' = [bit EXCEPT ![t] = NULL]
  /\ Goto(t, "out")

-----------------------------------------------------------------------------
(* vaddr_get.                                                              *)

vaddr_scan(t) ==
  LET first == bitmap_scan(vaddr[Space(t)], call[t].count)
  IN  /\ At(t, "vaddr_scan")
      /\ \/ /\ first = -1
            /\ Return(t, {})
            /\ UNCHANGED panic
         \/ /\ first # -1
            /\ ASSERT(first # PANIC, "bitmap")
            /\ call' = [call EXCEPT ![t].first = first]
            /\ Goto(t, "vaddr_set")
            /\ UNCHANGED <<mutex, off, idx, bit, own>>
      /\ UNCHANGED <<pool, vaddr, pte, pde, tbit, started>>

\* Mutant: only the first page of a range is marked.
vaddr_set_First(t) ==
  /\ At(t, "vaddr_set")
  /\ vaddr' = [vaddr EXCEPT ![Space(t)].ones = @ \cup {call[t].first}]
  /\ Goto(t, "palloc_scan")
  /\ UNCHANGED <<pool, pte, pde, mutex, off, call, idx, bit, tbit, own,
                 started, panic>>

vaddr_set(t) ==
  /\ At(t, "vaddr_set")
  /\ vaddr' = [vaddr EXCEPT ![Space(t)].ones =
                 @ \cup call[t].first .. call[t].first + call[t].count - 1]
  /\ Goto(t, "palloc_scan")
  /\ UNCHANGED <<pool, pte, pde, mutex, off, call, idx, bit, tbit, own,
                 started, panic>>

\* get_page marks the page it is told to map.
stack_set(t) ==
  /\ At(t, "stack_set")
  /\ ASSERT(call[t].first > 0, "get_page")
  /\ vaddr' = [vaddr EXCEPT ![Space(t)] = bitmap_set(@, call[t].first)]
  /\ Goto(t, "palloc_scan")
  /\ UNCHANGED <<pool, pte, pde, mutex, off, call, idx, bit, tbit, own,
                 started>>

-----------------------------------------------------------------------------
(* palloc, page_table_add and the loop of malloc_page.                     *)

(***************************************************************************)
(* When there is no frame malloc_page gives up; what it has allocated so   *)
(* far stays allocated.  get_page returns with the mutex locked.           *)
(***************************************************************************)
palloc_scan(t) ==
  LET found == bitmap_scan(pool[Pool(t)], 1)
  IN  /\ At(t, "palloc_scan")
      /\ \/ /\ found = -1 /\ call[t].kind # "get_page"
            /\ Return(t, {})
         \/ /\ found = -1 /\ call[t].kind = "get_page"
            /\ Goto(t, "no_stack")
            /\ UNCHANGED <<mutex, off, call, idx, bit, own>>
         \/ /\ found # -1
            /\ bit' = [bit EXCEPT ![t] = found]
            /\ Goto(t, "palloc_set")
            /\ UNCHANGED <<mutex, off, call, idx, own>>
      /\ UNCHANGED <<pool, vaddr, pte, pde, tbit, started, panic>>

palloc_set(t) ==
  /\ At(t, "palloc_set")
  /\ pool' = [pool EXCEPT ![Pool(t)] = bitmap_set(@, bit[t])]
  /\ Goto(t, "page_table_add")
  /\ UNCHANGED <<vaddr, pte, pde, mutex, off, call, idx, bit, tbit, own,
                 started, panic>>

\* The page being mapped or unmapped, and the pde it needs.
Page(t)     == call[t].first + idx[t]
TableOf(t)  == Page(t) \div TablePages
HasTable(t) == t \in Procs => pde[t][TableOf(t)] # NULL

\* The pde is present: the pte has to be absent, and is set.
page_table_add(t) ==
  /\ At(t, "page_table_add") /\ HasTable(t)
  /\ ASSERT(pte[Space(t)][Page(t)] = NULL, "pte")
  /\ pte' = [pte EXCEPT ![Space(t)][Page(t)] = bit[t]]
  /\ \/ /\ idx[t] + 1 < call[t].count
        /\ idx' = [idx EXCEPT ![t] = @ + 1]
        /\ bit' = [bit EXCEPT ![t] = NULL]
        /\ Goto(t, "palloc_scan")
        /\ UNCHANGED <<mutex, off, call, own>>
     \/ /\ idx[t] + 1 = call[t].count
        /\ Return(t, IF call[t].kind = "get_page" THEN {}
                     ELSE {<<call[t].first, call[t].count>>})
  /\ UNCHANGED <<pool, vaddr, pde, tbit, started>>

\* The pde is absent: a page table from the kernel pool, without its mutex.
\* That the pool can be empty is not noticed: the page table would be page
\* frame 0, and what happens then is not modelled.
table_scan(t) ==
  LET found == bitmap_scan(pool["kern_pool"], 1)
  IN  /\ At(t, "page_table_add") /\ ~HasTable(t)
      /\ panic' = IF found = -1 THEN "frame 0" ELSE "none"
      /\ tbit' = [tbit EXCEPT ![t] = found]
      /\ Goto(t, "table_set")
      /\ UNCHANGED <<pool, vaddr, pte, pde, mutex, off, call, idx, bit, own,
                     started>>

table_set(t) ==
  /\ At(t, "table_set")
  /\ pool' = [pool EXCEPT !["kern_pool"] = bitmap_set(@, tbit[t])]
  /\ Goto(t, "table_add")
  /\ UNCHANGED <<vaddr, pte, pde, mutex, off, call, idx, bit, tbit, own,
                 started, panic>>

\* The new table is cleared, so its pte is absent.
table_add(t) ==
  /\ At(t, "table_add")
  /\ pde' = [pde EXCEPT ![t][TableOf(t)] = tbit[t]]
  /\ pte' = [pte EXCEPT ![t] = [v \in VPages |->
                IF v \div TablePages = TableOf(t) THEN NULL ELSE @[v]]]
  /\ tbit' = [tbit EXCEPT ![t] = NULL]
  /\ Goto(t, "page_table_add")
  /\ UNCHANGED <<pool, vaddr, mutex, off, call, idx, bit, own, started, panic>>

-----------------------------------------------------------------------------
(* free_page.                                                              *)

vaddr_remove(t) ==
  /\ At(t, "vaddr_remove")
  /\ vaddr' = [vaddr EXCEPT ![Space(t)].ones =
                 @ \ (call[t].first .. call[t].first + call[t].count - 1)]
  /\ Goto(t, "pfree")
  /\ UNCHANGED <<pool, pte, pde, mutex, off, call, idx, bit, tbit, own,
                 started, panic>>

\* Mutant: the page frame is not given back.
pfree_Skip(t) ==
  /\ At(t, "pfree")
  /\ Goto(t, "page_table_remove")
  /\ UNCHANGED <<pool, vaddr, pte, pde, mutex, off, call, idx, bit, tbit, own,
                 started, panic>>

\* vaddr_to_phy and pfree, whose mutex_lock is one more level of the mutex
\* that sys_free has locked.
pfree(t) ==
  /\ At(t, "pfree")
  /\ pool' = [pool EXCEPT ![Pool(t)] = bitmap_clear(@, pte[Space(t)][Page(t)])]
  /\ Goto(t, "page_table_remove")
  /\ UNCHANGED <<vaddr, pte, pde, mutex, off, call, idx, bit, tbit, own,
                 started, panic>>

\* Mutant: the pte stays present.
page_table_remove_Keeps(t) ==
  /\ At(t, "page_table_remove")
  /\ ASSERT(HasTable(t), "pde")
  /\ \/ /\ idx[t] + 1 < call[t].count
        /\ idx' = [idx EXCEPT ![t] = @ + 1]
        /\ Goto(t, "pfree")
        /\ UNCHANGED <<mutex, off, call, bit, own>>
     \/ /\ idx[t] + 1 = call[t].count
        /\ Return(t, {})
  /\ UNCHANGED <<pool, vaddr, pte, pde, tbit, started>>

page_table_remove(t) ==
  /\ At(t, "page_table_remove")
  /\ ASSERT(HasTable(t), "pde")
  /\ pte' = [pte EXCEPT ![Space(t)][Page(t)] = NULL]
  /\ \/ /\ idx[t] + 1 < call[t].count
        /\ idx' = [idx EXCEPT ![t] = @ + 1]
        /\ Goto(t, "pfree")
        /\ UNCHANGED <<mutex, off, call, bit, own>>
     \/ /\ idx[t] + 1 = call[t].count
        /\ Return(t, {})
  /\ UNCHANGED <<pool, vaddr, pde, tbit, started>>

-----------------------------------------------------------------------------
\* The end of boot.
intr_enable ==
  /\ booting /\ At(main, "out")
  /\ booting' = FALSE
  /\ UNCHANGED <<load, pool, vaddr, pte, pde, mutex, off, pc, call, idx, bit,
                 tbit, own, started, panic>>

Step(t) ==
  \/ \E n \in 1 .. MaxCount : get_kern_pages(t, n) \/ sys_malloc(t, n)
  \/ \E r \in own[t] : sys_free(t, r)
  \/ start_process(t)
  \/ mutex_lock(t) \/ block(t)
  \/ vaddr_scan(t) \/ vaddr_set(t) \/ stack_set(t)
  \/ palloc_scan(t) \/ palloc_set(t) \/ page_table_add(t)
  \/ table_scan(t) \/ table_set(t) \/ table_add(t)
  \/ vaddr_remove(t) \/ pfree(t) \/ page_table_remove(t)

Next == \/ intr_enable
        \/ \E t \in Threads : Step(t) /\ UNCHANGED <<load, booting>>

Spec == Init /\ [][Next]_vars

-----------------------------------------------------------------------------
(* Properties.                                                             *)

\* page_table_add never finds the pte it is to set present already.
PteIsAbsent == panic # "pte"

PagesOf(r) == r[1] .. r[1] + r[2] - 1

\* The pages that palloc has taken and that are not mapped yet, and the ones
\* that pfree has given back and that are still mapped.
Mapping(p) ==
  {t \in Threads :
     Pool(t) = p /\ pc[t] \in {"page_table_add", "table_set", "table_add"}}
InFlight(p) ==
  {bit[t] : t \in Mapping(p)} \cup
  {tbit[t] : t \in {u \in Threads : p = "kern_pool" /\ pc[u] = "table_add"}}
Leaving(s) ==
  {Page(t) : t \in {u \in Threads :
                      Space(u) = s /\ pc[u] = "page_table_remove"}}

\* u, a space and a page of it, is mapped and not about to be unmapped.
Maps(u) == u[2] \notin Leaving(u[1]) /\ pte[u[1]][u[2]] # NULL

\* The places that use a page frame of a pool.
Uses(p) ==
  IF p = "kern_pool"
  THEN {u \in {"kernel"} \X KPages : Maps(u)}
       \cup {u \in Procs \X Regions : pde[u[1]][u[2]] # NULL}
  ELSE {u \in Procs \X VPages : Maps(u)}

FrameOf(p, u) ==
  IF p = "kern_pool" /\ u[1] # "kernel" THEN pde[u[1]][u[2]]
  ELSE pte[u[1]][u[2]]

(***************************************************************************)
(* No page frame is used twice, as a page of two ranges, of two processes  *)
(* or as a page and a page table, and the bits of a pool are exactly those *)
(* of the frames that are used or about to be: none is lost, and none that *)
(* is used can be allocated again.                                         *)
(***************************************************************************)
FramesUsedOnce ==
  panic = "none" => \A p \in Pools :
    /\ \A u, w \in Uses(p) : FrameOf(p, u) = FrameOf(p, w) => u = w
    /\ pool[p].ones = {FrameOf(p, u) : u \in Uses(p)} \cup InFlight(p)

(***************************************************************************)
(* The pages a thread was given are its own until it frees them: no other  *)
(* range of the same address space overlaps them, they are marked in the   *)
(* bitmap, and they are mapped.                                            *)
(***************************************************************************)
RangesAreOwned ==
  panic = "none" => \A t \in Threads : \A r \in own[t] :
    /\ \A v \in PagesOf(r) :
         v \in vaddr[Space(t)].ones /\ pte[Space(t)][v] # NULL
    /\ \A u \in Threads : \A q \in own[u] :
         Space(u) = Space(t) /\ PagesOf(q) \cap PagesOf(r) # {}
           => u = t /\ q = r

(***************************************************************************)
(* bitmap_scan finds the first run of cnt free bits of every bitmap that   *)
(* the allocator and its frees leave, whenever there is one, and for a     *)
(* single bit says -1 exactly when the bitmap is full.                     *)
(***************************************************************************)
ScanIsFirstFit ==
  \A bm \in {pool[p] : p \in Pools} \cup {vaddr[s] : s \in Spaces} :
    \A cnt \in 1 .. Size(bm) :
      Fits(bm, cnt) # {} \/ cnt = 1 => bitmap_scan(bm, cnt) = FirstFit(bm, cnt)
=============================================================================
