# xbayOS: a TLA+ model of the kernel

xbayOS is a small 32-bit x86 kernel: preemptive threads with semaphores and
recursive mutexes, a page and heap allocator, user processes with system calls,
drivers for clock, keyboard and IDE disk, and the beginning of a file system.
It runs on one processor; concurrency comes from the clock interrupt, which
may switch threads wherever interrupts are on, and from the handlers of the
other interrupts, which run in the thread they interrupt.

This directory holds the modules, the TLC configurations and the TLAPS proofs.
`PROJECT.json` lists components, runs, mutants, the map from definitions to
source lines, findings, hazards and theorems.

    tlc -workers 2 -config Thread_safety.cfg MCThread
    tlapm ThreadProofs.tla

Where a component has no `MC` module its own module is the root of its runs.

## Inventory

| Component | State | Operations | Interacts with |
| --- | --- | --- | --- |
| scheduler (`thread/thread.c`) | ready list, task states, time slices, current thread, interrupt flag | `schedule`, `thread_block`, `thread_unblock`, `thread_yield`, idle loop, clock handler | called by semaphores, clock, sleep |
| semaphores, mutexes (`thread/lock.c`) | counter, waiters, holder, recursion | `sem_up`, `sem_down`, `mutex_lock`, `mutex_unlock` | block and unblock threads; protect pids, pools, console, disk channel |
| task creation (`thread.c`, `proc/process.c`) | pids, list of all tasks | `allocate_pid`, `thread_start`, `process_execute`, `start_process` | page allocator, scheduler |
| lists, bitmaps (`lib/`) | links; bits | push, pop, remove, walk; scan, set, clear | everything |
| page allocator (`kernel/memory.c`) | bitmaps of two frame pools and of every address space, page tables | `malloc_page`, `free_page`, `get_kern_pages`, `get_user_pages`, `get_page` | mutex of each pool |
| heap (`kernel/memory.c`) | arenas, lists of free blocks | `sys_malloc`, `sys_free` | page allocator |
| keyboard (`device/keyboard.c`, `io_queue.c`) | modifier flags, prefix flag; ring buffer with three semaphores | interrupt handler, `io_queue_putchar`, `io_queue_getchar` | blocks the interrupted thread |
| disk (`device/disk.c`) | channel: mutex, semaphore, `waiting_intr`; registers of the drive; partitions found | `print_disk_info`, `ide_read`, `ide_write`, `spin_wait`, `disk_intr_handler`, `scan_partition` | threads wait for interrupts, and sleep while a drive is busy |
| clock (`device/timer.c`) | `total_times` | handler, `sleep_by_*` | scheduler |
| file system (`fs/`) | superblock, bitmaps, inodes, open inodes, file table | `fs_init`, `build_fs`, `mount_part`, `inode_open`, `inode_close`, `open_dir`, `close_dir`, `sys_open`, `create_file` | disk, heap |
| console, `printk`, strings, TSS, boot, descriptor tables | buffers, tables | straight-line code | mutex (console) |

What is hard in it: critical sections are made by clearing the interrupt flag
and restoring it, in nested calls; wake-ups do not hand the semaphore over;
several fields are written between two such sections; the keyboard handler may
block; page bitmaps are used with and without their mutex; the disk interrupt
may come before anyone waits for it, or after the driver has given up; sleepers
are never blocked and wait for a clock that only ticks with interrupts on; a
boot may be cut short while it formats a partition. What makes the components
correct: one list per thread and no lost thread or wake-up; mutual exclusion;
unique pids; a frame or page has one user and blocks never overlap; the ring
buffer is a queue; a read returns the sectors asked for; sleeps and
requests end; a whole file system stays whole; reference counts count.
`PROJECT.json` lists the hazards at their lines, with the properties that would
catch each, or with the reason why none does: the code fails there, or the
behaviour is left out.

## Modules

* **Sched**: the processor.  `intr` is the flag, `curr` the running thread,
  `ready` the list, `ctx` how a thread that was switched out continues (its
  first instruction, the return from the clock handler, or plain).  `schedule`
  is an operator on the ready list and the task states its caller leaves, and
  `INTERRUPT_RESTORE` chooses over the values of the uninitialised variable
  that `intr_set_status` looks at (`OldValues`).  `Booting` and `Started` are
  the states the modules over it begin in: main alone with interrupts off, or
  all threads in the ready list.
* **Lock**: `lock.c` on top of it.  `sem_up` and one pass of `sem_down` are
  single steps, since the flag is off in them.  `mutex_lock` and `mutex_unlock`
  are cut wherever it is on between two accesses to the mutex.
* **Thread**: threads that call all this in any order, create tasks with
  `allocate_pid`, boot with interrupts off, and make system calls; `int 0x80`
  is an interrupt gate, so that a system call runs with interrupts off.
  **Mutex** is the specification its callers rely on, in terms of `held` and
  `nest`, what the callers know; `ImplementsMutex` is the refinement (`INSTANCE
  Mutex WITH held <- held, nest <- nest`).
* **ThreadProofs**, **DiskProofs**, **MemoryProofs**, **IoQueueProofs**,
  **HeapProofs**, **InodeProofs**, **FormatProofs**: the proofs about the module
  of that name, with **Facts**, the lemmas they share about numbers, recursive
  functions and sequences.  The end of ThreadProofs is about Timer, the
  beginning of IoQueueProofs about Keyboard; the names of these two modules
  (`TimerSpec`, `KeyboardSpec`) are chosen so that one module can extend both.
  FormatProofs is about Partition as well.
* **Bitmap**: bitmaps with bytes of `ByteBits` bits; the passes of
  `bitmap_scan` as operators, with first fit as their reference; Memory uses
  them and checks the one against the other on every bitmap it reaches.
* **Memory**: frames, virtual pages and page tables; every scan and every set
  is a step of its own.  `off` is the process that is in a system call with
  interrupts off, `load` the tasks that boot left running.  A failed ASSERT, and
  the use of frame 0 as a page table, end the behaviour.
* **Heap** and **Allocator**: the arenas of one heap.  A call is one step: it
  runs under the mutex of the pool (`Memory` shows what that is worth), and the
  interrupt-free section only saves the list of a descriptor from being walked.
  A call that finds no free range changes nothing and is not an action; one for
  which the frames run out (`malloc_fail`) returns NULL and keeps its pages, which
  `lost` remembers.  How many frames there are is not modelled: they may run out
  at any call.  The heap implements Allocator with `live`, the blocks its callers have, for `live`.
* **Keyboard**: scan codes as the controller sends them, the flags, the table.
* **IoQueue**: the ring buffer over Sched and Lock: the handler runs in the
  interrupted thread and may block it.
* **Timer**: the clock handler with `total_times`, and the sleeps, over Sched.
  A sleeper is a ready thread that looks at the time and yields.  main sleeps
  during boot as well, with interrupts off, as `spin_wait` makes it.
  `total_times` and the sums and products of the sleeps wrap at `TimeSpan`; `now`
  and `begin` are history variables that do not, and say how long a sleep really
  lasted.
* **Disk**: main probes the drives with `print_disk_info`, without the mutex,
  then several threads make requests; the registers of the drive, its data and
  the interrupt are external.  The interrupt may come late, or without anyone
  waiting.  `spin_wait` is modelled with its looks and its sleeps: `looks` is
  `ms`, counted in sleeps of ten milliseconds, and `seen` is a history variable
  for `GivesUpAfterAllLooks`.  A sleep ends under the conditions that
  `Timer!SleepEnds` states: this is what the fairness of `spin_wake` says.  The
  drive may fail any command, and fails one that goes past its last sector
  (`drive_fail`); `spin_failed` is the panic over a drive that is not busy and has
  no data, `spin_timeout` that over one that stays busy, `setup_assert` the ASSERT
  on the address.  An error after the data of a write were taken is not modelled,
  as `ide_write` does not look for one.
* **Partition**: `scan_partition`, its frames in `stack`, over a disk whose
  sectors may have been overwritten.  It has no specification of its own.
* **Format**: a boot, from the scan of Partition to the open root directory;
  `fs_init` works on the partitions the scan found, and a power failure lets
  the next boot scan what the last one left.  A sector holds the name of what
  was written to it; `ide_write` transfers `MaxSectors` sectors whatever
  shorter count it is given, as in Disk.  What follows the buffer in memory is
  `Junk`: it is taken not to look like a superblock.  The content of the areas
  is not modelled.
* **List** and **Inode**: the open inodes and the directory handles on them,
  over the links of their list as `lib/list.c` changes them.  A closed inode is
  freed with its links as they were, and its memory is used again.  The other
  modules take a list for the sequence of its nodes.

`MC*` modules give CONSTANTS that a configuration file cannot write down.

## Runs

Passing runs:

| Run | Shows | Bounds |
| --- | --- | --- |
| `Thread_safety` | the scheduler and mutex invariants and `ImplementsMutex` | main, idle and three tasks, one mutex besides `pid_lock`, locked twice by one thread at most, slices of one and two ticks. main and one task can create the other two at the same time, so that `pid_lock` is contended; the pid for the third task is the one `allocate_pid` refuses, which ends the behaviour. Of the others, main and two tasks are an owner, a woken waiter and a thief. |
| `Thread_liveness` | ready threads run, waiters are woken, flag restored | main, idle and two tasks, already created; `old` is not `INTR_ON`; no nesting |
| `Memory_pages` | a page table entry is absent where one is added, a frame has one use, owned ranges are disjoint and mapped, scans are first fit | two allocating kernel threads, or two processes with stacks, after a boot that has allocated; four frames in each pool, ranges of up to two pages, so that frames and pages run out |
| `Heap_blocks` | blocks, counters, lists and pages agree; implements `Allocator` | small pages, two block sizes and large blocks; the frames may run out at any call |
| `Keyboard_keys` | no modifier stays on after its keys are up | one key of each kind, any number held at once |
| `IoQueue_buffer` | the buffer is a queue, semaphores count it, no lost wake-up, no ASSERT fails but in a handler that blocked the idle thread | two readers, a buffer of two, five keys anywhere: enough to fill the buffer and to block main and both readers, after which a key meets the idle thread |
| `Disk_requests` | reads and identify are right, the channel is clean between requests, a drive is given up only after an error or all looks of one wait, requests end | main during boot, then two threads on two drives that may fail; two requests below, at and above the longest transfer, some of them past the last sector; two looks, so that a wait can end at its first look, at its last, or not at all |
| `Timer_sleep` | sleeps end, and none early but for two overflows | main during boot, or main, idle and another thread after it; a second of three ticks and two milliseconds, so that milliseconds are rounded up; a counter of six values, so that two seconds or milliseconds overflow, and runs that begin just before it wraps; seven ticks are counted, more than a round, then the time stays; `old` is not `INTR_ON` |
| `Boot_cuts` | the scan finds what the tables describe, at every boot; every file system is whole but for one per power failure; a whole one stays whole; what is mounted is what is on the disk; no table is scanned twice at once and one buffer is lost at most | every arrangement of four entries and of up to three tables in a chain, with room for two logical partitions, on partitions without sectors; and five disks with up to three partitions, primary or logical, any of them formatted before, long enough for `data_start` to be inside; two power failures, between any two steps |
| `Inode_handles` | right counts, nothing dangling or leaked, links agree in both directions | one thread, three inodes, four handles: an inode with several users, and memory that is used again |

Every property has a mutant: a definition with a plausible mistake with which
TLC finds the property violated.

Runs that end in a violation, each against a sentence of the repository (quoted
in `PROJECT.json`):

| Run | What the code does |
| --- | --- |
| `Thread_restore` | `intr_set_status` tests an uninitialised variable: interrupts can stay off |
| `Disk_write` | short writes transfer 256 sectors |

### What the bounds leave out on purpose

Some constants describe what the kernel does at this commit; with others the
same modules give a counterexample, because the code is not ready for them.

* `Memory`: with a kernel thread and a process in one load (`Loads =
  {{k1, p1}}`) `FramesUsedOnce` fails, since page tables of processes come from
  the kernel pool under the mutex of the user pool (`memory.c:176`).
  `get_kern_pages` takes no mutex at all (`memory.c:277`); at this commit only
  boot calls it, and so does the model, although `process_execute`, which would
  call it, is something any thread can do in Thread.
* `Bitmap`: a scan for two or more bits without a fit does not return -1 but
  fails the ASSERT of `bitmap_has` (`bitmap.c:41`); the model stops there.
* `Format`: with a first partition that is too short, its root directory is
  written into the next one and `WholeStaysWhole` fails (`fs.c:52`).  As
  `strcmp` compares only first characters (`string.c:79`), every primary
  partition is mounted in turn and the last one stays.
* `Inode`: with two threads there can be two copies of one inode, although they
  are meant to be shared (`inode.c:82`), and `CountsTheUsers` fails: `inode_open`
  does not look in the list again after it has read the disk (`inode.c:84`).
* `Partition`: the tables form a chain.  Nothing in the code stops at one that
  leads back to an earlier table, where `scan_partition` would call itself for
  ever.
* `Timer`: nothing is left out, but `NeverWakesEarly` has two exceptions, both in
  the run: a sleep whose `start + t` wraps ends at once if its thread looks before
  `total_times` has wrapped too (`timer.c:54`), and the number of ticks of a long
  one is cut to 32 bits before it is divided (`timer.c:61`).  `SleepEnds` excepts
  the sleeps during which `total_times` wraps, whose threads may look only before
  their time and after the wrap-around; those whose time lies behind the last
  tick of the run; and main during boot once the idle thread is blocked: main
  then yields to itself with interrupts off, and no tick is counted.
  `RequestsEnd` of Disk excepts that last sleep too.
* `Keyboard`: capslock counts for the backslash key, as the list of keys with
  two characters has 0x2a in the place of 0x2b (`keyboard.c:143`).

`CHECK_DEADLOCK FALSE` is used where the system may stop: after a panic, when
a bound on requests, keys or boots is used up, when a boot is done,
or where interrupts stay off (`Thread_safety`, by `OldValues`).

### Fairness

`Thread_liveness`, `Timer_sleep` and `Disk_requests` check liveness.

* Thread: the kernel's own steps are weakly fair, since the processor executes.
  The clock is strongly fair: the PIC latches it, so it is taken if interrupts
  are on again and again.  A thread that is scheduled again and again finishes
  its call or unlocks what it holds (strong fairness; a tick is far longer than
  a step, and no lock holder in the kernel waits for ever).  A thread's own
  decisions to lock or to yield are not fair.
* Timer: as Thread; a sleeper that is scheduled again and again gets through a
  pass of its loop, and main ends the boot if it does not sleep.  Like
  `Thread_liveness`, the run has an `old` that does not read as `INTR_ON`:
  otherwise interrupts may stay off after any yield, and no tick comes.
* Disk: driver and drive make progress and the drive answers a command or fails
  it, though possibly after the driver has given up.  A sleep ends after boot; during boot
  nothing is assumed of it, since Timer shows that it may not end.

## Proofs

Every theorem is `Spec => []P` for an invariant `P` of a run, or `Spec => P` for
an action property or a refinement, for all values of the constants that the ASSUMEs of the modules
allow.  None of the properties is inductive; each proof module has an `Inv`
that is, and TLC checked it on the run's instance before it was proved.

**Thread** (any number of threads and mutexes, any priorities and any outcome
of the uninitialised variable; main and idle are two threads, priorities and
nesting fit a `uint8_t`, `pid_lock` is a mutex, there is a limit on pids).

* `Inv` is inductive (`Invariance`), and from it follow `TypeOK`,
  `NoAssertFails`, `MutualExclusion`, `PidsUnique` and `TagInOneList`.
* With a little more come `NoThreadLost`, `NoLostWakeup`, `SyscallUninterrupted`,
  and `InterruptsRestored` under the hypothesis `ON \notin OldValues`; without
  it the property is the one that `Thread_restore` violates.
* `Spec => ImplementsMutex`: every step of Thread is a step of Mutex or leaves
  `held` and `nest` alone.

`Inv` adds: what a thread at each point of `mutex_lock` and `mutex_unlock` knows
(`CallerInv`); who owns a mutex between its `sem_down` and `sem_up` and what its
fields hold at each point in between (`MutexInv`), which is where mutual
exclusion and the ASSERT on `recursion` come from; that only the owner of
`pid_lock` is between the reading and the increment of `next_pid` (`PidInv`); the
list each task is in according to its state (`QueueInv`, `ChildInv`,
`WaitersInv`), which gives the other ASSERTs.  `NoThreadLost` needs in addition
that the idle thread cannot be interrupted between its `thread_block` and its
return (`IdleInv`); `NoLostWakeup` is inductive relative to `Inv`; the two about
the flag need what the flag is at each point of a call (`FlagInv`).

**Disk** (any threads, drives, requests, transfer length and number of looks):
`ReadsTheSectors`, `ChannelClean`, `GivesUpAfterAllLooks`.  `OwnerInv` says that
a thread inside a request owns the mutex, unless it is the probe of the boot;
`TokenInv` that `sem` and `waiting_intr` together count one while the request
still waits for its interrupt and none otherwise, whenever the interrupt comes;
`RequestOK` and
`ReadOK` relate the registers, `offset` and the buffer to the request at every
point; `LooksOK` counts the looks of one `spin_wait`, and says that a drive which
is not busy while a thread waits for it has data or has failed.

**Memory** (any threads, bitmaps and requests): `PteIsAbsent`, `RangesAreOwned`
and `ScanIsFirstFit` for every load; `FramesUsedOnce` for loads without a
kernel thread next to a process (`SeparateLoads`), since with such a load TLC
finds a frame that is used twice.  `Inv` follows a virtual page through the
steps of `malloc_page` and `free_page` by what is scanned, set and mapped at each
point; `FrameInv` says of each pool that its bitmap is the frames in the page
tables (`Graph`) and the ones a thread has in hand (`InFlight`).  The byte loop
and the count of `bitmap_scan` are characterised by lemmas, for every bitmap.

**IoQueue** (any set of threads, readers, buffer length and keys; the set is
finite, so that waiters can be counted): `SemaphoresCount`, `BufferHoldsUnread`,
`NoLostWakeup`, `AssertFailsInIdleOnly`.  The first two need each other: the
semaphores count the points the threads are at (`PlaceInv`), and only then are
`front` and `rear` apart by what was stored and not read (`RingInv`, `GotInv`).
`WakeInv` says that a semaphore with waiters has woken at least as many threads
as its value, which is what `NoLostWakeup` lacks.  The
exception for the idle thread is part of the invariant: a handler that waits
there blocks the thread that `schedule` falls back to.

**Heap** (any page, arena and block sizes such that the largest block fits a
page, any requests): `BlocksAccounted`, `PagesReturned`, `InsideItsPages`, and
`Spec => ImplementsAllocator`.  `PageInv` says of every page what may be in it: a
large allocation alone, or blocks of one size of which those not given are in
the list and one at least is given; `ExtentInv` that the pages of the arenas are
those the heap has, but for the lost ones, and do not meet.  The refinement needs that an allocation
ends before the next arena begins, and that the blocks of an arena are apart.

**Keyboard** (any keys, held in any number and released in any order):
`NoStuckModifier`.  A make code is looked at without its 0xe0 prefix and a break
code with it, so the proof rests on which keys the driver knows: of those with
the prefix only the right ctrl and alt.  `KeysInv` says that a modifier that is on
has a key in `down`, or the key whose break code is still on the wire, and that
`ext_scancode` is on exactly between the two bytes of a code.

**Timer** (any threads, sleeps, ticks in a second, width of the counter and
number of ticks): `NeverWakesEarly`.  The invariant (`SleepInv`) is that `start` and
`total_times` differ by the ticks that really passed since the call, up to one
round of the counter, unless a whole round has passed (`InStep`).  So a comparison
that ends a sleep comes after its ticks, with or without a wrap-around in between,
if not the sum alone has wrapped; and `DIV_ROUND_UP` rounds up where it does not
overflow.

**Inode** (any inodes, memory for copies and handles): `CountsTheUsers`,
`InodesAccounted`, `LinkedBothWays`, for one thread (`OneThread`).  At this commit
only main uses the file system, during boot; with two threads the first is false,
since the list is looked at before the disk
is read and not again afterwards (`inode.c:84`).  `IsList` says that `next` and
`prev` are the two ways through a sequence of distinct nodes; lemmas show that
`list_push_front` puts a node before that sequence, that `list_remove` takes one
out at any place, and that a loop along the links passes exactly its nodes.
`CopyInv` says that handles are on copies in the list and that all memory is in
the list or in the hands of `inode_open`; `CallerInv` that a number not found in
the list is still not there when its copy is linked; `CountInv` that a copy is
counted right but between its linking and the assignment of its count.

**Partition and Format** (any disk, any number of entries and tables, any areas,
any number of power failures, any of the partitions formatted before):
`FindsThePartitions`, `TablesScannedOnce`, `OneLostPerCut`, `MountMatchesDisk` and
`WholeStaysWhole`.

* The scan: `ScanInv` says that the frames of `scan_partition` are the tables of
  the chain down to the running one, each past the entry that led on (`StackAt`),
  that `ext_lba_base` is the first table once it was entered, and that the
  partitions found are those of the entries already passed (`PlacesUpTo`), cut at
  `LogicLimit`.  The frames that return after the limit find nothing more, since
  all that is left in them is the rest of a table, so that only the frame that
  reached the limit returns early, without freeing its buffer (`LeakInv`).
* The format: every table sector still holds its table and a superblock is that
  of its own partition (`DiskInv`); the partitions before `i` have one
  (`StepInv`); the areas that `build_fs` has written so far are whole (`BuildInv`),
  although each write is of `MaxSectors` sectors and runs over the areas behind
  it, because they are written in the order of their addresses.  The root
  directory is last: a partition whose superblock was written and whose root
  directory was not is the one being built or one that was lost, and `LostInv`
  counts the lost ones; only `reboot` adds one, and it adds to `cuts` too.
* The mount: `MountInv` says that what was read is still on the disk; the writes
  for a later partition stay inside it (`Untouched`).

The layouts are those of `PartitionAssumption` and `FormatAssumption`: tables as
partitioning tools write them, partitions apart from each other and from the
tables, and room in each partition for everything that is written for it: the
root directory is at twice the address of the inode array and is followed by
`MaxSectors - 1` other sectors.  The last one is what the code does not check: with
a partition that is too short `WholeStaysWhole` is false, as said above.  It is
satisfiable: TLC evaluates it on the disks of `Boot_cuts`, where all partitions
of five disks are formatted.

The library's induction theorems cannot be used, as they take an operator; what
recursive functions compute (`block_size`, `Without`, `PlacesUpTo`, the loops of
`bitmap_scan`) is proved from the least number for which a claim would fail (`LeastNumber` and
`Iterates` in Facts).

Constants: the proofs made assumptions explicit: that the threads of IoQueue
are a finite set; that `NULL` is none of the values it is to be told from; that no
key has the make code 0x60, with or without a prefix, since the last byte of its
break code would be 0xe0 and be taken for a prefix (no PC keyboard has such a key);
and what well-formed tables are.

Only model-checked: the liveness properties `ReadyThreadRuns`, `WaiterIsWoken`,
`RequestsEnd` and `SleepEnds` with the fairness they need, which are out of the prover's reach.  Every safety property of a passing run is proved.

## Not modelled

* Files, directories and paths (`file.c`, most of `dir.c`, `sys_open` and
  `search_file` in `fs.c`).  At this commit nothing calls `sys_open`, and no file
  can be opened or created: `strcmp` looks at first characters only, so that
  every path from the root is taken for the root itself (`string.c:79`);
  `path_depth` starts again at the first name in every pass and does not return
  for a path of two names (`fs.c:317`); and `block_bm_alloc` tests its result the
  wrong way round (`file.c:56`), so that `create_file` ends in a failed ASSERT of
  `add_entry`, before its first write.  `inode_sync` and `bitmap_sync` come after
  it.  A faithful model has no step that changes the disk or that a later call
  could see.
* `thread_start` after boot: its `list_exist` walks the lists with interrupts
  on.  main calls it with interrupts off, which is what `list_task` models.
* `set_frequency` (`timer.c:30`): it loses the high byte of the counter.  That
  makes a tick shorter, and time is counted in ticks in all modules.
* The TLB.  `page_table_remove` gives `invlpg` the address of its parameter and
  not the page (`memory.c:233`), so that the translation of a freed page stays.
  As `process_activate` loads `cr3` at every switch (`process.c:106`), it can
  mislead one thread within one time slice: it frees a page, allocates others
  which get that frame, and allocates the first page again.
* What a page table in frame 0 does: the model stops there.  What a process does
  that gets no stack page (`memory.c:318`): it stays at `no_stack`, with the mutex
  of its pool locked, and the others go on.
* `sys_kmalloc` and `sys_kfree` in a process, which none calls.
* `io_queue_full` (no caller), the console (a mutex around output), strings and
  formatting, boot code, descriptor tables, TSS: no concurrency of their own, or
  formats rather than behaviour.
* `list_push_back` and the pops at the level of links.

Taken as intended rather than as written: `FD_MAX` is defined empty
(`thread.h:9`), so that `thread.c` does not compile as it is; `pte_ptr` has no
return statement and is modelled as returning the pointer it computes;
`disk.h` declares an empty `super_block` next to the one of `superblock.h`.

## Plan

1. Composition: threads that use Disk through Lock and Timer instead of a mutex
   variable and a step that ends a sleep; Memory over Lock.
2. `thread_start` after boot with its walk, once the code calls it there; the
   self-deadlock of the keyboard handler as a property.
