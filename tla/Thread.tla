------------------------------- MODULE Thread -------------------------------
(***************************************************************************)
(* Threads and processes that share the CPU and the mutexes: Sched and     *)
(* Lock composed with task creation (thread_start and process_execute,     *)
(* which allocate a pid under pid_lock), system calls and the end of boot. *)
(*                                                                         *)
(* A thread that is at "run" executes code of its own and can call any of  *)
(* the operations below: yield the CPU, lock a mutex, unlock the one it    *)
(* has, create a task, or enter and leave a system call.  As in the        *)
(* kernel, a thread has one mutex at a time, possibly nested (sys_free     *)
(* calls pfree, which locks the pool's mutex again).                       *)
(***************************************************************************)
EXTENDS Lock

CONSTANTS
  pid_lock,   \* the mutex around next_pid
  PidLimit    \* the next_pid allocate_pid refuses: 0xffff in the code

ASSUME ThreadAssumption ==
  /\ pid_lock \in Mutexes
  /\ NULL \notin Mutexes /\ NULL \notin Nat
  /\ PidLimit \in Nat /\ PidLimit > 1

VARIABLES
  all,       \* all_thread_list
  pid,       \* task_struct.pid, NULL until it is allocated
  next_pid,  \* the next pid allocate_pid gives out
  child,     \* the task_struct a thread is creating, or NULL
  mode,      \* "boot" until main calls intr_enable; "syscall" inside int 0x80
  held,      \* the mutex the code of a thread has locked, or NULL
  nest       \* how often

threadVars == <<all, pid, next_pid, child, mode>>
callerVars == <<held, nest>>
vars == <<schedVars, lockVars, threadVars, callerVars>>

-----------------------------------------------------------------------------
Init ==
  /\ Booting
  /\ LockInit
  /\ all      = <<main, idle>>
  /\ pid      = [t \in Threads |-> CASE t = main -> 0
                                     [] t = idle -> 1
                                     [] OTHER    -> NULL]
  /\ next_pid = 2
  /\ child    = [t \in Threads |-> NULL]
  /\ mode     = [t \in Threads |-> IF t = main THEN "boot" ELSE "kernel"]
  /\ held     = [t \in Threads |-> NULL]
  /\ nest     = [t \in Threads |-> 0]

-----------------------------------------------------------------------------
(* The calls a thread makes from its own code.                             *)

Calling(t) == At(t, "run") /\ t # idle

\* mutex_lock(m), of a free choice of mutex or once more of its own.
mutex_lock(t, m) ==
  /\ Calling(t) /\ m # pid_lock
  /\ held[t] = NULL \/ (held[t] = m /\ nest[t] < MaxRecursion)
  /\ arg' = [arg EXCEPT ![t] = m]
  /\ Goto(t, "lock_check")
  /\ UNCHANGED <<intr, curr, ready, status, ava, ctx, saved, panic,
                 value, waiters, holder, recursion, threadVars, callerVars>>

\* The caller of mutex_unlock stops using what the mutex protects.
GiveUp(t) ==
  /\ nest' = [nest EXCEPT ![t] = @ - 1]
  /\ held' = [held EXCEPT ![t] = IF nest[t] = 1 THEN NULL ELSE @]

mutex_unlock(t) ==
  /\ Calling(t) /\ held[t] # NULL
  /\ arg' = [arg EXCEPT ![t] = held[t]]
  /\ GiveUp(t)
  /\ Goto(t, "unlock_own")
  /\ UNCHANGED <<intr, curr, ready, status, ava, ctx, saved, panic,
                 value, waiters, holder, recursion, threadVars>>

\* Mutant: the task gets its pid before pid_lock is locked.
task_struct_init_Early(t, n) ==
  /\ Calling(t) /\ held[t] = NULL
  /\ status[n] = "UNUSED"
  /\ status' = [status EXCEPT ![n] = "READY"]
  /\ child' = [child EXCEPT ![t] = n]
  /\ pid' = [pid EXCEPT ![n] = next_pid]
  /\ arg' = [arg EXCEPT ![t] = pid_lock]
  /\ Goto(t, "lock_check")
  /\ UNCHANGED <<intr, curr, ready, ava, ctx, saved, panic,
                 value, waiters, holder, recursion,
                 all, next_pid, mode, callerVars>>

(***************************************************************************)
(* thread_start or process_execute: a fresh page becomes a task_struct,    *)
(* task_struct_init makes it READY and calls allocate_pid.  (main calls    *)
(* thread_start before it turns interrupts on, anyone process_execute.)    *)
(***************************************************************************)
task_struct_init(t, n) ==
  /\ Calling(t) /\ held[t] = NULL
  /\ status[n] = "UNUSED"
  /\ status' = [status EXCEPT ![n] = "READY"]
  /\ child' = [child EXCEPT ![t] = n]
  /\ arg' = [arg EXCEPT ![t] = pid_lock]
  /\ Goto(t, "lock_check")
  /\ UNCHANGED <<intr, curr, ready, ava, ctx, saved, panic,
                 value, waiters, holder, recursion,
                 all, pid, next_pid, mode, callerVars>>

\* int 0x80 is an interrupt gate: the system call runs with interrupts off
\* (if they are off already, the call changes nothing that is modelled),
syscall_handler(t) ==
  /\ Calling(t) /\ mode[t] = "kernel" /\ intr = ON /\ held[t] = NULL
  /\ intr' = OFF
  /\ mode' = [mode EXCEPT ![t] = "syscall"]
  /\ UNCHANGED <<curr, ready, status, ava, ctx, pc, saved, panic, lockVars,
                 all, pid, next_pid, child, callerVars>>

\* and its iretd turns them on; so does main's intr_enable at the end of boot.
intr_enable(t) ==
  /\ Calling(t) /\ mode[t] # "kernel" /\ held[t] = NULL
  /\ intr' = ON
  /\ mode' = [mode EXCEPT ![t] = "kernel"]
  /\ UNCHANGED <<curr, ready, status, ava, ctx, pc, saved, panic, lockVars,
                 all, pid, next_pid, child, callerVars>>

-----------------------------------------------------------------------------
(* What the code in these calls does next.                                 *)

AfterLock(t)   == IF arg[t] = pid_lock THEN "pid_read" ELSE "run"
AfterUnlock(t) == IF arg[t] = pid_lock THEN "created" ELSE "run"

\* When mutex_lock returns, the caller has the mutex.
Take(t) ==
  IF arg'[t] = NULL
  THEN /\ held' = [held EXCEPT ![t] = arg[t]]
       /\ nest' = [nest EXCEPT ![t] = @ + 1]
  ELSE UNCHANGED callerVars

Locking(t) ==
  /\ \/ lock_check(t, AfterLock(t)) /\ Take(t)
     \/ lock_down(t) /\ UNCHANGED callerVars
     \/ lock_own(t) /\ UNCHANGED callerVars
     \/ lock_count(t, AfterLock(t)) /\ Take(t)
  /\ UNCHANGED threadVars

Unlocking(t) ==
  /\ \/ unlock_own(t)
     \/ unlock_check(t, AfterUnlock(t))
     \/ unlock_holder(t)
     \/ unlock_count(t)
     \/ unlock_up(t, AfterUnlock(t))
  /\ UNCHANGED <<threadVars, callerVars>>

\* allocate_pid, with pid_lock locked: read next_pid, ...
pid_read(t) ==
  /\ At(t, "pid_read")
  /\ panic' = IF next_pid # PidLimit THEN "none" ELSE "pids exhausted"
  /\ pid' = [pid EXCEPT ![child[t]] = next_pid]
  /\ Goto(t, "pid_inc")
  /\ UNCHANGED <<intr, curr, ready, status, ava, ctx, saved, lockVars,
                 all, next_pid, child, mode, callerVars>>

\* ... increment it, and unlock.
pid_inc(t) ==
  /\ At(t, "pid_inc")
  /\ next_pid' = next_pid + 1
  /\ arg' = [arg EXCEPT ![t] = held[t]]
  /\ GiveUp(t)
  /\ Goto(t, "unlock_own")
  /\ UNCHANGED <<intr, curr, ready, status, ava, ctx, saved, panic,
                 value, waiters, holder, recursion, all, pid, child, mode>>

\* Mutant: the new task is not put in the ready list.
list_task_NotReady(t) ==
  LET n == child[t]
  IN  /\ At(t, "created")
      /\ ASSERT(n \notin ToSet(ready) /\ n \notin ToSet(all))
      /\ all' = Append(all, n)
      /\ ava' = [ava EXCEPT ![n] = Priority[n]]
      /\ child' = [child EXCEPT ![t] = NULL]
      /\ INTERRUPT_RESTORE(intr)
      /\ Goto(t, "run")
      /\ UNCHANGED <<curr, ready, status, ctx, saved, lockVars,
                     pid, next_pid, mode, callerVars>>

\* The new task enters both lists, with interrupts off.
list_task(t) ==
  LET n == child[t]
  IN  /\ At(t, "created")
      /\ ASSERT(n \notin ToSet(ready) /\ n \notin ToSet(all))
      /\ ready' = Append(ready, n)
      /\ all' = Append(all, n)
      /\ ava' = [ava EXCEPT ![n] = Priority[n]]
      /\ child' = [child EXCEPT ![t] = NULL]
      /\ INTERRUPT_RESTORE(intr)
      /\ Goto(t, "run")
      /\ UNCHANGED <<curr, status, ctx, saved, lockVars,
                     pid, next_pid, mode, callerVars>>

Yielding(t) ==
  thread_yield(t) /\ UNCHANGED <<lockVars, threadVars, callerVars>>

Returning(t) ==
  yield_return(t) /\ UNCHANGED <<lockVars, threadVars, callerVars>>

\* The code of the calls above, up to their return.
Critical(t) ==
  Locking(t) \/ Unlocking(t) \/ pid_read(t) \/ pid_inc(t) \/ list_task(t)

\* Returns from a switch, and the steps of the idle thread.
Kernel ==
  /\ kthread \/ intr_exit \/ idle_block \/ idle_unblocked \/ idle_hlt
  /\ UNCHANGED <<lockVars, threadVars, callerVars>>

Tick == time_intr_handler /\ UNCHANGED <<lockVars, threadVars, callerVars>>

Call(t) ==
  \/ Yielding(t)
  \/ \E m \in Mutexes : mutex_lock(t, m)
  \/ mutex_unlock(t)
  \/ \E n \in Threads : task_struct_init(t, n)
  \/ syscall_handler(t)
  \/ intr_enable(t)

Next == \/ Kernel
        \/ Tick
        \/ \E t \in Threads : Call(t) \/ Critical(t) \/ Returning(t)

Spec == Init /\ [][Next]_vars

-----------------------------------------------------------------------------
(* Properties.                                                             *)

Pcs == {"run", "yielded", "idle", "parked", "sti_hlt", "halted",
        "lock_check", "lock_down", "lock_own", "lock_count",
        "unlock_own", "unlock_check", "unlock_holder", "unlock_count",
        "unlock_up", "pid_read", "pid_inc", "created"}

\* Every variable has the type its C declaration gives it.
TypeOK ==
  /\ intr \in {ON, OFF} /\ curr \in Threads
  /\ ready \in Seq(Threads) /\ all \in Seq(Threads)
  /\ status \in [Threads -> TaskStatus]
  /\ ava \in [Threads -> 0 .. 255]
  /\ ctx \in [Threads -> {"start", "iret", "none"}]
  /\ pc \in [Threads -> Pcs]
  /\ saved \in [Threads -> {ON, OFF, NULL}]
  /\ panic \in {"none", "assert", "pids exhausted"}
  /\ value \in [Mutexes -> 0 .. 255] /\ recursion \in [Mutexes -> 0 .. 255]
  /\ waiters \in [Mutexes -> Seq(Threads)]
  /\ holder \in [Mutexes -> Threads \cup {NULL}]
  /\ arg \in [Threads -> Mutexes \cup {NULL}]
  /\ held \in [Threads -> Mutexes \cup {NULL}]
  /\ nest \in [Threads -> 0 .. MaxRecursion]
  /\ pid \in [Threads -> (0 .. PidLimit) \cup {NULL}]
  /\ next_pid \in 0 .. PidLimit
  /\ child \in [Threads -> Threads \cup {NULL}]
  /\ mode \in [Threads -> {"boot", "kernel", "syscall"}]

(***************************************************************************)
(* No ASSERT of schedule, thread_unblock, thread_yield, sem_up, sem_down,  *)
(* mutex_lock or process_execute ever fails, whatever the interleaving:    *)
(* the list a thread is put in never holds it already, what is unblocked   *)
(* is blocked, and a mutex that was just taken has recursion 0.            *)
(***************************************************************************)
NoAssertFails == panic # "assert"

\* Two threads never hold one mutex: mutex_lock does not return to a second
\* thread before the first has called mutex_unlock as often as it locked.
MutualExclusion ==
  \A t, u \in Threads : held[t] # NULL /\ held[t] = held[u] => t = u

\* allocate_pid never gives two tasks the same pid, although it reads and
\* increments next_pid in separate steps.
PidsUnique ==
  \A t, u \in Threads : pid[t] # NULL /\ pid[t] = pid[u] => t = u

\* The threads blocked in sem_down of some mutex.
Waiting(t) == \E m \in Mutexes : t \in ToSet(waiters[m])

(***************************************************************************)
(* The single gene_list_tag of a task_struct is linked into at most one    *)
(* list, at most once: the ready list or the waiters of one semaphore, and *)
(* the running thread is in none.  A list_push of a tag that is in another *)
(* list would cut both lists apart.                                        *)
(***************************************************************************)
TagInOneList ==
  /\ IsInjective(ready) /\ IsInjective(all)
  /\ curr \notin ToSet(ready) /\ ~Waiting(curr)
  /\ \A m \in Mutexes : IsInjective(waiters[m])
  /\ \A t \in ToSet(ready) : ~Waiting(t)
  /\ \A m, n \in Mutexes :
       m # n => ToSet(waiters[m]) \cap ToSet(waiters[n]) = {}

(***************************************************************************)
(* No thread is lost: the one that is RUNNING is the current one, a READY  *)
(* one is in the ready list unless its creator has yet to put it there,    *)
(* and a BLOCKED one waits on a semaphore or is the idle thread.           *)
(***************************************************************************)
NoThreadLost ==
  \A t \in Threads :
    /\ status[t] = "RUNNING" <=> t = curr
    /\ status[t] = "READY" <=> \/ t \in ToSet(ready)
                               \/ \E u \in Threads : child[u] = t
    /\ status[t] = "BLOCKED" <=> Waiting(t) \/ (t = idle /\ pc[t] = "parked"
                                                /\ t # curr)

\* t was woken by sem_up(m) and has yet to look at the counter again.
Woken(t, m) == /\ pc[t] = "lock_down" /\ arg[t] = m /\ saved[t] # NULL
               /\ status[t] \in {"READY", "RUNNING"}

\* sem_up wakes one waiter and does not hand it the semaphore, which another
\* thread may take first; still no thread is left waiting on a free mutex
\* without one that was woken and will look at it.
NoLostWakeup ==
  \A m \in Mutexes : value[m] > 0 /\ waiters[m] # <<>>
                       => \E t \in Threads : Woken(t, m)

\* A system call and the boot code run with interrupts off from end to end,
\* also across the places where they block or yield.
SyscallUninterrupted ==
  panic = "none" /\ ctx[curr] = "none" /\ mode[curr] # "kernel"
    => intr = OFF

\* INTERRUPT_RESTORE puts back the state that INTERRUPT_DISABLE saved: a
\* kernel thread has interrupts on again after every call it makes.
InterruptsRestored ==
  \A t \in Threads : At(t, "run") /\ mode[t] = "kernel" => intr = ON

-----------------------------------------------------------------------------
(* The mutexes implement their abstract specification.                     *)

\* The owner changes when mutex_lock returns and when mutex_unlock is called.
M == INSTANCE Mutex WITH held <- held, nest <- nest

\* Every behaviour of the threads is, for the callers of mutex_lock and
\* mutex_unlock, a behaviour of the abstract recursive mutex.
ImplementsMutex == M!Spec

-----------------------------------------------------------------------------
(***************************************************************************)
(* Fairness.  The CPU executes, and a tick is far longer than any step, so *)
(* a thread that is scheduled again and again completes its step; code     *)
(* that has a mutex unlocks it in the end, and boot and system calls end.  *)
(* The PIC latches the clock interrupt: it is taken if interrupts are on   *)
(* again and again.                                                        *)
(***************************************************************************)
Fairness ==
  /\ WF_vars(Kernel \/ \E t \in Threads : Returning(t))
  /\ SF_vars(Tick)
  /\ \A t \in Threads \ {idle} : /\ SF_vars(Critical(t) \/ mutex_unlock(t))
                                 /\ SF_vars(intr_enable(t))

FairSpec == Spec /\ Fairness

\* A thread in the ready list runs in the end, although woken threads are
\* pushed in front of it.
ReadyThreadRuns ==
  \A t \in Threads : t \in ToSet(ready) ~> (t = curr \/ panic # "none")

\* A thread that waits on a mutex is woken in the end.
WaiterIsWoken ==
  \A t \in Threads : Waiting(t) ~> (~Waiting(t) \/ panic # "none")
=============================================================================
