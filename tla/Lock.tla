-------------------------------- MODULE Lock --------------------------------
(***************************************************************************)
(* Semaphores and recursive mutexes, thread/lock.c.                        *)
(*                                                                         *)
(* A semaphore is a counter and the list of the threads blocked on it; a   *)
(* mutex m is the binary semaphore m with a holder and a recursion depth.  *)
(* The bodies of sem_up and sem_down run with interrupts off.  The code of *)
(* mutex_lock and mutex_unlock around them does not: every access to       *)
(* holder and recursion is an action of its own, and the clock interrupt   *)
(* can switch threads between any two of them.                             *)
(***************************************************************************)
EXTENDS Sched

CONSTANTS
  Mutexes,       \* the mutex_t objects
  MaxRecursion   \* bound: the deepest nesting of mutex_lock calls

ASSUME LockAssumption == MaxRecursion \in 1 .. 255

VARIABLES
  value,      \* sem_t.value, a uint8_t
  waiters,    \* sem_t.waiters
  holder,     \* mutex_t.holder
  recursion,  \* mutex_t.recursion
  arg         \* the mutex a thread is locking or unlocking, or NULL

lockVars == <<value, waiters, holder, recursion, arg>>

\* mutex_init of every mutex.
LockInit ==
  /\ value     = [m \in Mutexes |-> 1]
  /\ waiters   = [m \in Mutexes |-> <<>>]
  /\ holder    = [m \in Mutexes |-> NULL]
  /\ recursion = [m \in Mutexes |-> 0]
  /\ arg       = [t \in Threads |-> NULL]

-----------------------------------------------------------------------------
(* Semaphores.                                                             *)

\* Mutant: `if` for `while`: a woken thread does not look at the counter.
sem_down_If(t, s, next) ==
  LET state == IF saved[t] = NULL THEN intr ELSE saved[t]
      st    == [status EXCEPT ![t] = "BLOCKED"]
  IN  \/ /\ value[s] > 0 \/ saved[t] # NULL
         /\ value' = [value EXCEPT ![s] = @ - 1]
         /\ saved' = [saved EXCEPT ![t] = NULL]
         /\ INTERRUPT_RESTORE(state)
         /\ Goto(t, next)
         /\ UNCHANGED <<curr, ready, status, ava, ctx, panic, waiters>>
      \/ /\ value[s] = 0 /\ saved[t] = NULL
         /\ waiters' = [waiters EXCEPT ![s] = Append(@, t)]
         /\ saved' = [saved EXCEPT ![t] = state]
         /\ ASSERT(t \notin ToSet(waiters[s]) /\ ScheduleAsserts(ready, st))
         /\ schedule(ready, st)
         /\ UNCHANGED <<pc, ctx, value>>

(***************************************************************************)
(* One pass of the loop of sem_down(s) by t, which goes on at `next` when  *)
(* it gets the semaphore.  saved[t] is NULL on entry; after a block it     *)
(* holds the interrupt state of the entry, and the thread runs this again  *)
(* when it is switched back to.  The state that thread_block saves is OFF, *)
(* so its own INTERRUPT_RESTORE changes nothing.                           *)
(***************************************************************************)
sem_down(t, s, next) ==
  LET state == IF saved[t] = NULL THEN intr ELSE saved[t]
      st    == [status EXCEPT ![t] = "BLOCKED"]
  IN  \/ /\ value[s] > 0
         /\ value' = [value EXCEPT ![s] = @ - 1]
         /\ saved' = [saved EXCEPT ![t] = NULL]
         /\ INTERRUPT_RESTORE(state)
         /\ Goto(t, next)
         /\ UNCHANGED <<curr, ready, status, ava, ctx, panic, waiters>>
      \/ /\ value[s] = 0
         /\ waiters' = [waiters EXCEPT ![s] = Append(@, t)]
         /\ saved' = [saved EXCEPT ![t] = state]
         /\ ASSERT(t \notin ToSet(waiters[s]) /\ ScheduleAsserts(ready, st))
         /\ schedule(ready, st)
         /\ UNCHANGED <<pc, ctx, value>>

\* Mutant: sem_up increments the counter and wakes nobody.
sem_up_NoWake(s) ==
  /\ value' = [value EXCEPT ![s] = (@ + 1) % 256]
  /\ INTERRUPT_RESTORE(intr)
  /\ ASSERT(value'[s] > 0)
  /\ UNCHANGED <<ready, status, waiters, curr, ava, ctx, saved>>

\* Mutant: sem_up unblocks the first waiter and leaves it in the list.
sem_up_NoPop(s) ==
  /\ value' = [value EXCEPT ![s] = (@ + 1) % 256]
  /\ INTERRUPT_RESTORE(intr)
  /\ ASSERT(value'[s] > 0)
  /\ \/ waiters[s] # <<>> /\ thread_unblock(Head(waiters[s]))
     \/ waiters[s] = <<>> /\ UNCHANGED <<ready, status>>
  /\ UNCHANGED <<waiters, curr, ava, ctx, saved>>

(***************************************************************************)
(* sem_up(s): unblock the first waiter, if there is one, and increment the *)
(* counter.  The waiter takes the semaphore itself, in its own sem_down;   *)
(* another thread can take it before.                                      *)
(***************************************************************************)
sem_up(s) ==
  /\ value' = [value EXCEPT ![s] = (@ + 1) % 256]
  /\ INTERRUPT_RESTORE(intr)
  /\ \/ /\ waiters[s] # <<>>
        /\ waiters' = [waiters EXCEPT ![s] = Tail(@)]
        /\ thread_unblock(Head(waiters[s]))
        /\ ASSERT(UnblockAsserts(Head(waiters[s])) /\ value'[s] > 0)
     \/ /\ waiters[s] = <<>>
        /\ ASSERT(value'[s] > 0)
        /\ UNCHANGED <<ready, status, waiters>>
  /\ UNCHANGED <<curr, ava, ctx, saved>>

-----------------------------------------------------------------------------
(* mutex_lock(arg[t]), returning to `next`.                                *)

\* holder != running_thread(), or one more level of a mutex t has already.
lock_check(t, next) ==
  LET m == arg[t]
  IN  /\ At(t, "lock_check")
      /\ \/ /\ holder[m] # t
            /\ Goto(t, "lock_down")
            /\ UNCHANGED <<recursion, arg>>
         \/ /\ holder[m] = t
            /\ recursion' = [recursion EXCEPT ![m] = (@ + 1) % 256]
            /\ arg' = [arg EXCEPT ![t] = NULL]
            /\ Goto(t, next)
      /\ UNCHANGED <<intr, curr, ready, status, ava, ctx, saved, panic,
                     value, waiters, holder>>

lock_down(t) ==
  /\ At(t, "lock_down")
  /\ sem_down(t, arg[t], "lock_own")
  /\ UNCHANGED <<holder, recursion, arg>>

lock_own(t) ==
  LET m == arg[t]
  IN  /\ At(t, "lock_own")
      /\ ASSERT(recursion[m] = 0)
      /\ holder' = [holder EXCEPT ![m] = t]
      /\ Goto(t, "lock_count")
      /\ UNCHANGED <<intr, curr, ready, status, ava, ctx, saved,
                     value, waiters, recursion, arg>>

lock_count(t, next) ==
  LET m == arg[t]
  IN  /\ At(t, "lock_count")
      /\ recursion' = [recursion EXCEPT ![m] = (@ + 1) % 256]
      /\ arg' = [arg EXCEPT ![t] = NULL]
      /\ Goto(t, next)
      /\ UNCHANGED <<intr, curr, ready, status, ava, ctx, saved, panic,
                     value, waiters, holder>>

-----------------------------------------------------------------------------
(* mutex_unlock(arg[t]), returning to `next`.                              *)

\* The condition of the ASSERT is an assignment: it makes t the holder.
unlock_own(t) ==
  /\ At(t, "unlock_own")
  /\ holder' = [holder EXCEPT ![arg[t]] = t]
  /\ Goto(t, "unlock_check")
  /\ UNCHANGED <<intr, curr, ready, status, ava, ctx, saved, panic,
                 value, waiters, recursion, arg>>

\* Mutant: the innermost mutex_unlock gives the mutex back.
unlock_check_Always(t, next) ==
  /\ At(t, "unlock_check")
  /\ Goto(t, "unlock_holder")
  /\ UNCHANGED <<intr, curr, ready, status, ava, ctx, saved, panic,
                 value, waiters, holder, recursion, arg>>

unlock_check(t, next) ==
  LET m == arg[t]
  IN  /\ At(t, "unlock_check")
      /\ \/ /\ recursion[m] = 1
            /\ Goto(t, "unlock_holder")
            /\ UNCHANGED <<recursion, arg>>
         \/ /\ recursion[m] # 1
            /\ recursion' = [recursion EXCEPT ![m] = (@ + 255) % 256]
            /\ arg' = [arg EXCEPT ![t] = NULL]
            /\ Goto(t, next)
      /\ UNCHANGED <<intr, curr, ready, status, ava, ctx, saved, panic,
                     value, waiters, holder>>

\* Mutant: the holder field is not reset.
unlock_holder_Stale(t) ==
  /\ At(t, "unlock_holder")
  /\ Goto(t, "unlock_count")
  /\ UNCHANGED <<intr, curr, ready, status, ava, ctx, saved, panic,
                 value, waiters, holder, recursion, arg>>

unlock_holder(t) ==
  /\ At(t, "unlock_holder")
  /\ holder' = [holder EXCEPT ![arg[t]] = NULL]
  /\ Goto(t, "unlock_count")
  /\ UNCHANGED <<intr, curr, ready, status, ava, ctx, saved, panic,
                 value, waiters, recursion, arg>>

\* Mutant: the recursion field is not reset.
unlock_count_Stale(t) ==
  /\ At(t, "unlock_count")
  /\ Goto(t, "unlock_up")
  /\ UNCHANGED <<intr, curr, ready, status, ava, ctx, saved, panic,
                 value, waiters, holder, recursion, arg>>

unlock_count(t) ==
  /\ At(t, "unlock_count")
  /\ recursion' = [recursion EXCEPT ![arg[t]] = 0]
  /\ Goto(t, "unlock_up")
  /\ UNCHANGED <<intr, curr, ready, status, ava, ctx, saved, panic,
                 value, waiters, holder, arg>>

unlock_up(t, next) ==
  /\ At(t, "unlock_up")
  /\ sem_up(arg[t])
  /\ arg' = [arg EXCEPT ![t] = NULL]
  /\ Goto(t, next)
  /\ UNCHANGED <<holder, recursion>>
=============================================================================
