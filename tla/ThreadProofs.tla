---------------------------- MODULE ThreadProofs ----------------------------
(***************************************************************************)
(* Proofs about Thread, for any set of threads, mutexes and priorities and *)
(* whatever the uninitialised `old` of intr_set_status holds; and, at the  *)
(* end, about the sleeps of Timer, which are timed by the same clock.      *)
(***************************************************************************)
EXTENDS Thread, Timer, Facts, TLAPS

-----------------------------------------------------------------------------
(* The inductive invariant.                                                *)

LockPcs   == {"lock_check", "lock_down", "lock_own", "lock_count"}
UnlockPcs == {"unlock_own", "unlock_check", "unlock_holder", "unlock_count",
              "unlock_up"}

\* What the place a thread is at in its code says of its own variables.
CallerOK(t) ==
  /\ arg[t] # NULL <=> pc[t] \in LockPcs \cup UnlockPcs
  /\ held[t] = NULL <=> nest[t] = 0
  /\ pc[t] \in {"lock_check", "unlock_own", "unlock_check"}
       => held[t] \in {NULL, arg[t]} /\ nest[t] < MaxRecursion
  /\ pc[t] \in {"lock_down", "lock_own", "lock_count", "unlock_holder",
                "unlock_count", "unlock_up", "created"} => held[t] = NULL
  /\ pc[t] \in {"pid_read", "pid_inc"} => held[t] = pid_lock /\ nest[t] = 1
  /\ held[t] = pid_lock => pc[t] \in {"pid_read", "pid_inc"}
  /\ arg[t] = pid_lock \/ pc[t] \in {"pid_read", "pid_inc", "created"}
       <=> child[t] # NULL
  /\ t = idle <=> pc[t] \in {"idle", "parked", "sti_hlt", "halted"}

CallerInv == \A t \in Threads : CallerOK(t)

\* t is between the sem_down and the sem_up of mutex m.
Owns(t, m) ==
  \/ held[t] = m
  \/ arg[t] = m /\ pc[t] \in {"lock_own", "lock_count"} \cup UnlockPcs

\* The depth m has when t owns it.
Depth(t, m) ==
  CASE arg[t] = m /\ pc[t] \in {"lock_own", "lock_count", "unlock_up"} -> 0
    [] arg[t] = m /\ pc[t] \in {"unlock_own", "unlock_check"} -> nest[t] + 1
    [] arg[t] = m /\ pc[t] \in {"unlock_holder", "unlock_count"} -> 1
    [] OTHER -> nest[t]

\* t owns m, and its holder field says so.
Registered(t, m) ==
  Owns(t, m) /\ ~(/\ arg[t] = m
                  /\ pc[t] \in {"lock_own", "unlock_count", "unlock_up"})

\* A mutex is free, or one thread owns it; holder and recursion follow it.
MutexOK(m) ==
  /\ value[m] \in {0, 1}
  /\ \A t \in Threads : Owns(t, m) => value[m] = 0
  /\ \A t, u \in Threads : Owns(t, m) /\ Owns(u, m) => t = u
  /\ \A t \in Threads : holder[m] = t <=> Registered(t, m)
  /\ \A t \in Threads : Owns(t, m) => recursion[m] = Depth(t, m)
  /\ recursion[m] = 0 \/ \E t \in Threads : Owns(t, m)

MutexInv == \A m \in Mutexes : MutexOK(m)

\* Every pid that was given out is below next_pid, but for the one that
\* allocate_pid has read and has yet to step over.
PidInv ==
  /\ \A t \in Threads : pid[t] # NULL => pid[t] <= next_pid
  /\ \A t \in Threads : pid[t] = next_pid =>
       \E u \in Threads : pc[u] = "pid_inc" /\ child[u] = t
  /\ panic = "none" =>
       \A u \in Threads : pc[u] = "pid_inc" => next_pid < PidLimit
  /\ PidsUnique

\* Which list the tag of each thread is in, or why in none.
QueueInv ==
  /\ IsInjective(ready) /\ IsInjective(all)
  /\ \A t \in Threads : status[t] = "RUNNING" <=> t = curr
  /\ \A t \in ToSet(ready) : status[t] = "READY"
  /\ \A t \in Threads : status[t] = "READY" =>
       t \in ToSet(ready) \/ \E u \in Threads : child[u] = t
  /\ \A t \in Threads : status[t] = "BLOCKED" =>
       Waiting(t) \/ (t = idle /\ pc[t] = "parked")
  /\ \A t \in Threads : status[t] \in {"RUNNING", "READY", "UNUSED", "BLOCKED"}
  /\ status[idle] # "UNUSED"
  /\ status[idle] = "BLOCKED" => pc[idle] = "parked"
  /\ \A t \in ToSet(all) : status[t] # "UNUSED"

\* The tasks that are being created.
ChildInv ==
  /\ \A t, u \in Threads : child[t] = child[u] /\ child[t] # NULL => t = u
  /\ \A t \in Threads : child[t] # NULL =>
       /\ status[child[t]] = "READY" /\ child[t] # idle
       /\ child[t] \notin ToSet(ready) /\ child[t] \notin ToSet(all)

\* The threads that are blocked in sem_down.
WaitersInv ==
  \A m \in Mutexes :
    /\ IsInjective(waiters[m])
    /\ \A t \in ToSet(waiters[m]) :
         /\ status[t] = "BLOCKED" /\ saved[t] # NULL
         /\ pc[t] = "lock_down" /\ arg[t] = m

Inv == /\ TypeOK /\ CallerInv /\ MutexInv /\ PidInv
       /\ QueueInv /\ ChildInv /\ WaitersInv /\ NoAssertFails

-----------------------------------------------------------------------------
(* A uint8_t that does not wrap.                                           *)

\* A uint8_t below 255 is incremented as an integer.
LEMMA ByteIncrement ==
  ASSUME NEW x \in 0 .. 254
  PROVE  (x + 1) % 256 = x + 1
  OBVIOUS

\* The decrement of the uint8_t recursion, written without negative numbers.
LEMMA ByteDecrement ==
  ASSUME NEW x \in 0 .. 254
  PROVE  (x + 1 + 255) % 256 = x
  OBVIOUS

\* How deep a thread can nest.
LEMMA NestRange ==
  ASSUME TypeOK, NEW t \in Threads
  PROVE  nest[t] \in Nat /\ nest[t] <= MaxRecursion /\ MaxRecursion \in 1 .. 255
<1>1. nest \in [Threads -> 0 .. MaxRecursion]
  BY DEF TypeOK
<1>2. nest[t] \in 0 .. MaxRecursion
  BY <1>1
<1>3. MaxRecursion \in 1 .. 255
  BY LockAssumption
<1> QED
  BY <1>2, <1>3

-----------------------------------------------------------------------------
(* The initial state.                                                      *)

USE SchedAssumption, LockAssumption, ThreadAssumption DEF ON, OFF

\* thread_init establishes the invariant.
LEMMA InitInv == Init => Inv
<1> SUFFICES ASSUME Init PROVE Inv
  OBVIOUS
<1>1. ToSet(<<idle>>) = {idle} /\ ToSet(<<main, idle>>) = {main, idle}
  BY DEF ToSet
<1>2. ToSet(<<>>) = {}
  BY DEF ToSet
<1>3. IsInjective(<<idle>>) /\ IsInjective(<<main, idle>>) /\ IsInjective(<<>>)
  BY DEF IsInjective
<1>4. TypeOK
  <2>1. /\ ready \in Seq(Threads) /\ all \in Seq(Threads)
        /\ waiters \in [Mutexes -> Seq(Threads)]
    BY DEF Init, Booting, LockInit
  <2>2. /\ status \in [Threads -> TaskStatus]
        /\ ava \in [Threads -> 0 .. 255]
        /\ ctx \in [Threads -> {"start", "iret", "none"}]
        /\ pc \in [Threads -> Pcs]
    BY DEF Init, Booting, TaskStatus, BlockedStates, Pcs
  <2>3. pid \in [Threads -> (0 .. PidLimit) \cup {NULL}]
    BY DEF Init, Booting
  <2>4. /\ value \in [Mutexes -> 0 .. 255] /\ recursion \in [Mutexes -> 0 .. 255]
        /\ holder \in [Mutexes -> Threads \cup {NULL}]
        /\ arg \in [Threads -> Mutexes \cup {NULL}]
    BY DEF Init, Booting, LockInit
  <2>5. next_pid \in 0 .. PidLimit /\ nest \in [Threads -> 0 .. MaxRecursion]
    BY DEF Init, Booting
  <2> QED
    BY <2>1, <2>2, <2>3, <2>4, <2>5 DEF Init, Booting, TypeOK
<1>5. CallerInv
  BY DEF Init, Booting, CallerInv, CallerOK, LockInit, LockPcs, UnlockPcs
<1>6. MutexInv
  BY DEF Init, Booting, MutexInv, MutexOK, LockInit, Owns, Registered
<1>7. PidInv
  BY DEF Init, Booting, PidInv, PidsUnique
<1>8. QueueInv
  BY <1>1, <1>3, SMTT(40) DEF Init, Booting, QueueInv
<1>9. ChildInv
  BY DEF Init, Booting, ChildInv
<1>10. WaitersInv
  BY <1>2, <1>3 DEF Init, Booting, LockInit, WaitersInv
<1> QED
  BY <1>4, <1>5, <1>6, <1>7, <1>8, <1>9, <1>10 DEF Inv, NoAssertFails, Init, Booting

-----------------------------------------------------------------------------
(* Steps that leave the mutexes alone.                                     *)

\* Thread t moves between two places of its code that are outside of
\* mutex_lock and mutex_unlock, or stays where it is.
LEMMA MutexFrame ==
  ASSUME TypeOK, MutexInv,
         UNCHANGED <<held, nest, arg, value, holder, recursion>>,
         \A u \in Threads : \/ pc'[u] = pc[u]
                            \/ {pc[u], pc'[u]} \cap (LockPcs \cup UnlockPcs) = {}
  PROVE  MutexInv'
<1>1. ASSUME NEW t \in Threads, NEW m \in Mutexes
      PROVE  /\ Owns(t, m)' <=> Owns(t, m)
             /\ Registered(t, m)' <=> Registered(t, m)
             /\ Depth(t, m)' = Depth(t, m)
  BY DEF Owns, Registered, Depth, LockPcs, UnlockPcs
<1> QED
  BY <1>1 DEF MutexInv, MutexOK

-----------------------------------------------------------------------------
(* Every step keeps CallerInv.                                             *)

\* The variables of the code of u, in a step of another thread.
Unmoved(u) == /\ arg'[u] = arg[u] /\ pc'[u] = pc[u] /\ child'[u] = child[u]
              /\ held'[u] = held[u] /\ nest'[u] = nest[u]

\* CallerOK of a thread depends on nothing but what Unmoved fixes.
LEMMA UnmovedOK ==
  ASSUME NEW u \in Threads, CallerOK(u), Unmoved(u)
  PROVE  CallerOK(u)'
  BY DEF CallerOK, Unmoved

\* What the steps outside of mutex_lock and mutex_unlock do.
OutsideMove(u) ==
  \/ pc'[u] = pc[u]
  \/ {pc[u], pc'[u]} \subseteq {"idle", "parked", "sti_hlt", "halted"}
  \/ pc[u] = "run" /\ pc'[u] = "yielded"
  \/ pc[u] = "yielded" /\ pc'[u] = "run"
  \/ pc[u] = "pid_read" /\ pc'[u] = "pid_inc"

\* Those steps leave the mutexes and the callers as they were.
LEMMA OutsideFrame ==
  ASSUME TypeOK, CallerInv,
         Kernel \/ Tick \/ \E t \in Threads :
           \/ Yielding(t) \/ Returning(t) \/ syscall_handler(t)
           \/ intr_enable(t) \/ pid_read(t)
  PROVE  /\ UNCHANGED <<held, nest, arg, value, holder, recursion, child>>
         /\ \A u \in Threads : OutsideMove(u)
<1>1. pc \in [Threads -> Pcs] /\ curr \in Threads
  BY DEF TypeOK
<1>2. CASE Kernel
  <2>1. UNCHANGED <<held, nest, arg, value, holder, recursion, child>>
    BY <1>2 DEF Kernel, lockVars, threadVars, callerVars
  <2>2. CASE kthread \/ intr_exit
    BY <2>1, <2>2 DEF kthread, intr_exit, OutsideMove
  <2>3. CASE idle_block \/ idle_unblocked \/ idle_hlt
    BY <1>1, <2>1, <2>3 DEF idle_block, idle_unblocked, idle_hlt, At, Goto,
         OutsideMove
  <2> QED
    BY <1>2, <2>2, <2>3 DEF Kernel
<1>3. CASE Tick
  BY <1>1, <1>3 DEF Tick, time_intr_handler, LeaveHlt, lockVars, threadVars,
       callerVars, OutsideMove
<1>4. ASSUME NEW t \in Threads, Yielding(t) \/ Returning(t)
      PROVE  /\ UNCHANGED <<held, nest, arg, value, holder, recursion, child>>
             /\ \A u \in Threads : OutsideMove(u)
  BY <1>1, <1>4 DEF Yielding, thread_yield, Returning, yield_return, lockVars,
       threadVars, callerVars, At, Goto, OutsideMove
<1>5. ASSUME NEW t \in Threads, syscall_handler(t) \/ intr_enable(t)
      PROVE  /\ UNCHANGED <<held, nest, arg, value, holder, recursion, child>>
             /\ \A u \in Threads : OutsideMove(u)
  BY <1>5 DEF syscall_handler, intr_enable, lockVars, callerVars, OutsideMove
<1>6. ASSUME NEW t \in Threads, pid_read(t)
      PROVE  /\ UNCHANGED <<held, nest, arg, value, holder, recursion, child>>
             /\ \A u \in Threads : OutsideMove(u)
  BY <1>1, <1>6 DEF pid_read, lockVars, callerVars, At, Goto, OutsideMove
<1> QED
  BY <1>2, <1>3, <1>4, <1>5, <1>6

\* CallerInv is kept.  In a step of t, what is left to show is what happens to t itself.
LEMMA CallerStep ==
  ASSUME Inv, [Next]_vars
  PROVE  CallerInv'
<1> USE DEF LockPcs, UnlockPcs
<1> SUFFICES ASSUME NEW u \in Threads PROVE CallerOK(u)'
  BY DEF CallerInv
<1>1. /\ CallerOK(u) /\ pc \in [Threads -> Pcs] /\ curr \in Threads
      /\ arg \in [Threads -> Mutexes \cup {NULL}]
      /\ held \in [Threads -> Mutexes \cup {NULL}]
      /\ child \in [Threads -> Threads \cup {NULL}]
      /\ nest \in [Threads -> 0 .. MaxRecursion]
      /\ holder \in [Mutexes -> Threads \cup {NULL}]
  BY DEF Inv, CallerInv, TypeOK
<1>2. CASE UNCHANGED vars
  BY <1>1, <1>2, UnmovedOK DEF vars, schedVars, lockVars, threadVars, callerVars,
       Unmoved
<1>3. CASE Kernel \/ Tick \/ \E t \in Threads :
             \/ Yielding(t) \/ Returning(t) \/ syscall_handler(t)
             \/ intr_enable(t) \/ pid_read(t)
  <2>1. /\ UNCHANGED <<held, nest, arg, value, holder, recursion, child>>
        /\ OutsideMove(u)
    BY <1>3, OutsideFrame DEF Inv
  <2> QED
    BY <1>1, <2>1 DEF CallerOK, OutsideMove
<1>4. ASSUME NEW t \in Threads, NEW m \in Mutexes, mutex_lock(t, m)
      PROVE  CallerOK(u)'
  <2>1. CASE u = t
    BY <1>1, <1>4, <2>1 DEF mutex_lock, Calling, At, Goto, threadVars, callerVars,
         CallerOK
  <2>2. CASE u # t
    BY <1>1, <1>4, <2>2, UnmovedOK DEF mutex_lock, Goto, threadVars, callerVars,
         Unmoved
  <2> QED
    BY <2>1, <2>2
<1>5. ASSUME NEW t \in Threads, mutex_unlock(t) \/ pid_inc(t)
      PROVE  CallerOK(u)'
  <2>1. CASE u = t
    BY <1>1, <1>5, <2>1 DEF mutex_unlock, pid_inc, GiveUp, Calling, At, Goto,
         threadVars, CallerOK
  <2>2. CASE u # t
    BY <1>1, <1>5, <2>2, UnmovedOK DEF mutex_unlock, pid_inc, GiveUp, Goto,
         threadVars, Unmoved
  <2> QED
    BY <2>1, <2>2
<1>6. ASSUME NEW t \in Threads, NEW n \in Threads, task_struct_init(t, n)
      PROVE  CallerOK(u)'
  <2>1. CASE u = t
    BY <1>1, <1>6, <2>1 DEF task_struct_init, Calling, At, Goto, callerVars,
         CallerOK
  <2>2. CASE u # t
    BY <1>1, <1>6, <2>2, UnmovedOK DEF task_struct_init, Goto, callerVars, Unmoved
  <2> QED
    BY <2>1, <2>2
<1>7. ASSUME NEW t \in Threads, lock_check(t, AfterLock(t)), Take(t),
             UNCHANGED threadVars
      PROVE  CallerOK(u)'
  <2>1. arg[t] \in Mutexes /\ arg[t] # NULL
    BY <1>1, <1>7 DEF Inv, CallerInv, CallerOK, lock_check, At
  <2>2. holder[arg[t]] = t <=> held[t] = arg[t]
    BY <1>7, <2>1 DEF Inv, MutexInv, MutexOK, Registered, Owns, lock_check, At
  <2>3. CASE u = t
    BY <1>1, <1>7, <2>1, <2>2, <2>3 DEF lock_check, AfterLock, Take, At, Goto,
         threadVars, callerVars, CallerOK
  <2>4. CASE u # t
    BY <1>1, <1>7, <2>4, UnmovedOK DEF lock_check, Take, Goto, threadVars,
         callerVars, Unmoved
  <2> QED
    BY <2>3, <2>4
<1>8. ASSUME NEW t \in Threads, UNCHANGED <<threadVars, callerVars>>,
             lock_down(t) \/ lock_own(t)
      PROVE  CallerOK(u)'
  <2>1. CASE u = t
    BY <1>1, <1>8, <2>1 DEF lock_down, sem_down, lock_own, At, Goto, threadVars,
         callerVars, CallerOK
  <2>2. CASE u # t
    BY <1>1, <1>8, <2>2, UnmovedOK DEF lock_down, sem_down, lock_own, Goto,
         threadVars, callerVars, Unmoved
  <2> QED
    BY <2>1, <2>2
<1>9. ASSUME NEW t \in Threads, lock_count(t, AfterLock(t)), Take(t),
             UNCHANGED threadVars
      PROVE  CallerOK(u)'
  <2>1. CASE u = t
    BY <1>1, <1>9, <2>1 DEF lock_count, AfterLock, Take, At, Goto, threadVars,
         CallerOK
  <2>2. CASE u # t
    BY <1>1, <1>9, <2>2, UnmovedOK DEF lock_count, Take, Goto, threadVars,
         callerVars, Unmoved
  <2> QED
    BY <2>1, <2>2
<1>10. ASSUME NEW t \in Threads, UNCHANGED <<threadVars, callerVars>>,
              unlock_own(t) \/ unlock_holder(t) \/ unlock_count(t)
       PROVE  CallerOK(u)'
  <2>1. CASE u = t
    BY <1>1, <1>10, <2>1 DEF unlock_own, unlock_holder, unlock_count, At, Goto,
         threadVars, callerVars, CallerOK
  <2>2. CASE u # t
    BY <1>1, <1>10, <2>2, UnmovedOK DEF unlock_own, unlock_holder, unlock_count,
         Goto, threadVars, callerVars, Unmoved
  <2> QED
    BY <2>1, <2>2
<1>11. ASSUME NEW t \in Threads, UNCHANGED <<threadVars, callerVars>>,
              unlock_check(t, AfterUnlock(t))
       PROVE  CallerOK(u)'
  <2>1. arg[t] \in Mutexes /\ arg[t] # NULL
    BY <1>1, <1>11 DEF Inv, CallerInv, CallerOK, unlock_check, At
  <2>2. recursion[arg[t]] = nest[t] + 1
    BY <1>11, <2>1 DEF Inv, MutexInv, MutexOK, Owns, Depth, unlock_check, At
  <2>3. CASE u = t
    BY <1>1, <1>11, <2>1, <2>2, <2>3 DEF unlock_check, AfterUnlock, At, Goto,
         threadVars, callerVars, CallerOK
  <2>4. CASE u # t
    BY <1>1, <1>11, <2>4, UnmovedOK DEF unlock_check, Goto, threadVars,
         callerVars, Unmoved
  <2> QED
    BY <2>3, <2>4
<1>12. ASSUME NEW t \in Threads, UNCHANGED <<threadVars, callerVars>>,
              unlock_up(t, AfterUnlock(t))
       PROVE  CallerOK(u)'
  <2>1. CASE u = t
    BY <1>1, <1>12, <2>1 DEF unlock_up, AfterUnlock, At, Goto, threadVars,
         callerVars, CallerOK
  <2>2. CASE u # t
    BY <1>1, <1>12, <2>2, UnmovedOK DEF unlock_up, Goto, threadVars,
         callerVars, Unmoved
  <2> QED
    BY <2>1, <2>2
<1>13. ASSUME NEW t \in Threads, list_task(t)
       PROVE  CallerOK(u)'
  <2>1. CASE u = t
    BY <1>1, <1>13, <2>1 DEF list_task, At, Goto, lockVars, callerVars, CallerOK
  <2>2. CASE u # t
    BY <1>1, <1>13, <2>2, UnmovedOK DEF list_task, Goto, lockVars, callerVars,
         Unmoved
  <2> QED
    BY <2>1, <2>2
<1> QED
  BY <1>2, <1>3, <1>4, <1>5, <1>6, <1>7, <1>8, <1>9, <1>10, <1>11, <1>12, <1>13
  DEF Next, Call, Critical, Locking, Unlocking

-----------------------------------------------------------------------------
(* Every step keeps MutexInv.                                              *)

\* A step of t in which another thread keeps its variables leaves what that
\* thread owns as it was.
LEMMA UnmovedOwns ==
  ASSUME NEW u \in Threads, NEW m \in Mutexes, Unmoved(u)
  PROVE  /\ Owns(u, m)' <=> Owns(u, m)
         /\ Registered(u, m)' <=> Registered(u, m)
         /\ Depth(u, m)' = Depth(u, m)
  BY DEF Unmoved, Owns, Registered, Depth

\* MutexInv is kept by a step of t that keeps the fields of the mutex and
\* t's part in it.
LEMMA MutexSame ==
  ASSUME NEW t \in Threads, NEW m \in Mutexes, MutexOK(m),
         \A u \in Threads : u # t => Unmoved(u),
         value'[m] = value[m], holder'[m] = holder[m],
         recursion'[m] = recursion[m],
         Owns(t, m)' <=> Owns(t, m), Registered(t, m)' <=> Registered(t, m),
         Owns(t, m) => Depth(t, m)' = Depth(t, m)
  PROVE  MutexOK(m)'
<1>1. \A u \in Threads : /\ Owns(u, m)' <=> Owns(u, m)
                         /\ Registered(u, m)' <=> Registered(u, m)
                         /\ Owns(u, m) => Depth(u, m)' = Depth(u, m)
  BY UnmovedOwns
<1> QED
  BY <1>1 DEF MutexOK

\* MutexInv is kept by a step of the owner that stays the owner.
LEMMA MutexOwned ==
  ASSUME NEW t \in Threads, NEW m \in Mutexes, MutexOK(m),
         \A u \in Threads : u # t => Unmoved(u),
         Owns(t, m), Owns(t, m)', value'[m] = 0,
         holder'[m] = t <=> Registered(t, m)', holder'[m] \in {t, NULL},
         recursion'[m] = Depth(t, m)'
  PROVE  MutexOK(m)'
<1>1. \A u \in Threads : u # t => ~Owns(u, m)
  BY DEF MutexOK
<1>2. \A u \in Threads : u # t => ~Owns(u, m)' /\ ~Registered(u, m)'
  BY <1>1, UnmovedOwns DEF Registered
<1> QED
  BY <1>2 DEF MutexOK

\* MutexInv is kept, one mutex m at a time.
LEMMA MutexStep ==
  ASSUME Inv, [Next]_vars
  PROVE  MutexInv'
<1> USE DEF LockPcs, UnlockPcs
<1> SUFFICES ASSUME NEW m \in Mutexes PROVE MutexOK(m)'
  BY DEF MutexInv
<1>1. /\ pc \in [Threads -> Pcs] /\ curr \in Threads
      /\ arg \in [Threads -> Mutexes \cup {NULL}]
      /\ held \in [Threads -> Mutexes \cup {NULL}]
      /\ child \in [Threads -> Threads \cup {NULL}]
      /\ nest \in [Threads -> 0 .. MaxRecursion]
      /\ holder \in [Mutexes -> Threads \cup {NULL}]
      /\ value \in [Mutexes -> 0 .. 255] /\ recursion \in [Mutexes -> 0 .. 255]
  BY DEF Inv, TypeOK
<1>2. MutexOK(m) /\ \A t \in Threads : CallerOK(t)
  BY DEF Inv, MutexInv, CallerInv
<1>3. CASE UNCHANGED vars
  BY <1>3, MutexFrame DEF Inv, vars, schedVars, lockVars, callerVars, MutexInv
<1>4. CASE Kernel \/ Tick \/ \E t \in Threads :
             \/ Yielding(t) \/ Returning(t) \/ syscall_handler(t)
             \/ intr_enable(t) \/ pid_read(t)
  <2>1. /\ UNCHANGED <<held, nest, arg, value, holder, recursion, child>>
        /\ \A u \in Threads : OutsideMove(u)
    BY <1>4, OutsideFrame DEF Inv
  <2> QED
    BY <2>1, MutexFrame DEF Inv, OutsideMove, MutexInv
<1>5. ASSUME NEW t \in Threads, NEW n \in Mutexes, mutex_lock(t, n)
      PROVE  MutexOK(m)'
  <2>1. \A u \in Threads : u # t => Unmoved(u)
    BY <1>1, <1>5 DEF mutex_lock, Goto, threadVars, callerVars, Unmoved
  <2> QED
    BY <1>1, <1>2, <1>5, <2>1, MutexSame DEF mutex_lock, Calling, At, Goto,
         callerVars, CallerOK, Owns, Registered, Depth
<1>6. ASSUME NEW t \in Threads, mutex_unlock(t) \/ pid_inc(t)
      PROVE  MutexOK(m)'
  <2>1. \A u \in Threads : u # t => Unmoved(u)
    BY <1>1, <1>6 DEF mutex_unlock, pid_inc, GiveUp, Goto, threadVars, Unmoved
  <2>2. CASE mutex_unlock(t)
    <3>1. /\ pc[t] = "run" /\ held[t] # NULL /\ arg[t] = NULL
          /\ nest[t] > 0 /\ nest[t] \in Nat
      BY <1>1, <1>2, <2>2 DEF mutex_unlock, Calling, At, CallerOK, LockPcs,
           UnlockPcs
    <3>2. /\ pc'[t] = "unlock_own" /\ arg'[t] = held[t]
          /\ nest'[t] = nest[t] - 1
          /\ held'[t] = IF nest[t] = 1 THEN NULL ELSE held[t]
          /\ value' = value /\ holder' = holder /\ recursion' = recursion
      BY <1>1, <2>2 DEF mutex_unlock, GiveUp, Goto
    <3>3. m \in Mutexes /\ NULL \notin Mutexes
      BY ThreadAssumption
    <3>4. Owns(t, m)' <=> Owns(t, m)
      BY <3>1, <3>2, <3>3 DEF Owns, UnlockPcs
    <3>5. Registered(t, m)' <=> Registered(t, m)
      BY <3>1, <3>2, <3>3, <3>4 DEF Registered
    <3>6. Owns(t, m) => Depth(t, m)' = Depth(t, m)
      BY <3>1, <3>2, <3>3 DEF Depth, Owns
    <3> QED
      BY <1>2, <2>1, <3>2, <3>4, <3>5, <3>6, MutexSame
  <2>3. CASE pid_inc(t)
    BY <1>1, <1>2, <2>1, <2>3, MutexSame DEF pid_inc, GiveUp, At, Goto,
         CallerOK, Owns, Registered, Depth
  <2> QED
    BY <1>6, <2>2, <2>3
<1>7. ASSUME NEW t \in Threads, NEW n \in Threads, task_struct_init(t, n)
      PROVE  MutexOK(m)'
  <2>1. \A u \in Threads : u # t => Unmoved(u)
    BY <1>1, <1>7 DEF task_struct_init, Goto, callerVars, Unmoved
  <2> QED
    BY <1>1, <1>2, <1>7, <2>1, MutexSame DEF task_struct_init, Calling, At, Goto,
         callerVars, CallerOK, Owns, Registered, Depth
<1>8. ASSUME NEW t \in Threads, list_task(t)
      PROVE  MutexOK(m)'
  <2>1. \A u \in Threads : u # t => Unmoved(u)
    BY <1>1, <1>8 DEF list_task, Goto, lockVars, callerVars, Unmoved
  <2>2. /\ value' = value /\ holder' = holder /\ recursion' = recursion
        /\ arg' = arg /\ held' = held /\ nest' = nest
        /\ pc[t] = "created" /\ pc'[t] = "run" /\ arg[t] = NULL
    BY <1>1, <1>2, <1>8, ZenonT(40) DEF list_task, At, Goto, lockVars, callerVars, CallerOK
  <2>3. /\ Owns(t, m)' <=> Owns(t, m)
        /\ Registered(t, m)' <=> Registered(t, m)
        /\ Depth(t, m)' = Depth(t, m)
    BY <2>2 DEF Owns, Registered, Depth
  <2> QED
    BY <1>2, <2>1, <2>2, <2>3, MutexSame
<1>9. ASSUME NEW t \in Threads, lock_check(t, AfterLock(t)), Take(t),
             UNCHANGED threadVars
      PROVE  MutexOK(m)'
  <2>1. \A u \in Threads : u # t => Unmoved(u)
    BY <1>1, <1>9 DEF lock_check, Take, Goto, threadVars, callerVars, Unmoved
  <2>2. arg[t] \in Mutexes /\ arg[t] # NULL
    BY <1>1, <1>2, <1>9 DEF CallerOK, lock_check, At
  <2>3. CASE m = arg[t] /\ holder[m] = t
    <3>1. held[t] = m /\ Owns(t, m) /\ Registered(t, m) /\ nest[t] < 255
      BY <1>1, <1>2, <1>9, <2>2, <2>3, SMTT(40)
      DEF MutexOK, Registered, Owns, CallerOK, lock_check, At
    <3>2. recursion[m] = nest[t] /\ value[m] = 0
      BY <1>2, <1>9, <3>1 DEF MutexOK, Depth, lock_check, At
    <3>3. /\ arg'[t] = NULL /\ held'[t] = m /\ nest'[t] = nest[t] + 1
          /\ recursion'[m] = nest[t] + 1 /\ value'[m] = 0 /\ holder'[m] = t
      <4>1. (recursion[m] + 1) % 256 = nest[t] + 1
        <5>1. nest[t] \in 0 .. 254
          BY <3>1, NestRange DEF Inv
        <5> QED
          BY <3>2, <5>1, ByteIncrement
      <4>2. /\ recursion' = [recursion EXCEPT ![m] = (@ + 1) % 256]
            /\ arg'[t] = NULL /\ value' = value /\ holder' = holder
        BY <1>1, <1>9, <2>3 DEF lock_check
      <4> QED
        BY <1>1, <1>9, <2>2, <2>3, <3>2, <4>1, <4>2 DEF Take
    <3>4. Owns(t, m)' /\ Registered(t, m)' /\ Depth(t, m)' = nest'[t]
      BY <2>2, <2>3, <3>3 DEF Owns, Registered, Depth
    <3> QED
      BY <1>2, <2>1, <3>1, <3>3, <3>4, MutexOwned
  <2>4. CASE ~(m = arg[t] /\ holder[m] = t)
    BY <1>1, <1>2, <1>9, <2>1, <2>2, <2>4, MutexSame, SMTT(40)
    DEF lock_check, Take, AfterLock, At, Goto, callerVars, CallerOK, Owns,
        Registered, Depth
  <2> QED
    BY <2>3, <2>4
<1>10. ASSUME NEW t \in Threads, UNCHANGED <<threadVars, callerVars>>, lock_down(t)
       PROVE  MutexOK(m)'
  <2>1. \A u \in Threads : u # t => Unmoved(u)
    BY <1>1, <1>10 DEF lock_down, sem_down, Goto, threadVars, callerVars, Unmoved
  <2>2. arg[t] \in Mutexes /\ arg[t] # NULL /\ held[t] = NULL
    BY <1>1, <1>2, <1>10 DEF CallerOK, lock_down, At
  <2>3. ~Owns(t, m) /\ ~Registered(t, m)
    BY <1>10, <2>2 DEF lock_down, At, Owns, Registered
  <2>4. CASE m = arg[t] /\ value[m] > 0
    <3>1. /\ value'[m] = 0 /\ pc'[t] = "lock_own" /\ arg'[t] = m
          /\ holder'[m] = holder[m] /\ recursion'[m] = recursion[m]
      BY <1>1, <1>2, <1>10, <2>4 DEF lock_down, sem_down, Goto, MutexOK
    <3>2. \A u \in Threads : ~Owns(u, m)
      BY <1>2, <2>4 DEF MutexOK
    <3>3. \A u \in Threads : holder[m] # u
      BY <1>2, <3>2 DEF MutexOK, Registered
    <3>4. recursion[m] = 0
      BY <1>2, <3>2 DEF MutexOK
    <3>5. \A u \in Threads : u # t => ~Owns(u, m)' /\ ~Registered(u, m)'
      BY <2>1, <3>2, UnmovedOwns DEF Registered
    <3>6. Owns(t, m)' /\ ~Registered(t, m)' /\ Depth(t, m)' = 0
      BY <3>1 DEF Owns, Registered, Depth
    <3> QED
      BY <3>1, <3>3, <3>4, <3>5, <3>6 DEF MutexOK
  <2>5. CASE ~(m = arg[t] /\ value[m] > 0)
    <3>1. /\ value'[m] = value[m] /\ holder' = holder /\ recursion' = recursion
          /\ arg' = arg /\ held' = held
          /\ pc'[t] = pc[t] \/ (pc'[t] = "lock_own" /\ arg[t] # m)
      <4>1. CASE value[arg[t]] > 0
        BY <1>1, <1>10, <2>2, <2>5, <4>1 DEF lock_down, sem_down, Goto, callerVars
      <4>2. CASE value[arg[t]] = 0
        BY <1>10, <4>2 DEF lock_down, sem_down, callerVars
      <4>3. value[arg[t]] \in 0 .. 255
        BY <1>1, <2>2
      <4> QED
        BY <4>1, <4>2, <4>3
    <3>2. ~Owns(t, m)' /\ ~Registered(t, m)'
      BY <1>10, <2>2, <3>1 DEF Owns, Registered, lock_down, At
    <3> QED
      BY <1>2, <2>1, <2>3, <3>1, <3>2, MutexSame
  <2> QED
    BY <2>4, <2>5
<1>11. ASSUME NEW t \in Threads, UNCHANGED <<threadVars, callerVars>>,
              \/ lock_own(t)
              \/ unlock_own(t) \/ unlock_holder(t) \/ unlock_count(t)
       PROVE  MutexOK(m)'
  <2>1. \A u \in Threads : u # t => Unmoved(u)
    BY <1>1, <1>11 DEF lock_own, unlock_own, unlock_holder, unlock_count, Goto,
         threadVars, callerVars, Unmoved
  <2>2. arg[t] \in Mutexes /\ arg[t] # NULL /\ held[t] \in {NULL, arg[t]}
    BY <1>1, <1>2, <1>11 DEF CallerOK, lock_own, unlock_own, unlock_holder,
         unlock_count, At
  <2>3. CASE m = arg[t]
    <3>1. Owns(t, m)
      BY <1>11, <2>3 DEF Owns, lock_own, unlock_own, unlock_holder, unlock_count, At
    <3>2. value[m] = 0 /\ recursion[m] = Depth(t, m)
      BY <1>2, <3>1 DEF MutexOK
    <3>3. /\ value' = value /\ arg'[t] = m /\ nest'[t] = nest[t]
          /\ \/ /\ pc[t] = "lock_own" /\ pc'[t] = "lock_count"
                /\ holder'[m] = t /\ recursion'[m] = recursion[m]
             \/ /\ pc[t] = "unlock_own" /\ pc'[t] = "unlock_check"
                /\ holder'[m] = t /\ recursion'[m] = recursion[m]
             \/ /\ pc[t] = "unlock_holder" /\ pc'[t] = "unlock_count"
                /\ holder'[m] = NULL /\ recursion'[m] = recursion[m]
             \/ /\ pc[t] = "unlock_count" /\ pc'[t] = "unlock_up"
                /\ holder'[m] = holder[m] /\ recursion'[m] = 0
      BY <1>1, <1>11, <2>2, <2>3 DEF lock_own, unlock_own, unlock_holder,
           unlock_count, At, Goto, callerVars
    <3>4. Owns(t, m)'
      BY <3>3 DEF Owns
    <3>5. recursion'[m] = Depth(t, m)'
      BY <2>3, <3>2, <3>3 DEF Depth
    <3>6. pc[t] = "unlock_count" => holder[m] = NULL
      <4>1. \A u \in Threads : u # t => ~Registered(u, m)
        BY <1>2, <3>1 DEF MutexOK, Registered
      <4>2. pc[t] = "unlock_count" => ~Registered(t, m)
        BY <2>3 DEF Registered
      <4> QED
        BY <1>1, <1>2, <4>1, <4>2 DEF MutexOK
    <3>7. (holder'[m] = t <=> Registered(t, m)') /\ holder'[m] \in {t, NULL}
      BY <3>3, <3>4, <3>6 DEF Registered
    <3> QED
      BY <1>2, <2>1, <3>1, <3>2, <3>3, <3>4, <3>5, <3>7, MutexOwned
  <2>4. CASE m # arg[t]
    <3>1. /\ value'[m] = value[m] /\ holder'[m] = holder[m] /\ arg' = arg
          /\ recursion'[m] = recursion[m] /\ held' = held /\ nest' = nest
      BY <1>1, <1>11, <2>4 DEF lock_own, unlock_own, unlock_holder, unlock_count,
           callerVars
    <3>2. ~Owns(t, m) /\ ~Owns(t, m)' /\ ~Registered(t, m) /\ ~Registered(t, m)'
      BY <2>2, <2>4, <3>1 DEF Owns, Registered
    <3> QED
      BY <1>2, <2>1, <3>1, <3>2, MutexSame
  <2> QED
    BY <2>3, <2>4
<1>12. ASSUME NEW t \in Threads, lock_count(t, AfterLock(t)), Take(t),
              UNCHANGED threadVars
       PROVE  MutexOK(m)'
  <2>1. \A u \in Threads : u # t => Unmoved(u)
    BY <1>1, <1>12 DEF lock_count, Take, Goto, threadVars, callerVars, Unmoved
  <2>2. arg[t] \in Mutexes /\ arg[t] # NULL /\ held[t] = NULL /\ nest[t] = 0
    BY <1>1, <1>2, <1>12 DEF CallerOK, lock_count, At
  <2>3. CASE m = arg[t]
    <3>1. Owns(t, m) /\ Registered(t, m)
      BY <1>12, <2>3 DEF Owns, Registered, lock_count, At
    <3>2. value[m] = 0 /\ recursion[m] = 0 /\ holder[m] = t
      BY <1>2, <1>12, <2>3, <3>1 DEF MutexOK, Depth, lock_count, At
    <3>3. /\ arg'[t] = NULL /\ held'[t] = m /\ nest'[t] = 1
          /\ recursion'[m] = 1 /\ value'[m] = 0 /\ holder'[m] = t
      BY <1>1, <1>12, <2>2, <2>3, <3>2 DEF lock_count, Take
    <3>4. Owns(t, m)' /\ Registered(t, m)' /\ Depth(t, m)' = nest'[t]
      BY <2>2, <2>3, <3>3 DEF Owns, Registered, Depth
    <3> QED
      BY <1>2, <2>1, <3>1, <3>3, <3>4, MutexOwned
  <2>4. CASE m # arg[t]
    <3>1. /\ value'[m] = value[m] /\ holder'[m] = holder[m] /\ arg'[t] = NULL
          /\ recursion'[m] = recursion[m] /\ held'[t] = arg[t]
      BY <1>1, <1>12, <2>4 DEF lock_count, Take
    <3>2. ~Owns(t, m) /\ ~Owns(t, m)' /\ ~Registered(t, m) /\ ~Registered(t, m)'
      BY <2>2, <2>4, <3>1 DEF Owns, Registered
    <3> QED
      BY <1>2, <2>1, <3>1, <3>2, MutexSame
  <2> QED
    BY <2>3, <2>4
<1>13. ASSUME NEW t \in Threads, UNCHANGED <<threadVars, callerVars>>,
              unlock_check(t, AfterUnlock(t))
       PROVE  MutexOK(m)'
  <2>1. \A u \in Threads : u # t => Unmoved(u)
    BY <1>1, <1>13 DEF unlock_check, Goto, threadVars, callerVars, Unmoved
  <2>2. arg[t] \in Mutexes /\ arg[t] # NULL /\ held[t] \in {NULL, arg[t]}
    BY <1>1, <1>2, <1>13 DEF CallerOK, unlock_check, At
  <2>3. CASE m = arg[t]
    <3>1. Owns(t, m) /\ Registered(t, m)
      BY <1>13, <2>3 DEF Owns, Registered, unlock_check, At
    <3>2. value[m] = 0 /\ recursion[m] = nest[t] + 1 /\ holder[m] = t
      BY <1>2, <1>13, <2>3, <3>1 DEF MutexOK, Depth, unlock_check, At
    <3>3. value' = value /\ holder' = holder /\ held' = held /\ nest' = nest
      BY <1>13 DEF unlock_check, callerVars
    <3>4. CASE recursion[m] = 1
      <4>1. recursion'[m] = 1 /\ arg'[t] = m /\ pc'[t] = "unlock_holder"
        BY <1>1, <1>13, <2>3, <3>4 DEF unlock_check, Goto
      <4>2. Owns(t, m)' /\ Registered(t, m)' /\ Depth(t, m)' = 1
        BY <4>1 DEF Owns, Registered, Depth
      <4> QED
        BY <1>2, <2>1, <3>1, <3>2, <3>3, <4>1, <4>2, MutexOwned
    <3>5. CASE recursion[m] # 1
      <4>1. held[t] = m /\ nest[t] > 0
        BY <1>1, <1>2, <2>2, <2>3, <3>2, <3>5 DEF CallerOK
      <4>2. recursion'[m] = nest[t] /\ arg'[t] = NULL
        <5>1. (recursion[m] + 255) % 256 = nest[t]
          <6>1. nest[t] \in 0 .. 254
            <7>1. nest[t] < MaxRecursion
              BY <1>2, <1>13 DEF CallerOK, unlock_check, At
            <7> QED
              BY <7>1, NestRange DEF Inv
          <6> QED
            BY <3>2, <6>1, ByteDecrement
        <5> QED
          BY <1>1, <1>13, <2>3, <3>5, <5>1 DEF unlock_check
      <4>3. Owns(t, m)' /\ Registered(t, m)' /\ Depth(t, m)' = nest'[t]
        BY <2>2, <2>3, <3>3, <4>1, <4>2 DEF Owns, Registered, Depth
      <4> QED
        BY <1>2, <2>1, <3>1, <3>2, <3>3, <4>2, <4>3, MutexOwned
    <3> QED
      BY <3>4, <3>5
  <2>4. CASE m # arg[t]
    <3>1. /\ value'[m] = value[m] /\ holder'[m] = holder[m]
          /\ recursion'[m] = recursion[m] /\ held' = held /\ nest' = nest
          /\ arg'[t] \in {arg[t], NULL}
      BY <1>1, <1>13, <2>4 DEF unlock_check, callerVars
    <3>2. ~Owns(t, m) /\ ~Owns(t, m)' /\ ~Registered(t, m) /\ ~Registered(t, m)'
      BY <2>2, <2>4, <3>1 DEF Owns, Registered
    <3> QED
      BY <1>2, <2>1, <3>1, <3>2, MutexSame
  <2> QED
    BY <2>3, <2>4
<1>14. ASSUME NEW t \in Threads, UNCHANGED <<threadVars, callerVars>>,
              unlock_up(t, AfterUnlock(t))
       PROVE  MutexOK(m)'
  <2>1. \A u \in Threads : u # t => Unmoved(u)
    BY <1>1, <1>14 DEF unlock_up, Goto, threadVars, callerVars, Unmoved
  <2>2. arg[t] \in Mutexes /\ arg[t] # NULL /\ held[t] = NULL
    BY <1>1, <1>2, <1>14 DEF CallerOK, unlock_up, At
  <2>3. /\ arg'[t] = NULL /\ held'[t] = NULL /\ holder' = holder
        /\ recursion' = recursion
        /\ value' = [value EXCEPT ![arg[t]] = (@ + 1) % 256]
    BY <1>1, <1>14, <2>2 DEF unlock_up, sem_up, callerVars
  <2>4. ~Owns(t, m)' /\ ~Registered(t, m)'
    BY <2>3 DEF Owns, Registered
  <2>5. CASE m = arg[t]
    <3>1. Owns(t, m) /\ ~Registered(t, m)
      BY <1>14, <2>5 DEF Owns, Registered, unlock_up, At
    <3>2. value[m] = 0 /\ recursion[m] = 0
      BY <1>2, <1>14, <2>5, <3>1 DEF MutexOK, Depth, unlock_up, At
    <3>3. \A u \in Threads : u # t => ~Owns(u, m)
      BY <1>2, <3>1 DEF MutexOK
    <3>4. \A u \in Threads : holder[m] # u
      BY <1>2, <3>1, <3>3 DEF MutexOK, Registered
    <3>5. \A u \in Threads : ~Owns(u, m)' /\ ~Registered(u, m)'
      BY <2>1, <2>4, <3>3, UnmovedOwns DEF Registered
    <3>6. value'[m] = 1
      BY <1>1, <2>3, <2>5, <3>2
    <3> QED
      BY <2>3, <3>2, <3>4, <3>5, <3>6 DEF MutexOK
  <2>6. CASE m # arg[t]
    <3>1. ~Owns(t, m) /\ ~Registered(t, m)
      BY <2>2, <2>6 DEF Owns, Registered
    <3>2. value'[m] = value[m]
      BY <1>1, <2>3, <2>6
    <3> QED
      BY <1>2, <2>1, <2>3, <2>4, <3>1, <3>2, MutexSame
  <2> QED
    BY <2>5, <2>6
<1> QED
  BY <1>3, <1>4, <1>5, <1>6, <1>7, <1>8, <1>9, <1>10, <1>11, <1>12, <1>13, <1>14
  DEF Next, Call, Critical, Locking, Unlocking

-----------------------------------------------------------------------------
(* schedule.                                                               *)

\* What the caller of schedule has to provide: rd holds READY threads, each
\* once, only the current thread can be RUNNING, and the idle thread is
\* blocked if it neither runs nor waits for the CPU.
SchedulePre(rd, st) ==
  /\ rd \in Seq(Threads) /\ st \in [Threads -> TaskStatus] /\ IsInjective(rd)
  /\ \A x \in ToSet(rd) : st[x] = "READY"
  /\ \A x \in Threads : st[x] = "RUNNING" => x = curr
  /\ idle \notin ToSet(rd) /\ st[idle] # "RUNNING" => st[idle] = "BLOCKED"

\* The threads that wait for the CPU when schedule picks the next one.
Runnable(rd, st) ==
  ToSet(rd) \cup (IF SliceUsedUp(st) THEN {curr}
                  ELSE IF rd = <<>> THEN {idle} ELSE {})

\* schedule fails no ASSERT; it makes one runnable thread the current one
\* and leaves the others, and only them, in the ready list.
LEMMA ScheduleFacts ==
  ASSUME curr \in Threads, NEW rd, NEW st, SchedulePre(rd, st),
         schedule(rd, st)
  PROVE  /\ ScheduleAsserts(rd, st)
         /\ curr' \in Threads /\ ready' \in Seq(Threads) /\ IsInjective(ready')
         /\ Runnable(rd, st) = ToSet(ready') \cup {curr'}
         /\ curr' \notin ToSet(ready')
         /\ \A x \in Threads :
              status'[x] = IF x = curr' THEN "RUNNING"
                           ELSE IF x \in ToSet(ready') THEN "READY" ELSE st[x]
         /\ status' \in [Threads -> TaskStatus]
<1> DEFINE queue == IF SliceUsedUp(st) THEN Append(rd, curr)
                    ELSE IF rd = <<>> THEN <<idle>>
                    ELSE rd
<1>1. ScheduleAsserts(rd, st)
  <2>1. CASE SliceUsedUp(st)
    BY <2>1 DEF ScheduleAsserts, SchedulePre, SliceUsedUp
  <2>2. CASE ~SliceUsedUp(st)
    <3>1. ToSet(<<>>) = {}
      BY DEF ToSet
    <3>2. st[idle] # "RUNNING"
      BY <2>2 DEF SchedulePre, SliceUsedUp
    <3> QED
      BY <2>2, <3>1, <3>2 DEF ScheduleAsserts, SchedulePre, BlockedStates
  <2> QED
    BY <2>1, <2>2
<1>2. /\ queue \in Seq(Threads) /\ queue # <<>> /\ IsInjective(queue)
      /\ ToSet(queue) = Runnable(rd, st)
  <2>1. CASE SliceUsedUp(st)
    <3>1. curr \notin ToSet(rd)
      BY <2>1 DEF SchedulePre, SliceUsedUp
    <3> QED
      BY <2>1, <3>1, AppendFacts DEF SchedulePre, Runnable
  <2>2. CASE ~SliceUsedUp(st) /\ rd = <<>>
    <3>1. ToSet(<<>>) = {} /\ ToSet(<<idle>>) = {idle} /\ IsInjective(<<idle>>)
      BY DEF ToSet, IsInjective
    <3> QED
      BY <2>2, <3>1 DEF Runnable
  <2>3. CASE ~SliceUsedUp(st) /\ rd # <<>>
    BY <2>3 DEF SchedulePre, Runnable
  <2> QED
    BY <2>1, <2>2, <2>3
<1>3. curr' = Head(queue) /\ ready' = Tail(queue)
  BY DEF schedule
<1> HIDE DEF queue
<1>4. /\ curr' \in Threads /\ ready' \in Seq(Threads) /\ IsInjective(ready')
      /\ ToSet(queue) = ToSet(ready') \cup {curr'} /\ curr' \notin ToSet(ready')
      /\ ToSet(queue) \subseteq Threads
  BY <1>2, <1>3, TailFacts
<1>5. status' = [t \in Threads |-> IF t = curr' THEN "RUNNING"
                   ELSE IF t = curr /\ SliceUsedUp(st) THEN "READY" ELSE st[t]]
  BY <1>3 DEF schedule, queue
<1>6. ASSUME NEW x \in Threads
      PROVE  status'[x] = IF x = curr' THEN "RUNNING"
                          ELSE IF x \in ToSet(ready') THEN "READY" ELSE st[x]
  <2>1. CASE x = curr'
    BY <1>5, <2>1
  <2>2. CASE x # curr' /\ x \in ToSet(ready')
    <3>1. x \in Runnable(rd, st)
      BY <1>2, <1>4, <2>2
    <3>2. CASE x = curr /\ SliceUsedUp(st)
      BY <1>5, <2>2, <3>2
    <3>3. CASE x \in ToSet(rd)
      BY <1>5, <2>2, <3>3 DEF SchedulePre
    <3>4. CASE ~SliceUsedUp(st) /\ rd = <<>> /\ x = idle
      <4>1. queue = <<idle>>
        BY <3>4 DEF queue
      <4> QED
        BY <1>3, <2>2, <3>4, <4>1
    <3> QED
      BY <3>1, <3>2, <3>3, <3>4 DEF Runnable
  <2>3. CASE x # curr' /\ x \notin ToSet(ready')
    <3>1. ~(x = curr /\ SliceUsedUp(st))
      BY <1>2, <1>4, <2>3 DEF Runnable
    <3> QED
      BY <1>5, <2>3, <3>1
  <2> QED
    BY <2>1, <2>2, <2>3
<1>7. status' \in [Threads -> TaskStatus]
  BY <1>5 DEF SchedulePre, TaskStatus
<1> QED
  BY <1>1, <1>2, <1>4, <1>6, <1>7

\* The time slices stay in range.
LEMMA ScheduleAva ==
  ASSUME TypeOK, NEW rd, NEW st, schedule(rd, st)
  PROVE  ava' \in [Threads -> 0 .. 255]
  BY DEF schedule, TypeOK

-----------------------------------------------------------------------------
(* A switch keeps the queue invariants.                                    *)

\* The types that the proofs about the lists use.
LEMMA QueueTypes ==
  ASSUME TypeOK
  PROVE  /\ curr \in Threads /\ ready \in Seq(Threads) /\ all \in Seq(Threads)
         /\ ToSet(ready) \subseteq Threads /\ ToSet(all) \subseteq Threads
         /\ status \in [Threads -> TaskStatus]
         /\ child \in [Threads -> Threads \cup {NULL}]
         /\ \A t \in Threads : child[t] # NULL => child[t] \in Threads
<1>1. /\ curr \in Threads /\ ready \in Seq(Threads) /\ all \in Seq(Threads)
      /\ status \in [Threads -> TaskStatus]
      /\ child \in [Threads -> Threads \cup {NULL}]
  BY DEF TypeOK
<1>2. ToSet(ready) \subseteq Threads /\ ToSet(all) \subseteq Threads
  BY <1>1, ToSetIff, SMTT(40)
<1> QED
  BY <1>1, <1>2

\* What the current thread has done to itself when it calls schedule: it is
\* RUNNING still, or READY and at the end of the list, or BLOCKED.
LeavesCPU(rd, st) ==
  /\ st \in [Threads -> TaskStatus]
  /\ \A x \in Threads : x # curr => st[x] = status[x]
  /\ \/ st[curr] \in {"RUNNING", "BLOCKED"} /\ rd = ready
     \/ st[curr] = "READY" /\ rd = Append(ready, curr)

\* A thread that leaves the processor hands schedule a proper ready list.
LEMMA LeavesCPUFacts ==
  ASSUME Inv, NEW rd, NEW st, LeavesCPU(rd, st)
  PROVE  /\ SchedulePre(rd, st) /\ curr \in Threads
         /\ curr \notin ToSet(ready) /\ ToSet(ready) \subseteq ToSet(rd)
         /\ ToSet(rd) = ToSet(ready) \cup
                          (IF st[curr] = "READY" THEN {curr} ELSE {})
<1>1. /\ curr \in Threads /\ ready \in Seq(Threads) /\ IsInjective(ready)
      /\ \A x \in ToSet(ready) : status[x] = "READY"
      /\ \A x \in Threads : status[x] = "RUNNING" <=> x = curr
  BY DEF Inv, TypeOK, QueueInv
<1>2. curr \notin ToSet(ready)
  BY <1>1
<1>3. /\ rd \in Seq(Threads) /\ IsInjective(rd)
      /\ ToSet(rd) = ToSet(ready) \cup
                       (IF st[curr] = "READY" THEN {curr} ELSE {})
  <2>1. CASE st[curr] = "READY" /\ rd = Append(ready, curr)
    BY <1>1, <1>2, <2>1, AppendFacts
  <2>2. CASE st[curr] \in {"RUNNING", "BLOCKED"} /\ rd = ready
    BY <1>1, <2>2
  <2> QED
    BY <2>1, <2>2 DEF LeavesCPU
<1>4. ToSet(ready) \subseteq Threads
  BY <1>1, ToSetIff
<1>5. \A x \in ToSet(rd) : st[x] = "READY"
  BY <1>1, <1>2, <1>3, <1>4 DEF LeavesCPU
<1>6. \A x \in Threads : st[x] = "RUNNING" => x = curr
  BY <1>1 DEF LeavesCPU
<1>7. ASSUME idle \notin ToSet(rd), st[idle] # "RUNNING"
      PROVE  st[idle] = "BLOCKED"
  <2>1. CASE idle = curr
    BY <1>3, <1>7, <2>1 DEF LeavesCPU
  <2>2. CASE idle # curr
    <3>1. st[idle] = status[idle] /\ idle \notin ToSet(ready)
      BY <1>3, <1>7, <2>2 DEF LeavesCPU
    <3>2. status[idle] # "READY"
      <4>1. \A u \in Threads : child[u] # idle
        BY DEF Inv, ChildInv
      <4> QED
        BY <3>1, <4>1 DEF Inv, QueueInv
    <3>3. status[idle] \in {"RUNNING", "READY", "UNUSED", "BLOCKED"}
      BY DEF Inv, QueueInv
    <3> QED
      BY <1>7, <3>1, <3>2, <3>3 DEF Inv, QueueInv
  <2> QED
    BY <2>1, <2>2
<1>8. SchedulePre(rd, st)
  BY <1>3, <1>5, <1>6, <1>7 DEF SchedulePre, LeavesCPU
<1> QED
  BY <1>1, <1>2, <1>3, <1>8

\* A thread that schedule neither picks nor lists keeps the state st gives it.
LEMMA SwitchQueue ==
  ASSUME Inv, NEW rd, NEW st, LeavesCPU(rd, st), schedule(rd, st),
         UNCHANGED <<all, child>>,
         \A x \in Threads : st[x] = "BLOCKED" =>
           Waiting(x)' \/ (x = idle /\ pc'[x] = "parked"),
         st[idle] = "BLOCKED" => pc'[idle] = "parked"
  PROVE  QueueInv' /\ ChildInv' /\ ScheduleAsserts(rd, st)
<1>1. /\ SchedulePre(rd, st) /\ curr \in Threads
      /\ curr \notin ToSet(ready) /\ ToSet(ready) \subseteq ToSet(rd)
      /\ ToSet(rd) = ToSet(ready) \cup
                       (IF st[curr] = "READY" THEN {curr} ELSE {})
  BY LeavesCPUFacts
<1>2. /\ ScheduleAsserts(rd, st)
      /\ curr' \in Threads /\ ready' \in Seq(Threads) /\ IsInjective(ready')
      /\ Runnable(rd, st) = ToSet(ready') \cup {curr'}
      /\ curr' \notin ToSet(ready')
      /\ \A x \in Threads :
           status'[x] = IF x = curr' THEN "RUNNING"
                        ELSE IF x \in ToSet(ready') THEN "READY" ELSE st[x]
  BY <1>1, ScheduleFacts
<1>3. ToSet(ready') \subseteq Threads
  BY <1>2, ToSetIff
<1>4. \A x \in Threads : st[x] = "RUNNING" => x \in Runnable(rd, st)
  BY <1>1 DEF SchedulePre, Runnable, SliceUsedUp
<1>5. \A x \in Threads : status'[x] = "RUNNING" <=> x = curr'
  BY <1>2, <1>4
<1>6. \A x \in ToSet(ready') : status'[x] = "READY"
  BY <1>2, <1>3
<1>7. \A x \in Threads : st[x] = "READY" =>
        x \in ToSet(rd) \/ \E u \in Threads : child[u] = x
  BY <1>1 DEF Inv, QueueInv, LeavesCPU
<1>8. \A x \in Threads : status'[x] = "READY" =>
        x \in ToSet(ready') \/ \E u \in Threads : child'[u] = x
  BY <1>2, <1>7 DEF Runnable
<1>9. \A x \in Threads : status'[x] = "BLOCKED" =>
        Waiting(x)' \/ (x = idle /\ pc'[x] = "parked")
  BY <1>2
<1>10. \A x \in Threads : st[x] \in {"RUNNING", "READY", "UNUSED", "BLOCKED"}
  BY <1>1 DEF Inv, QueueInv, LeavesCPU
<1>11. \A x \in Threads : status'[x] \in {"RUNNING", "READY", "UNUSED", "BLOCKED"}
  BY <1>2, <1>10
<1>12. \A x \in Threads : st[x] = "UNUSED" <=> status[x] = "UNUSED"
  BY <1>1 DEF LeavesCPU, Inv, QueueInv
<1>13. \A x \in Threads : status'[x] = "UNUSED" => status[x] = "UNUSED"
  BY <1>2, <1>12
<1>14. QueueInv'
  <2>1. IsInjective(all') /\ \A x \in ToSet(all') : status'[x] # "UNUSED"
    <3>1. ToSet(all) \subseteq Threads
      BY QueueTypes DEF Inv
    <3> QED
      BY <1>13, <3>1 DEF Inv, QueueInv
  <2>2. status'[idle] # "UNUSED"
    BY <1>13 DEF Inv, QueueInv
  <2>3. status'[idle] = "BLOCKED" => pc'[idle] = "parked"
    BY <1>2
  <2> QED
    BY <1>2, <1>5, <1>6, <1>8, <1>9, <1>11, <2>1, <2>2, <2>3 DEF QueueInv
<1>15. ASSUME NEW t \in Threads, child[t] # NULL
       PROVE  child[t] \notin Runnable(rd, st) /\ st[child[t]] = "READY"
  <2>1. child[t] \in Threads /\ status[child[t]] = "READY" /\ child[t] # idle
        /\ child[t] \notin ToSet(ready)
    BY <1>15, QueueTypes DEF Inv, ChildInv
  <2>2. child[t] # curr
    BY <1>1, <2>1 DEF Inv, QueueInv
  <2> QED
    BY <1>1, <2>1, <2>2 DEF Runnable, LeavesCPU
<1>16. ChildInv'
  <2>1. ASSUME NEW t \in Threads, child[t] # NULL
        PROVE  status'[child[t]] = "READY" /\ child[t] \notin ToSet(ready')
    <3>1. child[t] \in Threads
      BY <2>1, QueueTypes DEF Inv
    <3> QED
      BY <1>2, <1>15, <2>1, <3>1
  <2> QED
    BY <2>1 DEF Inv, ChildInv
<1> QED
  BY <1>2, <1>14, <1>16

\* A thread that is BLOCKED, and is not the idle thread, stays so.
LEMMA SwitchBlocked ==
  ASSUME Inv, NEW rd, NEW st, LeavesCPU(rd, st), schedule(rd, st),
         NEW x \in Threads, st[x] = "BLOCKED", x # idle
  PROVE  status'[x] = "BLOCKED"
<1>1. SchedulePre(rd, st) /\ curr \in Threads
  BY LeavesCPUFacts
<1>2. /\ Runnable(rd, st) = ToSet(ready') \cup {curr'}
      /\ \A y \in Threads :
           status'[y] = IF y = curr' THEN "RUNNING"
                        ELSE IF y \in ToSet(ready') THEN "READY" ELSE st[y]
  BY <1>1, ScheduleFacts
<1>3. x \notin Runnable(rd, st)
  BY <1>1 DEF Runnable, SchedulePre, SliceUsedUp
<1> QED
  BY <1>2, <1>3

-----------------------------------------------------------------------------
(* Every step keeps the queue invariants and fails no ASSERT.              *)

ListsInv == QueueInv /\ ChildInv /\ WaitersInv /\ panic # "assert"

\* Only the current thread moves.
OthersStay == \A u \in Threads \ {curr} :
                pc'[u] = pc[u] /\ arg'[u] = arg[u] /\ saved'[u] = saved[u]

\* The waiters are threads, and none of them is current or the idle thread.
LEMMA WaiterFacts ==
  ASSUME Inv, NEW m \in Mutexes
  PROVE  /\ waiters[m] \in Seq(Threads) /\ ToSet(waiters[m]) \subseteq Threads
         /\ \A x \in ToSet(waiters[m]) : x # curr /\ x # idle
<1>1. waiters[m] \in Seq(Threads)
  BY ZenonT(40) DEF Inv, TypeOK
<1>2. ToSet(waiters[m]) \subseteq Threads
  BY <1>1, ToSetIff
<1>3. \A x \in ToSet(waiters[m]) : status[x] = "BLOCKED" /\ pc[x] = "lock_down"
  BY DEF Inv, WaitersInv
<1>4. \A x \in Threads : status[x] = "BLOCKED" => x # curr
  BY DEF Inv, QueueInv
<1>5. \A x \in Threads : pc[x] = "lock_down" => x # idle
  BY DEF Inv, CallerInv, CallerOK
<1> QED
  BY <1>1, <1>2, <1>3, <1>4, <1>5

\* Steps that touch no list and no task state keep ListsInv.
LEMMA ListsFrame ==
  ASSUME Inv, OthersStay, panic' # "assert",
         UNCHANGED <<ready, all, status, curr, child, waiters>>
  PROVE  ListsInv'
<1>1. \A x \in Threads : status[x] = "BLOCKED" => x # curr
  BY DEF Inv, QueueInv
<1>2. \A x \in Threads : Waiting(x)' <=> Waiting(x)
  BY DEF Waiting
<1>3. QueueInv'
  <2>1. \A x \in Threads : status'[x] = "BLOCKED" =>
          Waiting(x)' \/ (x = idle /\ pc'[x] = "parked")
    BY <1>1, <1>2 DEF Inv, QueueInv, OthersStay
  <2>2. status'[idle] = "BLOCKED" => pc'[idle] = "parked"
    BY <1>1 DEF Inv, QueueInv, OthersStay
  <2> QED
    BY <2>1, <2>2 DEF Inv, QueueInv
<1>4. ChildInv'
  BY DEF Inv, ChildInv
<1>5. WaitersInv'
  <2>1. ASSUME NEW m \in Mutexes, NEW x \in ToSet(waiters[m])
        PROVE  saved'[x] # NULL /\ pc'[x] = "lock_down" /\ arg'[x] = m
    <3>1. x \in Threads /\ x # curr
      BY <2>1, WaiterFacts
    <3> QED
      BY <2>1, <3>1 DEF Inv, WaitersInv, OthersStay
  <2> QED
    BY <2>1 DEF Inv, WaitersInv
<1> QED
  BY <1>3, <1>4, <1>5 DEF ListsInv

\* A switch, for a thread that has just put itself into no list of waiters.
LEMMA ListsSwitch ==
  ASSUME Inv, NEW rd, NEW st, LeavesCPU(rd, st), schedule(rd, st), OthersStay,
         UNCHANGED <<all, child, waiters>>,
         st[curr] = "BLOCKED" => curr = idle /\ pc'[idle] = "parked"
  PROVE  QueueInv' /\ ChildInv' /\ WaitersInv' /\ ScheduleAsserts(rd, st)
<1>1. \A x \in Threads : x # curr => st[x] = status[x] /\ pc'[x] = pc[x]
  BY DEF LeavesCPU, OthersStay
<1>2. \A x \in Threads : Waiting(x)' <=> Waiting(x)
  BY DEF Waiting
<1>3. \A x \in Threads : st[x] = "BLOCKED" =>
        Waiting(x)' \/ (x = idle /\ pc'[x] = "parked")
  BY <1>1, <1>2 DEF Inv, QueueInv
<1>4. st[idle] = "BLOCKED" => pc'[idle] = "parked"
  BY <1>1 DEF Inv, QueueInv
<1>5. QueueInv' /\ ChildInv' /\ ScheduleAsserts(rd, st)
  BY <1>3, <1>4, SwitchQueue
<1>6. ASSUME NEW m \in Mutexes, NEW x \in ToSet(waiters[m])
      PROVE  status'[x] = "BLOCKED" /\ saved'[x] # NULL
             /\ pc'[x] = "lock_down" /\ arg'[x] = m
  <2>1. x \in Threads /\ x # curr /\ x # idle
    BY <1>6, WaiterFacts
  <2>2. /\ status[x] = "BLOCKED" /\ saved[x] # NULL
        /\ pc[x] = "lock_down" /\ arg[x] = m
    BY <1>6 DEF Inv, WaitersInv
  <2>3. status'[x] = "BLOCKED"
    BY <1>1, <2>1, <2>2, SwitchBlocked
  <2> QED
    BY <2>1, <2>2, <2>3 DEF OthersStay
<1>7. WaitersInv'
  BY <1>6 DEF Inv, WaitersInv
<1> QED
  BY <1>5, <1>7

\* A thread in mutex_lock or mutex_unlock has a mutex as its argument.
LEMMA ArgFacts ==
  ASSUME Inv, NEW t \in Threads, pc[t] \in LockPcs \cup UnlockPcs
  PROVE  arg[t] \in Mutexes /\ arg[t] # NULL /\ t # idle
<1>1. arg[t] \in Mutexes \cup {NULL}
  BY ZenonT(40) DEF Inv, TypeOK
<1>2. CallerOK(t)
  BY DEF Inv, CallerInv
<1>3. arg[t] # NULL
  BY <1>2 DEF CallerOK
<1>4. t # idle
  BY <1>2 DEF CallerOK, LockPcs, UnlockPcs
<1> QED
  BY <1>1, <1>3, <1>4

\* sem_down of a semaphore that is 0: t joins its waiters and is switched out.
LEMMA ListsBlock ==
  ASSUME Inv, NEW t \in Threads, lock_down(t), value[arg[t]] = 0,
         UNCHANGED <<threadVars, callerVars>>
  PROVE  ListsInv'
<1> DEFINE s  == arg[t]
           st == [status EXCEPT ![t] = "BLOCKED"]
<1>1. t = curr /\ pc[t] = "lock_down" /\ t # idle /\ s \in Mutexes
  BY ArgFacts DEF lock_down, At, Executing, LockPcs
<1>2. /\ waiters' = [waiters EXCEPT ![s] = Append(@, t)]
      /\ saved' = [saved EXCEPT ![t] = IF saved[t] = NULL THEN intr ELSE saved[t]]
      /\ ASSERT(t \notin ToSet(waiters[s]) /\ ScheduleAsserts(ready, st))
      /\ schedule(ready, st)
      /\ UNCHANGED <<pc, ctx, value, holder, recursion, arg>>
  BY DEF lock_down, sem_down
<1>3. waiters \in [Mutexes -> Seq(Threads)] /\ saved \in [Threads -> {ON, OFF, NULL}]
      /\ intr \in {ON, OFF} /\ arg \in [Threads -> Mutexes \cup {NULL}]
  BY DEF Inv, TypeOK
<1>4. t \notin ToSet(waiters[s])
  BY <1>1, WaiterFacts
<1>5. /\ waiters'[s] = Append(waiters[s], t)
      /\ \A m \in Mutexes : m # s => waiters'[m] = waiters[m]
      /\ ToSet(waiters'[s]) = ToSet(waiters[s]) \cup {t}
      /\ IsInjective(waiters'[s])
  <2>1. waiters'[s] = Append(waiters[s], t) /\ waiters[s] \in Seq(Threads)
        /\ \A m \in Mutexes : m # s => waiters'[m] = waiters[m]
    BY <1>1, <1>2, <1>3
  <2>2. IsInjective(waiters[s])
    BY <1>1 DEF Inv, WaitersInv
  <2> QED
    BY <1>4, <2>1, <2>2, AppendFacts
<1>6. LeavesCPU(ready, st)
  BY <1>1, QueueTypes DEF Inv, LeavesCPU, TaskStatus, BlockedStates
<1> HIDE DEF s
<1>7. \A m \in Mutexes : ToSet(waiters[m]) \subseteq ToSet(waiters'[m])
  BY <1>5
<1>8. \A x \in Threads : Waiting(x) => Waiting(x)'
  BY <1>7 DEF Waiting
<1>9. \A x \in Threads : st[x] = "BLOCKED" =>
        Waiting(x)' \/ (x = idle /\ pc'[x] = "parked")
  <2>1. Waiting(t)'
    BY <1>1, <1>5 DEF Waiting
  <2>2. \A x \in Threads : x # t => st[x] = status[x]
    BY <1>1, <1>6 DEF LeavesCPU
  <2> QED
    BY <1>2, <1>8, <2>1, <2>2 DEF Inv, QueueInv
<1>10. st[idle] = "BLOCKED" => pc'[idle] = "parked"
  BY <1>1, <1>2, <1>6 DEF LeavesCPU, Inv, QueueInv
<1>11. QueueInv' /\ ChildInv' /\ ScheduleAsserts(ready, st)
  BY <1>2, <1>6, <1>9, <1>10, SwitchQueue DEF threadVars
<1>12. ASSUME NEW m \in Mutexes, NEW x \in ToSet(waiters'[m])
       PROVE  status'[x] = "BLOCKED" /\ saved'[x] # NULL
              /\ pc'[x] = "lock_down" /\ arg'[x] = m
  <2>1. CASE x \in ToSet(waiters[m])
    <3>1. x \in Threads /\ x # t /\ x # idle
      BY <1>1, <2>1, WaiterFacts
    <3>2. /\ status[x] = "BLOCKED" /\ saved[x] # NULL
          /\ pc[x] = "lock_down" /\ arg[x] = m
      BY <2>1 DEF Inv, WaitersInv
    <3>3. status'[x] = "BLOCKED"
      <4>1. st[x] = "BLOCKED"
        BY <1>1, <1>6, <3>1, <3>2 DEF LeavesCPU
      <4> HIDE DEF st
      <4> QED
        BY <1>2, <1>6, <3>1, <4>1, SwitchBlocked
    <3> QED
      BY <1>2, <1>3, <3>1, <3>2, <3>3
  <2>2. CASE m = s /\ x = t
    <3>1. status'[t] = "BLOCKED"
      <4>1. st[t] = "BLOCKED"
        BY QueueTypes DEF Inv
      <4> HIDE DEF st
      <4> QED
        BY <1>1, <1>2, <1>6, <4>1, SwitchBlocked
    <3>2. saved'[t] # NULL
      BY <1>2, <1>3
    <3>3. arg'[t] = s
      BY <1>2 DEF s
    <3> QED
      BY <1>1, <1>2, <2>2, <3>1, <3>2, <3>3
  <2> QED
    BY <1>5, <2>1, <2>2
<1>13. WaitersInv'
  BY <1>5, <1>12, ZenonT(40) DEF Inv, WaitersInv
<1>14. panic' # "assert"
  BY <1>2, <1>4, <1>11 DEF ASSERT
<1> QED
  BY <1>11, <1>13, <1>14 DEF ListsInv

\* sem_up with a waiter: it leaves the waiters for the front of the ready list.
LEMMA ListsUnblock ==
  ASSUME Inv, NEW t \in Threads, NEW p, unlock_up(t, p), waiters[arg[t]] # <<>>,
         UNCHANGED <<threadVars, callerVars>>
  PROVE  ListsInv'
<1> DEFINE s == arg[t]
           h == Head(waiters[s])
<1>1. t = curr /\ pc[t] = "unlock_up" /\ s \in Mutexes /\ t # idle
  BY ArgFacts DEF unlock_up, At, Executing, UnlockPcs
<1>2. /\ waiters' = [waiters EXCEPT ![s] = Tail(@)]
      /\ ready' = <<h>> \o ready
      /\ status' = [status EXCEPT ![h] = "READY"]
      /\ ASSERT(UnblockAsserts(h) /\ value'[s] > 0)
      /\ value' = [value EXCEPT ![s] = (@ + 1) % 256]
      /\ arg' = [arg EXCEPT ![t] = NULL] /\ pc' = [pc EXCEPT ![t] = p]
      /\ UNCHANGED <<curr, saved, all, child>>
  BY DEF unlock_up, sem_up, thread_unblock, Goto, threadVars
<1>3. /\ waiters \in [Mutexes -> Seq(Threads)] /\ waiters[s] # <<>>
      /\ arg \in [Threads -> Mutexes \cup {NULL}] /\ pc \in [Threads -> Pcs]
      /\ value \in [Mutexes -> 0 .. 255]
  BY DEF Inv, TypeOK
<1>4. IsInjective(waiters[s])
  BY <1>1 DEF Inv, WaitersInv
<1>5. /\ h \in Threads /\ ToSet(waiters[s]) = ToSet(Tail(waiters[s])) \cup {h}
      /\ IsInjective(Tail(waiters[s])) /\ h \notin ToSet(Tail(waiters[s]))
  BY <1>1, <1>3, <1>4, TailFacts
<1>6. /\ waiters'[s] = Tail(waiters[s])
      /\ \A m \in Mutexes : m # s => waiters'[m] = waiters[m]
  BY <1>1, <1>2, <1>3
<1>7. /\ status[h] = "BLOCKED" /\ pc[h] = "lock_down" /\ arg[h] = s
      /\ h # curr /\ h # idle
  <2>1. h \in ToSet(waiters[s])
    BY <1>5
  <2> HIDE DEF h, s
  <2>2. status[h] = "BLOCKED" /\ pc[h] = "lock_down" /\ arg[h] = s
    BY <1>1, <2>1 DEF Inv, WaitersInv
  <2> QED
    BY <1>1, <2>1, <2>2, WaiterFacts
<1>8. h \notin ToSet(ready)
  BY <1>7 DEF Inv, QueueInv
<1>9. value'[s] > 0
  <2>1. Owns(t, s)
    BY <1>1 DEF Owns, UnlockPcs
  <2>2. value[s] = 0
    BY <1>1, <2>1 DEF Inv, MutexInv, MutexOK
  <2> QED
    BY <1>1, <1>2, <1>3, <2>2
<1>10. panic' # "assert"
  BY <1>2, <1>7, <1>8, <1>9 DEF ASSERT, UnblockAsserts, BlockedStates
<1>11. /\ ToSet(ready') = ToSet(ready) \cup {h} /\ IsInjective(ready')
       /\ ToSet(ready) \subseteq Threads
  BY <1>2, <1>5, <1>8, ConsFacts, QueueTypes DEF Inv, QueueInv
<1>12. /\ status'[h] = "READY"
       /\ \A x \in Threads : x # h => status'[x] = status[x]
  BY <1>2, <1>5, QueueTypes DEF Inv
<1>13. ASSUME NEW x \in Threads, x # h, Waiting(x) PROVE Waiting(x)'
  <2>1. PICK m \in Mutexes : x \in ToSet(waiters[m])
    BY <1>13 DEF Waiting
  <2>2. x \in ToSet(waiters'[m])
    BY <1>5, <1>6, <1>13, <2>1
  <2> QED
    BY <2>2 DEF Waiting
<1>14. QueueInv'
  <2>1. \A x \in Threads : status'[x] = "RUNNING" <=> x = curr'
    BY <1>2, <1>7, <1>12 DEF Inv, QueueInv
  <2>2. \A x \in ToSet(ready') : status'[x] = "READY"
    BY <1>11, <1>12 DEF Inv, QueueInv
  <2>3. \A x \in Threads : status'[x] = "READY" =>
          x \in ToSet(ready') \/ \E u \in Threads : child'[u] = x
    BY <1>2, <1>11, <1>12 DEF Inv, QueueInv
  <2>4. \A x \in Threads : status'[x] = "BLOCKED" =>
          Waiting(x)' \/ (x = idle /\ pc'[x] = "parked")
    BY <1>1, <1>2, <1>3, <1>12, <1>13 DEF Inv, QueueInv
  <2>5. \A x \in Threads : status'[x] \in {"RUNNING", "READY", "UNUSED", "BLOCKED"}
    BY <1>12 DEF Inv, QueueInv
  <2>6. /\ status'[idle] # "UNUSED"
        /\ status'[idle] = "BLOCKED" => pc'[idle] = "parked"
    BY <1>1, <1>2, <1>3, <1>7, <1>12 DEF Inv, QueueInv
  <2>7. IsInjective(all') /\ \A x \in ToSet(all') : status'[x] # "UNUSED"
    BY <1>2, <1>12, QueueTypes DEF Inv, QueueInv
  <2> QED
    BY <1>11, <2>1, <2>2, <2>3, <2>4, <2>5, <2>6, <2>7 DEF QueueInv
<1>15. ChildInv'
  <2>1. ASSUME NEW u \in Threads, child[u] # NULL
        PROVE  /\ child[u] \in Threads /\ child[u] # h
               /\ child[u] \notin ToSet(ready) /\ status[child[u]] = "READY"
    BY <1>7, <2>1, QueueTypes DEF Inv, ChildInv
  <2> QED
    BY <1>2, <1>11, <1>12, <2>1 DEF Inv, ChildInv
<1>16. WaitersInv'
  <2>1. ASSUME NEW m \in Mutexes
        PROVE  /\ IsInjective(waiters'[m])
               /\ ToSet(waiters'[m]) \subseteq ToSet(waiters[m]) \ {h}
    <3>1. m # s => h \notin ToSet(waiters[m])
      BY <1>7 DEF Inv, WaitersInv
    <3> QED
      BY <1>5, <1>6, <3>1 DEF Inv, WaitersInv
  <2>2. ASSUME NEW m \in Mutexes, NEW x \in ToSet(waiters'[m])
        PROVE  status'[x] = "BLOCKED" /\ saved'[x] # NULL
               /\ pc'[x] = "lock_down" /\ arg'[x] = m
    <3>1. x \in ToSet(waiters[m]) /\ x # h /\ x \in Threads /\ x # t
      BY <1>1, <2>1, WaiterFacts
    <3>2. /\ status[x] = "BLOCKED" /\ saved[x] # NULL
          /\ pc[x] = "lock_down" /\ arg[x] = m
      BY <3>1 DEF Inv, WaitersInv
    <3> QED
      BY <1>2, <1>3, <1>12, <3>1, <3>2
  <2> QED
    BY <2>1, <2>2 DEF WaitersInv
<1> QED
  BY <1>10, <1>14, <1>15, <1>16 DEF ListsInv

\* task_struct_init makes an unused page the READY child of its creator.
LEMMA ListsCreate ==
  ASSUME Inv, NEW t \in Threads, NEW n \in Threads, task_struct_init(t, n)
  PROVE  ListsInv'
<1>1. /\ t = curr /\ status[n] = "UNUSED" /\ panic' = "none"
      /\ status' = [status EXCEPT ![n] = "READY"]
      /\ child' = [child EXCEPT ![t] = n]
      /\ arg' = [arg EXCEPT ![t] = pid_lock]
      /\ pc' = [pc EXCEPT ![t] = "lock_check"]
      /\ UNCHANGED <<curr, ready, all, saved, waiters>>
  BY DEF task_struct_init, Calling, At, Executing, Goto
<1>2. /\ arg \in [Threads -> Mutexes \cup {NULL}] /\ pc \in [Threads -> Pcs]
  BY DEF Inv, TypeOK
<1>3. /\ status'[n] = "READY" /\ child'[t] = n
      /\ \A x \in Threads : x # n => status'[x] = status[x]
      /\ \A u \in Threads : u # t => child'[u] = child[u]
  BY <1>1, QueueTypes DEF Inv
<1>4. n # curr /\ n # idle /\ n \notin ToSet(ready) /\ n \notin ToSet(all)
  BY <1>1 DEF Inv, QueueInv
<1>5. child[t] = NULL
  <2>1. pc[t] = "run" /\ CallerOK(t)
    BY DEF task_struct_init, Calling, At, Inv, CallerInv
  <2> QED
    BY <2>1 DEF CallerOK, LockPcs, UnlockPcs
<1>6. \A u \in Threads : child[u] # n
  BY <1>1 DEF Inv, ChildInv
<1>7. \A x \in Threads : Waiting(x)' <=> Waiting(x)
  BY <1>1 DEF Waiting
<1>8. QueueInv'
  <2>1. \A x \in Threads : status'[x] = "RUNNING" <=> x = curr'
    BY <1>1, <1>3, <1>4 DEF Inv, QueueInv
  <2>2. \A x \in ToSet(ready') : status'[x] = "READY"
    BY <1>1, <1>3, <1>4, QueueTypes DEF Inv, QueueInv
  <2>3. \A x \in Threads : status'[x] = "READY" =>
          x \in ToSet(ready') \/ \E u \in Threads : child'[u] = x
    <3> SUFFICES ASSUME NEW x \in Threads, status'[x] = "READY",
                        x \notin ToSet(ready')
                 PROVE  \E u \in Threads : child'[u] = x
      OBVIOUS
    <3>1. CASE x = n
      BY <1>3, <3>1
    <3>2. CASE x # n
      <4>1. PICK u \in Threads : child[u] = x
        BY <1>1, <1>3, <3>2 DEF Inv, QueueInv
      <4>2. u # t
        BY <1>5, <4>1
      <4> QED
        BY <1>3, <4>1, <4>2
    <3> QED
      BY <3>1, <3>2
  <2>4. \A x \in Threads : status'[x] = "BLOCKED" =>
          Waiting(x)' \/ (x = idle /\ pc'[x] = "parked")
    BY <1>1, <1>2, <1>3, <1>4, <1>7 DEF Inv, QueueInv
  <2>5. \A x \in Threads : status'[x] \in {"RUNNING", "READY", "UNUSED", "BLOCKED"}
    BY <1>3 DEF Inv, QueueInv
  <2>6. /\ status'[idle] # "UNUSED"
        /\ status'[idle] = "BLOCKED" => pc'[idle] = "parked"
    BY <1>1, <1>2, <1>3, <1>4 DEF Inv, QueueInv
  <2>7. IsInjective(all') /\ \A x \in ToSet(all') : status'[x] # "UNUSED"
    BY <1>1, <1>3, QueueTypes DEF Inv, QueueInv
  <2>8. IsInjective(ready')
    BY <1>1 DEF Inv, QueueInv
  <2> QED
    BY <2>1, <2>2, <2>3, <2>4, <2>5, <2>6, <2>7, <2>8 DEF QueueInv
<1>9. ChildInv'
  <2>1. ASSUME NEW u \in Threads, child'[u] # NULL
        PROVE  /\ status'[child'[u]] = "READY" /\ child'[u] # idle
               /\ child'[u] \notin ToSet(ready) /\ child'[u] \notin ToSet(all)
    <3>1. CASE u = t
      BY <1>3, <1>4, <3>1
    <3>2. CASE u # t
      <4>1. child'[u] = child[u] /\ child[u] \in Threads /\ child[u] # n
        BY <1>3, <1>6, <2>1, <3>2, QueueTypes DEF Inv
      <4> QED
        BY <1>3, <2>1, <4>1 DEF Inv, ChildInv
    <3> QED
      BY <3>1, <3>2
  <2>2. ASSUME NEW u \in Threads, NEW v \in Threads,
               child'[u] = child'[v], child'[u] # NULL
        PROVE  u = v
    BY <1>3, <1>6, <2>2 DEF Inv, ChildInv
  <2> QED
    BY <1>1, <2>1, <2>2 DEF ChildInv
<1>10. WaitersInv'
  <2>1. ASSUME NEW m \in Mutexes, NEW x \in ToSet(waiters[m])
        PROVE  /\ status'[x] = "BLOCKED" /\ saved'[x] # NULL
               /\ pc'[x] = "lock_down" /\ arg'[x] = m
    <3>1. x \in Threads /\ x # t
      BY <1>1, <2>1, WaiterFacts
    <3>2. /\ status[x] = "BLOCKED" /\ saved[x] # NULL
          /\ pc[x] = "lock_down" /\ arg[x] = m
      BY <2>1 DEF Inv, WaitersInv
    <3> QED
      BY <1>1, <1>2, <1>3, <3>1, <3>2
  <2> QED
    BY <1>1, <2>1 DEF Inv, WaitersInv
<1> QED
  BY <1>1, <1>8, <1>9, <1>10 DEF ListsInv

\* The child enters the ready list and the list of all threads.
LEMMA ListsPublish ==
  ASSUME Inv, NEW t \in Threads, list_task(t)
  PROVE  ListsInv'
<1> DEFINE n == child[t]
<1>1. /\ t = curr /\ pc[t] = "created"
      /\ ASSERT(n \notin ToSet(ready) /\ n \notin ToSet(all))
      /\ ready' = Append(ready, n) /\ all' = Append(all, n)
      /\ child' = [child EXCEPT ![t] = NULL]
      /\ pc' = [pc EXCEPT ![t] = "run"]
      /\ UNCHANGED <<curr, status, saved, waiters, arg>>
  BY DEF list_task, At, Executing, Goto, lockVars
<1>2. pc \in [Threads -> Pcs]
  BY DEF Inv, TypeOK
<1>3. n # NULL
  BY <1>1 DEF Inv, CallerInv, CallerOK
<1>4. /\ n \in Threads /\ status[n] = "READY" /\ n # idle
      /\ n \notin ToSet(ready) /\ n \notin ToSet(all)
  BY <1>3, QueueTypes DEF Inv, ChildInv
<1>5. /\ ToSet(ready') = ToSet(ready) \cup {n} /\ IsInjective(ready')
      /\ ToSet(all') = ToSet(all) \cup {n} /\ IsInjective(all')
  BY <1>1, <1>4, AppendFacts, QueueTypes DEF Inv, QueueInv
<1>6. /\ child'[t] = NULL
      /\ \A u \in Threads : u # t => child'[u] = child[u] /\ child[u] # n
  BY <1>1, <1>3, QueueTypes DEF Inv, ChildInv
<1> HIDE DEF n
<1>7. \A x \in Threads : Waiting(x)' <=> Waiting(x)
  BY <1>1 DEF Waiting
<1>8. QueueInv'
  <2>1. \A x \in Threads : status'[x] = "RUNNING" <=> x = curr'
    BY <1>1 DEF Inv, QueueInv
  <2>2. \A x \in ToSet(ready') : status'[x] = "READY"
    BY <1>1, <1>4, <1>5 DEF Inv, QueueInv
  <2>3. \A x \in Threads : status'[x] = "READY" =>
          x \in ToSet(ready') \/ \E u \in Threads : child'[u] = x
    <3> SUFFICES ASSUME NEW x \in Threads, status'[x] = "READY",
                        x \notin ToSet(ready')
                 PROVE  \E u \in Threads : child'[u] = x
      OBVIOUS
    <3>1. PICK u \in Threads : child[u] = x
      BY <1>1, <1>5 DEF Inv, QueueInv
    <3>2. u # t
      BY <1>5, <3>1 DEF n
    <3> QED
      BY <1>6, <3>1, <3>2
  <2>4. \A x \in Threads : status'[x] = "BLOCKED" =>
          Waiting(x)' \/ (x = idle /\ pc'[x] = "parked")
    BY <1>1, <1>2, <1>7 DEF Inv, QueueInv
  <2>5. status'[idle] = "BLOCKED" => pc'[idle] = "parked"
    BY <1>1, <1>2 DEF Inv, QueueInv
  <2>6. \A x \in ToSet(all') : status'[x] # "UNUSED"
    BY <1>1, <1>4, <1>5 DEF Inv, QueueInv
  <2>7. /\ \A x \in Threads : status'[x] \in {"RUNNING", "READY", "UNUSED", "BLOCKED"}
        /\ status'[idle] # "UNUSED"
    BY <1>1 DEF Inv, QueueInv
  <2> QED
    BY <1>5, <2>1, <2>2, <2>3, <2>4, <2>5, <2>6, <2>7 DEF QueueInv
<1>9. ChildInv'
  BY <1>1, <1>5, <1>6 DEF Inv, ChildInv
<1>10. WaitersInv'
  <2>1. ASSUME NEW m \in Mutexes, NEW x \in ToSet(waiters[m])
        PROVE  pc'[x] = "lock_down"
    <3>1. x \in Threads /\ x # t /\ pc[x] = "lock_down"
      BY <1>1, <2>1, WaiterFacts DEF Inv, WaitersInv
    <3> QED
      BY <1>1, <1>2, <3>1
  <2> QED
    BY <1>1, <2>1 DEF Inv, WaitersInv
<1>11. panic' # "assert"
  BY <1>1, <1>4 DEF ASSERT
<1> QED
  BY <1>8, <1>9, <1>10, <1>11 DEF ListsInv

\* A step of the current thread that touches no list.
LEMMA ListsQuiet ==
  ASSUME Inv, NEW t \in Threads,
         \/ kthread /\ UNCHANGED <<lockVars, threadVars, callerVars>>
         \/ intr_exit /\ UNCHANGED <<lockVars, threadVars, callerVars>>
         \/ idle_unblocked /\ UNCHANGED <<lockVars, threadVars, callerVars>>
         \/ idle_hlt /\ UNCHANGED <<lockVars, threadVars, callerVars>>
         \/ Returning(t) \/ syscall_handler(t) \/ intr_enable(t)
         \/ \E m \in Mutexes : mutex_lock(t, m)
         \/ mutex_unlock(t) \/ pid_read(t) \/ pid_inc(t)
  PROVE  ListsInv'
<1>1. /\ arg \in [Threads -> Mutexes \cup {NULL}] /\ pc \in [Threads -> Pcs]
      /\ saved \in [Threads -> {ON, OFF, NULL}]
  BY DEF Inv, TypeOK
<1>2. panic = "none" /\ panic' # "assert"
  BY DEF kthread, intr_exit, idle_unblocked, idle_hlt, Returning, yield_return,
      syscall_handler, intr_enable, mutex_lock, mutex_unlock, pid_read, pid_inc,
      Calling, At, Executing
<1>3. UNCHANGED <<ready, all, status, curr, child, waiters>>
  BY DEF kthread, intr_exit, idle_unblocked, idle_hlt, Returning, yield_return,
      syscall_handler, intr_enable, mutex_lock, mutex_unlock, pid_read, pid_inc,
      lockVars, threadVars
<1>4. OthersStay
  <2>1. CASE \/ kthread /\ UNCHANGED <<lockVars, threadVars, callerVars>>
             \/ intr_exit /\ UNCHANGED <<lockVars, threadVars, callerVars>>
             \/ syscall_handler(t) \/ intr_enable(t)
    BY <2>1 DEF kthread, intr_exit, syscall_handler, intr_enable, lockVars,
         OthersStay
  <2>2. CASE \/ idle_unblocked /\ UNCHANGED <<lockVars, threadVars, callerVars>>
             \/ idle_hlt /\ UNCHANGED <<lockVars, threadVars, callerVars>>
             \/ Returning(t)
    BY <1>1, <2>2 DEF idle_unblocked, idle_hlt, Returning, yield_return, At,
         Executing, Goto, lockVars, OthersStay
  <2>3. CASE \/ \E m \in Mutexes : mutex_lock(t, m)
             \/ mutex_unlock(t) \/ pid_read(t) \/ pid_inc(t)
    <3>1. t = curr /\ saved' = saved
      BY <2>3 DEF mutex_lock, mutex_unlock, pid_read, pid_inc, Calling, At,
           Executing
    <3>2. \E p, a : pc' = [pc EXCEPT ![t] = p] /\ arg' \in {arg, [arg EXCEPT ![t] = a]}
      BY <2>3 DEF mutex_lock, mutex_unlock, pid_read, pid_inc, Goto, lockVars
    <3> QED
      BY <1>1, <3>1, <3>2 DEF OthersStay
  <2> QED
    BY <2>1, <2>2, <2>3
<1> QED
  BY <1>2, <1>3, <1>4, ListsFrame

\* The steps of mutex_lock and mutex_unlock that touch no list.
LEMMA ListsLocking ==
  ASSUME Inv, NEW t \in Threads, UNCHANGED threadVars,
         \/ lock_check(t, AfterLock(t))
         \/ lock_down(t) /\ value[arg[t]] > 0
         \/ lock_own(t) \/ lock_count(t, AfterLock(t))
         \/ unlock_own(t) \/ unlock_check(t, AfterUnlock(t)) \/ unlock_holder(t)
         \/ unlock_count(t)
         \/ unlock_up(t, AfterUnlock(t)) /\ waiters[arg[t]] = <<>>
  PROVE  ListsInv'
<1>1. /\ arg \in [Threads -> Mutexes \cup {NULL}] /\ pc \in [Threads -> Pcs]
      /\ saved \in [Threads -> {ON, OFF, NULL}] /\ value \in [Mutexes -> 0 .. 255]
  BY DEF Inv, TypeOK
<1>2. CASE lock_down(t) /\ value[arg[t]] > 0
  BY <1>1, <1>2, ListsFrame DEF lock_down, sem_down, At, Executing, Goto,
       threadVars, OthersStay
<1>3. CASE lock_own(t)
  <2>1. pc[t] = "lock_own" /\ arg[t] \in Mutexes
    BY <1>3, ArgFacts DEF lock_own, At, LockPcs
  <2>2. Owns(t, arg[t]) /\ Depth(t, arg[t]) = 0
    BY <2>1 DEF Owns, Depth
  <2>3. recursion[arg[t]] = 0
    BY <2>1, <2>2 DEF Inv, MutexInv, MutexOK
  <2> QED
    BY <1>1, <1>3, <2>3, ListsFrame DEF lock_own, At, Executing, Goto, threadVars,
         OthersStay, ASSERT
<1>4. CASE unlock_up(t, AfterUnlock(t)) /\ waiters[arg[t]] = <<>>
  <2>1. pc[t] = "unlock_up" /\ arg[t] \in Mutexes
    BY <1>4, ArgFacts DEF unlock_up, At, UnlockPcs
  <2>2. Owns(t, arg[t])
    BY <2>1 DEF Owns, UnlockPcs
  <2>3. value[arg[t]] = 0
    BY <2>1, <2>2 DEF Inv, MutexInv, MutexOK
  <2>4. value' = [value EXCEPT ![arg[t]] = (@ + 1) % 256]
        /\ ASSERT(value'[arg[t]] > 0)
        /\ UNCHANGED <<ready, status, waiters, curr, saved>>
    BY <1>4 DEF unlock_up, sem_up
  <2>5. panic' # "assert"
    BY <1>1, <2>1, <2>3, <2>4 DEF ASSERT
  <2>6. OthersStay
    BY <1>1, <1>4, <2>4 DEF unlock_up, At, Executing, Goto, OthersStay
  <2> QED
    BY <2>4, <2>5, <2>6, ListsFrame DEF threadVars
<1>5. CASE lock_check(t, AfterLock(t)) \/ lock_count(t, AfterLock(t))
  BY <1>1, <1>5, ListsFrame DEF lock_check, lock_count, At, Executing, Goto,
       threadVars, OthersStay
<1>6. CASE \/ unlock_own(t) \/ unlock_check(t, AfterUnlock(t)) \/ unlock_holder(t)
           \/ unlock_count(t)
  BY <1>1, <1>6, ListsFrame DEF unlock_own, unlock_check, unlock_holder,
       unlock_count, At, Executing, Goto, threadVars, OthersStay
<1> QED
  BY <1>2, <1>3, <1>4, <1>5, <1>6

\* The steps that call schedule outside of sem_down.
LEMMA ListsSwitching ==
  ASSUME Inv,
         \/ idle_block /\ UNCHANGED <<lockVars, threadVars, callerVars>>
         \/ Tick
         \/ \E t \in Threads : Yielding(t)
  PROVE  ListsInv'
<1>1. /\ pc \in [Threads -> Pcs] /\ saved \in [Threads -> {ON, OFF, NULL}]
      /\ curr \in Threads /\ status \in [Threads -> TaskStatus]
  BY DEF Inv, TypeOK
<1>2. status[curr] = "RUNNING"
  BY <1>1 DEF Inv, QueueInv
<1>3. CASE idle_block /\ UNCHANGED <<lockVars, threadVars, callerVars>>
  <2> DEFINE st == [status EXCEPT ![idle] = "BLOCKED"]
  <2>1. /\ curr = idle /\ schedule(ready, st) /\ pc'[idle] = "parked"
        /\ ASSERT(ScheduleAsserts(ready, st))
        /\ UNCHANGED <<all, child, waiters>> /\ OthersStay
    BY <1>1, <1>3 DEF idle_block, At, Executing, Goto, lockVars, threadVars,
         OthersStay
  <2>2. LeavesCPU(ready, st)
    BY <1>1, <2>1 DEF LeavesCPU, TaskStatus, BlockedStates
  <2> HIDE DEF st
  <2>3. QueueInv' /\ ChildInv' /\ WaitersInv' /\ ScheduleAsserts(ready, st)
    BY <2>1, <2>2, ListsSwitch
  <2> QED
    BY <2>1, <2>3 DEF ListsInv, ASSERT
<1>4. CASE Tick /\ ava[curr] > 0
  <2>1. ava[curr] # 0
    <3>1. ava \in [Threads -> 0 .. 255]
      BY DEF Inv, TypeOK
    <3> QED
      BY <1>1, <1>4, <3>1
  <2>2. UNCHANGED <<curr, ready, status, panic, saved>> /\ panic = "none"
        /\ pc' = LeaveHlt /\ UNCHANGED <<all, child, waiters, arg>>
    BY <1>4, <2>1 DEF Tick, time_intr_handler, lockVars, threadVars
  <2>3. OthersStay
    BY <1>1, <2>2 DEF OthersStay, LeaveHlt
  <2> QED
    BY <2>2, <2>3, ListsFrame
<1>5. CASE Tick /\ ~(ava[curr] > 0)
  <2>1. /\ schedule(ready, status) /\ ASSERT(ScheduleAsserts(ready, status))
        /\ pc' = LeaveHlt /\ UNCHANGED <<all, child, waiters, arg, saved>>
    BY <1>5 DEF Tick, time_intr_handler, lockVars, threadVars
  <2>2. LeavesCPU(ready, status)
    BY <1>1, <1>2 DEF LeavesCPU
  <2>3. OthersStay
    BY <1>1, <2>1 DEF OthersStay, LeaveHlt
  <2>4. QueueInv' /\ ChildInv' /\ WaitersInv' /\ ScheduleAsserts(ready, status)
    BY <1>2, <2>1, <2>2, <2>3, ListsSwitch
  <2> QED
    BY <2>1, <2>4 DEF ListsInv, ASSERT
<1>6. ASSUME NEW t \in Threads, Yielding(t) PROVE ListsInv'
  <2> DEFINE rd == Append(ready, t)
             st == [status EXCEPT ![t] = "READY"]
  <2>1. /\ curr = t /\ schedule(rd, st)
        /\ ASSERT(t \notin ToSet(ready) /\ ScheduleAsserts(rd, st))
        /\ UNCHANGED <<all, child, waiters>> /\ OthersStay
    BY <1>1, <1>6 DEF Yielding, thread_yield, At, Executing, Goto, lockVars,
         threadVars, OthersStay
  <2>2. LeavesCPU(rd, st) /\ st[curr] = "READY"
    BY <1>1, <2>1 DEF LeavesCPU, TaskStatus
  <2> HIDE DEF st, rd
  <2>3. QueueInv' /\ ChildInv' /\ WaitersInv' /\ ScheduleAsserts(rd, st)
    BY <2>1, <2>2, ListsSwitch
  <2>4. t \notin ToSet(ready)
    BY <2>1, <2>2, LeavesCPUFacts
  <2> QED
    BY <2>1, <2>3, <2>4 DEF ListsInv, ASSERT
<1> QED
  BY <1>3, <1>4, <1>5, <1>6

\* Every step keeps ListsInv: the lists, the task states and the ASSERTs.
LEMMA ListsStep ==
  ASSUME Inv, [Next]_vars
  PROVE  ListsInv'
<1>1. CASE UNCHANGED vars
  BY <1>1, ListsFrame DEF vars, schedVars, lockVars, threadVars, OthersStay, Inv,
       NoAssertFails
<1>2. CASE Kernel \/ Tick
  BY <1>2, ListsQuiet, ListsSwitching DEF Kernel
<1>3. ASSUME NEW t \in Threads, Call(t) \/ Returning(t)
      PROVE  ListsInv'
  BY <1>3, ListsQuiet, ListsSwitching, ListsCreate DEF Call
<1>4. ASSUME NEW t \in Threads, Locking(t) PROVE ListsInv'
  <2>1. CASE lock_down(t) /\ UNCHANGED callerVars
    <3>1. value[arg[t]] > 0 \/ value[arg[t]] = 0
      BY <2>1 DEF lock_down, sem_down
    <3>2. UNCHANGED threadVars
      BY <1>4 DEF Locking
    <3> QED
      BY <2>1, <3>1, <3>2, ListsBlock, ListsLocking
  <2> QED
    BY <1>4, <2>1, ListsLocking DEF Locking
<1>5. ASSUME NEW t \in Threads, Unlocking(t) PROVE ListsInv'
  BY <1>5, ListsLocking, ListsUnblock DEF Unlocking
<1>6. ASSUME NEW t \in Threads, pid_read(t) \/ pid_inc(t) \/ list_task(t)
      PROVE  ListsInv'
  BY <1>6, ListsQuiet, ListsPublish
<1> QED
  BY <1>1, <1>2, <1>3, <1>4, <1>5, <1>6 DEF Next, Critical

-----------------------------------------------------------------------------
(* Every step keeps PidInv.                                                *)

\* The types that the proofs about pids use.
LEMMA PidTypes ==
  ASSUME TypeOK
  PROVE  /\ next_pid \in Nat /\ next_pid <= PidLimit /\ PidLimit \in Nat
         /\ pid \in [Threads -> Nat \cup {NULL}]
         /\ child \in [Threads -> Threads \cup {NULL}]
<1>1. /\ next_pid \in 0 .. PidLimit /\ pid \in [Threads -> (0 .. PidLimit) \cup {NULL}]
      /\ child \in [Threads -> Threads \cup {NULL}]
  BY DEF TypeOK
<1>2. PidLimit \in Nat
  BY ThreadAssumption
<1> QED
  BY <1>1, <1>2

\* A step that neither enters nor leaves the middle of allocate_pid.
LEMMA PidFrame ==
  ASSUME PidInv, UNCHANGED <<pid, next_pid>>, panic = "none" \/ panic' = panic,
         \A u \in Threads : \/ pc'[u] = pc[u] /\ child'[u] = child[u]
                            \/ "pid_inc" \notin {pc[u], pc'[u]}
  PROVE  PidInv'
<1>1. \A u \in Threads : /\ pc'[u] = "pid_inc" <=> pc[u] = "pid_inc"
                         /\ pc[u] = "pid_inc" => child'[u] = child[u]
  OBVIOUS
<1>2. PidsUnique'
  BY DEF PidInv, PidsUnique
<1> QED
  BY <1>1, <1>2 DEF PidInv

\* Two threads are never both inside allocate_pid's critical section.
LEMMA PidExclusive ==
  ASSUME Inv, NEW t \in Threads, NEW u \in Threads,
         pc[t] \in {"pid_read", "pid_inc"}, pc[u] \in {"pid_read", "pid_inc"}
  PROVE  t = u
<1>1. held[t] = pid_lock /\ held[u] = pid_lock
  BY DEF Inv, CallerInv, CallerOK
<1>2. Owns(t, pid_lock) /\ Owns(u, pid_lock)
  BY <1>1 DEF Owns
<1> QED
  BY <1>2, ThreadAssumption DEF Inv, MutexInv, MutexOK

\* allocate_pid keeps PidInv: only the owner of pid_lock is in it.
LEMMA PidStep ==
  ASSUME Inv, [Next]_vars
  PROVE  PidInv'
<1>1. /\ PidInv /\ pc \in [Threads -> Pcs] /\ curr \in Threads
      /\ child \in [Threads -> Threads \cup {NULL}]
  BY DEF Inv, TypeOK
<1>2. CASE UNCHANGED vars
  BY <1>1, <1>2, PidFrame DEF vars, schedVars, threadVars
<1>3. CASE Kernel \/ Tick
  <2>1. UNCHANGED <<pid, next_pid, child>> /\ panic = "none"
    BY <1>3 DEF Kernel, kthread, intr_exit, idle_block, idle_unblocked, idle_hlt,
         Tick, time_intr_handler, threadVars, At, Executing
  <2>2. \A u \in Threads : \/ pc'[u] = pc[u]
                           \/ "pid_inc" \notin {pc[u], pc'[u]}
    BY <1>1, <1>3 DEF Kernel, kthread, intr_exit, idle_block, idle_unblocked,
         idle_hlt, Tick, time_intr_handler, LeaveHlt, At, Executing, Goto
  <2> QED
    BY <1>1, <2>1, <2>2, PidFrame
<1>4. ASSUME NEW t \in Threads, Call(t) \/ Returning(t) PROVE PidInv'
  <2>1. /\ UNCHANGED <<pid, next_pid>> /\ panic = "none"
        /\ pc[t] \in {"run", "yielded"}
        /\ pc' = pc \/ \E p \in Pcs \ {"pid_inc"} : pc' = [pc EXCEPT ![t] = p]
        /\ child' = child \/ \E n \in Threads : child' = [child EXCEPT ![t] = n]
    BY <1>4 DEF Call, Yielding, thread_yield, mutex_lock, mutex_unlock,
         task_struct_init, syscall_handler, intr_enable, Returning, yield_return,
         Calling, At, Executing, Goto, threadVars, Pcs
  <2> QED
    BY <1>1, <2>1, PidFrame
<1>5. ASSUME NEW t \in Threads, Locking(t) \/ Unlocking(t) PROVE PidInv'
  <2>1. UNCHANGED <<pid, next_pid, child>> /\ panic = "none"
    BY <1>5 DEF Locking, Unlocking, lock_check, lock_down, lock_own, lock_count,
         unlock_own, unlock_check, unlock_holder, unlock_count, unlock_up,
         threadVars, At, Executing
  <2>2. /\ pc[t] \in LockPcs \cup UnlockPcs
        /\ pc' = pc \/ \E p \in Pcs \ {"pid_inc"} : pc' = [pc EXCEPT ![t] = p]
    <3>1. CASE Locking(t)
      BY <3>1 DEF Locking, lock_check, lock_down, sem_down, lock_own, lock_count,
           AfterLock, At, Goto, Pcs, LockPcs
    <3>2. CASE Unlocking(t)
      BY <3>2 DEF Unlocking, unlock_own, unlock_check, unlock_holder,
           unlock_count, unlock_up, AfterUnlock, At, Goto, Pcs, UnlockPcs
    <3> QED
      BY <1>5, <3>1, <3>2
  <2> QED
    BY <1>1, <2>1, <2>2, PidFrame DEF LockPcs, UnlockPcs
<1>6. ASSUME NEW t \in Threads, list_task(t) PROVE PidInv'
  BY <1>1, <1>6, PidFrame DEF list_task, At, Executing, Goto
<1>7. ASSUME NEW t \in Threads, pid_read(t) PROVE PidInv'
  <2>1. /\ pc[t] = "pid_read" /\ pc' = [pc EXCEPT ![t] = "pid_inc"]
        /\ pid' = [pid EXCEPT ![child[t]] = next_pid]
        /\ panic' = IF next_pid # PidLimit THEN "none" ELSE "pids exhausted"
        /\ UNCHANGED <<next_pid, child>>
    BY <1>7 DEF pid_read, At, Goto
  <2>2. child[t] \in Threads
    <3>1. child[t] # NULL
      BY <2>1 DEF Inv, CallerInv, CallerOK
    <3> QED
      BY <1>1, <3>1
  <2>3. \A u \in Threads : pc[u] # "pid_inc"
    BY <2>1, PidExclusive
  <2>4. \A x \in Threads : pid[x] # next_pid
    BY <2>3 DEF Inv, PidInv
  <2>5. /\ pid'[child[t]] = next_pid
        /\ \A x \in Threads : x # child[t] => pid'[x] = pid[x]
    BY <2>1, <2>2, PidTypes, ZenonT(40) DEF Inv
  <2>6. PidsUnique'
    <3>1. PidsUnique
      BY DEF Inv, PidInv
    <3> SUFFICES ASSUME NEW x \in Threads, NEW y \in Threads,
                        pid'[x] # NULL, pid'[x] = pid'[y]
                 PROVE  x = y
      BY DEF PidsUnique
    <3>2. CASE x = child[t] \/ y = child[t]
      BY <2>4, <2>5, <3>2
    <3>3. CASE x # child[t] /\ y # child[t]
      BY <2>5, <3>1, <3>3 DEF PidsUnique
    <3> QED
      BY <3>2, <3>3
  <2>7. \A x \in Threads : pid'[x] # NULL => pid'[x] <= next_pid'
    <3>1. next_pid' = next_pid
      BY <2>1
    <3>0. next_pid <= next_pid
      <4>1. next_pid \in Nat
        BY PidTypes DEF Inv
      <4> HIDE DEF Inv
      <4> QED
        BY <4>1
    <3>2. \A x \in Threads : pid[x] # NULL => pid[x] <= next_pid
      BY DEF Inv, PidInv
    <3> QED
      BY <3>0, <3>1, <3>2, <2>5
  <2>8. pc'[t] = "pid_inc" /\ child'[t] = child[t]
    BY <1>1, <2>1
  <2>9. \A x \in Threads : pid'[x] = next_pid' =>
          \E u \in Threads : pc'[u] = "pid_inc" /\ child'[u] = x
    BY <2>1, <2>4, <2>5, <2>8
  <2>10. panic' = "none" => next_pid' < PidLimit
    BY <2>1, PidTypes DEF Inv
  <2> QED
    BY <2>6, <2>7, <2>9, <2>10 DEF PidInv
<1>8. ASSUME NEW t \in Threads, pid_inc(t) PROVE PidInv'
  <2>1. /\ pc[t] = "pid_inc" /\ pc' = [pc EXCEPT ![t] = "unlock_own"]
        /\ next_pid' = next_pid + 1 /\ pid' = pid
    BY <1>8 DEF pid_inc, At, Goto
  <2>2. \A x \in Threads : pid'[x] # NULL => pid'[x] <= next_pid' /\ pid'[x] # next_pid'
    BY <2>1, PidTypes DEF Inv, PidInv
  <2>3. \A u \in Threads : pc'[u] # "pid_inc"
    <3>1. \A u \in Threads : u # t => pc[u] # "pid_inc"
      BY <2>1, PidExclusive
    <3> QED
      BY <1>1, <2>1, <3>1
  <2>4. PidsUnique'
    BY <2>1 DEF Inv, PidInv, PidsUnique
  <2>5. next_pid' # NULL
    BY <2>1, PidTypes, ThreadAssumption DEF Inv
  <2> QED
    BY <2>2, <2>3, <2>4, <2>5 DEF PidInv
<1> QED
  BY <1>2, <1>3, <1>4, <1>5, <1>6, <1>7, <1>8 DEF Next, Critical

-----------------------------------------------------------------------------
(* Every step keeps TypeOK, one group of variables at a time.              *)

\* Where a switch leaves the scheduler.
LEMMA ScheduleTypes ==
  ASSUME TypeOK, NEW rd \in Seq(Threads), NEW st \in [Threads -> TaskStatus],
         schedule(rd, st)
  PROVE  /\ curr' \in Threads /\ ready' \in Seq(Threads) /\ intr' = OFF
         /\ status' \in [Threads -> TaskStatus] /\ ava' \in [Threads -> 0 .. 255]
<1> DEFINE queue == IF SliceUsedUp(st) THEN Append(rd, curr)
                    ELSE IF rd = <<>> THEN <<idle>> ELSE rd
<1>1. curr \in Threads
  BY DEF TypeOK
<1>2. queue \in Seq(Threads) /\ queue # <<>>
  <2>1. Append(rd, curr) \in Seq(Threads) /\ Append(rd, curr) # <<>>
    BY <1>1, AppendFacts
  <2>2. <<idle>> \in Seq(Threads) /\ <<idle>> # <<>>
    OBVIOUS
  <2> QED
    BY <2>1, <2>2
<1>3. Head(queue) \in Threads /\ Tail(queue) \in Seq(Threads)
  BY <1>2, TailFacts
<1>4. curr' = Head(queue) /\ ready' = Tail(queue) /\ intr' = OFF
  BY DEF schedule
<1>5. status' \in [Threads -> TaskStatus]
  <2>1. {"RUNNING", "READY"} \subseteq TaskStatus
    BY DEF TaskStatus
  <2> QED
    BY <2>1 DEF schedule
<1> QED
  BY <1>3, <1>4, <1>5, ScheduleAva

\* The steps of the scheduler and of the clock keep the types.
LEMMA SchedTypes ==
  ASSUME TypeOK, NEW t \in Threads,
         Kernel \/ Tick \/ Yielding(t) \/ Returning(t)
  PROVE  TypeOK'
<1>1. /\ curr \in Threads /\ ready \in Seq(Threads)
      /\ status \in [Threads -> TaskStatus] /\ ava \in [Threads -> 0 .. 255]
  BY DEF TypeOK
<1>2. /\ intr \in {ON, OFF} /\ panic \in {"none", "assert", "pids exhausted"}
      /\ ctx \in [Threads -> {"start", "iret", "none"}]
      /\ pc \in [Threads -> Pcs] /\ saved \in [Threads -> {ON, OFF, NULL}]
  BY DEF TypeOK
<1>3. {"READY", "BLOCKED"} \subseteq TaskStatus
  BY DEF TaskStatus, BlockedStates
<1>4. /\ curr' \in Threads /\ ready' \in Seq(Threads)
      /\ status' \in [Threads -> TaskStatus] /\ ava' \in [Threads -> 0 .. 255]
      /\ intr' \in {ON, OFF}
  <2>1. CASE Kernel
    <3>1. CASE idle_block
      <4>1. schedule(ready, [status EXCEPT ![idle] = "BLOCKED"])
        BY <3>1 DEF idle_block
      <4> QED
        BY <1>1, <1>3, <4>1, ScheduleTypes
    <3>2. CASE kthread \/ intr_exit \/ idle_unblocked \/ idle_hlt
      <4>1. UNCHANGED <<curr, ready, status, ava>>
        BY <3>2 DEF kthread, intr_exit, idle_unblocked, idle_hlt
      <4>2. intr' \in {ON, OFF}
        BY <3>2 DEF kthread, intr_exit, idle_unblocked, idle_hlt,
             INTERRUPT_RESTORE
      <4> QED
        BY <1>1, <4>1, <4>2
    <3> QED
      BY <2>1, <3>1, <3>2 DEF Kernel
  <2>2. CASE Tick
    <3>1. CASE schedule(ready, status)
      BY <1>1, <3>1, ScheduleTypes
    <3>2. CASE /\ ava[curr] > 0 /\ ava' = [ava EXCEPT ![curr] = @ - 1]
               /\ UNCHANGED <<intr, curr, ready, status>>
      <4>1. ava[curr] \in 0 .. 255
        BY <1>1
      <4>2. ava[curr] - 1 \in 0 .. 255
        BY <3>2, <4>1
      <4>3. ava' \in [Threads -> 0 .. 255]
        BY <1>1, <3>2, <4>2
      <4> QED
        BY <1>1, <1>2, <3>2, <4>3
    <3> QED
      BY <2>2, <3>1, <3>2 DEF Tick, time_intr_handler
  <2>3. CASE Yielding(t)
    <3>1. schedule(Append(ready, t), [status EXCEPT ![t] = "READY"])
      BY <2>3 DEF Yielding, thread_yield
    <3>2. Append(ready, t) \in Seq(Threads)
      BY <1>1, AppendFacts
    <3> QED
      BY <1>1, <1>3, <3>1, <3>2, ScheduleTypes
  <2>4. CASE Returning(t)
    BY <1>1, <1>2, <2>4 DEF Returning, yield_return, INTERRUPT_RESTORE
  <2> QED
    BY <2>1, <2>2, <2>3, <2>4
<1>5. pc' \in [Threads -> Pcs] /\ ctx' \in [Threads -> {"start", "iret", "none"}]
  <2>1. CASE Kernel \/ Tick
    <3>1. /\ \/ pc' = pc \/ pc' = LeaveHlt
             \/ \E p \in {"parked", "sti_hlt", "halted"} :
                  pc' = [pc EXCEPT ![idle] = p]
          /\ \/ ctx' = ctx
             \/ \E c \in {"none", "iret"} : ctx' = [ctx EXCEPT ![curr] = c]
      BY <2>1 DEF Kernel, Tick, kthread, intr_exit, idle_block,
           idle_unblocked, idle_hlt, time_intr_handler, Goto
    <3>2. {"parked", "sti_hlt", "halted", "idle"} \subseteq Pcs
      BY DEF Pcs
    <3>3. LeaveHlt \in [Threads -> Pcs]
      BY <1>1, <1>2, <3>2, ZenonT(40) DEF LeaveHlt
    <3>4. pc' \in [Threads -> Pcs]
      <4>1. ASSUME NEW p \in {"parked", "sti_hlt", "halted"},
                   pc' = [pc EXCEPT ![idle] = p]
            PROVE  pc' \in [Threads -> Pcs]
        BY <1>2, <3>2, <4>1, ZenonT(40)
      <4> QED
        BY <1>2, <3>1, <3>3, <4>1, ZenonT(40)
    <3>5. ctx' \in [Threads -> {"start", "iret", "none"}]
      <4>1. \A c \in {"none", "iret"} :
              [ctx EXCEPT ![curr] = c] \in [Threads -> {"start", "iret", "none"}]
        BY <1>2
      <4> QED
        BY <1>2, <3>1, <4>1, ZenonT(40)
    <3> QED
      BY <3>4, <3>5
  <2>2. CASE Yielding(t) \/ Returning(t)
    BY <1>1, <1>2, <2>2, ZenonT(40) DEF Yielding, Returning, thread_yield, yield_return,
         Goto, Pcs
  <2> QED
    BY <2>1, <2>2
<1>6. /\ saved' \in [Threads -> {ON, OFF, NULL}]
      /\ panic' \in {"none", "assert", "pids exhausted"}
  <2>1. /\ \/ saved' = saved
           \/ \E x \in Threads, i \in {intr, NULL} :
                saved' = [saved EXCEPT ![x] = i]
        /\ panic' \in {panic, "none", "assert"}
    <3>1. CASE Kernel \/ Tick
      BY <3>1 DEF Kernel, Tick, kthread, intr_exit, idle_block, idle_unblocked,
           idle_hlt, time_intr_handler, ASSERT
    <3>2. CASE Yielding(t) \/ Returning(t)
      BY <3>2 DEF Yielding, Returning, thread_yield, yield_return, ASSERT
    <3> QED
      BY <3>1, <3>2
  <2>2. ASSUME NEW x \in Threads, NEW i \in {intr, NULL},
               saved' = [saved EXCEPT ![x] = i]
        PROVE  saved' \in [Threads -> {ON, OFF, NULL}]
    BY <1>2, <2>2
  <2> QED
    BY <1>2, <2>1, <2>2
<1>7. UNCHANGED <<lockVars, threadVars, callerVars>>
  BY DEF Kernel, Tick, Yielding, Returning
<1> QED
  BY <1>4, <1>5, <1>6, <1>7 DEF TypeOK, lockVars, threadVars, callerVars

\* held and nest, when a caller gives a mutex up or takes one.
LEMMA CallerTypes ==
  ASSUME Inv, NEW t \in Threads,
         \/ GiveUp(t) /\ held[t] # NULL
         \/ pc[t] \in {"lock_check", "lock_count"} /\ Take(t)
         \/ UNCHANGED callerVars
  PROVE  /\ held' \in [Threads -> Mutexes \cup {NULL}]
         /\ nest' \in [Threads -> 0 .. MaxRecursion]
<1>1. /\ held \in [Threads -> Mutexes \cup {NULL}]
      /\ nest \in [Threads -> 0 .. MaxRecursion]
      /\ arg[t] \in Mutexes \cup {NULL}
  BY ZenonT(40) DEF Inv, TypeOK
<1>2. nest[t] \in Nat /\ nest[t] <= MaxRecursion /\ MaxRecursion \in 1 .. 255
  BY NestRange DEF Inv
<1>3. CASE GiveUp(t) /\ held[t] # NULL
  <2>1. nest[t] # 0
    BY <1>3 DEF Inv, CallerInv, CallerOK
  <2>2. nest[t] - 1 \in 0 .. MaxRecursion
    BY <1>2, <2>1
  <2>3. nest' \in [Threads -> 0 .. MaxRecursion]
    BY <1>1, <1>3, <2>2 DEF GiveUp
  <2>4. held' \in [Threads -> Mutexes \cup {NULL}]
    BY <1>1, <1>3 DEF GiveUp
  <2> QED
    BY <2>3, <2>4
<1>4. CASE pc[t] \in {"lock_check", "lock_count"} /\ Take(t)
  <2>1. nest[t] < MaxRecursion
    <3>1. pc[t] = "lock_check" => nest[t] < MaxRecursion
      BY DEF Inv, CallerInv, CallerOK
    <3>2. pc[t] = "lock_count" => nest[t] = 0
      BY DEF Inv, CallerInv, CallerOK
    <3> QED
      BY <1>2, <1>4, <3>1, <3>2
  <2>2. nest[t] + 1 \in 0 .. MaxRecursion
    BY <1>2, <2>1
  <2>3. nest' \in [Threads -> 0 .. MaxRecursion]
    BY <1>1, <1>4, <2>2 DEF Take, callerVars
  <2>4. held' \in [Threads -> Mutexes \cup {NULL}]
    BY <1>1, <1>4 DEF Take, callerVars
  <2> QED
    BY <2>3, <2>4
<1> QED
  BY <1>1, <1>3, <1>4 DEF callerVars

\* The calls a thread makes, and allocate_pid, touch no list.
LEMMA CallTypes ==
  ASSUME Inv, NEW t \in Threads,
         \/ \E m \in Mutexes : mutex_lock(t, m)
         \/ mutex_unlock(t)
         \/ \E n \in Threads : task_struct_init(t, n)
         \/ syscall_handler(t)
         \/ intr_enable(t)
         \/ pid_read(t)
         \/ pid_inc(t)
  PROVE  TypeOK'
<1>1. UNCHANGED <<curr, ready, all, waiters, ava, ctx, saved, value, holder, recursion>>
  BY DEF mutex_lock, mutex_unlock, task_struct_init, syscall_handler,
       intr_enable, pid_read, pid_inc, lockVars, threadVars
<1>2. intr' \in {ON, OFF} /\ panic' \in {"none", "assert", "pids exhausted"}
  <2>1. intr' \in {intr, ON, OFF} /\ panic' \in {panic, "none", "pids exhausted"}
    BY DEF mutex_lock, mutex_unlock, task_struct_init, syscall_handler,
         intr_enable, pid_read, pid_inc
  <2> QED
    BY <2>1 DEF Inv, TypeOK
<1>3. status' \in [Threads -> TaskStatus] /\ child' \in [Threads -> Threads \cup {NULL}]
  <2>1. status \in [Threads -> TaskStatus] /\ child \in [Threads -> Threads \cup {NULL}]
    BY DEF Inv, TypeOK
  <2>2. CASE UNCHANGED <<status, child>>
    BY <2>1, <2>2
  <2>3. ASSUME NEW n \in Threads, task_struct_init(t, n)
        PROVE  /\ status' \in [Threads -> TaskStatus]
               /\ child' \in [Threads -> Threads \cup {NULL}]
    <3>1. /\ status' = [status EXCEPT ![n] = "READY"]
          /\ child' = [child EXCEPT ![t] = n]
      BY <2>3 DEF task_struct_init
    <3> QED
      BY <2>1, <3>1 DEF TaskStatus
  <2> QED
    BY <2>2, <2>3 DEF mutex_lock, mutex_unlock, syscall_handler,
         intr_enable, pid_read, pid_inc, threadVars
<1>4. pc' \in [Threads -> Pcs]
  <2>1. pc \in [Threads -> Pcs]
    BY DEF Inv, TypeOK
  <2>2. pc' = pc \/ \E p \in {"lock_check", "unlock_own", "pid_inc"} :
                      pc' = [pc EXCEPT ![t] = p]
    BY DEF mutex_lock, mutex_unlock, task_struct_init, syscall_handler,
         intr_enable, pid_read, pid_inc, Goto
  <2>3. ASSUME NEW p \in {"lock_check", "unlock_own", "pid_inc"},
               pc' = [pc EXCEPT ![t] = p]
        PROVE  pc' \in [Threads -> Pcs]
    BY <2>1, <2>3 DEF Pcs
  <2> QED
    BY <2>1, <2>2, <2>3
<1>5. arg' \in [Threads -> Mutexes \cup {NULL}]
  <2>1. /\ arg \in [Threads -> Mutexes \cup {NULL}]
        /\ held[t] \in Mutexes \cup {NULL}
    BY ZenonT(40) DEF Inv, TypeOK
  <2>2. \/ arg' = arg
        \/ \E m \in Mutexes \cup {NULL} : arg' = [arg EXCEPT ![t] = m]
    BY <2>1 DEF mutex_lock, mutex_unlock, task_struct_init, syscall_handler,
         intr_enable, pid_read, pid_inc, lockVars
  <2>3. ASSUME NEW m \in Mutexes \cup {NULL}, arg' = [arg EXCEPT ![t] = m]
        PROVE  arg' \in [Threads -> Mutexes \cup {NULL}]
    BY <2>1, <2>3
  <2> QED
    BY <2>1, <2>2, <2>3
<1>6. /\ held' \in [Threads -> Mutexes \cup {NULL}]
      /\ nest' \in [Threads -> 0 .. MaxRecursion]
  <2>1. pid_inc(t) => held[t] # NULL
    <3>1. pid_inc(t) => pc[t] = "pid_inc"
      BY DEF pid_inc, At
    <3> QED
      BY <3>1 DEF Inv, CallerInv, CallerOK
  <2>2. (GiveUp(t) /\ held[t] # NULL) \/ UNCHANGED callerVars
    BY <2>1 DEF mutex_lock, mutex_unlock, task_struct_init, syscall_handler,
         intr_enable, pid_read, pid_inc, callerVars
  <2> QED
    BY <2>2, CallerTypes
<1>7. mode' \in [Threads -> {"boot", "kernel", "syscall"}]
  <2>1. mode \in [Threads -> {"boot", "kernel", "syscall"}]
    BY DEF Inv, TypeOK
  <2>2. mode' = mode \/ mode' = [mode EXCEPT ![t] = "syscall"]
                     \/ mode' = [mode EXCEPT ![t] = "kernel"]
    BY DEF mutex_lock, mutex_unlock, task_struct_init, syscall_handler,
         intr_enable, pid_read, pid_inc, threadVars
  <2> QED
    BY <2>1, <2>2
<1>8. /\ pid' \in [Threads -> (0 .. PidLimit) \cup {NULL}]
      /\ next_pid' \in 0 .. PidLimit
  <2>1. /\ pid \in [Threads -> (0 .. PidLimit) \cup {NULL}]
        /\ next_pid \in 0 .. PidLimit
    BY DEF Inv, TypeOK
  <2>2. CASE UNCHANGED <<pid, next_pid>>
    BY <2>1, <2>2
  <2>3. CASE pid_read(t)
    <3>1. pid' = [pid EXCEPT ![child[t]] = next_pid] /\ next_pid' = next_pid
      BY <2>3 DEF pid_read
    <3> QED
      BY <2>1, <3>1
  <2>4. CASE pid_inc(t)
    <3>1. pid' = pid /\ next_pid' = next_pid + 1 /\ pc[t] = "pid_inc" /\ panic = "none"
      BY <2>4 DEF pid_inc, At, Executing
    <3>2. next_pid < PidLimit
      BY <3>1 DEF Inv, PidInv
    <3>3. PidLimit \in Nat
      BY ThreadAssumption
    <3>4. next_pid + 1 \in 0 .. PidLimit
      BY <2>1, <3>2, <3>3
    <3> QED
      BY <2>1, <3>1, <3>4
  <2> QED
    BY <2>2, <2>3, <2>4 DEF mutex_lock, mutex_unlock, task_struct_init,
         syscall_handler, intr_enable, threadVars
<1> QED
  BY <1>1, <1>2, <1>3, <1>4, <1>5, <1>6, <1>7, <1>8 DEF Inv, TypeOK

\* The lists and the scheduler, inside mutex_lock and mutex_unlock.
LEMMA LockSchedTypes ==
  ASSUME Inv, NEW t \in Threads, Locking(t) \/ Unlocking(t)
  PROVE  /\ curr' \in Threads /\ ready' \in Seq(Threads)
         /\ status' \in [Threads -> TaskStatus] /\ ava' \in [Threads -> 0 .. 255]
         /\ intr' \in {ON, OFF} /\ waiters' \in [Mutexes -> Seq(Threads)]
         /\ saved' \in [Threads -> {ON, OFF, NULL}] /\ ctx' = ctx
         /\ panic' \in {"none", "assert", "pids exhausted"}
<1>1. /\ curr \in Threads /\ ready \in Seq(Threads) /\ TypeOK
      /\ status \in [Threads -> TaskStatus] /\ ava \in [Threads -> 0 .. 255]
      /\ intr \in {ON, OFF} /\ waiters \in [Mutexes -> Seq(Threads)]
      /\ saved \in [Threads -> {ON, OFF, NULL}]
      /\ panic \in {"none", "assert", "pids exhausted"}
  BY DEF Inv, TypeOK
<1>2. {"READY", "BLOCKED"} \subseteq TaskStatus
  BY DEF TaskStatus, BlockedStates
<1>3. CASE /\ UNCHANGED <<curr, ready, status, ava, intr, waiters, saved, ctx>>
           /\ panic' \in {panic, "none", "assert"}
  BY <1>1, <1>3
<1>4. CASE lock_down(t)
  <2> DEFINE s == arg[t]
             state == IF saved[t] = NULL THEN intr ELSE saved[t]
             st == [status EXCEPT ![t] = "BLOCKED"]
  <2>1. s \in Mutexes
    BY <1>4, ArgFacts DEF lock_down, At, LockPcs
  <2>2. state \in {ON, OFF}
    BY <1>1
  <2>3. CASE /\ saved' = [saved EXCEPT ![t] = NULL] /\ INTERRUPT_RESTORE(state)
             /\ UNCHANGED <<curr, ready, status, ava, ctx, panic, waiters>>
    <3>1. intr' \in {ON, OFF}
      BY <2>3 DEF INTERRUPT_RESTORE
    <3> QED
      BY <1>1, <2>3, <3>1
  <2>4. CASE /\ waiters' = [waiters EXCEPT ![s] = Append(@, t)]
             /\ saved' = [saved EXCEPT ![t] = state] /\ schedule(ready, st)
             /\ panic' \in {"none", "assert"} /\ ctx' = ctx
    <3>1. st \in [Threads -> TaskStatus]
      BY <1>1, <1>2
    <3>2. Append(waiters[s], t) \in Seq(Threads)
      <4>1. waiters[s] \in Seq(Threads)
        BY <1>1, <2>1, ZenonT(40)
      <4> HIDE DEF s
      <4> QED
        BY <4>1, AppendFacts
    <3>3. /\ curr' \in Threads /\ ready' \in Seq(Threads) /\ intr' = OFF
          /\ status' \in [Threads -> TaskStatus] /\ ava' \in [Threads -> 0 .. 255]
      BY <1>1, <2>4, <3>1, ScheduleTypes
    <3>4. waiters' \in [Mutexes -> Seq(Threads)]
      BY <1>1, <2>1, <2>4, <3>2
    <3>5. saved' \in [Threads -> {ON, OFF, NULL}]
      <4> HIDE DEF state
      <4> QED
        BY <1>1, <2>2, <2>4
    <3> QED
      BY <2>4, <3>3, <3>4, <3>5
  <2>5. sem_down(t, arg[t], "lock_own")
    BY <1>4 DEF lock_down
  <2> QED
    BY <2>3, <2>4, <2>5 DEF sem_down, ASSERT
<1>5. ASSUME NEW p, unlock_up(t, p)
      PROVE  /\ curr' \in Threads /\ ready' \in Seq(Threads)
             /\ status' \in [Threads -> TaskStatus] /\ ava' \in [Threads -> 0 .. 255]
             /\ intr' \in {ON, OFF} /\ waiters' \in [Mutexes -> Seq(Threads)]
             /\ saved' \in [Threads -> {ON, OFF, NULL}] /\ ctx' = ctx
             /\ panic' \in {"none", "assert", "pids exhausted"}
  <2> DEFINE s == arg[t]
  <2>1. s \in Mutexes
    BY <1>5, ArgFacts DEF unlock_up, At, UnlockPcs
  <2>2. sem_up(s)
    BY <1>5 DEF unlock_up
  <2>3. waiters[s] \in Seq(Threads)
    BY <1>1, <2>1, ZenonT(40)
  <2> HIDE DEF s
  <2>4. /\ UNCHANGED <<curr, ava, ctx, saved>> /\ INTERRUPT_RESTORE(intr)
        /\ panic' \in {"none", "assert"}
    BY <2>2 DEF sem_up, ASSERT
  <2>5. intr' \in {ON, OFF}
    BY <2>4 DEF INTERRUPT_RESTORE
  <2>6. CASE waiters[s] # <<>>
    <3>1. Head(waiters[s]) \in Threads /\ Tail(waiters[s]) \in Seq(Threads)
      BY <2>3, <2>6, TailFacts
    <3>2. /\ waiters' = [waiters EXCEPT ![s] = Tail(@)]
          /\ ready' = <<Head(waiters[s])>> \o ready
          /\ status' = [status EXCEPT ![Head(waiters[s])] = "READY"]
      BY <2>2, <2>6 DEF sem_up, thread_unblock
    <3>3. ready' \in Seq(Threads)
      BY <1>1, <3>1, <3>2, ConsFacts
    <3>4. status' \in [Threads -> TaskStatus]
      BY <1>1, <1>2, <3>1, <3>2
    <3>5. waiters' \in [Mutexes -> Seq(Threads)]
      BY <1>1, <2>1, <3>1, <3>2
    <3> QED
      BY <1>1, <2>4, <2>5, <3>3, <3>4, <3>5
  <2>7. CASE waiters[s] = <<>>
    <3>1. UNCHANGED <<ready, status, waiters>>
      BY <2>2, <2>7 DEF sem_up
    <3> QED
      BY <1>1, <2>4, <2>5, <3>1
  <2> QED
    BY <2>6, <2>7
<1> QED
  BY <1>3, <1>4, <1>5 DEF Locking, Unlocking, lock_check, lock_own, lock_count,
       unlock_own, unlock_check, unlock_holder, unlock_count, ASSERT

\* The fields of the mutexes, inside mutex_lock and mutex_unlock.
LEMMA LockFieldTypes ==
  ASSUME Inv, NEW t \in Threads, Locking(t) \/ Unlocking(t)
  PROVE  /\ value' \in [Mutexes -> 0 .. 255] /\ recursion' \in [Mutexes -> 0 .. 255]
         /\ holder' \in [Mutexes -> Threads \cup {NULL}]
         /\ arg' \in [Threads -> Mutexes \cup {NULL}]
         /\ pc' \in [Threads -> Pcs]
<1>1. /\ value \in [Mutexes -> 0 .. 255] /\ recursion \in [Mutexes -> 0 .. 255]
      /\ holder \in [Mutexes -> Threads \cup {NULL}]
      /\ arg \in [Threads -> Mutexes \cup {NULL}]
      /\ pc \in [Threads -> Pcs]
  BY DEF Inv, TypeOK
<1>2. pc[t] \in LockPcs \cup UnlockPcs
  <2>1. CASE Locking(t)
    BY <2>1 DEF Locking, lock_check, lock_down, lock_own, lock_count, At, LockPcs
  <2>2. CASE Unlocking(t)
    BY <2>2 DEF Unlocking, unlock_own, unlock_check, unlock_holder,
         unlock_count, unlock_up, At, UnlockPcs
  <2> QED
    BY <2>1, <2>2
<1>3. arg[t] \in Mutexes
  BY <1>2, ArgFacts
<1>4. /\ value[arg[t]] \in 0 .. 255 /\ recursion[arg[t]] \in 0 .. 255
  BY <1>1, <1>3
<1>5. value' \in [Mutexes -> 0 .. 255]
  <2>1. \/ value' = value
        \/ value[arg[t]] > 0 /\ value' = [value EXCEPT ![arg[t]] = @ - 1]
        \/ value' = [value EXCEPT ![arg[t]] = (@ + 1) % 256]
    BY DEF Locking, Unlocking, lock_check, lock_down, sem_down, lock_own,
         lock_count, unlock_own, unlock_check, unlock_holder, unlock_count,
         unlock_up, sem_up
  <2>2. \A x \in 0 .. 255 : (x + 1) % 256 \in 0 .. 255 /\ (x > 0 => x - 1 \in 0 .. 255)
    OBVIOUS
  <2>3. /\ (value[arg[t]] + 1) % 256 \in 0 .. 255
        /\ value[arg[t]] > 0 => value[arg[t]] - 1 \in 0 .. 255
    BY <1>4, <2>2
  <2> QED
    BY <1>1, <1>3, <2>1, <2>3
<1>6. recursion' \in [Mutexes -> 0 .. 255]
  <2>1. \/ recursion' = recursion
        \/ recursion' = [recursion EXCEPT ![arg[t]] = (@ + 1) % 256]
        \/ recursion' = [recursion EXCEPT ![arg[t]] = (@ + 255) % 256]
        \/ recursion' = [recursion EXCEPT ![arg[t]] = 0]
    BY DEF Locking, Unlocking, lock_check, lock_down, lock_own,
         lock_count, unlock_own, unlock_check, unlock_holder, unlock_count,
         unlock_up
  <2>2. \A x \in 0 .. 255 : (x + 1) % 256 \in 0 .. 255 /\ (x + 255) % 256 \in 0 .. 255
    OBVIOUS
  <2>3. /\ (recursion[arg[t]] + 1) % 256 \in 0 .. 255
        /\ (recursion[arg[t]] + 255) % 256 \in 0 .. 255
    BY <1>4, <2>2
  <2> QED
    BY <1>1, <1>3, <2>1, <2>3, SMTT(40)
<1>7. holder' \in [Mutexes -> Threads \cup {NULL}]
  <2>1. holder' = holder \/ holder' = [holder EXCEPT ![arg[t]] = t]
                         \/ holder' = [holder EXCEPT ![arg[t]] = NULL]
    BY DEF Locking, Unlocking, lock_check, lock_down, lock_own,
         lock_count, unlock_own, unlock_check, unlock_holder, unlock_count,
         unlock_up
  <2> QED
    BY <1>1, <2>1
<1>8. arg' \in [Threads -> Mutexes \cup {NULL}]
  <2>1. arg' = arg \/ arg' = [arg EXCEPT ![t] = NULL]
    BY DEF Locking, Unlocking, lock_check, lock_down, lock_own,
         lock_count, unlock_own, unlock_check, unlock_holder, unlock_count,
         unlock_up
  <2> QED
    BY <1>1, <2>1
<1>9. pc' \in [Threads -> Pcs]
  <2>1. pc' = pc \/ \E p \in Pcs : pc' = [pc EXCEPT ![t] = p]
    <3>1. CASE Locking(t)
      BY <3>1 DEF Locking, lock_check, lock_down, sem_down, lock_own, lock_count,
           AfterLock, Goto, Pcs
    <3>2. CASE Unlocking(t)
      BY <3>2 DEF Unlocking, unlock_own, unlock_check, unlock_holder,
           unlock_count, unlock_up, AfterUnlock, Goto, Pcs
    <3> QED
      BY <3>1, <3>2
  <2>2. ASSUME NEW p \in Pcs, pc' = [pc EXCEPT ![t] = p]
        PROVE  pc' \in [Threads -> Pcs]
    BY <1>1, <2>2
  <2> QED
    BY <1>1, <2>1, <2>2
<1> QED
  BY <1>5, <1>6, <1>7, <1>8, <1>9

\* mutex_lock and mutex_unlock.
LEMMA LockTypes ==
  ASSUME Inv, NEW t \in Threads, Locking(t) \/ Unlocking(t)
  PROVE  TypeOK'
<1>1. /\ held' \in [Threads -> Mutexes \cup {NULL}]
      /\ nest' \in [Threads -> 0 .. MaxRecursion]
  <2>1. \/ pc[t] \in {"lock_check", "lock_count"} /\ Take(t)
        \/ UNCHANGED callerVars
    BY DEF Locking, Unlocking, lock_check, lock_count, At
  <2> QED
    BY <2>1, CallerTypes
<1>2. UNCHANGED threadVars
  BY DEF Locking, Unlocking
<1>3. /\ all' \in Seq(Threads) /\ child' \in [Threads -> Threads \cup {NULL}]
      /\ pid' \in [Threads -> (0 .. PidLimit) \cup {NULL}]
      /\ next_pid' \in 0 .. PidLimit
      /\ mode' \in [Threads -> {"boot", "kernel", "syscall"}]
      /\ ctx \in [Threads -> {"start", "iret", "none"}]
  BY <1>2 DEF Inv, TypeOK, threadVars
<1>4. /\ curr' \in Threads /\ ready' \in Seq(Threads)
      /\ status' \in [Threads -> TaskStatus] /\ ava' \in [Threads -> 0 .. 255]
      /\ intr' \in {ON, OFF} /\ waiters' \in [Mutexes -> Seq(Threads)]
      /\ saved' \in [Threads -> {ON, OFF, NULL}] /\ ctx' = ctx
      /\ panic' \in {"none", "assert", "pids exhausted"}
  BY LockSchedTypes
<1>5. /\ value' \in [Mutexes -> 0 .. 255] /\ recursion' \in [Mutexes -> 0 .. 255]
      /\ holder' \in [Mutexes -> Threads \cup {NULL}]
      /\ arg' \in [Threads -> Mutexes \cup {NULL}]
      /\ pc' \in [Threads -> Pcs]
  BY LockFieldTypes
<1> QED
  BY <1>1, <1>3, <1>4, <1>5 DEF TypeOK

\* The end of thread_start and process_execute.
LEMMA PublishTypes ==
  ASSUME Inv, NEW t \in Threads, list_task(t)
  PROVE  TypeOK'
<1> DEFINE n == child[t]
<1>1. /\ ready \in Seq(Threads) /\ all \in Seq(Threads)
      /\ ava \in [Threads -> 0 .. 255] /\ pc \in [Threads -> Pcs]
      /\ child \in [Threads -> Threads \cup {NULL}]
  BY DEF Inv, TypeOK
<1>2. /\ pc[t] = "created"
      /\ ready' = Append(ready, n) /\ all' = Append(all, n)
      /\ ava' = [ava EXCEPT ![n] = Priority[n]]
      /\ child' = [child EXCEPT ![t] = NULL]
      /\ pc' = [pc EXCEPT ![t] = "run"]
      /\ INTERRUPT_RESTORE(intr) /\ panic' \in {"none", "assert"}
      /\ UNCHANGED <<curr, status, ctx, saved, lockVars, pid, next_pid, mode, callerVars>>
  BY DEF list_task, At, Goto, ASSERT
<1>3. n \in Threads
  <2>1. n # NULL
    BY <1>2 DEF Inv, CallerInv, CallerOK
  <2> QED
    BY <1>1, <2>1
<1> HIDE DEF n
<1>4. ready' \in Seq(Threads) /\ all' \in Seq(Threads)
  BY <1>1, <1>2, <1>3, AppendFacts
<1>5. ava' \in [Threads -> 0 .. 255]
  BY <1>1, <1>2, <1>3
<1>6. child' \in [Threads -> Threads \cup {NULL}] /\ pc' \in [Threads -> Pcs]
  <2>1. "run" \in Pcs
    BY DEF Pcs
  <2> QED
    BY <1>1, <1>2, <2>1
<1>7. intr' \in {ON, OFF}
  BY <1>2 DEF INTERRUPT_RESTORE
<1> QED
  BY <1>2, <1>4, <1>5, <1>6, <1>7 DEF Inv, TypeOK, lockVars, callerVars

\* Every step keeps the types.
LEMMA TypeStep ==
  ASSUME Inv, [Next]_vars
  PROVE  TypeOK'
<1>1. CASE UNCHANGED vars
  BY <1>1 DEF Inv, TypeOK, vars, schedVars, lockVars, threadVars, callerVars
<1>2. CASE Kernel \/ Tick
  <2>1. main \in Threads
    BY SchedAssumption
  <2> QED
    BY <1>2, <2>1, SchedTypes DEF Inv
<1>3. ASSUME NEW t \in Threads, Call(t) PROVE TypeOK'
  BY <1>3, CallTypes, SchedTypes DEF Call, Inv
<1>4. ASSUME NEW t \in Threads, Critical(t) PROVE TypeOK'
  BY <1>4, CallTypes, LockTypes, PublishTypes DEF Critical
<1>5. ASSUME NEW t \in Threads, Returning(t) PROVE TypeOK'
  BY <1>5, SchedTypes DEF Inv
<1> QED
  BY <1>1, <1>2, <1>3, <1>4, <1>5 DEF Next

-----------------------------------------------------------------------------
(* The theorems.                                                           *)

\* Every step keeps the invariant.
LEMMA InvStep ==
  ASSUME Inv, [Next]_vars
  PROVE  Inv'
<1>1. CallerInv'
  BY CallerStep
<1>2. ListsInv'
  BY ListsStep
<1> QED
  BY <1>1, <1>2, TypeStep, MutexStep, PidStep DEF Inv, ListsInv, NoAssertFails

\* Inv holds in every state that the threads can reach.
THEOREM Invariance == Spec => []Inv
<1>1. Init => Inv
  BY InitInv
<1>2. Inv /\ [Next]_vars => Inv'
  BY InvStep
<1> QED
  BY <1>1, <1>2, PTL DEF Spec

\* Every variable keeps the type its C declaration gives it: no counter of a
\* semaphore or of a recursion wraps, and no pid beyond the limit is stored.
THEOREM TypeCorrect == Spec => []TypeOK
<1>1. Inv => TypeOK
  BY DEF Inv
<1> QED
  BY <1>1, Invariance, PTL

\* No ASSERT of the scheduler, of lock.c or of the creation of tasks fails.
THEOREM AssertsHold == Spec => []NoAssertFails
<1>1. Inv => NoAssertFails
  BY DEF Inv
<1> QED
  BY <1>1, Invariance, PTL

\* mutex_lock never returns to a second thread while the first has the mutex.
THEOREM Exclusion == Spec => []MutualExclusion
<1>1. Inv => MutualExclusion
  <2> SUFFICES ASSUME Inv, NEW t \in Threads, NEW u \in Threads,
                      held[t] # NULL, held[t] = held[u]
               PROVE  t = u
    BY DEF MutualExclusion
  <2>1. held[t] \in Mutexes
    BY ZenonT(40) DEF Inv, TypeOK
  <2>2. Owns(t, held[t]) /\ Owns(u, held[t])
    BY DEF Owns
  <2> QED
    BY <2>1, <2>2 DEF Inv, MutexInv, MutexOK
<1> QED
  BY <1>1, Invariance, PTL

\* allocate_pid gives no pid twice.
THEOREM UniquePids == Spec => []PidsUnique
<1>1. Inv => PidsUnique
  BY DEF Inv, PidInv
<1> QED
  BY <1>1, Invariance, PTL

\* The tag of a task_struct is in at most one list, at most once.
THEOREM OneList == Spec => []TagInOneList
<1>1. Inv => TagInOneList
  <2> SUFFICES ASSUME Inv PROVE TagInOneList
    OBVIOUS
  <2>1. ToSet(ready) \subseteq Threads
    BY QueueTypes DEF Inv
  <2>2. \A x \in ToSet(ready) : status[x] = "READY"
    BY DEF Inv, QueueInv
  <2>3. status[curr] = "RUNNING" /\ curr \in Threads
    BY DEF Inv, QueueInv, TypeOK
  <2>4. \A m \in Mutexes : \A x \in ToSet(waiters[m]) :
          status[x] = "BLOCKED" /\ arg[x] = m
    BY DEF Inv, WaitersInv
  <2>5. curr \notin ToSet(ready) /\ ~Waiting(curr)
    BY <2>2, <2>3, <2>4 DEF Waiting
  <2>6. \A x \in ToSet(ready) : ~Waiting(x)
    BY <2>2, <2>4 DEF Waiting
  <2>7. \A m, n \in Mutexes : m # n => ToSet(waiters[m]) \cap ToSet(waiters[n]) = {}
    BY <2>4
  <2> QED
    BY <2>5, <2>6, <2>7 DEF TagInOneList, Inv, QueueInv, WaitersInv
<1> QED
  BY <1>1, Invariance, PTL

-----------------------------------------------------------------------------
(***************************************************************************)
(* The mutexes of thread/lock.c, on top of its semaphores and of the       *)
(* preemptive scheduler, implement the abstract recursive mutex.  held and *)
(* nest are the same variables in both specifications; what has to be      *)
(* shown is that a thread gets a mutex only when no other thread has it.   *)
(***************************************************************************)

\* Initially no thread has a mutex.
LEMMA RefinesInit ==
  ASSUME Init
  PROVE  M!Init
  BY DEF Init, M!Init

\* A thread that returns from mutex_lock has not got a mutex of another one.
LEMMA RefinesTake ==
  ASSUME Inv, NEW t \in Threads,
         \/ lock_check(t, AfterLock(t)) /\ Take(t)
         \/ lock_count(t, AfterLock(t)) /\ Take(t)
  PROVE  M!Next \/ UNCHANGED <<held, nest>>
<1> DEFINE m == arg[t]
<1>1. pc[t] \in {"lock_check", "lock_count"}
  BY DEF lock_check, lock_count, At
<1>2. m \in Mutexes /\ m # NULL
  BY <1>1, ArgFacts DEF LockPcs
<1>3. /\ nest[t] \in Nat /\ MaxRecursion \in 1 .. 255
      /\ nest \in [Threads -> 0 .. MaxRecursion]
      /\ arg \in [Threads -> Mutexes \cup {NULL}]
      /\ held \in [Threads -> Mutexes \cup {NULL}]
  BY NestRange DEF Inv, TypeOK
<1>4. CASE arg' = arg
  BY <1>2, <1>4 DEF Take, callerVars
<1>5. CASE arg' = [arg EXCEPT ![t] = NULL]
  <2>1. /\ held' = [held EXCEPT ![t] = m] /\ nest' = [nest EXCEPT ![t] = @ + 1]
    BY <1>3, <1>5 DEF Take
  <2>2. CASE pc[t] = "lock_count"
    <3>1. held[t] = NULL /\ nest[t] = 0
      BY <2>2 DEF Inv, CallerInv, CallerOK
    <3>2. Owns(t, m)
      BY <2>2 DEF Owns
    <3>3. \A u \in Threads : held[u] # m
      <4> SUFFICES ASSUME NEW u \in Threads, held[u] = m PROVE FALSE
        OBVIOUS
      <4>1. Owns(u, m)
        BY DEF Owns
      <4>2. u = t
        BY <1>2, <3>2, <4>1 DEF Inv, MutexInv, MutexOK
      <4> QED
        BY <1>2, <3>1, <4>2
    <3>4. nest' = [nest EXCEPT ![t] = 1]
      BY <1>3, <2>1, <3>1
    <3>5. M!Acquire(t, m)
      BY <2>1, <3>1, <3>3, <3>4 DEF M!Acquire
    <3> QED
      BY <1>2, <3>5 DEF M!Next
  <2>3. CASE pc[t] = "lock_check"
    <3>1. holder[m] = t
      BY <1>2, <1>3, <1>5, <2>3 DEF lock_check, lock_count, At
    <3>2. Owns(t, m)
      BY <1>2, <3>1 DEF Inv, MutexInv, MutexOK, Registered
    <3>3. held[t] = m
      BY <2>3, <3>2 DEF Owns, UnlockPcs
    <3>4. nest[t] < MaxRecursion
      BY <2>3 DEF Inv, CallerInv, CallerOK
    <3>5. held' = held
      BY <1>3, <2>1, <3>3
    <3>6. M!AcquireAgain(t, m)
      BY <2>1, <3>3, <3>4, <3>5 DEF M!AcquireAgain
    <3> QED
      BY <1>2, <3>6 DEF M!Next
  <2> QED
    BY <1>1, <2>2, <2>3
<1> QED
  BY <1>4, <1>5 DEF lock_check, lock_count

\* The caller of mutex_unlock gives up a mutex that it has.
LEMMA RefinesGiveUp ==
  ASSUME Inv, NEW t \in Threads, held[t] # NULL, GiveUp(t)
  PROVE  M!Next
<1>1. held[t] \in Mutexes
  BY ZenonT(40) DEF Inv, TypeOK
<1>2. nest[t] > 0
  <2>1. nest[t] # 0
    BY DEF Inv, CallerInv, CallerOK
  <2>2. nest[t] \in Nat
    BY NestRange DEF Inv
  <2> QED
    BY <2>1, <2>2
<1>3. M!Release(t, held[t])
  BY <1>2 DEF GiveUp, M!Release
<1> QED
  BY <1>1, <1>3 DEF M!Next

\* Every step of the threads is a step of Mutex or leaves held and nest alone.
LEMMA RefinesStep ==
  ASSUME Inv, [Next]_vars
  PROVE  [M!Next]_<<held, nest>>
<1>1. CASE UNCHANGED callerVars
  BY <1>1 DEF callerVars
<1>2. ASSUME NEW t \in Threads,
             \/ lock_check(t, AfterLock(t)) /\ Take(t)
             \/ lock_count(t, AfterLock(t)) /\ Take(t)
      PROVE  [M!Next]_<<held, nest>>
  BY <1>2, RefinesTake
<1>3. ASSUME NEW t \in Threads, mutex_unlock(t) \/ pid_inc(t)
      PROVE  M!Next
  <2>1. GiveUp(t)
    BY <1>3 DEF mutex_unlock, pid_inc
  <2>2. held[t] # NULL
    <3>1. pid_inc(t) => pc[t] = "pid_inc"
      BY DEF pid_inc, At
    <3>2. mutex_unlock(t) => held[t] # NULL
      BY DEF mutex_unlock
    <3> QED
      BY <1>3, <3>1, <3>2 DEF Inv, CallerInv, CallerOK
  <2> QED
    BY <2>1, <2>2, RefinesGiveUp
<1> QED
  BY <1>1, <1>2, <1>3 DEF Next, vars, Kernel, Tick, Call, Critical, Yielding,
       mutex_lock, task_struct_init, syscall_handler, intr_enable, Locking,
       Unlocking, pid_read, list_task, Returning

\* What mutex_lock and mutex_unlock do to their callers is what the abstract
\* mutex allows, in every interleaving.
THEOREM Refinement == Spec => ImplementsMutex
<1>1. Init => M!Init
  BY RefinesInit
<1>2. Inv /\ [Next]_vars => [M!Next]_<<held, nest>>
  BY RefinesStep
<1> QED
  BY <1>1, <1>2, Invariance, PTL DEF Spec, ImplementsMutex, M!Spec

-----------------------------------------------------------------------------
(***************************************************************************)
(* No thread and no wakeup is lost, and the interrupt flag is what the     *)
(* code that runs expects: properties that need a little more than the     *)
(* invariant above, each with its own strengthening.                       *)
(***************************************************************************)

-----------------------------------------------------------------------------
(* The idle thread.                                                        *)

\* From the moment the idle thread blocks to its return from thread_block no
\* interrupt can come: it is blocked, or it is current with interrupts off.
IdleInv ==
  pc[idle] = "parked" =>
    /\ ctx[idle] = "none"
    /\ status[idle] = "BLOCKED" \/ (curr = idle /\ intr = OFF)

\* A switch that leaves the idle thread where it is.
LEMMA IdleSwitch ==
  ASSUME NEW rd, NEW st, schedule(rd, st), st[idle] = "BLOCKED"
  PROVE  status'[idle] = "BLOCKED" \/ (curr' = idle /\ intr' = OFF)
<1>1. idle \in Threads
  BY SchedAssumption
<1>2. status'[idle] = IF idle = curr' THEN "RUNNING"
                      ELSE IF idle = curr /\ SliceUsedUp(st) THEN "READY"
                      ELSE st[idle]
  BY <1>1 DEF schedule
<1>3. idle = curr => ~SliceUsedUp(st)
  BY DEF SliceUsedUp
<1>4. intr' = OFF
  BY DEF schedule
<1> QED
  BY <1>2, <1>3, <1>4

\* Every step keeps IdleInv: the idle thread runs only when it was unblocked.
LEMMA IdleStep ==
  ASSUME Inv, IdleInv, [Next]_vars
  PROVE  IdleInv'
<1>0. idle \in Threads
  BY SchedAssumption
<1>1. /\ pc \in [Threads -> Pcs] /\ ctx \in [Threads -> {"start", "iret", "none"}]
      /\ status \in [Threads -> TaskStatus] /\ curr \in Threads /\ idle \in Threads
  BY <1>0 DEF Inv, TypeOK
<1>2. /\ status[idle] # "UNUSED"
      /\ \A t \in Threads : status[t] = "RUNNING" <=> t = curr
  BY DEF Inv, QueueInv
<1>3. \A t \in Threads : pc[t] \in {"idle", "parked", "sti_hlt", "halted"} => t = idle
  BY DEF Inv, CallerInv, CallerOK
<1>4. CASE UNCHANGED <<pc, ctx, status, curr, intr>>
  BY <1>4 DEF IdleInv
<1>5. CASE Kernel
  <2>1. CASE idle_block
    <3>1. /\ schedule(ready, [status EXCEPT ![idle] = "BLOCKED"])
          /\ ctx' = ctx /\ ctx[idle] = "none"
      BY <2>1 DEF idle_block, At, Executing
    <3> QED
      BY <1>1, <3>1, IdleSwitch DEF IdleInv
  <2>2. CASE idle_unblocked \/ idle_hlt
    <3>1. pc'[idle] # "parked"
      BY <1>1, <2>2 DEF idle_unblocked, idle_hlt, Goto
    <3> QED
      BY <3>1 DEF IdleInv
  <2>3. CASE kthread \/ intr_exit
    <3>1. /\ UNCHANGED <<pc, status, curr>> /\ ctx[curr] # "none"
          /\ ctx' = [ctx EXCEPT ![curr] = "none"]
      BY <2>3 DEF kthread, intr_exit
    <3>2. pc[idle] = "parked" => curr # idle
      BY <3>1 DEF IdleInv
    <3> QED
      BY <1>1, <3>1, <3>2 DEF IdleInv
  <2> QED
    BY <1>5, <2>1, <2>2, <2>3 DEF Kernel
<1>6. CASE Tick
  <2>1. intr = ON /\ pc' = LeaveHlt
    BY <1>6 DEF Tick, time_intr_handler
  <2>2. pc'[idle] = "parked" => pc[idle] = "parked" /\ curr # idle
    <3>1. pc'[idle] = "parked" => pc[idle] = "parked"
      BY <1>1, <2>1 DEF LeaveHlt
    <3>2. pc[idle] = "parked" => status[idle] = "BLOCKED"
      BY <2>1 DEF IdleInv
    <3>3. status[idle] = "BLOCKED" => curr # idle
      BY <1>1, <1>2
    <3> QED
      BY <3>1, <3>2, <3>3
  <2>3. pc'[idle] = "parked" => status[idle] = "BLOCKED" /\ ctx'[idle] = "none"
    BY <1>1, <1>6, <2>1, <2>2 DEF IdleInv, Tick, time_intr_handler
  <2>4. CASE schedule(ready, status)
    BY <2>3, <2>4, IdleSwitch DEF IdleInv
  <2>5. CASE UNCHANGED <<intr, curr, status>>
    BY <2>3, <2>5 DEF IdleInv
  <2> QED
    BY <1>6, <2>4, <2>5 DEF Tick, time_intr_handler
<1>7. ASSUME NEW t \in Threads, Call(t) \/ Critical(t) \/ Returning(t)
      PROVE  IdleInv'
  <2>1. /\ t = curr /\ ctx' = ctx
        /\ pc[t] \notin {"idle", "parked", "sti_hlt", "halted"}
    <3>1. CASE Call(t)
      BY <3>1 DEF Call, Yielding, thread_yield, mutex_lock, mutex_unlock,
           task_struct_init, syscall_handler, intr_enable, Calling, At, Executing
    <3>2. CASE Returning(t)
      BY <3>2 DEF Returning, yield_return, At, Executing
    <3>3. CASE Locking(t)
      BY <3>3 DEF Locking, lock_check, lock_down, sem_down, lock_own,
           lock_count, At, Executing
    <3>4. CASE Unlocking(t)
      BY <3>4 DEF Unlocking, unlock_own, unlock_check, unlock_holder,
           unlock_count, unlock_up, sem_up, At, Executing
    <3>5. CASE pid_read(t) \/ pid_inc(t) \/ list_task(t)
      BY <3>5 DEF pid_read, pid_inc, list_task, At, Executing
    <3> QED
      BY <1>7, <3>1, <3>2, <3>3, <3>4, <3>5 DEF Critical
  <2>2. t # idle
    <3>1. pc[idle] \in {"idle", "parked", "sti_hlt", "halted"}
      BY <1>1 DEF Inv, CallerInv, CallerOK
    <3> QED
      BY <2>1, <3>1
  <2>3. pc'[idle] = pc[idle]
    <3>1. pc' = pc \/ \E p : pc' = [pc EXCEPT ![t] = p]
      BY <1>7 DEF Call, Yielding, thread_yield, mutex_lock, mutex_unlock,
           task_struct_init, syscall_handler, intr_enable, Returning,
           yield_return, Critical, Locking, Unlocking, lock_check, lock_down,
           sem_down, lock_own, lock_count, unlock_own, unlock_check,
           unlock_holder, unlock_count, unlock_up, pid_read, pid_inc,
           list_task, Goto
    <3> QED
      BY <1>1, <2>2, <3>1
  <2>4. pc[idle] = "parked" => status[idle] = "BLOCKED" /\ ctx[idle] = "none"
    BY <2>1, <2>2 DEF IdleInv
  <2>5. CASE status' = status
    BY <2>1, <2>3, <2>4, <2>5 DEF IdleInv
  <2>6. ASSUME NEW rd, NEW st, schedule(rd, st), st[idle] = status[idle]
        PROVE  IdleInv'
    BY <2>1, <2>3, <2>4, <2>6, IdleSwitch DEF IdleInv
  <2>7. ASSUME NEW x \in Threads, status' = [status EXCEPT ![x] = "READY"], x # idle
        PROVE  IdleInv'
    <3>1. status'[idle] = status[idle]
      BY <1>1, <2>7
    <3> QED
      BY <2>1, <2>3, <2>4, <3>1 DEF IdleInv
  <2>8. CASE Yielding(t)
    <3>1. schedule(Append(ready, t), [status EXCEPT ![t] = "READY"])
      BY <2>8 DEF Yielding, thread_yield
    <3> QED
      BY <1>1, <2>2, <2>6, <3>1
  <2>9. CASE lock_down(t)
    <3>1. \/ status' = status
          \/ schedule(ready, [status EXCEPT ![t] = "BLOCKED"])
      BY <2>9 DEF lock_down, sem_down
    <3> QED
      BY <1>1, <2>2, <2>5, <2>6, <3>1
  <2>10. ASSUME NEW p, unlock_up(t, p) PROVE IdleInv'
    <3>1. arg[t] \in Mutexes
      BY <2>10, ArgFacts DEF unlock_up, At, UnlockPcs
    <3>2. \/ status' = status
          \/ /\ waiters[arg[t]] # <<>>
             /\ status' = [status EXCEPT ![Head(waiters[arg[t]])] = "READY"]
      BY <2>10 DEF unlock_up, sem_up, thread_unblock
    <3>3. waiters[arg[t]] # <<>> => /\ Head(waiters[arg[t]]) \in Threads
                                    /\ Head(waiters[arg[t]]) # idle
      BY <3>1, WaiterFacts, TailFacts
    <3> QED
      BY <2>5, <2>7, <3>2, <3>3
  <2>11. ASSUME NEW n \in Threads, task_struct_init(t, n) PROVE IdleInv'
    <3>1. status[n] = "UNUSED" /\ status' = [status EXCEPT ![n] = "READY"]
      BY <2>11 DEF task_struct_init
    <3> QED
      BY <1>2, <2>7, <3>1
  <2> QED
    BY <1>7, <2>5, <2>8, <2>9, <2>10, <2>11 DEF Call, Critical, Locking,
         Unlocking, mutex_lock, mutex_unlock, syscall_handler, intr_enable,
         lock_check, lock_own, lock_count, unlock_own, unlock_check,
         unlock_holder, unlock_count, pid_read, pid_inc, list_task, Returning,
         yield_return
<1>8. CASE UNCHANGED vars
  BY <1>4, <1>8 DEF vars, schedVars
<1> QED
  BY <1>5, <1>6, <1>7, <1>8 DEF Next

\* Every thread is running, in the list its status names, or being created.
THEOREM NoneLost == Spec => []NoThreadLost
<1>1. Init => IdleInv
  <2> SUFFICES ASSUME Init PROVE pc[idle] # "parked"
    BY DEF IdleInv
  <2>1. pc = [t \in Threads |-> IF t = idle THEN "idle" ELSE "run"]
    BY DEF Init, Booting
  <2> QED
    BY <2>1
<1>2. Inv /\ IdleInv /\ [Next]_vars => IdleInv'
  BY IdleStep
<1>3. Inv /\ IdleInv => NoThreadLost
  <2> SUFFICES ASSUME Inv, IdleInv, NEW t \in Threads
               PROVE  /\ status[t] = "RUNNING" <=> t = curr
                      /\ status[t] = "READY" <=> \/ t \in ToSet(ready)
                                                 \/ \E u \in Threads : child[u] = t
                      /\ status[t] = "BLOCKED" <=>
                           Waiting(t) \/ (t = idle /\ pc[t] = "parked" /\ t # curr)
    BY DEF NoThreadLost
  <2>1. status[t] = "RUNNING" <=> t = curr
    BY DEF Inv, QueueInv
  <2>2. status[t] = "READY" <=> \/ t \in ToSet(ready)
                                \/ \E u \in Threads : child[u] = t
    <3>1. \A u \in Threads : child[u] = t => status[t] = "READY"
      <4>1. t # NULL
        BY SchedAssumption
      <4> QED
        BY <4>1 DEF Inv, ChildInv
    <3>2. t \in ToSet(ready) => status[t] = "READY"
      BY DEF Inv, QueueInv
    <3>3. status[t] = "READY" => t \in ToSet(ready) \/ \E u \in Threads : child[u] = t
      BY DEF Inv, QueueInv
    <3> QED
      BY <3>1, <3>2, <3>3
  <2>3. Waiting(t) => status[t] = "BLOCKED"
    BY DEF Inv, WaitersInv, Waiting
  <2>4. t = idle /\ pc[t] = "parked" /\ t # curr => status[t] = "BLOCKED"
    BY DEF IdleInv
  <2>5. status[t] = "BLOCKED" => Waiting(t) \/ (t = idle /\ pc[t] = "parked" /\ t # curr)
    BY <2>1 DEF Inv, QueueInv
  <2> QED
    BY <2>1, <2>2, <2>3, <2>4, <2>5
<1> QED
  BY <1>1, <1>2, <1>3, Invariance, PTL DEF Spec

-----------------------------------------------------------------------------
(* Wakeups.                                                                *)

\* A woken thread stays woken while it does not run.
LEMMA WokenStays ==
  ASSUME NEW w \in Threads, NEW m \in Mutexes, Woken(w, m),
         pc'[w] = pc[w], arg'[w] = arg[w], saved'[w] = saved[w],
         status'[w] \in {"READY", "RUNNING"}
  PROVE  Woken(w, m)'
  BY DEF Woken

\* A switch blocks no thread.
LEMMA SwitchRunnable ==
  ASSUME NEW rd, NEW st, schedule(rd, st), NEW w \in Threads,
         st[w] \in {"READY", "RUNNING"}
  PROVE  status'[w] \in {"READY", "RUNNING"}
<1>1. status'[w] = IF w = curr' THEN "RUNNING"
                   ELSE IF w = curr /\ SliceUsedUp(st) THEN "READY"
                   ELSE st[w]
  BY DEF schedule
<1> QED
  BY <1>1

\* A step of t that is no sem_down and no sem_up leaves the threads in
\* sem_down where they are.
LEMMA OutsideWoken ==
  ASSUME Inv, NEW m \in Mutexes, NEW w \in Threads, Woken(w, m),
         \/ Kernel \/ Tick
         \/ \E t \in Threads :
              \/ Call(t) \/ Returning(t) \/ pid_read(t) \/ pid_inc(t)
              \/ list_task(t)
              \/ lock_check(t, AfterLock(t)) \/ lock_own(t)
              \/ lock_count(t, AfterLock(t))
              \/ unlock_own(t) \/ unlock_check(t, AfterUnlock(t))
              \/ unlock_holder(t) \/ unlock_count(t)
  PROVE  Woken(w, m)'
<1>1. /\ pc \in [Threads -> Pcs] /\ curr \in Threads /\ idle \in Threads
      /\ status \in [Threads -> TaskStatus] /\ arg \in [Threads -> Mutexes \cup {NULL}]
      /\ saved \in [Threads -> {ON, OFF, NULL}]
  BY DEF Inv, TypeOK
<1>2. pc[w] = "lock_down" /\ status[w] \in {"READY", "RUNNING"}
  BY DEF Woken
<1>3. w # idle
  BY <1>2 DEF Inv, CallerInv, CallerOK
<1>4. CASE Kernel
  <2>1. pc'[w] = pc[w] /\ saved'[w] = saved[w]
    BY <1>1, <1>3, <1>4 DEF Kernel, kthread, intr_exit, idle_block,
         idle_unblocked, idle_hlt, Goto
  <2>2. status' = status \/ schedule(ready, [status EXCEPT ![idle] = "BLOCKED"])
    BY <1>4 DEF Kernel, kthread, intr_exit, idle_block, idle_unblocked, idle_hlt
  <2>3. status'[w] \in {"READY", "RUNNING"}
    <3>1. [status EXCEPT ![idle] = "BLOCKED"][w] = status[w]
      BY <1>1, <1>3
    <3>2. CASE schedule(ready, [status EXCEPT ![idle] = "BLOCKED"])
      BY <1>2, <3>1, <3>2, SwitchRunnable
    <3> QED
      BY <1>2, <2>2, <3>2
  <2> QED
    BY <1>4, <2>1, <2>3, WokenStays DEF Kernel, lockVars
<1>5. CASE Tick
  <2>1. pc'[w] = pc[w] /\ saved' = saved
    BY <1>1, <1>2, <1>5 DEF Tick, time_intr_handler, LeaveHlt
  <2>2. status' = status \/ schedule(ready, status)
    BY <1>5 DEF Tick, time_intr_handler
  <2>3. status'[w] \in {"READY", "RUNNING"}
    BY <1>2, <2>2, SwitchRunnable
  <2> QED
    BY <1>5, <2>1, <2>3, WokenStays DEF Tick, lockVars
<1>6. ASSUME NEW t \in Threads, Call(t) \/ Returning(t) PROVE Woken(w, m)'
  <2>1. pc[t] \in {"run", "yielded"}
    BY <1>6 DEF Call, Yielding, thread_yield, mutex_lock, mutex_unlock,
         task_struct_init, syscall_handler, intr_enable, Returning,
         yield_return, Calling, At
  <2>2. w # t
    BY <1>2, <2>1
  <2>3. /\ pc' = pc \/ \E p : pc' = [pc EXCEPT ![t] = p]
        /\ saved' = saved \/ \E i : saved' = [saved EXCEPT ![t] = i]
        /\ arg' = arg \/ \E k : arg' = [arg EXCEPT ![t] = k]
    BY <1>6 DEF Call, Yielding, thread_yield, mutex_lock, mutex_unlock,
         task_struct_init, syscall_handler, intr_enable, Returning,
         yield_return, Goto, lockVars
  <2>4. pc'[w] = pc[w] /\ saved'[w] = saved[w] /\ arg'[w] = arg[w]
    BY <1>1, <2>2, <2>3
  <2>5. \/ status' = status
        \/ \E n \in Threads : status' = [status EXCEPT ![n] = "READY"]
        \/ schedule(Append(ready, t), [status EXCEPT ![t] = "READY"])
    BY <1>6 DEF Call, Yielding, thread_yield, mutex_lock, mutex_unlock,
         task_struct_init, syscall_handler, intr_enable, Returning, yield_return
  <2>7. status'[w] \in {"READY", "RUNNING"}
    <3>1. [status EXCEPT ![t] = "READY"][w] = status[w]
      BY <1>1, <2>2
    <3>2. CASE schedule(Append(ready, t), [status EXCEPT ![t] = "READY"])
      BY <1>2, <3>1, <3>2, SwitchRunnable
    <3>3. CASE status' = status \/ \E n \in Threads : status' = [status EXCEPT ![n] = "READY"]
      BY <1>1, <1>2, <3>3
    <3> QED
      BY <2>5, <3>2, <3>3
  <2> QED
    BY <2>4, <2>7, WokenStays
<1>7. ASSUME NEW t \in Threads,
             \/ pid_read(t) \/ pid_inc(t) \/ list_task(t)
             \/ lock_check(t, AfterLock(t)) \/ lock_own(t)
             \/ lock_count(t, AfterLock(t))
             \/ unlock_own(t) \/ unlock_check(t, AfterUnlock(t))
             \/ unlock_holder(t) \/ unlock_count(t)
      PROVE  Woken(w, m)'
  <2>1. pc[t] # "lock_down"
    BY <1>7 DEF pid_read, pid_inc, list_task, lock_check, lock_own, lock_count,
         unlock_own, unlock_check, unlock_holder, unlock_count, At
  <2>2. w # t
    BY <1>2, <2>1
  <2>3. /\ \E p : pc' = [pc EXCEPT ![t] = p]
        /\ arg' = arg \/ \E k : arg' = [arg EXCEPT ![t] = k]
    BY <1>7, ZenonT(40) DEF pid_read, pid_inc, list_task, lock_check, lock_own, lock_count,
         unlock_own, unlock_check, unlock_holder, unlock_count, Goto, lockVars
  <2>4. pc'[w] = pc[w] /\ arg'[w] = arg[w]
    BY <1>1, <2>2, <2>3
  <2>5. UNCHANGED <<saved, status>>
    BY <1>7 DEF pid_read, pid_inc, list_task, lock_check, lock_own, lock_count,
         unlock_own, unlock_check, unlock_holder, unlock_count
  <2> QED
    BY <1>2, <2>4, <2>5, WokenStays
<1> QED
  BY <1>4, <1>5, <1>6, <1>7

\* Every step keeps NoLostWakeup: who leaves a mutex free wakes a waiter.
LEMMA WakeStep ==
  ASSUME Inv, NoLostWakeup, [Next]_vars
  PROVE  NoLostWakeup'
<1> SUFFICES ASSUME NEW m \in Mutexes, value'[m] > 0, waiters'[m] # <<>>
             PROVE  \E t \in Threads : Woken(t, m)'
  BY DEF NoLostWakeup
<1>1. /\ pc \in [Threads -> Pcs] /\ curr \in Threads
      /\ status \in [Threads -> TaskStatus] /\ arg \in [Threads -> Mutexes \cup {NULL}]
      /\ saved \in [Threads -> {ON, OFF, NULL}]
      /\ value \in [Mutexes -> 0 .. 255] /\ waiters \in [Mutexes -> Seq(Threads)]
  BY DEF Inv, TypeOK
<1>2. ASSUME value'[m] = value[m], waiters'[m] = waiters[m]
      PROVE  \E w \in Threads : Woken(w, m)
  BY <1>2 DEF NoLostWakeup
<1>3. CASE UNCHANGED vars
  <2>1. PICK w \in Threads : Woken(w, m)
    BY <1>2, <1>3 DEF vars, lockVars
  <2> QED
    BY <1>3, <2>1 DEF vars, lockVars, schedVars, Woken
<1>4. ASSUME UNCHANGED <<value, waiters>>,
             \/ Kernel \/ Tick
             \/ \E t \in Threads :
                  \/ Call(t) \/ Returning(t) \/ pid_read(t) \/ pid_inc(t)
                  \/ list_task(t)
                  \/ lock_check(t, AfterLock(t)) \/ lock_own(t)
                  \/ lock_count(t, AfterLock(t))
                  \/ unlock_own(t) \/ unlock_check(t, AfterUnlock(t))
                  \/ unlock_holder(t) \/ unlock_count(t)
      PROVE  \E t \in Threads : Woken(t, m)'
  <2>1. PICK w \in Threads : Woken(w, m)
    BY <1>2, <1>4
  <2>2. Woken(w, m)'
    BY <1>4, <2>1, OutsideWoken
  <2> QED
    BY <2>2
<1>5. ASSUME NEW t \in Threads, lock_down(t)
      PROVE  \E u \in Threads : Woken(u, m)'
  <2>1. pc[t] = "lock_down" /\ t = curr /\ sem_down(t, arg[t], "lock_own") /\ arg' = arg
    BY <1>5 DEF lock_down, At, Executing
  <2>2. arg[t] \in Mutexes
    BY <2>1, ArgFacts DEF LockPcs
  <2>3. arg[t] # m
    <3> SUFFICES ASSUME arg[t] = m PROVE FALSE
      OBVIOUS
    <3>1. value[m] \in {0, 1}
      BY DEF Inv, MutexInv, MutexOK
    <3>2. value'[m] = 0
      <4>1. CASE value[m] = 0
        BY <2>1, <4>1 DEF sem_down
      <4>2. CASE value[m] = 1
        <5>1. value' = [value EXCEPT ![m] = @ - 1]
          BY <2>1, <4>2 DEF sem_down
        <5> QED
          BY <1>1, <4>2, <5>1
      <4> QED
        BY <3>1, <4>1, <4>2
    <3> QED
      BY <3>2
  <2>4. value'[m] = value[m] /\ waiters'[m] = waiters[m]
    BY <1>1, <2>1, <2>3 DEF sem_down
  <2>5. PICK w \in Threads : Woken(w, m)
    BY <1>2, <2>4
  <2>6. w # t /\ status[w] \in {"READY", "RUNNING"}
    BY <2>3, <2>5 DEF Woken
  <2>7. /\ pc' = pc \/ \E p : pc' = [pc EXCEPT ![t] = p]
        /\ \E i : saved' = [saved EXCEPT ![t] = i]
    BY <2>1 DEF sem_down, Goto
  <2>8. pc'[w] = pc[w] /\ saved'[w] = saved[w]
    BY <1>1, <2>6, <2>7
  <2>9. status'[w] \in {"READY", "RUNNING"}
    <3>1. [status EXCEPT ![t] = "BLOCKED"][w] = status[w]
      BY <1>1, <2>6
    <3>2. CASE schedule(ready, [status EXCEPT ![t] = "BLOCKED"])
      BY <2>6, <3>1, <3>2, SwitchRunnable
    <3>3. CASE status' = status
      BY <2>6, <3>3
    <3> QED
      BY <2>1, <3>2, <3>3 DEF sem_down
  <2> QED
    BY <2>1, <2>5, <2>8, <2>9, WokenStays
<1>6. ASSUME NEW t \in Threads, NEW p, unlock_up(t, p)
      PROVE  \E u \in Threads : Woken(u, m)'
  <2>1. /\ pc[t] = "unlock_up" /\ t = curr /\ sem_up(arg[t])
        /\ arg' = [arg EXCEPT ![t] = NULL] /\ pc' = [pc EXCEPT ![t] = p]
        /\ saved' = saved
    BY <1>6 DEF unlock_up, At, Executing, Goto, sem_up
  <2>2. arg[t] \in Mutexes
    BY <2>1, ArgFacts DEF UnlockPcs
  <2>3. CASE arg[t] = m
    <3>1. waiters[m] # <<>>
      BY <2>1, <2>3 DEF sem_up
    <3> DEFINE h == Head(waiters[m])
    <3>2. h \in Threads /\ h \in ToSet(waiters[m]) /\ h # t
      <4>1. waiters[m] \in Seq(Threads) /\ \A x \in ToSet(waiters[m]) : x # curr
        BY WaiterFacts
      <4>2. Head(waiters[m]) \in Threads /\ Head(waiters[m]) \in ToSet(waiters[m])
        BY <3>1, <4>1, TailFacts
      <4> QED
        BY <2>1, <4>1, <4>2
    <3>3. pc[h] = "lock_down" /\ arg[h] = m /\ saved[h] # NULL
      BY <3>2 DEF Inv, WaitersInv
    <3>4. status' = [status EXCEPT ![h] = "READY"]
      BY <2>1, <2>3, <3>1 DEF sem_up, thread_unblock
    <3> HIDE DEF h
    <3>5. pc'[h] = "lock_down" /\ arg'[h] = m /\ saved'[h] # NULL /\ status'[h] = "READY"
      BY <1>1, <2>1, <3>2, <3>3, <3>4
    <3> QED
      BY <3>2, <3>5 DEF Woken
  <2>4. CASE arg[t] # m
    <3>1. value'[m] = value[m] /\ waiters'[m] = waiters[m]
      BY <1>1, <2>1, <2>4 DEF sem_up
    <3>2. PICK w \in Threads : Woken(w, m)
      BY <1>2, <3>1
    <3>3. w # t /\ status[w] \in {"READY", "RUNNING"}
      BY <2>1, <3>2 DEF Woken
    <3>4. pc'[w] = pc[w] /\ arg'[w] = arg[w] /\ saved'[w] = saved[w]
      BY <1>1, <2>1, <3>3
    <3>5. status' = status \/ \E x : status' = [status EXCEPT ![x] = "READY"]
      BY <2>1 DEF sem_up, thread_unblock
    <3>7. status'[w] \in {"READY", "RUNNING"}
      <4>1. w \in DOMAIN status
        BY <1>1
      <4>2. ASSUME NEW x, status' = [status EXCEPT ![x] = "READY"]
            PROVE  status'[w] \in {status[w], "READY"}
        BY <4>1, <4>2
      <4> QED
        BY <3>3, <3>5, <4>2
    <3> QED
      BY <3>2, <3>4, <3>7, WokenStays
  <2> QED
    BY <2>3, <2>4
<1>7. ASSUME Kernel \/ Tick PROVE \E t \in Threads : Woken(t, m)'
  BY <1>4, <1>7 DEF Kernel, Tick, lockVars
<1>8. ASSUME NEW t \in Threads, Call(t) \/ Returning(t)
      PROVE  \E u \in Threads : Woken(u, m)'
  <2>1. UNCHANGED <<value, waiters>>
    BY <1>8 DEF Call, Yielding, mutex_lock, mutex_unlock, task_struct_init,
         syscall_handler, intr_enable, Returning, lockVars
  <2> QED
    BY <1>4, <1>8, <2>1
<1>9. ASSUME NEW t \in Threads, Critical(t)
      PROVE  \E u \in Threads : Woken(u, m)'
  <2>1. CASE lock_down(t) \/ unlock_up(t, AfterUnlock(t))
    BY <1>5, <1>6, <2>1
  <2>2. CASE \/ pid_read(t) \/ pid_inc(t) \/ list_task(t)
             \/ lock_check(t, AfterLock(t)) \/ lock_own(t)
             \/ lock_count(t, AfterLock(t))
             \/ unlock_own(t) \/ unlock_check(t, AfterUnlock(t))
             \/ unlock_holder(t) \/ unlock_count(t)
    <3>1. UNCHANGED <<value, waiters>>
      BY <2>2 DEF pid_read, pid_inc, list_task, lock_check, lock_own, lock_count,
           unlock_own, unlock_check, unlock_holder, unlock_count, lockVars
    <3> QED
      BY <1>4, <2>2, <3>1
  <2> QED
    BY <1>9, <2>1, <2>2 DEF Critical, Locking, Unlocking
<1> QED
  BY <1>3, <1>7, <1>8, <1>9 DEF Next

\* A free mutex has no waiters, or a woken thread that will look at it.
THEOREM NoneAsleep == Spec => []NoLostWakeup
<1>1. Init => NoLostWakeup
  BY DEF Init, LockInit, NoLostWakeup
<1>2. Inv /\ NoLostWakeup /\ [Next]_vars => NoLostWakeup'
  BY WakeStep
<1> QED
  BY <1>1, <1>2, Invariance, PTL DEF Spec

-----------------------------------------------------------------------------
(* The interrupt flag.                                                     *)

(***************************************************************************)
(* What is known of the flag, and of the state an INTERRUPT_DISABLE saved, *)
(* for each thread.  A thread that does not run was interrupted or has a   *)
(* state to restore; boot and system calls are never interrupted and never *)
(* save INTR_ON; a kernel thread never saves INTR_OFF, provided that       *)
(* intr_set_status does what it is for.                                    *)
(***************************************************************************)
FlagOK(t) ==
  /\ pc[t] \in {"yielded", "parked"} => saved[t] # NULL
  /\ saved[t] # NULL => pc[t] \in {"yielded", "parked", "lock_down"}
  /\ t # curr => ctx[t] # "none" \/ saved[t] # NULL
  /\ mode[t] # "kernel" => /\ t # idle /\ ctx[t] = "none" /\ saved[t] # ON
                           /\ t = curr => intr = OFF
  /\ mode[t] = "kernel" /\ ON \notin OldValues =>
       /\ saved[t] # OFF
       /\ t = curr /\ ctx[t] = "none" /\ saved[t] = NULL => intr = ON

FlagInv == \A t \in Threads : FlagOK(t)

\* The places where a thread is suspended with a state to restore.
Suspended == {"yielded", "parked", "lock_down"}

\* What the current thread restores at the end of a section that runs with
\* interrupts off.
State == IF saved[curr] = NULL THEN intr ELSE saved[curr]

\* What the steps do to the flag: nothing, ...
Quiet ==
  /\ UNCHANGED <<intr, curr, ctx, saved, mode>>
  /\ \/ pc' = pc
     \/ \E p \in Pcs \ {"yielded", "parked"} : pc' = [pc EXCEPT ![curr] = p]
  /\ pc[curr] \notin Suspended \/ pc' = pc

\* ... INTERRUPT_RESTORE, ...
Restoring ==
  /\ INTERRUPT_RESTORE(State)
  /\ saved' = [saved EXCEPT ![curr] = NULL]
  /\ ctx[curr] = "none"
  /\ \E p \in Pcs \ Suspended : pc' = [pc EXCEPT ![curr] = p]
  /\ UNCHANGED <<curr, ctx, mode>>

\* ... a switch that thread_yield, thread_block or sem_down calls for, ...
Switching ==
  /\ intr' = OFF
  /\ saved' = [saved EXCEPT ![curr] = State]
  /\ ctx[curr] = "none"
  /\ \E p \in Suspended : pc' = [pc EXCEPT ![curr] = p]
  /\ UNCHANGED <<ctx, mode>>

\* ... a switch by the clock interrupt, ...
Preempting ==
  /\ intr = ON /\ ctx[curr] = "none"
  /\ intr' = OFF
  /\ ctx' = [ctx EXCEPT ![curr] = "iret"]
  /\ pc' = LeaveHlt
  /\ UNCHANGED <<saved, mode>>

\* ... the return from it, or into a new thread, ...
Resuming ==
  /\ ctx[curr] # "none"
  /\ ctx' = [ctx EXCEPT ![curr] = "none"]
  /\ intr' = ON
  /\ UNCHANGED <<curr, pc, saved, mode>>

\* ... or sti; hlt, and the start and the end of a system call.
Setting ==
  \/ /\ curr = idle /\ pc[idle] = "sti_hlt" /\ intr' = ON
     /\ pc' = [pc EXCEPT ![idle] = "halted"]
     /\ UNCHANGED <<curr, ctx, saved, mode>>
  \/ /\ curr # idle /\ ctx[curr] = "none" /\ pc[curr] = "run"
     /\ \/ intr' = OFF /\ mode' = [mode EXCEPT ![curr] = "syscall"]
        \/ intr' = ON /\ mode' = [mode EXCEPT ![curr] = "kernel"]
     /\ UNCHANGED <<curr, ctx, saved, pc>>

\* Every step is one of these.
LEMMA FlagSteps ==
  ASSUME Inv, FlagInv, [Next]_vars
  PROVE  \/ Quiet \/ Restoring \/ Switching \/ Preempting \/ Resuming
         \/ Setting
<1>1. /\ pc \in [Threads -> Pcs] /\ saved \in [Threads -> {ON, OFF, NULL}]
      /\ intr \in {ON, OFF} /\ curr \in Threads /\ idle \in Threads
      /\ mode \in [Threads -> {"boot", "kernel", "syscall"}]
  BY SchedAssumption DEF Inv, TypeOK
<1>2. CASE UNCHANGED vars
  BY <1>2 DEF vars, schedVars, lockVars, threadVars, callerVars, Quiet
<1>3. CASE Tick
  <2>1. mode' = mode /\ panic = "none" /\ intr = ON /\ ctx[curr] = "none"
    BY <1>3 DEF Tick, time_intr_handler, threadVars
  <2>2. CASE schedule(ready, status) /\ ctx' = [ctx EXCEPT ![curr] = "iret"]
    BY <1>3, <2>1, <2>2 DEF Tick, time_intr_handler, schedule, Preempting
  <2>3. CASE UNCHANGED <<intr, curr, ctx>>
    <3>1. pc' = pc \/ (pc[curr] = "halted" /\ pc' = [pc EXCEPT ![curr] = "idle"])
      BY <1>1, <1>3 DEF Tick, time_intr_handler, LeaveHlt
    <3> QED
      BY <1>3, <2>1, <2>3, <3>1 DEF Tick, time_intr_handler, Quiet, Pcs, Suspended
  <2> QED
    BY <1>3, <2>2, <2>3 DEF Tick, time_intr_handler
<1>4. CASE Kernel
  <2>1. mode' = mode
    BY <1>4 DEF Kernel, threadVars
  <2>2. CASE kthread \/ intr_exit
    BY <2>1, <2>2 DEF kthread, intr_exit, Resuming
  <2>3. CASE idle_block
    <3>1. curr = idle /\ ctx[idle] = "none" /\ pc[idle] = "idle"
      BY <2>3 DEF idle_block, At, Executing
    <3>2. saved[idle] = NULL
      BY <1>1, <3>1 DEF FlagInv, FlagOK
    <3> QED
      BY <2>1, <2>3, <3>1, <3>2
      DEF idle_block, schedule, Goto, Switching, State, Suspended
  <2>4. CASE idle_unblocked
    <3>1. curr = idle /\ ctx[idle] = "none" /\ pc[idle] = "parked"
      BY <2>4 DEF idle_unblocked, At, Executing
    <3>2. State = saved[idle]
      BY <1>1, <3>1 DEF FlagInv, FlagOK, State
    <3> QED
      BY <2>1, <2>4, <3>1, <3>2
      DEF idle_unblocked, Goto, Restoring, Suspended, Pcs
  <2>5. CASE idle_hlt
    BY <2>1, <2>5 DEF idle_hlt, At, Executing, Goto, Setting
  <2> QED
    BY <1>4, <2>2, <2>3, <2>4, <2>5 DEF Kernel
<1>5. ASSUME NEW t \in Threads, Call(t)
      PROVE  Quiet \/ Switching \/ Setting
  <2>1. curr = t /\ ctx[t] = "none" /\ pc[t] = "run" /\ t # idle
    BY <1>5 DEF Call, Yielding, thread_yield, mutex_lock, mutex_unlock,
         task_struct_init, syscall_handler, intr_enable, Calling, At, Executing
  <2>2. saved[t] = NULL
    BY <1>1, <2>1 DEF FlagInv, FlagOK
  <2>3. CASE Yielding(t)
    BY <2>1, <2>2, <2>3
    DEF Yielding, thread_yield, schedule, Goto, threadVars, Switching, State,
        Suspended
  <2>4. CASE \/ \E m \in Mutexes : mutex_lock(t, m)
             \/ mutex_unlock(t)
             \/ \E n \in Threads : task_struct_init(t, n)
    BY <2>1, <2>4
    DEF mutex_lock, mutex_unlock, task_struct_init, Goto, threadVars, Quiet,
        Suspended, Pcs
  <2>5. CASE syscall_handler(t) \/ intr_enable(t)
    BY <2>1, <2>5 DEF syscall_handler, intr_enable, Setting
  <2> QED
    BY <1>5, <2>3, <2>4, <2>5 DEF Call
<1>6. ASSUME NEW t \in Threads, Returning(t)
      PROVE  Restoring
  <2>1. curr = t /\ ctx[t] = "none" /\ pc[t] = "yielded"
    BY <1>6 DEF Returning, yield_return, At, Executing
  <2>2. State = saved[t]
    BY <1>1, <2>1 DEF FlagInv, FlagOK, State
  <2> QED
    BY <1>6, <2>1, <2>2
    DEF Returning, yield_return, Goto, threadVars, Restoring, Suspended, Pcs
<1>7. ASSUME NEW t \in Threads, Critical(t)
      PROVE  Quiet \/ Restoring \/ Switching
  <2>1. curr = t /\ ctx[t] = "none" /\ panic = "none"
    BY <1>7 DEF Critical, Locking, Unlocking, lock_check, lock_down, lock_own,
         lock_count, unlock_own, unlock_check, unlock_holder, unlock_count,
         unlock_up, pid_read, pid_inc, list_task, At, Executing
  <2>2. pc[t] \notin Suspended => saved[t] = NULL
    BY <1>1 DEF FlagInv, FlagOK, Suspended
  <2>3. CASE Locking(t)
    <3>1. CASE lock_down(t)
      <4>1. pc[t] = "lock_down" /\ sem_down(t, arg[t], "lock_own") /\ mode' = mode
        BY <2>3, <3>1 DEF Locking, lock_down, At, threadVars
      <4>2. CASE Goto(t, "lock_own")
        <5>1. pc' # pc /\ pc' = [pc EXCEPT ![t] = "lock_own"]
          BY <1>1, <4>1, <4>2 DEF Goto
        <5>2. /\ INTERRUPT_RESTORE(State) /\ saved' = [saved EXCEPT ![t] = NULL]
              /\ UNCHANGED <<curr, ctx>>
          BY <2>1, <4>1, <5>1 DEF sem_down, State
        <5> QED
          BY <2>1, <4>1, <5>1, <5>2 DEF Restoring, Suspended, Pcs
      <4>3. CASE pc' = pc /\ ctx' = ctx
        <5>1. saved' = [saved EXCEPT ![t] = State] /\ intr' = OFF
          BY <1>1, <2>1, <4>1, <4>3 DEF sem_down, schedule, Goto, State
        <5>2. pc' = [pc EXCEPT ![t] = "lock_down"]
          BY <1>1, <4>1, <4>3
        <5> QED
          BY <2>1, <4>1, <4>3, <5>1, <5>2 DEF Switching, Suspended
      <4> QED
        BY <4>1, <4>2, <4>3 DEF sem_down
    <3>2. CASE lock_check(t, AfterLock(t)) \/ lock_own(t)
               \/ lock_count(t, AfterLock(t))
      BY <2>1, <2>3, <3>2
      DEF Locking, lock_check, lock_own, lock_count, At, Goto, threadVars,
          AfterLock, Quiet, Suspended, Pcs
    <3> QED
      BY <2>3, <3>1, <3>2 DEF Locking
  <2>4. CASE Unlocking(t)
    <3>1. CASE unlock_up(t, AfterUnlock(t))
      <4>1. pc[t] = "unlock_up" /\ saved[t] = NULL
        BY <2>2, <3>1 DEF unlock_up, At, Suspended
      <4>2. saved' = [saved EXCEPT ![t] = NULL]
        BY <1>1, <3>1, <4>1 DEF unlock_up, sem_up
      <4> QED
        BY <2>1, <2>4, <3>1, <4>1, <4>2
        DEF Unlocking, unlock_up, sem_up, Goto, threadVars, AfterUnlock,
            Restoring, State, Suspended, Pcs
    <3>2. CASE unlock_own(t) \/ unlock_check(t, AfterUnlock(t))
               \/ unlock_holder(t) \/ unlock_count(t)
      BY <2>1, <2>4, <3>2
      DEF Unlocking, unlock_own, unlock_check, unlock_holder, unlock_count,
          At, Goto, threadVars, AfterUnlock, Quiet, Suspended, Pcs
    <3> QED
      BY <2>4, <3>1, <3>2 DEF Unlocking
  <2>5. CASE pid_read(t) \/ pid_inc(t)
    BY <2>1, <2>5 DEF pid_read, pid_inc, At, Goto, Quiet, Suspended, Pcs
  <2>6. CASE list_task(t)
    <3>1. pc[t] = "created" /\ saved[t] = NULL
      BY <2>2, <2>6 DEF list_task, At, Suspended
    <3>2. saved' = [saved EXCEPT ![t] = NULL]
      BY <1>1, <2>6, <3>1 DEF list_task
    <3> QED
      BY <2>1, <2>6, <3>1, <3>2
      DEF list_task, Goto, Restoring, State, Suspended, Pcs
  <2> QED
    BY <1>7, <2>3, <2>4, <2>5, <2>6 DEF Critical
<1> QED
  BY <1>2, <1>3, <1>4, <1>5, <1>6, <1>7 DEF Next

\* None of them breaks what is known of the flag.
LEMMA FlagStep ==
  ASSUME Inv, FlagInv, [Next]_vars
  PROVE  FlagInv'
<1>1. /\ pc \in [Threads -> Pcs] /\ saved \in [Threads -> {ON, OFF, NULL}]
      /\ ctx \in [Threads -> {"start", "iret", "none"}]
      /\ intr \in {ON, OFF} /\ curr \in Threads /\ idle \in Threads
      /\ mode \in [Threads -> {"boot", "kernel", "syscall"}]
  BY SchedAssumption DEF Inv, TypeOK
<1>2. SUFFICES ASSUME NEW t \in Threads PROVE FlagOK(t)'
  BY DEF FlagInv
<1>3. FlagOK(t) /\ FlagOK(curr)
  BY <1>1 DEF FlagInv
<1>4. CASE Quiet
  BY <1>1, <1>3, <1>4 DEF Quiet, FlagOK, Suspended
<1>5. CASE Restoring
  <2>1. CASE t # curr
    <3>1. /\ saved'[t] = saved[t] /\ pc'[t] = pc[t] /\ ctx' = ctx
          /\ mode' = mode /\ curr' = curr
      BY <1>1, <1>5, <2>1 DEF Restoring
    <3> QED
      BY <1>3, <2>1, <3>1 DEF FlagOK
  <2>2. CASE t = curr
    <3>1. /\ saved'[t] = NULL /\ pc'[t] \notin Suspended
          /\ ctx'[t] = "none" /\ mode' = mode /\ curr' = t
      BY <1>1, <1>5, <2>2 DEF Restoring
    <3>2. State = OFF => intr' = OFF
      BY <1>5 DEF Restoring, INTERRUPT_RESTORE
    <3>3. State # OFF /\ ON \notin OldValues => intr' = ON
      BY <1>5 DEF Restoring, INTERRUPT_RESTORE
    <3>4. mode[t] # "kernel" => State = OFF
      BY <1>1, <1>3, <2>2 DEF FlagOK, State
    <3>5. mode[t] = "kernel" /\ ON \notin OldValues => State # OFF
      BY <1>1, <1>3, <1>5, <2>2 DEF FlagOK, State, Restoring
    <3> QED
      BY <1>3, <2>2, <3>1, <3>2, <3>3, <3>4, <3>5, SchedAssumption
      DEF FlagOK, Suspended
  <2> QED
    BY <2>1, <2>2
<1>6. CASE Switching
  <2>1. intr' = OFF /\ ctx' = ctx /\ mode' = mode
    BY <1>6 DEF Switching
  <2>2. CASE t # curr
    <3>1. saved'[t] = saved[t] /\ pc'[t] = pc[t]
      BY <1>1, <1>6, <2>2 DEF Switching
    <3> QED
      BY <1>3, <2>1, <2>2, <3>1 DEF FlagOK
  <2>3. CASE t = curr
    <3>1. saved'[t] = State /\ pc'[t] \in Suspended /\ ctx[t] = "none"
      BY <1>1, <1>6, <2>3 DEF Switching
    <3>2. State \in {ON, OFF}
      BY <1>1, <2>3 DEF State
    <3>3. State # NULL
      BY <3>2, SchedAssumption
    <3>4. mode[t] # "kernel" => State = OFF
      BY <1>1, <1>3, <2>3 DEF FlagOK, State
    <3>5. mode[t] = "kernel" /\ ON \notin OldValues => State # OFF
      BY <1>1, <1>3, <2>3, <3>1 DEF FlagOK, State
    <3> QED
      BY <1>3, <2>1, <2>3, <3>1, <3>2, <3>3, <3>4, <3>5 DEF FlagOK, Suspended
  <2> QED
    BY <2>2, <2>3
<1>7. CASE Preempting
  <2>1. intr' = OFF /\ saved' = saved /\ mode' = mode
    BY <1>7 DEF Preempting
  <2>2. /\ pc[t] \in Suspended <=> pc'[t] \in Suspended
        /\ pc'[t] \in {"yielded", "parked"} => pc[t] \in {"yielded", "parked"}
    BY <1>1, <1>7 DEF Preempting, LeaveHlt, Suspended
  <2>3. mode[curr] = "kernel"
    BY <1>3, <1>7 DEF Preempting, FlagOK
  <2>4. ctx'[t] = IF t = curr THEN "iret" ELSE ctx[t]
    BY <1>1, <1>7 DEF Preempting
  <2> QED
    BY <1>3, <2>1, <2>2, <2>3, <2>4 DEF FlagOK, Suspended
<1>8. CASE Resuming
  <2>1. mode[curr] = "kernel"
    BY <1>3, <1>8 DEF Resuming, FlagOK
  <2>2. ctx'[t] = IF t = curr THEN "none" ELSE ctx[t]
    BY <1>1, <1>8 DEF Resuming
  <2> QED
    BY <1>3, <1>8, <2>1, <2>2 DEF Resuming, FlagOK
<1>9. CASE Setting
  <2>1. UNCHANGED <<curr, ctx, saved>>
    BY <1>9 DEF Setting
  <2>2. CASE curr = idle /\ pc[idle] = "sti_hlt" /\ intr' = ON
             /\ pc' = [pc EXCEPT ![idle] = "halted"] /\ mode' = mode
    BY <1>1, <1>3, <2>1, <2>2 DEF FlagOK
  <2>3. CASE /\ curr # idle /\ ctx[curr] = "none" /\ pc[curr] = "run" /\ pc' = pc
             /\ intr' = OFF /\ mode' = [mode EXCEPT ![curr] = "syscall"]
    BY <1>1, <1>3, <2>1, <2>3, SchedAssumption DEF FlagOK
  <2>4. CASE /\ curr # idle /\ ctx[curr] = "none" /\ pc[curr] = "run" /\ pc' = pc
             /\ intr' = ON /\ mode' = [mode EXCEPT ![curr] = "kernel"]
    BY <1>1, <1>3, <2>1, <2>4, SchedAssumption DEF FlagOK
  <2> QED
    BY <1>9, <2>2, <2>3, <2>4 DEF Setting
<1> QED
  BY <1>4, <1>5, <1>6, <1>7, <1>8, <1>9, FlagSteps

\* It always holds.
LEMMA FlagAlways == Spec => []FlagInv
<1>1. Init => FlagInv
  BY SchedAssumption DEF Init, Booting, FlagInv, FlagOK
<1>2. Inv /\ FlagInv /\ [Next]_vars => FlagInv'
  BY FlagStep
<1> QED
  BY <1>1, <1>2, Invariance, PTL DEF Spec

\* A system call and the boot code run with interrupts off from end to end,
\* whatever intr_set_status makes of its uninitialised variable.
THEOREM CallsUninterrupted == Spec => []SyscallUninterrupted
<1>1. Inv /\ FlagInv => SyscallUninterrupted
  BY DEF Inv, TypeOK, FlagInv, FlagOK, SyscallUninterrupted
<1> QED
  BY <1>1, FlagAlways, Invariance, PTL

(***************************************************************************)
(* If the uninitialised variable of intr_set_status is never INTR_ON, a    *)
(* kernel thread has interrupts on again after every call it makes.  The   *)
(* hypothesis is needed: the run Thread_restore violates the property      *)
(* without it.                                                             *)
(***************************************************************************)
THEOREM FlagRestored ==
  ASSUME ON \notin OldValues
  PROVE  Spec => []InterruptsRestored
<1>1. Inv /\ FlagInv => InterruptsRestored
  <2> SUFFICES ASSUME Inv, FlagInv, NEW t \in Threads, At(t, "run"),
                      mode[t] = "kernel"
               PROVE  intr = ON
    BY DEF InterruptsRestored
  <2>1. FlagOK(t)
    BY DEF FlagInv
  <2>2. t = curr /\ ctx[t] = "none" /\ pc[t] = "run"
    BY DEF At, Executing
  <2> QED
    BY <2>1, <2>2 DEF FlagOK
<1> QED
  BY <1>1, FlagAlways, Invariance, PTL

-----------------------------------------------------------------------------
(***************************************************************************)
(* The sleeps of device/timer.c, over the same scheduler (Timer).  None    *)
(* ends early, for any threads, any length of a tick, any width of the     *)
(* counter and whatever the scheduler does, but for the two overflows that *)
(* NeverWakesEarly names.                                                  *)
(***************************************************************************)

-----------------------------------------------------------------------------
(* The invariant.  start and total_times differ by the ticks that really   *)
(* passed, modulo one round of the counter, unless a whole round passed.   *)

SleepTypes ==
  /\ total_times \in Nat /\ total_times < TimeSpan /\ now \in Nat
  /\ sleep \in [Threads -> Sleeps \cup {NULL}]
  /\ start \in [Threads -> Nat] /\ begin \in [Threads -> Nat]

\* Of a sleeper that called at time b, when the counter showed a.
InStep(a, b) ==
  /\ a < TimeSpan /\ b <= now
  /\ \/ total_times = a + (now - b)
     \/ total_times + TimeSpan = a + (now - b)
     \/ now - b >= TimeSpan

SleeperInv == \A t \in Threads : sleep[t] # NULL => InStep(start[t], begin[t])

SleepInv == SleepTypes /\ SleeperInv

-----------------------------------------------------------------------------
(* The length of a sleep.                                                  *)

\* A remainder by TimeSpan, and a value that fits.
LEMMA Wrapped ==
  ASSUME NEW x \in Nat
  PROVE  /\ x % TimeSpan \in Nat /\ x % TimeSpan < TimeSpan
         /\ x < TimeSpan => x % TimeSpan = x
         /\ TimeSpan <= x /\ x < 2 * TimeSpan => x % TimeSpan = x - TimeSpan
<1>1. TimeSpan \in Nat \ {0}
  BY TimerAssumption
<1>2. x % TimeSpan \in Nat /\ x % TimeSpan < TimeSpan
  BY <1>1
<1>3. x < TimeSpan => x % TimeSpan = x
  BY <1>1
<1>4. ASSUME TimeSpan <= x, x < 2 * TimeSpan
      PROVE  x % TimeSpan = x - TimeSpan
  <2>1. x - TimeSpan \in Nat /\ x - TimeSpan < TimeSpan
    BY <1>1, <1>4
  <2>2. x = 1 * TimeSpan + (x - TimeSpan)
    BY <1>1, <1>4
  <2> QED
    BY <1>1, <2>1, <2>2
<1> QED
  BY <1>2, <1>3, <1>4

\* DIV_ROUND_UP rounds up.
LEMMA RoundsUp ==
  ASSUME NEW x \in Nat, x + MSECONDS <= TimeSpan
  PROVE  /\ DIV_ROUND_UP(x, MSECONDS) \in Nat
         /\ DIV_ROUND_UP(x, MSECONDS) * MSECONDS >= x
<1>1. MSECONDS \in Nat \ {0} /\ TimeSpan \in Nat \ {0}
  BY TimerAssumption
<1>2. PICK y \in Nat : y = x + MSECONDS - 1
  BY <1>1
<1>3. y % TimeSpan = y
  BY <1>1, <1>2, Wrapped
<1>4. PICK k \in Nat : k = y \div MSECONDS
  BY <1>1, <1>2, Division
<1>5. y < k * MSECONDS + MSECONDS
  BY <1>1, <1>4, Division
<1>6. DIV_ROUND_UP(x, MSECONDS) = k
  BY <1>2, <1>3, <1>4 DEF DIV_ROUND_UP
<1>7. PICK m \in Nat : m = k * MSECONDS
  BY <1>1
<1>8. m >= x
  BY <1>1, <1>2, <1>5, <1>7
<1> QED
  BY <1>6, <1>7, <1>8

\* A quotient is not larger than what is divided.
LEMMA QuotientSmall ==
  ASSUME NEW w \in Nat, NEW m \in Nat \ {0}
  PROVE  w \div m \in Nat /\ w \div m <= w
<1>1. PICK k \in Nat : k = w \div m
  BY Division
<1>2. k * m <= w
  BY <1>1, Division
<1>3. PICK d \in Nat : m = d + 1
  <2>1. m - 1 \in Nat /\ m = (m - 1) + 1
    OBVIOUS
  <2> QED
    BY <2>1
<1>4. k * m = k * d + k
  BY <1>3
<1>5. PICK e \in Nat : e = k * d
  OBVIOUS
<1> QED
  BY <1>1, <1>2, <1>4, <1>5

\* The ticks of a sleep are a uint32_t.
LEMMA TicksType ==
  ASSUME NEW s \in Sleeps
  PROVE  Ticks(s) \in Nat /\ Ticks(s) < TimeSpan
<1>1. /\ s.n \in Nat /\ TICKS_PER_SECOND \in Nat /\ MSECONDS \in Nat \ {0}
      /\ TimeSpan \in Nat \ {0}
  BY TimerAssumption DEF Sleeps
<1>2. PICK x \in Nat : x = s.n * TICKS_PER_SECOND
  BY <1>1
<1>3. PICK z \in Nat : z = x % TimeSpan /\ z < TimeSpan
  BY Wrapped
<1>4. PICK y \in Nat : y = z + MSECONDS - 1
  BY <1>1
<1>5. PICK w \in Nat : w = y % TimeSpan /\ w < TimeSpan
  BY Wrapped
<1>6. PICK q \in Nat : q = w \div MSECONDS /\ q <= w
  BY <1>1, QuotientSmall
<1>7. q < TimeSpan
  BY <1>1, <1>5, <1>6
<1> QED
  BY <1>2, <1>3, <1>4, <1>5, <1>6, <1>7 DEF Ticks, DIV_ROUND_UP

\* They last at least as long as was asked for.
LEMMA TicksEnough ==
  ASSUME NEW s \in Sleeps, Fits(s), NEW passed \in Nat,
         Ticks(s) <= passed
  PROVE  LongEnough(s, passed)
<1>1. /\ s.n \in Nat
      /\ TICKS_PER_SECOND \in Nat \ {0} /\ MSECONDS \in Nat \ {0}
      /\ TimeSpan \in Nat \ {0}
  BY TimerAssumption DEF Sleeps
<1>2. PICK x \in Nat : x = s.n * TICKS_PER_SECOND
  BY <1>1
<1>3. x < TimeSpan
  BY <1>1, <1>2 DEF Fits
<1>4. x % TimeSpan = x
  BY <1>3, Wrapped
<1>5. CASE s.unit = "second"
  BY <1>2, <1>4, <1>5 DEF Ticks, LongEnough
<1>6. CASE s.unit # "second"
  <2>0. x + MSECONDS <= TimeSpan
    BY <1>1, <1>2, <1>6 DEF Fits
  <2>1. PICK k \in Nat : k = DIV_ROUND_UP(x, MSECONDS) /\ k * MSECONDS >= x
    BY <2>0, RoundsUp
  <2>2. k <= passed
    BY <1>2, <1>4, <1>6, <2>1 DEF Ticks
  <2>3. PICK d \in Nat : passed = k + d
    <3>1. passed - k \in Nat /\ passed = k + (passed - k)
      BY <2>2
    <3> QED
      BY <3>1
  <2>4. passed * MSECONDS = k * MSECONDS + d * MSECONDS
    BY <1>1, <2>3
  <2>5. PICK u \in Nat, v \in Nat : u = k * MSECONDS /\ v = d * MSECONDS
    BY <1>1
  <2>6. passed * MSECONDS >= x
    BY <2>1, <2>4, <2>5
  <2> QED
    BY <1>2, <1>6, <2>6 DEF LongEnough
<1> QED
  BY <1>5, <1>6

-----------------------------------------------------------------------------
(* The invariant holds, and no sleep ends early.                           *)

\* The first state.
LEMMA SleepInitInv ==
  ASSUME TimerInit
  PROVE  SleepInv
<1>1. /\ total_times = 0 \/ total_times \in FirstTimes
      /\ now = 0 /\ sleep = [t \in Threads |-> NULL]
      /\ start = [t \in Threads |-> 0] /\ begin = [t \in Threads |-> 0]
  BY DEF TimerInit
<1>2. TimeSpan \in Nat \ {0} /\ FirstTimes \subseteq 0 .. TimeSpan - 1
  BY TimerAssumption
<1>3. total_times \in Nat /\ total_times < TimeSpan
  <2>1. CASE total_times = 0
    BY <1>2, <2>1
  <2>2. CASE total_times \in FirstTimes
    <3>1. total_times \in 0 .. TimeSpan - 1
      BY <1>2, <2>2
    <3> QED
      BY <1>2, <3>1
  <2> QED
    BY <1>1, <2>1, <2>2
<1> QED
  BY <1>1, <1>3 DEF SleepInv, SleepTypes, SleeperInv

\* What a step does to the sleeps: one of them begins or ends, or it leaves
\* them as they are and lets time pass.
Calls ==
  /\ total_times' = total_times /\ now' = now
  /\ \E t \in Threads :
       \/ \E s \in Sleeps : /\ sleep[t] = NULL
                            /\ sleep' = [sleep EXCEPT ![t] = s]
                            /\ start' = [start EXCEPT ![t] = total_times]
                            /\ begin' = [begin EXCEPT ![t] = now]
       \/ /\ sleep[t] # NULL /\ Due(t)
          /\ sleep' = [sleep EXCEPT ![t] = NULL]
          /\ start' = [start EXCEPT ![t] = 0]
          /\ begin' = [begin EXCEPT ![t] = 0]

Passes ==
  /\ UNCHANGED <<sleep, start, begin>>
  /\ \/ total_times' = total_times /\ now' = now
     \/ total_times' = (total_times + 1) % TimeSpan /\ now' = now + 1

\* Every step is one of the two.
LEMMA SleepSteps ==
  ASSUME [TimerNext]_timerVars
  PROVE  Calls \/ Passes
<1>1. CASE TimerKernel \/ main_intr_enable \/ UNCHANGED timerVars
  BY <1>1 DEF TimerKernel, main_intr_enable, timerVars, Passes
<1>2. CASE tick
  BY <1>2 DEF tick, Passes
<1>3. ASSUME NEW t \in Threads, sleep_by_ticks(t) PROVE Calls \/ Passes
  BY <1>3 DEF sleep_by_ticks, sleep_yield, sleep_return, Calls, Passes
<1>4. ASSUME NEW t \in Threads, NEW s \in Sleeps, sleep_by(t, s)
      PROVE  Calls
  BY <1>4 DEF sleep_by, Calls
<1> QED
  BY <1>1, <1>2, <1>3, <1>4 DEF TimerNext

\* A tick keeps a sleeper in step.
LEMMA TickInStep ==
  ASSUME SleepTypes, NEW a \in Nat, NEW b \in Nat, InStep(a, b),
         total_times' = (total_times + 1) % TimeSpan, now' = now + 1
  PROVE  InStep(a, b)'
<1>1. /\ total_times \in Nat /\ total_times < TimeSpan /\ now \in Nat
      /\ TimeSpan \in Nat \ {0} /\ a < TimeSpan /\ b <= now
  BY TimerAssumption DEF SleepTypes, InStep
<1>2. now - b \in Nat /\ now' - b = (now - b) + 1 /\ b <= now'
  BY <1>1
<1>3. PICK e \in Nat : e = now - b
  BY <1>2
<1>4. now' - b = e + 1
  BY <1>2, <1>3
<1>5. CASE total_times + 1 < TimeSpan
  <2>1. total_times' = total_times + 1
    BY <1>1, <1>5, Wrapped
  <2> QED
    BY <1>1, <1>2, <1>3, <1>4, <2>1 DEF InStep
<1>6. CASE total_times + 1 >= TimeSpan
  <2>1. total_times + 1 = TimeSpan
    BY <1>1, <1>6
  <2>2. total_times' = 0
    <3>1. (total_times + 1) % TimeSpan = (total_times + 1) - TimeSpan
      BY <1>1, <2>1, Wrapped
    <3> QED
      BY <1>1, <2>1, <3>1
  <2>3. CASE total_times = a + e
    <3>1. total_times' + TimeSpan = a + (e + 1)
      BY <1>1, <1>3, <2>1, <2>2, <2>3
    <3> QED
      BY <1>1, <1>2, <1>4, <3>1 DEF InStep
  <2>4. CASE total_times + TimeSpan = a + e
    <3>1. e + 1 >= TimeSpan
      BY <1>1, <1>3, <2>1, <2>4
    <3> QED
      BY <1>1, <1>2, <1>4, <3>1 DEF InStep
  <2>5. CASE e >= TimeSpan
    <3>1. e + 1 >= TimeSpan
      BY <1>1, <1>3, <2>5
    <3> QED
      BY <1>1, <1>2, <1>4, <3>1 DEF InStep
  <2> QED
    BY <1>3, <2>3, <2>4, <2>5 DEF InStep
<1> QED
  BY <1>1, <1>5, <1>6

\* The invariant is kept.
LEMMA SleepStepInv ==
  ASSUME SleepInv, [TimerNext]_timerVars
  PROVE  SleepInv'
<1>1. /\ total_times \in Nat /\ total_times < TimeSpan /\ now \in Nat
      /\ TimeSpan \in Nat \ {0}
      /\ sleep \in [Threads -> Sleeps \cup {NULL}]
      /\ start \in [Threads -> Nat] /\ begin \in [Threads -> Nat]
  BY TimerAssumption DEF SleepInv, SleepTypes
<1>2. CASE Passes
  <2>0. sleep' = sleep /\ start' = start /\ begin' = begin
    BY <1>2 DEF Passes
  <2>1. CASE total_times' = (total_times + 1) % TimeSpan /\ now' = now + 1
    <3>1. total_times' \in Nat /\ total_times' < TimeSpan /\ now' \in Nat
      BY <1>1, <2>1, Wrapped
    <3>2. ASSUME NEW t \in Threads, sleep[t] # NULL
          PROVE  InStep(start[t], begin[t])'
      <4>1. PICK a \in Nat, b \in Nat : a = start[t] /\ b = begin[t]
        BY <1>1
      <4>2. InStep(a, b)
        BY <3>2, <4>1 DEF SleepInv, SleeperInv
      <4>3. InStep(a, b)'
        BY <2>1, <4>2, TickInStep DEF SleepInv
      <4> QED
        BY <2>0, <4>1, <4>3 DEF InStep
    <3> QED
      BY <1>1, <2>0, <3>1, <3>2 DEF SleepInv, SleepTypes, SleeperInv
  <2>2. CASE total_times' = total_times /\ now' = now
    BY <2>0, <2>2 DEF SleepInv, SleepTypes, SleeperInv, InStep
  <2> QED
    BY <1>2, <2>1, <2>2 DEF Passes
<1>3. CASE Calls
  <2>1. total_times' = total_times /\ now' = now
    BY <1>3 DEF Calls
  <2>2. ASSUME NEW t \in Threads, NEW s \in Sleeps,
               sleep' = [sleep EXCEPT ![t] = s],
               start' = [start EXCEPT ![t] = total_times],
               begin' = [begin EXCEPT ![t] = now]
        PROVE  SleepInv'
    <3>1. /\ sleep' \in [Threads -> Sleeps \cup {NULL}]
          /\ start' \in [Threads -> Nat] /\ begin' \in [Threads -> Nat]
      BY <1>1, <2>2
    <3>2. \A u \in Threads \ {t} : /\ sleep'[u] = sleep[u]
                                   /\ start'[u] = start[u] /\ begin'[u] = begin[u]
      BY <1>1, <2>2
    <3>3. sleep'[t] = s /\ start'[t] = total_times /\ begin'[t] = now
      BY <1>1, <2>2
    <3>4. ASSUME NEW u \in Threads, sleep'[u] # NULL
          PROVE  InStep(start[u], begin[u])'
      <4>1. CASE u = t
        BY <1>1, <2>1, <3>3, <4>1 DEF InStep
      <4>2. CASE u # t
        BY <2>1, <3>2, <3>4, <4>2 DEF SleepInv, SleeperInv, InStep
      <4> QED
        BY <4>1, <4>2
    <3> QED
      BY <1>1, <2>1, <3>1, <3>4 DEF SleepInv, SleepTypes, SleeperInv
  <2>3. ASSUME NEW t \in Threads, sleep' = [sleep EXCEPT ![t] = NULL],
               start' = [start EXCEPT ![t] = 0],
               begin' = [begin EXCEPT ![t] = 0]
        PROVE  SleepInv'
    <3>1. /\ sleep' \in [Threads -> Sleeps \cup {NULL}]
          /\ start' \in [Threads -> Nat] /\ begin' \in [Threads -> Nat]
      BY <1>1, <2>3
    <3>2. \A u \in Threads : sleep'[u] # NULL =>
             sleep'[u] = sleep[u] /\ start'[u] = start[u] /\ begin'[u] = begin[u]
      BY <1>1, <2>3
    <3>3. ASSUME NEW u \in Threads, sleep'[u] # NULL
          PROVE  InStep(start[u], begin[u])'
      BY <2>1, <3>2, <3>3 DEF SleepInv, SleeperInv, InStep
    <3> QED
      BY <1>1, <2>1, <3>1, <3>3 DEF SleepInv, SleepTypes, SleeperInv
  <2> QED
    BY <1>3, <2>2, <2>3 DEF Calls
<1> QED
  BY <1>2, <1>3, SleepSteps

\* A sleep that ends has lasted its ticks, unless the sum of sleep_by_ticks
\* has wrapped and the counter has not.
LEMMA EndsDue ==
  ASSUME SleepInv, [TimerNext]_timerVars, NEW t \in Threads,
         sleep[t] # NULL, sleep'[t] = NULL,
         SumWraps(t) => CounterWrapped(t)
  PROVE  /\ sleep[t] \in Sleeps
         /\ Elapsed(t) \in Nat
         /\ Ticks(sleep[t]) <= Elapsed(t)
<1>1. /\ total_times \in Nat /\ total_times < TimeSpan /\ now \in Nat
      /\ TimeSpan \in Nat \ {0}
      /\ sleep \in [Threads -> Sleeps \cup {NULL}]
      /\ start \in [Threads -> Nat] /\ begin \in [Threads -> Nat]
  BY TimerAssumption DEF SleepInv, SleepTypes
<1>2. sleep[t] \in Sleeps
  BY <1>1
<1>3. Due(t)
  <2>1. Calls
    BY SleepSteps DEF Passes
  <2>2. PICK u \in Threads :
          /\ \E s \in Sleeps \cup {NULL} : sleep' = [sleep EXCEPT ![u] = s]
          /\ sleep[u] = NULL \/ Due(u)
    BY <2>1 DEF Calls
  <2>3. u = t
    BY <1>1, <2>2
  <2> QED
    BY <2>2, <2>3
<1>4. PICK a \in Nat, b \in Nat, k \in Nat :
        a = start[t] /\ b = begin[t] /\ k = Ticks(sleep[t]) /\ k < TimeSpan
  BY <1>1, <1>2, TicksType
<1>5. InStep(a, b)
  BY <1>4 DEF SleepInv, SleeperInv
<1>6. PICK e \in Nat : e = now - b
  BY <1>1, <1>5 DEF InStep
<1>7. Elapsed(t) = e
  BY <1>4, <1>6 DEF Elapsed
<1>8. /\ a < TimeSpan
      /\ \/ total_times = a + e
         \/ total_times + TimeSpan = a + e
         \/ e >= TimeSpan
  BY <1>5, <1>6 DEF InStep
<1>9. (a + k) % TimeSpan <= total_times
  BY <1>3, <1>4 DEF Due
<1>10. a + k >= TimeSpan => total_times < a \/ e >= TimeSpan
  BY <1>4, <1>7 DEF SumWraps, CounterWrapped
<1>11. k <= e
  <2>1. CASE e >= TimeSpan
    BY <1>1, <1>4, <1>6, <2>1
  <2>2. CASE a + k < TimeSpan
    <3>1. (a + k) % TimeSpan = a + k
      BY <2>2, Wrapped
    <3> QED
      BY <1>1, <1>4, <1>6, <1>8, <1>9, <3>1
  <2>3. CASE a + k >= TimeSpan /\ e < TimeSpan
    <3>1. (a + k) % TimeSpan = (a + k) - TimeSpan
      BY <1>1, <1>4, <1>8, <2>3, Wrapped
    <3>2. total_times < a
      BY <1>1, <1>6, <1>10, <2>3
    <3>3. total_times + TimeSpan = a + e
      BY <1>1, <1>6, <1>8, <2>3, <3>2
    <3> QED
      BY <1>1, <1>4, <1>6, <1>9, <3>1, <3>3
  <2> QED
    BY <1>1, <1>4, <1>6, <2>1, <2>2, <2>3
<1> QED
  BY <1>2, <1>4, <1>7, <1>11

(***************************************************************************)
(* sleep_by_second and sleep_by_msecond return early in no other case than *)
(* the two NeverWakesEarly names, however the sleepers are scheduled,      *)
(* whichever of them yield to each other and however often total_times     *)
(* wraps: the rounding of the milliseconds loses no tick, and a comparison *)
(* across the wrap-around of the counter does not end a sleep too soon.    *)
(***************************************************************************)
THEOREM NoneEarly ==
  TimerSpec => NeverWakesEarly
<1> DEFINE Waits ==
      \A t \in Threads :
        /\ sleep[t] # NULL /\ sleep'[t] = NULL
        /\ Fits(sleep[t])
        /\ SumWraps(t) => CounterWrapped(t)
        => LongEnough(sleep[t], Elapsed(t))
<1>1. TimerInit => SleepInv
  BY SleepInitInv
<1>2. SleepInv /\ [TimerNext]_timerVars => SleepInv'
  BY SleepStepInv
<1>3. SleepInv /\ [TimerNext]_timerVars => [Waits]_timerVars
  BY EndsDue, TicksEnough
<1> QED
  BY <1>1, <1>2, <1>3, PTL DEF TimerSpec, NeverWakesEarly
=============================================================================
