------------------------------- MODULE Mutex -------------------------------
(***************************************************************************)
(* What thread/lock.c promises its callers: a recursive mutex has at most  *)
(* one owner, its owner can take it again, and it is free for the others   *)
(* only when the owner has returned it as many times as it took it.  How   *)
(* the threads wait is not part of the promise.                            *)
(***************************************************************************)
EXTENDS Naturals

CONSTANTS
  Threads,       \* the callers
  Mutexes,       \* the mutex_t objects
  MaxRecursion,  \* bound: the deepest nesting of mutex_lock calls
  NULL           \* no mutex

VARIABLES
  held,   \* the mutex each thread owns, or NULL
  nest    \* how many mutex_lock calls of it the thread has yet to undo

Init ==
  /\ held = [t \in Threads |-> NULL]
  /\ nest = [t \in Threads |-> 0]

\* mutex_lock returns to a thread that did not own m.
Acquire(t, m) ==
  /\ held[t] = NULL /\ \A u \in Threads : held[u] # m
  /\ held' = [held EXCEPT ![t] = m]
  /\ nest' = [nest EXCEPT ![t] = 1]

\* mutex_lock returns to the owner.
AcquireAgain(t, m) ==
  /\ held[t] = m /\ nest[t] < MaxRecursion
  /\ nest' = [nest EXCEPT ![t] = @ + 1]
  /\ UNCHANGED held

\* mutex_unlock is called by the owner.
Release(t, m) ==
  /\ held[t] = m /\ nest[t] > 0
  /\ nest' = [nest EXCEPT ![t] = @ - 1]
  /\ held' = [held EXCEPT ![t] = IF nest[t] = 1 THEN NULL ELSE m]

Next == \E t \in Threads, m \in Mutexes :
          Acquire(t, m) \/ AcquireAgain(t, m) \/ Release(t, m)

Spec == Init /\ [][Next]_<<held, nest>>
=============================================================================
