------------------------------- MODULE IoQueue -------------------------------
(***************************************************************************)
(* The keyboard buffer: device/io_queue.c between the keyboard interrupt,  *)
(* which puts characters, and threads that get them.                       *)
(*                                                                         *)
(* The threads, the idle thread, the clock and the semaphores are those of *)
(* Sched and Lock; the semaphores slots, items and mutex take the place of *)
(* the mutexes there.  The interrupt handler runs on the kernel stack of   *)
(* the thread it interrupts, with interrupts off: when it waits for a      *)
(* semaphore, it is that thread that is blocked.  io_queue_getchar runs    *)
(* with interrupts on and can be interrupted anywhere.                     *)
(***************************************************************************)
EXTENDS Lock, Integers, FiniteSets

CONSTANTS
  slots, items, mutex,  \* the semaphores of an io_queue_t
  BUF_SIZE,             \* the characters it can hold, 64
  Readers,              \* the threads that call io_queue_getchar
  Chars,                \* the characters that are typed
  MaxKeys               \* bound: how many of them

\* The points of io_queue_putchar and of io_queue_getchar.
PutPoints == {"put_slots", "put_mutex", "put_store", "put_up_mutex",
              "put_up_items", "put_iret"}
GetPoints == {"get_items", "get_mutex", "get_read", "get_front",
              "get_up_mutex", "get_up_slots"}
IdlePoints == {"idle", "parked", "sti_hlt", "halted"}
Points == PutPoints \cup GetPoints \cup IdlePoints \cup {"run"}

ASSUME IoQueueAssumption ==
  /\ Mutexes = {slots, items, mutex} /\ Cardinality(Mutexes) = 3
  /\ BUF_SIZE \in 1 .. 255 /\ MaxKeys \in Nat
  /\ IsFiniteSet(Threads) /\ Readers \subseteq Threads \ {idle}
  /\ NULL \notin Chars \cup Mutexes \cup Points

VARIABLES
  buffer, front, rear,  \* the other fields of the io_queue_t
  typed,   \* the argument of a thread's io_queue_putchar, or NULL
  got,     \* the local c of a thread's io_queue_getchar, or NULL
  resume,  \* where an interrupted thread goes on, NULL outside the handler
  unread,  \* the characters stored and not read, oldest first
  keys     \* how many were typed

queueVars == <<buffer, front, rear, unread>>
vars == <<schedVars, lockVars, queueVars, typed, got, resume, keys>>

\* io_queue_init, and the threads as boot leaves them.
Init ==
  /\ Started
  /\ value = [s \in Mutexes |-> CASE s = slots -> BUF_SIZE
                                  [] s = items -> 0
                                  [] s = mutex -> 1]
  /\ waiters = [s \in Mutexes |-> <<>>]
  /\ holder = [s \in Mutexes |-> NULL]
  /\ recursion = [s \in Mutexes |-> 0]
  /\ arg = [t \in Threads |-> NULL]
  /\ buffer = [i \in 0 .. BUF_SIZE - 1 |-> NULL]
  /\ front = 0 /\ rear = 0 /\ unread = <<>>
  /\ typed = [t \in Threads |-> NULL] /\ got = [t \in Threads |-> NULL]
  /\ resume = [t \in Threads |-> NULL] /\ keys = 0

\* What a call of sem_down or sem_up leaves alone.
SemFrame == UNCHANGED <<holder, recursion, arg, queueVars, typed, got, resume,
                        keys>>

\* What a step without one leaves alone, but for pc.
PlainFrame == UNCHANGED <<curr, ready, status, ava, ctx, saved, panic,
                          lockVars>>

-----------------------------------------------------------------------------
(* The keyboard interrupt, for a key with a character.                     *)

keyboard_interrupt(c) ==
  /\ panic = "none" /\ intr = ON /\ ctx[curr] = "none" /\ keys < MaxKeys
  /\ intr' = OFF
  /\ keys' = keys + 1
  /\ typed' = [typed EXCEPT ![curr] = c]
  /\ resume' = [resume EXCEPT ![curr] = LeaveHlt[curr]]
  /\ Goto(curr, "put_slots")
  /\ PlainFrame /\ UNCHANGED <<queueVars, got>>

\* Mutant: io_queue_putchar does not wait for a free slot.
put_slots_NoWait(t) ==
  /\ At(t, "put_slots")
  /\ value' = [value EXCEPT ![slots] = IF @ = 0 THEN 0 ELSE @ - 1]
  /\ Goto(t, "put_mutex")
  /\ UNCHANGED <<intr, curr, ready, status, ava, ctx, saved, panic, waiters>>
  /\ SemFrame

put_slots(t) ==
  At(t, "put_slots") /\ sem_down(t, slots, "put_mutex") /\ SemFrame

put_mutex(t) ==
  At(t, "put_mutex") /\ sem_down(t, mutex, "put_store") /\ SemFrame

put_store(t) ==
  /\ At(t, "put_store")
  /\ buffer' = [buffer EXCEPT ![rear] = typed[t]]
  /\ rear' = (rear + 1) % BUF_SIZE
  /\ unread' = Append(unread, typed[t])
  /\ typed' = [typed EXCEPT ![t] = NULL]
  /\ Goto(t, "put_up_mutex")
  /\ PlainFrame /\ UNCHANGED <<intr, front, got, resume, keys>>

put_up_mutex(t) ==
  /\ At(t, "put_up_mutex")
  /\ sem_up(mutex) /\ Goto(t, "put_up_items") /\ SemFrame

put_up_items(t) ==
  /\ At(t, "put_up_items")
  /\ sem_up(items) /\ Goto(t, "put_iret") /\ SemFrame

\* The iretd to the interrupted code.
put_iret(t) ==
  /\ At(t, "put_iret")
  /\ intr' = ON
  /\ Goto(t, resume[t])
  /\ resume' = [resume EXCEPT ![t] = NULL]
  /\ PlainFrame /\ UNCHANGED <<queueVars, typed, got, keys>>

-----------------------------------------------------------------------------
(* io_queue_getchar.                                                       *)

io_queue_getchar(t) ==
  /\ At(t, "run") /\ t \in Readers
  /\ Goto(t, "get_items")
  /\ PlainFrame /\ UNCHANGED <<intr, queueVars, typed, got, resume, keys>>

get_items(t) ==
  At(t, "get_items") /\ sem_down(t, items, "get_mutex") /\ SemFrame

get_mutex(t) ==
  At(t, "get_mutex") /\ sem_down(t, mutex, "get_read") /\ SemFrame

get_read(t) ==
  /\ At(t, "get_read")
  /\ got' = [got EXCEPT ![t] = buffer[front]]
  /\ Goto(t, "get_front")
  /\ PlainFrame /\ UNCHANGED <<intr, queueVars, typed, resume, keys>>

get_front(t) ==
  /\ At(t, "get_front")
  /\ front' = (front + 1) % BUF_SIZE
  /\ unread' = Tail(unread)
  /\ Goto(t, "get_up_mutex")
  /\ PlainFrame /\ UNCHANGED <<intr, buffer, rear, typed, got, resume, keys>>

get_up_mutex(t) ==
  /\ At(t, "get_up_mutex")
  /\ sem_up(mutex) /\ Goto(t, "get_up_slots") /\ SemFrame

\* Mutant: the slot is not given back.
get_up_slots_Skip(t) ==
  /\ At(t, "get_up_slots")
  /\ got' = [got EXCEPT ![t] = NULL]
  /\ Goto(t, "run")
  /\ PlainFrame /\ UNCHANGED <<intr, queueVars, typed, resume, keys>>

get_up_slots(t) ==
  /\ At(t, "get_up_slots")
  /\ sem_up(slots) /\ Goto(t, "run")
  /\ got' = [got EXCEPT ![t] = NULL]
  /\ UNCHANGED <<holder, recursion, arg, queueVars, typed, resume, keys>>

-----------------------------------------------------------------------------
Handler(t) == \/ put_slots(t) \/ put_mutex(t) \/ put_store(t)
              \/ put_up_mutex(t) \/ put_up_items(t) \/ put_iret(t)

Reader(t) == \/ io_queue_getchar(t) \/ get_items(t) \/ get_mutex(t)
             \/ get_read(t) \/ get_front(t) \/ get_up_mutex(t)
             \/ get_up_slots(t)

Kernel ==
  /\ \/ kthread \/ intr_exit \/ idle_block \/ idle_unblocked \/ idle_hlt
     \/ time_intr_handler
  /\ UNCHANGED <<lockVars, queueVars, typed, got, resume, keys>>

Next == \/ Kernel
        \/ \E c \in Chars : keyboard_interrupt(c)
        \/ \E t \in Threads : Handler(t) \/ Reader(t)

Spec == Init /\ [][Next]_vars

-----------------------------------------------------------------------------
(* Properties.                                                             *)

(***************************************************************************)
(* The buffer holds the characters that were stored and not read, in order *)
(* and from front to rear: io_queue_putchar never overwrites one, and      *)
(* io_queue_getchar always takes the oldest, whichever threads the         *)
(* handler interrupted or blocked.                                         *)
(***************************************************************************)
BufferHoldsUnread ==
  panic = "none" =>
    /\ Len(unread) <= BUF_SIZE
    /\ rear = (front + Len(unread)) % BUF_SIZE
    /\ \A i \in 1 .. Len(unread) :
         buffer[(front + i - 1) % BUF_SIZE] = unread[i]
    /\ \A t \in Threads : At(t, "get_front") => got[t] = Head(unread)

\* The threads that are at one of these points, in the interrupted code too.
CountAt(points) ==
  Cardinality({t \in Threads : {pc[t], resume[t]} \cap points # {}})

(***************************************************************************)
(* The semaphores count what they stand for: slots the places no character *)
(* is in or on its way to, items the characters no reader has claimed, and *)
(* mutex has one owner.                                                    *)
(***************************************************************************)
SemaphoresCount ==
  panic = "none" =>
    /\ value[slots] + Len(unread) + CountAt({"put_mutex", "put_store"})
         + CountAt({"get_up_mutex", "get_up_slots"}) = BUF_SIZE
    /\ value[items] + CountAt({"get_mutex", "get_read", "get_front"})
         + CountAt({"put_up_mutex", "put_up_items"}) = Len(unread)
    /\ value[mutex] + CountAt({"get_read", "get_front", "get_up_mutex"})
         + CountAt({"put_store", "put_up_mutex"}) = 1

\* The point at which a thread waits for a semaphore.
WaitPoints(s) == CASE s = slots -> {"put_slots"}
                   [] s = items -> {"get_items"}
                   [] s = mutex -> {"put_mutex", "get_mutex"}

\* No thread is left waiting for a semaphore that is free without one that
\* was woken and will look at it again.
NoLostWakeup ==
  panic = "none" =>
    \A s \in Mutexes : value[s] > 0 /\ waiters[s] # <<>> =>
      \E t \in Threads : /\ pc[t] \in WaitPoints(s) /\ saved[t] # NULL
                         /\ status[t] \in {"READY", "RUNNING"}

(***************************************************************************)
(* The ASSERTs of sem_down, sem_up, thread_unblock and schedule (no thread *)
(* is put into a list it is in, what is unblocked was blocked) can fail in *)
(* one way only: a key interrupted the idle thread, its handler waits, and *)
(* schedule, with no other thread to run, unblocks the idle thread without *)
(* taking it out of the waiters.  No other thread fails one.               *)
(***************************************************************************)
AssertFailsInIdleOnly ==
  panic # "none" => curr = idle /\ pc[idle] \in {"put_slots", "put_mutex"}
=============================================================================
