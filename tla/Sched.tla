------------------------------- MODULE Sched -------------------------------
(***************************************************************************)
(* The scheduler of thread/thread.c, the interrupt flag of                 *)
(* kernel/interrupt.c and the clock handler of device/timer.c.             *)
(*                                                                         *)
(* There is one CPU.  At every moment exactly one thread, curr, executes;  *)
(* the others are suspended inside switch_to.  The code between            *)
(* INTERRUPT_DISABLE and INTERRUPT_RESTORE runs with the interrupt flag    *)
(* off, so nothing can come between its steps, and each such section is    *)
(* part of one action.  A section that calls schedule ends its action      *)
(* there: the thread that is switched to executes next, with interrupts    *)
(* still off.                                                              *)
(*                                                                         *)
(* Lists (lib/list.c) are sequences of the threads whose gene_list_tag or  *)
(* all_list_tag they link.                                                 *)
(***************************************************************************)
EXTENDS Naturals, Sequences, SequencesExt

CONSTANTS
  Threads,    \* every page that is, or can become, a task_struct
  main,       \* the thread make_main_thread turns main() into
  idle,       \* the thread that thread_init stores in idle_thread
  Priority,   \* the prio each thread is created with
  OldValues,  \* the values the uninitialised `old` of intr_set_status can have
  NULL        \* the null pointer

ON  == "INTR_ON"
OFF == "INTR_OFF"

ASSUME SchedAssumption ==
  /\ main \in Threads /\ idle \in Threads /\ main # idle
  /\ NULL \notin Threads \cup {ON, OFF}
  /\ Priority \in [Threads -> 0 .. 255]
  /\ OldValues \subseteq {ON, OFF} /\ OldValues # {}

\* The task_status values thread_block accepts.
BlockedStates == {"BLOCKED", "WAITING", "HANGING"}

\* UNUSED marks a page that is no task_struct yet.
TaskStatus == {"RUNNING", "READY", "UNUSED"} \cup BlockedStates

VARIABLES
  intr,     \* the interrupt flag of the CPU
  curr,     \* running_thread(): the thread whose kernel stack esp is in
  ready,    \* ready_thread_list
  status,   \* task_struct.status
  ava,      \* task_struct.ava_time
  ctx,      \* how a switched-out thread returns: "start" through kthread,
            \* "iret" through intr_exit, "none" into its own kernel code
  pc,       \* where each thread is in its own code
  saved,    \* the interrupt state saved by an INTERRUPT_DISABLE that a
            \* suspended thread has yet to restore, or NULL
  panic     \* "none", or why panic_spin was entered

schedVars == <<intr, curr, ready, status, ava, ctx, pc, saved, panic>>

\* The state in which main turns interrupts on at the end of boot, if the idle
\* thread has run and blocked before and every other thread was created.
Started ==
  LET others == Threads \ {main, idle}
  IN  /\ intr = ON /\ curr = main /\ panic = "none"
      /\ ready = SetToSeq(others)
      /\ status = [t \in Threads |-> CASE t = main -> "RUNNING"
                                       [] t = idle -> "BLOCKED"
                                       [] OTHER    -> "READY"]
      /\ ava   = Priority
      /\ ctx   = [t \in Threads |-> IF t \in others THEN "start" ELSE "none"]
      /\ pc    = [t \in Threads |-> IF t = idle THEN "parked" ELSE "run"]
      /\ saved = [t \in Threads |-> IF t = idle THEN ON ELSE NULL]

\* The state in which thread_init returns: main runs, idle is ready.
Booting ==
  /\ intr   = OFF
  /\ curr   = main
  /\ ready  = <<idle>>
  /\ status = [t \in Threads |-> CASE t = main -> "RUNNING"
                                   [] t = idle -> "READY"
                                   [] OTHER    -> "UNUSED"]
  /\ ava    = [t \in Threads |-> IF t \in {main, idle} THEN Priority[t] ELSE 0]
  /\ ctx    = [t \in Threads |-> IF t = main THEN "none" ELSE "start"]
  /\ pc     = [t \in Threads |-> IF t = idle THEN "idle" ELSE "run"]
  /\ saved  = [t \in Threads |-> NULL]
  /\ panic  = "none"

-----------------------------------------------------------------------------
(* Interrupt flag and assertions.                                          *)

(***************************************************************************)
(* intr_set_status(state), called with the flag off.  When the flag has to *)
(* change, the code compares its uninitialised local `old` with INTR_ON:   *)
(* it calls intr_disable if they are equal and intr_enable if not.         *)
(***************************************************************************)
INTERRUPT_RESTORE(state) ==
  IF state = OFF
  THEN intr' = OFF
  ELSE \E old \in OldValues : intr' = IF old = ON THEN OFF ELSE ON

(***************************************************************************)
(* A failed ASSERT enters panic_spin, which turns interrupts off and spins *)
(* for ever: no action is enabled once panic is not "none", so what the    *)
(* rest of the failing action assigns is never looked at.                  *)
(***************************************************************************)
ASSERT(cond) == panic' = IF cond THEN "none" ELSE "assert"

\* Thread t executes its own code.
Executing(t) == panic = "none" /\ t = curr /\ ctx[t] = "none"

\* Thread t is at point p of its own code.
At(t, p) == Executing(t) /\ pc[t] = p

Goto(t, p) == pc' = [pc EXCEPT ![t] = p]

-----------------------------------------------------------------------------
(* schedule, with the ready list and the task states its caller leaves.    *)

\* The current thread is still RUNNING only when its time slice is used up.
SliceUsedUp(st) == st[curr] = "RUNNING"

\* The ASSERTs of schedule, and of the thread_unblock(idle_thread) in it.
ScheduleAsserts(rd, st) ==
  /\ SliceUsedUp(st) => curr \notin ToSet(rd)
  /\ (~SliceUsedUp(st) /\ rd = <<>>) => st[idle] \in BlockedStates

schedule(rd, st) ==
  LET queue == IF SliceUsedUp(st) THEN Append(rd, curr)
               ELSE IF rd = <<>> THEN <<idle>>
               ELSE rd
      next  == Head(queue)
  IN  /\ ready' = Tail(queue)
      /\ status' = [t \in Threads |->
                      IF t = next THEN "RUNNING"
                      ELSE IF t = curr /\ SliceUsedUp(st) THEN "READY"
                      ELSE st[t]]
      /\ ava' = IF SliceUsedUp(st)
                THEN [ava EXCEPT ![curr] = Priority[curr]] ELSE ava
      /\ curr' = next
      /\ intr' = OFF

\* thread_unblock(t): to the front of the ready list.
UnblockAsserts(t) == status[t] \in BlockedStates /\ t \notin ToSet(ready)

thread_unblock(t) ==
  /\ ready' = <<t>> \o ready
  /\ status' = [status EXCEPT ![t] = "READY"]

-----------------------------------------------------------------------------
(* Returning to a thread that was switched out.                            *)

\* The first instructions of a new thread: kthread turns interrupts on.
kthread ==
  /\ panic = "none" /\ ctx[curr] = "start"
  /\ ctx' = [ctx EXCEPT ![curr] = "none"]
  /\ intr' = ON
  /\ UNCHANGED <<curr, ready, status, ava, pc, saved, panic>>

\* Return from the clock handler: iretd reloads the flags of the interrupted
\* code, which ran with interrupts on.
intr_exit ==
  /\ panic = "none" /\ ctx[curr] = "iret"
  /\ ctx' = [ctx EXCEPT ![curr] = "none"]
  /\ intr' = ON
  /\ UNCHANGED <<curr, ready, status, ava, pc, saved, panic>>

-----------------------------------------------------------------------------
(* thread_yield and the idle thread.                                       *)

thread_yield(t) ==
  LET rd == Append(ready, t)
      st == [status EXCEPT ![t] = "READY"]
  IN  /\ At(t, "run") /\ t # idle
      /\ saved' = [saved EXCEPT ![t] = intr]
      /\ ASSERT(t \notin ToSet(ready) /\ ScheduleAsserts(rd, st))
      /\ schedule(rd, st)
      /\ Goto(t, "yielded")
      /\ UNCHANGED ctx

\* Mutant: thread_yield turns interrupts on instead of restoring them.
yield_return_Enables(t) ==
  /\ At(t, "yielded")
  /\ intr' = ON
  /\ saved' = [saved EXCEPT ![t] = NULL]
  /\ Goto(t, "run")
  /\ UNCHANGED <<curr, ready, status, ava, ctx, panic>>

\* Mutant: thread_yield forgets INTERRUPT_RESTORE.
yield_return_Forgets(t) ==
  /\ At(t, "yielded")
  /\ saved' = [saved EXCEPT ![t] = NULL]
  /\ Goto(t, "run")
  /\ UNCHANGED <<intr, curr, ready, status, ava, ctx, panic>>

\* INTERRUPT_RESTORE at the end of thread_yield.
yield_return(t) ==
  /\ At(t, "yielded")
  /\ INTERRUPT_RESTORE(saved[t])
  /\ saved' = [saved EXCEPT ![t] = NULL]
  /\ Goto(t, "run")
  /\ UNCHANGED <<curr, ready, status, ava, ctx, panic>>

\* The idle loop: thread_block(BLOCKED), ...
idle_block ==
  LET st == [status EXCEPT ![idle] = "BLOCKED"]
  IN  /\ At(idle, "idle")
      /\ saved' = [saved EXCEPT ![idle] = intr]
      /\ ASSERT(ScheduleAsserts(ready, st))
      /\ schedule(ready, st)
      /\ Goto(idle, "parked")
      /\ UNCHANGED ctx

\* ... which returns when schedule finds nothing else to run, ...
idle_unblocked ==
  /\ At(idle, "parked")
  /\ INTERRUPT_RESTORE(saved[idle])
  /\ saved' = [saved EXCEPT ![idle] = NULL]
  /\ Goto(idle, "sti_hlt")
  /\ UNCHANGED <<curr, ready, status, ava, ctx, panic>>

\* ... and sti; hlt: the CPU sleeps until the next interrupt.
idle_hlt ==
  /\ At(idle, "sti_hlt")
  /\ intr' = ON
  /\ Goto(idle, "halted")
  /\ UNCHANGED <<curr, ready, status, ava, ctx, saved, panic>>

\* An interrupt that finds the CPU halted resumes the idle loop after hlt.
LeaveHlt == [pc EXCEPT ![curr] = IF @ = "halted" THEN "idle" ELSE @]

-----------------------------------------------------------------------------
(* The clock interrupt.                                                    *)

\* Mutant: the clock handler never calls schedule.
time_intr_handler_NoSwitch ==
  /\ panic = "none" /\ intr = ON /\ ctx[curr] = "none"
  /\ pc' = LeaveHlt
  /\ ava' = [ava EXCEPT ![curr] = IF @ = 0 THEN Priority[curr] ELSE @ - 1]
  /\ UNCHANGED <<intr, curr, ready, status, ctx, saved, panic>>

time_intr_handler ==
  /\ panic = "none" /\ intr = ON /\ ctx[curr] = "none"
  /\ pc' = LeaveHlt
  /\ UNCHANGED saved
  /\ \/ /\ ava[curr] = 0
        /\ ASSERT(ScheduleAsserts(ready, status))
        /\ schedule(ready, status)
        /\ ctx' = [ctx EXCEPT ![curr] = "iret"]
     \/ /\ ava[curr] > 0
        /\ ava' = [ava EXCEPT ![curr] = @ - 1]
        /\ UNCHANGED <<intr, curr, ready, status, ctx, panic>>
=============================================================================
