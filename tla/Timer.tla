------------------------------- MODULE Timer -------------------------------
(***************************************************************************)
(* The clock and the sleeps of device/timer.c, over the scheduler.         *)
(*                                                                         *)
(* A thread that sleeps is never blocked: it looks at total_times, which   *)
(* the clock handler counts, and yields, until its time has come.  Threads *)
(* sleep after boot, and main sleeps during boot, when spin_wait of        *)
(* device/disk.c finds a busy drive: there interrupts are off.             *)
(***************************************************************************)
EXTENDS Sched

CONSTANTS
  TICKS_PER_SECOND,  \* 100000
  MSECONDS,          \* the milliseconds of a second, 1000
  TimeSpan,          \* the values of a uint32_t, 2^32
  FirstTimes,        \* the values of total_times at which a run begins after
                     \* boot
  MaxTicks,          \* bound: the ticks that are counted; then the time stays
  MaxSleep           \* bound: the longest argument of a sleep

ASSUME TimerAssumption ==
  /\ {TICKS_PER_SECOND, MSECONDS, TimeSpan} \subseteq Nat \ {0}
  /\ FirstTimes \subseteq 0 .. TimeSpan - 1
  /\ MaxTicks \in Nat /\ MaxSleep \in Nat

VARIABLES
  total_times,  \* the ticks since boot, a uint32_t
  sleep,        \* the sleep a thread has called for, or NULL
  start,        \* the local of its sleep_by_ticks
  boot,         \* main has yet to turn interrupts on
  now,          \* history: the ticks of the run, which do not wrap
  begin         \* history: the value of now when the sleep was called for

timerVars == <<schedVars, total_times, sleep, start, boot, now, begin>>

\* main during boot, or every thread at some time after it.
TimerInit ==
  /\ \/ Booting /\ boot = TRUE /\ total_times = 0
     \/ Started /\ boot = FALSE /\ total_times \in FirstTimes
  /\ now = 0
  /\ begin = [t \in Threads |-> 0]
  /\ sleep = [t \in Threads |-> NULL]
  /\ start = [t \in Threads |-> 0]

-----------------------------------------------------------------------------
(* The sleeps.                                                             *)

\* Mutant: the division rounds down.
DIV_ROUND_UP_Down(x, n) == x \div n

DIV_ROUND_UP(x, n) == ((x + n - 1) % TimeSpan) \div n

\* The argument of sleep_by_ticks in sleep_by_second and sleep_by_msecond.
Ticks(s) ==
  IF s.unit = "second" THEN (s.n * TICKS_PER_SECOND) % TimeSpan
  ELSE DIV_ROUND_UP((s.n * TICKS_PER_SECOND) % TimeSpan, MSECONDS)

\* A thread calls one of the two.
sleep_by(t, s) ==
  /\ At(t, "run") /\ t # idle /\ sleep[t] = NULL
  /\ sleep' = [sleep EXCEPT ![t] = s]
  /\ start' = [start EXCEPT ![t] = total_times]
  /\ begin' = [begin EXCEPT ![t] = now]
  /\ UNCHANGED <<schedVars, total_times, boot, now>>

Due(t) == (start[t] + Ticks(sleep[t])) % TimeSpan <= total_times

\* Mutant: the tick at which the sleep began is counted again on every pass.
sleep_yield_Restarts(t) ==
  /\ At(t, "run") /\ sleep[t] # NULL /\ ~Due(t)
  /\ thread_yield(t)
  /\ start' = [start EXCEPT ![t] = total_times]
  /\ UNCHANGED <<total_times, sleep, boot, now, begin>>

\* The loop of sleep_by_ticks; an interrupt between the comparison and the
\* start of thread_yield makes the thread yield once more at most.
sleep_yield(t) ==
  /\ At(t, "run") /\ sleep[t] # NULL /\ ~Due(t)
  /\ thread_yield(t)
  /\ UNCHANGED <<total_times, sleep, start, boot, now, begin>>

sleep_return(t) ==
  /\ At(t, "run") /\ sleep[t] # NULL /\ Due(t)
  /\ sleep' = [sleep EXCEPT ![t] = NULL]
  /\ start' = [start EXCEPT ![t] = 0]
  /\ begin' = [begin EXCEPT ![t] = 0]
  /\ UNCHANGED <<schedVars, total_times, boot, now>>

sleep_by_ticks(t) ==
  \/ sleep_yield(t) \/ sleep_return(t)
  \/ yield_return(t) /\ UNCHANGED <<total_times, sleep, start, boot, now, begin>>

-----------------------------------------------------------------------------
\* The end of boot: intr_enable in main.
main_intr_enable ==
  /\ At(main, "run") /\ sleep[main] = NULL /\ boot
  /\ intr' = ON /\ boot' = FALSE
  /\ UNCHANGED <<curr, ready, status, ava, ctx, pc, saved, panic, total_times,
                 sleep, start, now, begin>>

\* The clock handler counts the tick before it looks at the slice.
tick ==
  /\ time_intr_handler
  /\ IF now < MaxTicks
     THEN now' = now + 1 /\ total_times' = (total_times + 1) % TimeSpan
     ELSE UNCHANGED <<now, total_times>>
  /\ UNCHANGED <<sleep, start, boot, begin>>

\* Nothing else blocks here, so that the idle thread, once it is parked, is
\* not needed again.
TimerKernel ==
  /\ kthread \/ intr_exit \/ idle_block
  /\ UNCHANGED <<total_times, sleep, start, boot, now, begin>>

Sleeps == [unit : {"second", "msecond"}, n : 0 .. MaxSleep]

TimerNext ==
  \/ TimerKernel
  \/ tick
  \/ main_intr_enable
  \/ \E t \in Threads : sleep_by_ticks(t) \/ \E s \in Sleeps : sleep_by(t, s)

(***************************************************************************)
(* Fairness, as in Thread: the CPU executes, a thread that is scheduled    *)
(* again and again gets its short steps done, boot does not stop by        *)
(* itself, and the clock interrupt is taken if interrupts are on again and *)
(* again.                                                                  *)
(***************************************************************************)
TimerSpec ==
  /\ TimerInit /\ [][TimerNext]_timerVars
  /\ WF_timerVars(TimerKernel) /\ SF_timerVars(tick)
  /\ SF_timerVars(main_intr_enable)
  /\ \A t \in Threads : SF_timerVars(sleep_by_ticks(t))

-----------------------------------------------------------------------------
(* Properties.                                                             *)

\* The ticks that have passed since a sleep was called for.
Elapsed(t) == now - begin[t]

\* total_times has wrapped since then.
CounterWrapped(t) == total_times < start[t] \/ Elapsed(t) >= TimeSpan

\* The sum of sleep_by_ticks wraps.
SumWraps(t) == start[t] + Ticks(sleep[t]) >= TimeSpan

\* The number of milliseconds or seconds is converted to ticks without loss.
Fits(s) ==
  s.n * TICKS_PER_SECOND + (IF s.unit = "second" THEN 0 ELSE MSECONDS - 1)
    < TimeSpan

\* The ticks are at least as long as the time that was asked for.
LongEnough(s, ticks) ==
  IF s.unit = "second" THEN ticks >= s.n * TICKS_PER_SECOND
  ELSE ticks * MSECONDS >= s.n * TICKS_PER_SECOND

(***************************************************************************)
(* Every sleep ends, although the sleepers keep the CPU busy and yield to  *)
(* each other: the ticks still get in between, and each sleeper looks      *)
(* again.  This holds if `old` of intr_set_status never reads as INTR_ON;  *)
(* otherwise interrupts may stay off after a yield.  Excepted are the      *)
(* sleep of main during boot once the idle thread has blocked, since main  *)
(* then yields to itself with interrupts off and nobody is left who would  *)
(* turn them on; a sleep across the wrap-around of total_times, whose      *)
(* sleeper may look only before its time and after the wrap-around; and a  *)
(* sleep whose time lies behind the last tick of the run.                  *)
(***************************************************************************)
SleepEnds ==
  \A t \in Threads :
    sleep[t] # NULL ~> \/ sleep[t] = NULL
                       \/ t = main /\ boot /\ status[idle] = "BLOCKED"
                       \/ CounterWrapped(t)
                       \/ begin[t] + Ticks(sleep[t]) > MaxTicks

(***************************************************************************)
(* A sleep lasts at least the seconds or milliseconds that were asked for, *)
(* in ticks that really passed, also when total_times wraps before the     *)
(* sleeper looks again.  sleep_by_ticks returns too early in two cases     *)
(* only: the conversion to ticks overflowed in sleep_by_msecond or         *)
(* sleep_by_second, or start + t has wrapped and total_times has not.      *)
(***************************************************************************)
NeverWakesEarly ==
  [][\A t \in Threads :
       /\ sleep[t] # NULL /\ sleep'[t] = NULL
       /\ Fits(sleep[t])
       /\ SumWraps(t) => CounterWrapped(t)
       => LongEnough(sleep[t], Elapsed(t))]_timerVars
=============================================================================
