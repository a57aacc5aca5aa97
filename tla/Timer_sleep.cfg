\* main and another thread sleep; a second has three ticks and two milliseconds.
\* total_times wraps in the runs that begin at 4, and the sum of a sleep does;
\* two seconds or milliseconds overflow the conversion.
CONSTANTS
  Threads = {main, idle, t1}
  main = main
  idle = idle
  NULL = NULL
  Priority <- MCPriority
  OldValues = {"INTR_OFF"}
  TICKS_PER_SECOND = 3
  MSECONDS = 2
  TimeSpan = 6
  FirstTimes = {0, 4}
  MaxTicks = 7
  MaxSleep = 2
SPECIFICATION TimerSpec
PROPERTIES SleepEnds NeverWakesEarly
