------------------------------ MODULE MCThread ------------------------------
(* Instances of Thread for TLC.                                            *)
EXTENDS Thread, TLC

CONSTANTS t1, t2, t3, pool

MCThreads  == {main, idle, t1, t2, t3}
MCThreads4 == {main, idle, t1, t2}
MCThreads3 == {main, idle, t1}
MCSymmetry == Permutations({t1, t2, t3})

MCMutexes  == {pid_lock, pool}

\* Slices of one and of two ticks.
MCPriority == [t \in Threads |-> IF t = main THEN 1 ELSE 0]

-----------------------------------------------------------------------------
\* After boot, where main has created every other thread.
MCStarted ==
  LET order  == SetToSeq(Threads \ {main, idle})
      Pid(t) == CASE t = main -> 0
                  [] t = idle -> 1
                  [] OTHER    -> 1 + CHOOSE i \in DOMAIN order : order[i] = t
  IN  /\ Started /\ all = <<main, idle>> \o order
      /\ LockInit
      /\ pid = [t \in Threads |-> Pid(t)] /\ next_pid = Cardinality(Threads)
      /\ child = [t \in Threads |-> NULL]
      /\ mode = [t \in Threads |-> "kernel"]
      /\ held = [t \in Threads |-> NULL] /\ nest = [t \in Threads |-> 0]

MCStartedSpec == MCStarted /\ [][Next]_vars /\ Fairness
=============================================================================
