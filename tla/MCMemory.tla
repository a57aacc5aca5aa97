------------------------------ MODULE MCMemory ------------------------------
(* Instances of Memory: threads of one kind, but for main, are             *)
(* interchangeable.                                                        *)
EXTENDS Memory, TLC

MCSymmetry == Permutations(KThreads \ {main}) \cup Permutations(Procs)

\* Kernel threads have up to two allocations, main one, and processes one
\* and their stack.
MCMaxOwned == [t \in Threads |-> IF t \in KThreads \ {main} THEN 2 ELSE 1]
=============================================================================
