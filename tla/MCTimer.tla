------------------------------ MODULE MCTimer ------------------------------
(* An instance of Timer.                                                   *)
EXTENDS Timer

\* Slices of one and of two ticks.
MCPriority == [t \in Threads |-> IF t = main THEN 1 ELSE 0]
=============================================================================
