----------------------------- MODULE MCIoQueue -----------------------------
(* Instances of IoQueue.                                                   *)
EXTENDS IoQueue

CONSTANTS r1, r2

MCThreads  == {main, idle, r1, r2}
MCReaders  == {r1, r2}
MCSems     == {slots, items, mutex}

\* Every tick ends a slice.
MCPriority == [t \in Threads |-> 0]
=============================================================================
