----------------------------- MODULE Allocator -----------------------------
(***************************************************************************)
(* What sys_malloc and sys_free promise: the bytes of an allocation belong *)
(* to its caller alone until the caller frees them.  Where they are, and   *)
(* what the heap keeps for itself, is not part of the promise.             *)
(***************************************************************************)
EXTENDS Naturals

CONSTANTS Sizes   \* the sizes callers ask for

VARIABLE live     \* the allocations <<address, size>> callers have

Bytes(a) == a[1] .. a[1] + a[2] - 1

Init == live = {}

Malloc(ptr, size) ==
  /\ \A a \in live : a[1] # ptr /\ Bytes(a) \cap Bytes(<<ptr, size>>) = {}
  /\ live' = live \cup {<<ptr, size>>}

Free(a) == live' = live \ {a}

Next == \/ \E a \in live' : a[2] \in Sizes /\ Malloc(a[1], a[2])
        \/ \E a \in live : Free(a)

Spec == Init /\ [][Next]_live
=============================================================================
