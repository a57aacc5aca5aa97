---------------------------- MODULE IoQueueProofs ----------------------------
(***************************************************************************)
(* Proofs about the keyboard driver of Keyboard, for any keys, and about   *)
(* the keyboard buffer of IoQueue, for any number of threads               *)
(* and readers, any size of the buffer up to 255, any keys, and whatever   *)
(* the uninitialised `old` of intr_set_status holds.                       *)
(***************************************************************************)
EXTENDS IoQueue, Keyboard, Facts, FiniteSetTheorems, TLAPS

-----------------------------------------------------------------------------
(***************************************************************************)
(* The driver that fills the queue, device/keyboard.c (Keyboard): its      *)
(* handler never forgets that a modifier was released, for any keys, in    *)
(* any order.                                                              *)
(***************************************************************************)

\* A modifier that is on has a key in D, or in down and k.
Backed(D) == /\ ctrl_down => D \cap Ctrls # {}
             /\ shift_down => D \cap Shifts # {}
             /\ alt_down => D \cap Alts # {}
BackedWith(k) == Backed(down \cup {k})

\* What is left of the code of k on the wire.
Making(k) == \/ wire = MakeBytes(k) /\ ~ext_scancode
             \/ k > 255 /\ wire = <<k % 256>> /\ ext_scancode
Breaking(k) == \/ wire = BreakBytes(k) /\ ~ext_scancode
               \/ k > 255 /\ wire = <<(k % 256) + 128>> /\ ext_scancode

\* Until the break code of a key has arrived, its modifier may still be on.
KeysInv == \/ wire = <<>> /\ ~ext_scancode /\ Backed(down)
           \/ \E k \in Keys : k \in down /\ Making(k) /\ Backed(down)
           \/ \E k \in Keys : Breaking(k) /\ BackedWith(k)

\* The codes of a key.
LEMMA KeyCodes ==
  ASSUME NEW k \in Keys
  PROVE  /\ k \in Nat /\ ~IsBreak(k) /\ IsBreak(k + 128) /\ (k + 128) - 128 = k
         /\ ~(k > 255) => k # 224 /\ k + 128 # 224
         /\ k > 255 => /\ k % 256 # 224 /\ (k % 256) + 128 # 224
                       /\ 57344 + (k % 256) = k /\ 57344 + ((k % 256) + 128) = k + 128
         /\ Known(k) => /\ k % 256 \in Ctrls => k \in Ctrls
                        /\ k % 256 \in Shifts => k \in Shifts
                        /\ k % 256 \in Alts => k \in Alts
<1>1. k \in 1 .. 127 \cup 57345 .. 57471 /\ k # 96 /\ k # 57440
  BY KeyboardAssumption
<1>2. CASE k \in 1 .. 127
  <2>1. k \div 128 = 0 /\ (k + 128) \div 128 = 1 /\ k % 256 = k
    BY <1>2
  <2> QED
    BY <1>1, <1>2, <2>1 DEF IsBreak
<1>3. CASE k \in 57345 .. 57471
  <2>1. k \div 128 = 448 /\ (k + 128) \div 128 = 449 /\ k % 256 = k - 57344
    BY <1>3
  <2>2. 448 % 2 = 0 /\ 449 % 2 = 1
    OBVIOUS
  <2>3. ~IsBreak(k) /\ IsBreak(k + 128)
    BY <2>1, <2>2 DEF IsBreak
  <2>4. Known(k) => k = 57373 \/ k = 57400
    BY <1>3 DEF Known, RIGHT_CTRL_MAKECODE, RIGHT_ALT_MAKECODE
  <2>5. Known(k) => /\ k % 256 \in Ctrls => k \in Ctrls
                    /\ k % 256 \in Shifts => k \in Shifts
                    /\ k % 256 \in Alts => k \in Alts
    BY <2>1, <2>4 DEF Ctrls, Shifts, Alts, LEFT_CTRL_MAKECODE,
       RIGHT_CTRL_MAKECODE, LEFT_SHIFT_MAKECODE, RIGHT_SHIFT_MAKECODE,
       LEFT_ALT_MAKECODE, RIGHT_ALT_MAKECODE
  <2>6. /\ k > 255 /\ k % 256 # 224 /\ (k % 256) + 128 # 224 /\ (k + 128) - 128 = k
        /\ 57344 + (k % 256) = k /\ 57344 + ((k % 256) + 128) = k + 128 /\ k \in Nat
    BY <1>1, <1>3, <2>1
  <2> QED
    BY <2>3, <2>5, <2>6
<1> QED
  BY <1>1, <1>2, <1>3

LEMMA KeysInit ==
  ASSUME KeyboardInit
  PROVE  KeysInv
  BY DEF KeyboardInit, KeysInv, Backed

\* What the codes of a key do to the modifiers.
LEMMA MakeFlags ==
  ASSUME NEW k, make_control(k)
  PROVE  /\ Known(k)
         /\ ctrl_down' => ctrl_down \/ k % 256 \in Ctrls
         /\ shift_down' => shift_down \/ k % 256 \in Shifts
         /\ alt_down' => alt_down \/ k % 256 \in Alts
  BY DEF make_control

LEMMA BreakFlags ==
  ASSUME NEW k, NEW code, break(code), code - 128 = k
  PROVE  /\ ctrl_down' => ctrl_down /\ k \notin Ctrls
         /\ shift_down' => shift_down /\ k \notin Shifts
         /\ alt_down' => alt_down /\ k \notin Alts
  BY DEF break

\* A make code.
LEMMA MakeKeeps ==
  ASSUME NEW k \in Keys, k \in down, Backed(down), make(k), down' = down
  PROVE  Backed(down)'
<1>1. CASE make_char(k) \/ make_unknown(k)
  BY <1>1 DEF make_char, make_unknown, flags, Backed
<1>2. CASE make_control(k)
  <2>1. /\ Known(k)
        /\ ctrl_down' => ctrl_down \/ k % 256 \in Ctrls
        /\ shift_down' => shift_down \/ k % 256 \in Shifts
        /\ alt_down' => alt_down \/ k % 256 \in Alts
    BY <1>2, MakeFlags
  <2> QED
    BY <2>1, KeyCodes DEF Backed, BackedWith
<1> QED
  BY <1>1, <1>2 DEF make

\* A break code.
LEMMA BreakKeeps ==
  ASSUME NEW k \in Keys, BackedWith(k), break(k + 128), down' = down
  PROVE  Backed(down)'
<1>1. (k + 128) - 128 = k
  BY KeyCodes
<1>2. PICK code : code = k + 128
  OBVIOUS
<1>3. break(code) /\ code - 128 = k
  BY <1>1, <1>2
<1>4. /\ ctrl_down' => ctrl_down /\ k \notin Ctrls
      /\ shift_down' => shift_down /\ k \notin Shifts
      /\ alt_down' => alt_down /\ k \notin Alts
  BY <1>3, BreakFlags
<1> QED
  BY <1>4 DEF Backed, BackedWith

LEMMA OnTheWire ==
  ASSUME KeysInv, wire # <<>>
  PROVE  \/ \E k \in Keys : k \in down /\ Making(k) /\ Backed(down)
         \/ \E k \in Keys : Breaking(k) /\ BackedWith(k)
  BY DEF KeysInv

LEMMA KeyByteInv ==
  ASSUME KeysInv, key_byte
  PROVE  KeysInv'
<1> DEFINE scancode == (IF ext_scancode THEN 57344 ELSE 0) + Head(wire)
<1>1. /\ wire # <<>> /\ Head(wire) # 224 /\ wire' = Tail(wire) /\ ~ext_scancode'
      /\ \/ IsBreak(scancode) /\ break(scancode)
         \/ ~IsBreak(scancode) /\ make(scancode)
      /\ down' = down
  BY DEF key_byte
<1>2. ASSUME NEW k \in Keys, k \in down, Making(k), Backed(down) PROVE KeysInv'
  <2>1. scancode = k /\ wire' = <<>>
    <3>1. CASE wire = MakeBytes(k) /\ ~ext_scancode
      BY <1>1, <3>1, KeyCodes DEF MakeBytes
    <3>2. CASE k > 255 /\ wire = <<k % 256>> /\ ext_scancode
      <4>1. Head(wire) = k % 256 /\ Tail(wire) = <<>>
        BY <3>2
      <4> QED
        BY <1>1, <3>2, <4>1, KeyCodes
    <3> QED
      BY <1>2, <3>1, <3>2 DEF Making
  <2>2. make(k)
    <3> HIDE DEF scancode
    <3> QED
      BY <1>1, <2>1, KeyCodes
  <2>3. Backed(down)'
    BY <1>1, <1>2, <2>2, MakeKeeps
  <2> QED
    BY <1>1, <2>1, <2>3 DEF KeysInv
<1>3. ASSUME NEW k \in Keys, Breaking(k), BackedWith(k) PROVE KeysInv'
  <2>1. scancode = k + 128 /\ wire' = <<>>
    <3>1. CASE wire = BreakBytes(k) /\ ~ext_scancode
      BY <1>1, <3>1, KeyCodes DEF BreakBytes
    <3>2. CASE k > 255 /\ wire = <<(k % 256) + 128>> /\ ext_scancode
      <4>1. Head(wire) = (k % 256) + 128 /\ Tail(wire) = <<>>
        BY <3>2
      <4> QED
        BY <1>1, <3>2, <4>1, KeyCodes
    <3> QED
      BY <1>3, <3>1, <3>2 DEF Breaking
  <2>2. break(k + 128)
    <3> HIDE DEF scancode
    <3> QED
      BY <1>1, <2>1, KeyCodes
  <2>3. Backed(down)'
    BY <1>1, <1>3, <2>2, BreakKeeps
  <2> QED
    BY <1>1, <2>1, <2>3 DEF KeysInv
<1>4. wire # <<>>
  BY <1>1
<1>5. \/ \E k \in Keys : k \in down /\ Making(k) /\ Backed(down)
      \/ \E k \in Keys : Breaking(k) /\ BackedWith(k)
  BY <1>4, OnTheWire
<1>6. CASE \E k \in Keys : k \in down /\ Making(k) /\ Backed(down)
  <2>1. PICK k \in Keys : k \in down /\ Making(k) /\ Backed(down)
    BY <1>6
  <2> QED
    BY <1>2, <2>1
<1>7. CASE \E k \in Keys : Breaking(k) /\ BackedWith(k)
  <2>1. PICK k \in Keys : Breaking(k) /\ BackedWith(k)
    BY <1>7
  <2> QED
    BY <1>3, <2>1
<1> QED
  BY <1>5, <1>6, <1>7

LEMMA ExtByteInv ==
  ASSUME KeysInv, ext_byte
  PROVE  KeysInv'
<1>1. /\ wire # <<>> /\ Head(wire) = 224 /\ wire' = Tail(wire) /\ ext_scancode'
      /\ UNCHANGED <<down, ctrl_down, shift_down, alt_down>>
  BY DEF ext_byte, flags
<1>2. ASSUME NEW k \in Keys, Making(k) PROVE Making(k)'
  <2>1. k > 255 /\ wire = <<224, k % 256>>
    BY <1>1, <1>2, KeyCodes DEF Making, MakeBytes
  <2> QED
    BY <1>1, <2>1 DEF Making
<1>3. ASSUME NEW k \in Keys, Breaking(k) PROVE Breaking(k)'
  <2>1. k > 255 /\ wire = <<224, (k % 256) + 128>>
    BY <1>1, <1>3, KeyCodes DEF Breaking, BreakBytes
  <2> QED
    BY <1>1, <2>1 DEF Breaking
<1>4. (Backed(down) => Backed(down)') /\ down' = down
  BY <1>1 DEF Backed, BackedWith
<1>5. \A k : BackedWith(k) => BackedWith(k)'
  BY <1>1 DEF Backed, BackedWith
<1>6. \/ \E k \in Keys : k \in down /\ Making(k) /\ Backed(down)
      \/ \E k \in Keys : Breaking(k) /\ BackedWith(k)
  BY <1>1, OnTheWire
<1>7. CASE \E k \in Keys : k \in down /\ Making(k) /\ Backed(down)
  <2>1. \E k \in Keys : k \in down' /\ Making(k)' /\ Backed(down)'
    BY <1>2, <1>4, <1>7
  <2> QED
    BY <2>1 DEF KeysInv
<1>8. CASE \E k \in Keys : Breaking(k) /\ BackedWith(k)
  <2>1. PICK k \in Keys : Breaking(k) /\ BackedWith(k)
    BY <1>8
  <2>2. Breaking(k)' /\ BackedWith(k)'
    <3>1. Breaking(k)'
      BY <1>3, <2>1
    <3> QED
      BY <1>5, <2>1, <3>1
  <2> QED
    BY <2>2 DEF KeysInv
<1> QED
  BY <1>6, <1>7, <1>8

LEMMA KeysNext ==
  ASSUME KeysInv, [KeyboardNext]_keyboardVars
  PROVE  KeysInv'
<1>1. ASSUME NEW k \in Keys, press(k) PROVE KeysInv'
  <2>1. /\ wire = <<>> /\ wire' = MakeBytes(k) /\ down' = down \cup {k}
        /\ UNCHANGED <<ext_scancode, ctrl_down, shift_down, alt_down>>
    BY <1>1 DEF press, flags
  <2>2. ~ext_scancode /\ Backed(down)
    BY <2>1, KeyCodes DEF KeysInv, Making, Breaking, MakeBytes, BreakBytes
  <2> QED
    BY <2>1, <2>2 DEF KeysInv, Making, Backed
<1>2. ASSUME NEW k \in Keys, release(k) PROVE KeysInv'
  <2>1. /\ wire = <<>> /\ wire' = BreakBytes(k) /\ down' = down \ {k} /\ k \in down
        /\ UNCHANGED <<ext_scancode, ctrl_down, shift_down, alt_down>>
    BY <1>2 DEF release, flags
  <2>2. ~ext_scancode /\ Backed(down)
    BY <2>1, KeyCodes DEF KeysInv, Making, Breaking, MakeBytes, BreakBytes
  <2>3. down' \cup {k} = down
    BY <2>1
  <2> QED
    BY <2>1, <2>2, <2>3 DEF KeysInv, Breaking, Backed, BackedWith
<1>3. CASE UNCHANGED keyboardVars
  BY <1>3 DEF keyboardVars, flags, KeysInv, Making, Breaking, Backed, BackedWith,
     MakeBytes, BreakBytes
<1> QED
  BY <1>1, <1>2, <1>3, KeyByteInv, ExtByteInv DEF KeyboardNext, keyboard_interrupt_hanlder

\* A modifier whose keys are all released does not stay on, whatever keys
\* the keyboard has: a make code that is looked at without its 0xe0 turns a
\* modifier on only for one of its keys, and the break code of that key
\* turns it off.
THEOREM ModifiersReleased == KeyboardSpec => []NoStuckModifier
<1>1. KeyboardInit => KeysInv
  BY KeysInit
<1>2. KeysInv /\ [KeyboardNext]_keyboardVars => KeysInv'
  BY KeysNext
<1>3. KeysInv => NoStuckModifier
  <2>1. ASSUME KeysInv, wire = <<>> PROVE Backed(down)
    BY <2>1, KeyCodes DEF KeysInv, Making, Breaking, MakeBytes, BreakBytes
  <2> QED
    BY <2>1 DEF NoStuckModifier, Backed
<1> QED
  BY <1>1, <1>2, <1>3, PTL DEF KeyboardSpec

-----------------------------------------------------------------------------
(* The inductive invariant of the buffer.                                  *)

USE SchedAssumption, IoQueueAssumption DEF ON, OFF

TypeInv ==
  /\ intr \in {ON, OFF} /\ curr \in Threads
  /\ ready \in Seq(Threads)
  /\ status \in [Threads -> {"RUNNING", "READY", "BLOCKED"}]
  /\ ctx \in [Threads -> {"none", "start", "iret"}]
  /\ pc \in [Threads -> Points]
  /\ saved \in [Threads -> {ON, OFF, NULL}]
  /\ value \in [Mutexes -> Nat]
  /\ waiters \in [Mutexes -> Seq(Threads)]
  /\ resume \in [Threads -> Points \cup {NULL}]

DataInv ==
  /\ buffer \in [0 .. BUF_SIZE - 1 -> Chars \cup {NULL}]
  /\ front \in 0 .. BUF_SIZE - 1 /\ rear \in 0 .. BUF_SIZE - 1
  /\ unread \in Seq(Chars \cup {NULL})
  /\ typed \in [Threads -> Chars \cup {NULL}]
  /\ got \in [Threads -> Chars \cup {NULL}]

\* Where a thread is in its own code, also while it handles an interrupt.
Own(t) == IF resume[t] = NULL THEN pc[t] ELSE resume[t]

\* The calls of sem_down.
Downs == {"put_slots", "put_mutex", "get_items", "get_mutex"}

\* The handler runs in a thread that it interrupted in its own code, and
\* with interrupts off; a thread that saved its flag waits for a semaphore.
PlaceOK(t) ==
  /\ pc[t] \in PutPoints <=> resume[t] # NULL
  /\ resume[t] \notin PutPoints \cup {"parked", "halted"}
  /\ t = idle <=> Own(t) \in IdlePoints
  /\ ctx[t] # "none" => resume[t] = NULL /\ saved[t] = NULL
  /\ saved[t] # NULL => pc[t] \in Downs \cup {"parked"}
  /\ saved[t] # NULL /\ resume[t] # NULL => saved[t] = OFF
  /\ pc[t] = "parked" => saved[t] # NULL

PlaceInv == \A t \in Threads : PlaceOK(t)

\* Whoever has a flag to restore or to return to runs with interrupts off.
FlagInv == ctx[curr] # "none" \/ saved[curr] # NULL \/ resume[curr] # NULL
             => intr = OFF

QueueInv ==
  /\ IsInjective(ready)
  /\ \A t \in Threads : t \in ToSet(ready) <=> status[t] = "READY"
  /\ \A t \in Threads : t = curr <=> status[t] = "RUNNING"

\* A waiter is blocked, unless it is the idle thread, which schedule unblocks
\* when there is nothing else to run; the semaphore is not free then.
Blocked(t, s) ==
  \/ status[t] = "BLOCKED"
  \/ t = idle /\ curr = idle /\ ready = <<>> /\ value[s] = 0

WaitersOK(s) ==
  /\ IsInjective(waiters[s])
  /\ \A t \in ToSet(waiters[s]) :
       pc[t] \in WaitPoints(s) /\ saved[t] # NULL /\ Blocked(t, s)

WaitersInv == \A s \in Mutexes : WaitersOK(s)

\* The threads that were woken from the waiters of s and have yet to look.
Woken(s) == {t \in Threads : /\ pc[t] \in WaitPoints(s) /\ saved[t] # NULL
                             /\ status[t] # "BLOCKED"}

\* Every unit that a waiter of s does not get was given to one that was woken.
WakeInv == \A s \in Mutexes :
             waiters[s] # <<>> => value[s] <= Cardinality(Woken(s))

GotInv == \A t \in Threads : Own(t) = "get_front" => got[t] = Head(unread)

ThreadInv == TypeInv /\ PlaceInv /\ FlagInv /\ QueueInv /\ WaitersInv /\ WakeInv

\* The places from front to rear hold the unread characters.
RingInv ==
  /\ Len(unread) <= BUF_SIZE /\ rear = (front + Len(unread)) % BUF_SIZE
  /\ \A i \in 1 .. Len(unread) :
       buffer[(front + i - 1) % BUF_SIZE] = unread[i]

Inv == /\ panic = "none" => ThreadInv /\ DataInv /\ RingInv /\ GotInv
       /\ SemaphoresCount /\ AssertFailsInIdleOnly

-----------------------------------------------------------------------------
(* The semaphores.                                                         *)

\* The three semaphores are three.
LEMMA Distinct == slots # items /\ slots # mutex /\ items # mutex
<1>1. ASSUME NEW x, NEW y PROVE Cardinality({x, y}) # 3
  <2>1. IsFiniteSet({x}) /\ Cardinality({x}) = 1
    BY FS_Singleton
  <2>2. Cardinality({x} \cup {y}) = IF y \in {x} THEN 1 ELSE 1 + 1
    BY <2>1, FS_AddElement
  <2>3. {x} \cup {y} = {x, y}
    OBVIOUS
  <2>4. Cardinality({x, y}) = IF y \in {x} THEN 1 ELSE 1 + 1
    BY <2>2, <2>3
  <2> QED
    BY <2>4
<1>2. ASSUME NEW x, NEW y PROVE Mutexes # {x, y}
  <2>1. Cardinality(Mutexes) = 3
    OBVIOUS
  <2> QED
    BY <1>1, <2>1
<1>3. ASSUME slots = items PROVE FALSE
  BY <1>2, <1>3, Mutexes = {slots, mutex}
<1>4. ASSUME slots = mutex PROVE FALSE
  BY <1>2, <1>4, Mutexes = {slots, items}
<1>5. ASSUME items = mutex PROVE FALSE
  BY <1>2, <1>5, Mutexes = {slots, items}
<1> QED
  BY <1>3, <1>4, <1>5

\* What each semaphore is waited for at.
LEMMA WaitPointsAre ==
  /\ WaitPoints(slots) = {"put_slots"}
  /\ WaitPoints(items) = {"get_items"}
  /\ WaitPoints(mutex) = {"put_mutex", "get_mutex"}
  /\ \A s \in Mutexes : WaitPoints(s) \subseteq Downs
  /\ \A s, r \in Mutexes : s # r => WaitPoints(s) \cap WaitPoints(r) = {}
<1>1. /\ WaitPoints(slots) = {"put_slots"}
      /\ WaitPoints(items) = {"get_items"}
      /\ WaitPoints(mutex) = {"put_mutex", "get_mutex"}
  BY Distinct DEF WaitPoints
<1> QED
  BY <1>1, Distinct DEF Downs

-----------------------------------------------------------------------------
(* Counting threads.                                                       *)

\* t is at one of these points, possibly in the code it was interrupted in.
In(t, points) == {pc[t], resume[t]} \cap points # {}

\* When one thread moves, the count of a set of points follows it.
LEMMA CountMoves ==
  ASSUME NEW t \in Threads, NEW P,
         \A u \in Threads \ {t} : pc'[u] = pc[u] /\ resume'[u] = resume[u]
  PROVE  /\ CountAt(P) \in Nat /\ CountAt(P)' \in Nat
         /\ CountAt(P)' + (IF In(t, P) THEN 1 ELSE 0)
              = CountAt(P) + (IF In(t, P)' THEN 1 ELSE 0)
         /\ In(t, P) => CountAt(P) >= 1
<1> DEFINE A == {u \in Threads : In(u, P)}
           B == {u \in Threads : In(u, P)'}
           C == A \ {t}
<1>1. CountAt(P) = Cardinality(A) /\ CountAt(P)' = Cardinality(B)
  BY DEF CountAt, In
<1>2. C = B \ {t}
  BY DEF In
<1>3. t \in A <=> In(t, P)
  OBVIOUS
<1>4. t \in B <=> In(t, P)'
  OBVIOUS
<1>5. IsFiniteSet(A) /\ IsFiniteSet(B)
  <2>1. A \in SUBSET Threads /\ B \in SUBSET Threads
    OBVIOUS
  <2> QED
    BY <2>1, FS_Subset
<1> HIDE DEF A, B
<1>6. Cardinality(A) \in Nat /\ Cardinality(B) \in Nat /\ Cardinality(C) \in Nat
  BY <1>5, FS_RemoveElement, FS_CardinalityType
<1>7. Cardinality(C) = IF t \in A THEN Cardinality(A) - 1 ELSE Cardinality(A)
  BY <1>5, FS_RemoveElement
<1>8. Cardinality(C) = IF t \in B THEN Cardinality(B) - 1 ELSE Cardinality(B)
  BY <1>2, <1>5, FS_RemoveElement
<1> QED
  BY <1>1, <1>3, <1>4, <1>6, <1>7, <1>8

-----------------------------------------------------------------------------
(* The initial state.                                                      *)

\* The sequence of a finite set has each of its elements once.
LEMMA SetToSeqFacts ==
  ASSUME NEW S, IsFiniteSet(S)
  PROVE  /\ SetToSeq(S) \in Seq(S) /\ IsInjective(SetToSeq(S))
         /\ ToSet(SetToSeq(S)) = S
<1> DEFINE n == Cardinality(S)
           q == SetToSeq(S)
<1>1. n \in Nat /\ ExistsBijection(1 .. n, S)
  BY FS_CardinalityType
<1>2. \E f \in [1 .. n -> S] : IsInjective(f)
  BY <1>1 DEF ExistsBijection, Bijection, Injection
<1>3. q \in [1 .. n -> S] /\ IsInjective(q)
  BY <1>2 DEF SetToSeq
<1>4. IsFiniteSet(1 .. n) /\ Cardinality(1 .. n) = n
  <2> HIDE DEF n
  <2>0. 1 \in Int /\ n \in Int
    BY <1>1
  <2>1. /\ IsFiniteSet(1 .. n)
        /\ Cardinality(1 .. n) = IF 1 > n THEN 0 ELSE n - 1 + 1
    BY <2>0, FS_Interval
  <2> QED
    BY <1>1, <2>1
<1>5. q \in Surjection(1 .. n, S)
  <2>1. q \in Injection(1 .. n, S)
    BY <1>3 DEF Injection
  <2> QED
    BY <2>1, <1>4, FS_Injection
<1>6. ToSet(q) = S
  BY <1>3, <1>5 DEF ToSet, Surjection
<1> QED
  BY <1>1, <1>3, <1>6

\* io_queue_init establishes the invariant.
LEMMA InitInv == Init => Inv
<1> SUFFICES ASSUME Init PROVE Inv
  OBVIOUS
<1> DEFINE others == Threads \ {main, idle}
<1>0. BUF_SIZE \in Nat \ {0} /\ main # idle
  OBVIOUS
<1>1. IsFiniteSet(others)
  BY FS_Subset, others \in SUBSET Threads
<1>2. /\ ready \in Seq(others) /\ IsInjective(ready) /\ ToSet(ready) = others
  BY <1>1, SetToSeqFacts DEF Init, Started
<1>3. ready \in Seq(Threads)
  BY <1>2
<1>4. ToSet(<<>>) = {}
  BY DEF ToSet
<1>5. /\ value[slots] = BUF_SIZE /\ value[items] = 0 /\ value[mutex] = 1
      /\ value \in [Mutexes -> Nat]
  BY <1>0, Distinct DEF Init
<1>6. TypeInv
  <2>1. waiters \in [Mutexes -> Seq(Threads)]
    BY DEF Init
  <2>2. /\ intr \in {ON, OFF} /\ curr \in Threads
        /\ status \in [Threads -> {"RUNNING", "READY", "BLOCKED"}]
        /\ ctx \in [Threads -> {"none", "start", "iret"}]
        /\ saved \in [Threads -> {ON, OFF, NULL}]
    BY DEF Init, Started
  <2>3. /\ pc \in [Threads -> Points]
        /\ resume \in [Threads -> Points \cup {NULL}]
    BY DEF Init, Started, Points, PutPoints, GetPoints, IdlePoints
  <2> QED
    BY <1>3, <1>5, <2>1, <2>2, <2>3 DEF TypeInv
<1>7. DataInv
  BY <1>0 DEF Init, DataInv
<1>8. PlaceInv
  <2> SUFFICES ASSUME NEW t \in Threads PROVE PlaceOK(t)
    BY DEF PlaceInv
  <2>1. /\ resume[t] = NULL /\ Own(t) = pc[t]
        /\ pc[t] = IF t = idle THEN "parked" ELSE "run"
        /\ saved[t] = IF t = idle THEN ON ELSE NULL
        /\ t = idle => ctx[t] = "none"
    BY DEF Init, Started, Own
  <2>2. NULL \notin PutPoints \cup {"parked", "halted"}
    BY DEF Points, IdlePoints
  <2>3. CASE t = idle
    BY <2>1, <2>2, <2>3 DEF PlaceOK, IdlePoints, PutPoints, Downs
  <2>4. CASE t # idle
    BY <2>1, <2>2, <2>4 DEF PlaceOK, IdlePoints, PutPoints, Downs
  <2> QED
    BY <2>3, <2>4
<1>9. FlagInv
  <2>1. ctx[curr] = "none" /\ saved[curr] = NULL /\ resume[curr] = NULL
    BY DEF Init, Started
  <2> QED
    BY <2>1 DEF FlagInv
<1>10. QueueInv
  BY <1>2 DEF QueueInv, Init, Started
<1>11. WaitersInv /\ WakeInv
  BY <1>4 DEF WaitersInv, WaitersOK, WakeInv, Init, IsInjective
<1>12. GotInv
  BY DEF GotInv, Own, Init, Started
<1>13. ASSUME NEW P \in SUBSET (PutPoints \cup GetPoints) PROVE CountAt(P) = 0
  <2>1. ASSUME NEW t \in Threads PROVE {pc[t], resume[t]} \cap P = {}
    <3>1. resume[t] = NULL /\ pc[t] \in {"parked", "run"}
      BY DEF Init, Started
    <3>2. NULL \notin P
      BY DEF Points
    <3>3. "parked" \notin P /\ "run" \notin P
      BY DEF PutPoints, GetPoints
    <3> QED
      BY <3>1, <3>2, <3>3
  <2>2. {t \in Threads : {pc[t], resume[t]} \cap P # {}} = {}
    BY <2>1
  <2> QED
    BY <2>2, FS_EmptySet DEF CountAt
<1>14. SemaphoresCount
  <2>1. /\ CountAt({"put_mutex", "put_store"}) = 0
        /\ CountAt({"get_up_mutex", "get_up_slots"}) = 0
        /\ CountAt({"get_mutex", "get_read", "get_front"}) = 0
        /\ CountAt({"put_up_mutex", "put_up_items"}) = 0
        /\ CountAt({"get_read", "get_front", "get_up_mutex"}) = 0
        /\ CountAt({"put_store", "put_up_mutex"}) = 0
    BY <1>13 DEF PutPoints, GetPoints
  <2>2. Len(unread) = 0
    BY DEF Init
  <2> QED
    BY <1>0, <1>5, <2>1, <2>2 DEF SemaphoresCount
<1>15. RingInv
  <2>1. Len(unread) = 0 /\ front = 0 /\ rear = 0
    BY DEF Init
  <2>2. 0 % BUF_SIZE = 0
    BY <1>0
  <2> QED
    BY <1>0, <2>1, <2>2 DEF RingInv
<1>16. AssertFailsInIdleOnly
  BY DEF AssertFailsInIdleOnly, Init, Started
<1> QED
  BY <1>6, <1>7, <1>8, <1>9, <1>10, <1>11, <1>12, <1>14, <1>15, <1>16
     DEF Inv, ThreadInv

-----------------------------------------------------------------------------
(* The scheduler.                                                          *)

\* What schedule leaves, when curr leaves the state `left` behind.
Switched(left) ==
  /\ curr' \in Threads /\ ready' \in Seq(Threads) /\ intr' = OFF
  /\ status' \in [Threads -> {"RUNNING", "READY", "BLOCKED"}]
  /\ QueueInv'
  /\ \A u \in Threads \ {curr, curr'} : status'[u] = status[u]
  /\ curr' # curr => status'[curr] = left

\* schedule for a current thread that blocks.
LEMMA SwitchBlocked ==
  ASSUME TypeInv, QueueInv,
         schedule(ready, [status EXCEPT ![curr] = "BLOCKED"])
  PROVE  /\ Switched("BLOCKED")
         /\ ScheduleAsserts(ready, [status EXCEPT ![curr] = "BLOCKED"])
         /\ \/ ready = <<>> /\ ready' = <<>> /\ curr' = idle
            \/ ready # <<>> /\ status[curr'] = "READY"
<1> DEFINE st == [status EXCEPT ![curr] = "BLOCKED"]
<1>1. /\ st \in [Threads -> {"RUNNING", "READY", "BLOCKED"}]
      /\ st[curr] = "BLOCKED" /\ \A u \in Threads \ {curr} : st[u] = status[u]
      /\ curr \in Threads /\ idle \in Threads
  BY DEF TypeInv
<1>2. ~SliceUsedUp(st)
  BY <1>1 DEF SliceUsedUp
<1>3. ScheduleAsserts(ready, st)
  <2>1. ASSUME ready = <<>> PROVE st[idle] = "BLOCKED"
    <3>1. idle \notin ToSet(ready)
      BY <2>1 DEF ToSet
    <3>2. status[idle] # "READY"
      BY <1>1, <3>1 DEF QueueInv
    <3>3. idle # curr => status[idle] # "RUNNING"
      BY <1>1 DEF QueueInv
    <3> QED
      BY <1>1, <3>2, <3>3
  <2> QED
    BY <1>2, <2>1 DEF ScheduleAsserts, BlockedStates
<1> HIDE DEF st
<1>4. CASE ready = <<>>
  <2>1. /\ ready' = <<>> /\ curr' = idle /\ intr' = OFF
        /\ status' = [u \in Threads |-> IF u = idle THEN "RUNNING"
                                        ELSE st[u]]
    BY <1>2, <1>4 DEF schedule, st
  <2>2. ToSet(<<>>) = {}
    BY DEF ToSet
  <2>3. QueueInv'
    <3>1. ASSUME NEW u \in Threads
          PROVE  status'[u] # "READY" /\ (u = idle <=> status'[u] = "RUNNING")
      <4>1. status[u] # "READY" /\ (u = curr <=> status[u] = "RUNNING")
        BY <1>4, <2>2 DEF QueueInv
      <4> QED
        BY <1>1, <2>1, <4>1
    <3> QED
      BY <2>1, <2>2, <3>1 DEF QueueInv, IsInjective
  <2>4. Switched("BLOCKED")
    BY <1>1, <2>1, <2>3 DEF Switched
  <2> QED
    BY <1>3, <1>4, <2>1, <2>4 DEF st
<1>5. CASE ready # <<>>
  <2>1. ready \in Seq(Threads)
    BY DEF TypeInv
  <2>2. /\ Head(ready) \in Threads /\ Tail(ready) \in Seq(Threads)
        /\ ToSet(ready) = ToSet(Tail(ready)) \cup {Head(ready)}
        /\ IsInjective(Tail(ready)) /\ Head(ready) \notin ToSet(Tail(ready))
    BY <1>5, <2>1, TailFacts DEF QueueInv
  <2>3. /\ ready' = Tail(ready) /\ curr' = Head(ready) /\ intr' = OFF
        /\ status' = [u \in Threads |-> IF u = Head(ready) THEN "RUNNING"
                                        ELSE st[u]]
    BY <1>2, <1>5 DEF schedule, st
  <2>4. status[Head(ready)] = "READY" /\ Head(ready) # curr
    BY <2>2 DEF QueueInv
  <2>5. QueueInv'
    <3>1. ASSUME NEW u \in Threads
          PROVE  /\ u \in ToSet(Tail(ready)) <=> status'[u] = "READY"
                 /\ u = Head(ready) <=> status'[u] = "RUNNING"
      <4>1. /\ u \in ToSet(ready) <=> status[u] = "READY"
            /\ u = curr <=> status[u] = "RUNNING"
        BY DEF QueueInv
      <4> QED
        BY <1>1, <2>2, <2>3, <2>4, <4>1
    <3> QED
      BY <2>2, <2>3, <3>1 DEF QueueInv
  <2>6. Switched("BLOCKED")
    BY <1>1, <2>2, <2>3, <2>5 DEF Switched
  <2> QED
    BY <1>3, <1>5, <2>3, <2>4, <2>6 DEF st
<1> QED
  BY <1>4, <1>5

\* schedule at the end of a time slice.
LEMMA SwitchSlice ==
  ASSUME TypeInv, QueueInv, schedule(ready, status)
  PROVE  /\ Switched("READY") /\ ScheduleAsserts(ready, status)
         /\ curr' = curr \/ status[curr'] = "READY"
<1>1. /\ curr \in Threads /\ ready \in Seq(Threads)
      /\ status \in [Threads -> {"RUNNING", "READY", "BLOCKED"}]
      /\ status[curr] = "RUNNING" /\ curr \notin ToSet(ready)
  BY DEF TypeInv, QueueInv
<1>2. SliceUsedUp(status)
  BY <1>1 DEF SliceUsedUp
<1>3. ScheduleAsserts(ready, status)
  BY <1>1, <1>2 DEF ScheduleAsserts
<1> DEFINE q == Append(ready, curr)
<1>4. /\ q \in Seq(Threads) /\ q # <<>>
      /\ ToSet(q) = ToSet(ready) \cup {curr} /\ IsInjective(q)
  BY <1>1, AppendFacts DEF QueueInv
<1>5. /\ ready' = Tail(q) /\ curr' = Head(q) /\ intr' = OFF
      /\ status' = [u \in Threads |-> IF u = Head(q) THEN "RUNNING"
                                      ELSE IF u = curr THEN "READY"
                                      ELSE status[u]]
  BY <1>2 DEF schedule
<1> HIDE DEF q
<1>6. /\ Head(q) \in Threads /\ Tail(q) \in Seq(Threads)
      /\ ToSet(q) = ToSet(Tail(q)) \cup {Head(q)}
      /\ IsInjective(Tail(q)) /\ Head(q) \notin ToSet(Tail(q))
  BY <1>4, TailFacts
<1>7. QueueInv'
  <2>1. ASSUME NEW u \in Threads
        PROVE  /\ u \in ToSet(Tail(q)) <=> status'[u] = "READY"
               /\ u = Head(q) <=> status'[u] = "RUNNING"
    <3>1. /\ u \in ToSet(ready) <=> status[u] = "READY"
          /\ u = curr <=> status[u] = "RUNNING"
      BY DEF QueueInv
    <3> QED
      BY <1>4, <1>5, <1>6, <3>1
  <2> QED
    BY <1>5, <1>6, <2>1 DEF QueueInv
<1>8. curr' = curr \/ status[curr'] = "READY"
  BY <1>4, <1>5, <1>6 DEF QueueInv
<1> QED
  BY <1>1, <1>3, <1>5, <1>6, <1>7, <1>8 DEF Switched

-----------------------------------------------------------------------------
(* Steps of a thread that neither is woken nor waits.                      *)

\* A thread that has no flag to restore, or is not in sem_down.
Quiet(t) == saved[t] = NULL \/ pc[t] \notin Downs

\* Only threads wait.
LEMMA WaitersType ==
  ASSUME TypeInv, NEW s \in Mutexes
  PROVE  waiters[s] \in Seq(Threads) /\ ToSet(waiters[s]) \subseteq Threads
<1>1. waiters[s] \in Seq(Threads)
  BY DEF TypeInv
<1>2. ASSUME NEW x \in ToSet(waiters[s]) PROVE x \in Threads
  BY <1>1, <1>2, ToSetIff
<1> QED
  BY <1>1, <1>2

\* It is in no list of waiters.
LEMMA QuietFacts ==
  ASSUME WaitersInv, NEW t \in Threads, Quiet(t), NEW s \in Mutexes
  PROVE  t \notin ToSet(waiters[s]) /\ t \notin Woken(s)
  BY WaitPointsAre DEF WaitersInv, WaitersOK, Quiet, Woken

\* A step of the current thread without a switch.
LEMMA QuietStep ==
  ASSUME TypeInv, QueueInv, WaitersInv, WakeInv,
         UNCHANGED <<curr, ready, status, value, waiters>>,
         \A u \in Threads \ {curr} : pc'[u] = pc[u] /\ saved'[u] = saved[u],
         Quiet(curr), Quiet(curr)'
  PROVE  QueueInv' /\ WaitersInv' /\ WakeInv'
<1>1. curr \in Threads
  BY DEF TypeInv
<1>2. QueueInv'
  BY DEF QueueInv
<1>3. ASSUME NEW s \in Mutexes PROVE WaitersOK(s)'
  <2>1. WaitersOK(s) /\ ToSet(waiters[s]) \subseteq Threads
    BY WaitersType DEF WaitersInv
  <2>2. curr \notin ToSet(waiters[s])
    BY <1>1, QuietFacts
  <2>3. WaitPoints(s)' = WaitPoints(s)
    BY DEF WaitPoints
  <2> QED
    BY <2>1, <2>2, <2>3 DEF WaitersOK, Blocked
<1>4. ASSUME NEW s \in Mutexes PROVE Woken(s)' = Woken(s)
  <2>1. curr \notin Woken(s)
    BY <1>1, QuietFacts
  <2>2. curr \notin Woken(s)'
    BY <1>1, WaitPointsAre DEF Woken, Quiet, WaitPoints
  <2>3. ASSUME NEW u \in Threads \ {curr}
        PROVE  u \in Woken(s)' <=> u \in Woken(s)
    BY <2>3 DEF Woken, WaitPoints
  <2> QED
    BY <2>1, <2>2, <2>3 DEF Woken
<1> QED
  BY <1>2, <1>3, <1>4 DEF WaitersInv, WakeInv

\* A step of the current thread that ends in schedule.
LEMMA QuietSwitch ==
  ASSUME TypeInv, QueueInv, WaitersInv, WakeInv, UNCHANGED <<value, waiters>>,
         \A u \in Threads \ {curr} : pc'[u] = pc[u] /\ saved'[u] = saved[u],
         Quiet(curr), saved'[curr] = NULL \/ pc'[curr] \notin Downs,
         NEW left, Switched(left), curr' = curr \/ status[curr'] = "READY"
  PROVE  WaitersInv' /\ WakeInv'
<1>1. curr \in Threads /\ curr' \in Threads
  BY DEF TypeInv, Switched
<1>2. ASSUME NEW s \in Mutexes PROVE WaitersOK(s)'
  <2>1. WaitersOK(s) /\ ToSet(waiters[s]) \subseteq Threads
    BY WaitersType DEF WaitersInv
  <2>2. curr \notin ToSet(waiters[s])
    BY <1>1, QuietFacts
  <2>3. WaitPoints(s)' = WaitPoints(s)
    BY DEF WaitPoints
  <2>4. ASSUME NEW u \in ToSet(waiters[s]) PROVE status'[u] = "BLOCKED"
    <3>1. u \in Threads /\ u # curr /\ status[u] = "BLOCKED"
      BY <2>1, <2>2, <2>4 DEF WaitersOK, Blocked
    <3>2. u # curr'
      BY <3>1
    <3> QED
      BY <3>1, <3>2 DEF Switched
  <2> QED
    BY <2>1, <2>2, <2>3, <2>4 DEF WaitersOK, Blocked
<1>3. ASSUME NEW s \in Mutexes PROVE Woken(s)' = Woken(s)
  <2>1. curr \notin Woken(s)
    BY <1>1, QuietFacts
  <2>2. curr \notin Woken(s)'
    BY <1>1, WaitPointsAre DEF Woken, WaitPoints
  <2>3. ASSUME NEW u \in Threads \ {curr}
        PROVE  u \in Woken(s)' <=> u \in Woken(s)
    <3>1. status'[u] # "BLOCKED" <=> status[u] # "BLOCKED"
      BY <1>1 DEF Switched, QueueInv
    <3> QED
      BY <2>3, <3>1 DEF Woken, WaitPoints
  <2> QED
    BY <2>1, <2>2, <2>3 DEF Woken
<1> QED
  BY <1>2, <1>3 DEF WaitersInv, WakeInv

-----------------------------------------------------------------------------
(* sem_down.                                                               *)

\* The waiting side of sem_down.
Waits(t, s) ==
  LET state == IF saved[t] = NULL THEN intr ELSE saved[t]
      st    == [status EXCEPT ![t] = "BLOCKED"]
  IN  /\ value[s] = 0
      /\ waiters' = [waiters EXCEPT ![s] = Append(@, t)]
      /\ saved' = [saved EXCEPT ![t] = state]
      /\ ASSERT(t \notin ToSet(waiters[s]) /\ ScheduleAsserts(ready, st))
      /\ schedule(ready, st)
      /\ UNCHANGED <<pc, ctx, value>>

\* The other one.
Takes(t, s, next) ==
  LET state == IF saved[t] = NULL THEN intr ELSE saved[t]
  IN  /\ value[s] > 0
      /\ value' = [value EXCEPT ![s] = @ - 1]
      /\ saved' = [saved EXCEPT ![t] = NULL]
      /\ INTERRUPT_RESTORE(state)
      /\ Goto(t, next)
      /\ UNCHANGED <<curr, ready, status, ava, ctx, panic, waiters>>

\* A thread that takes a semaphore is in none of the lists.
LEMMA TakerFacts ==
  ASSUME TypeInv, QueueInv, WaitersInv, NEW s \in Mutexes, value[s] > 0,
         pc[curr] \in WaitPoints(s), NEW r \in Mutexes
  PROVE  curr \notin ToSet(waiters[r])
<1> SUFFICES ASSUME curr \in ToSet(waiters[r]) PROVE FALSE
  OBVIOUS
<1>1. pc[curr] \in WaitPoints(r) /\ Blocked(curr, r)
  BY DEF WaitersInv, WaitersOK
<1>2. r = s
  BY <1>1, WaitPointsAre
<1>3. curr \in Threads /\ value[s] \in Nat
  BY DEF TypeInv
<1> QED
  BY <1>1, <1>2, <1>3 DEF Blocked, QueueInv

\* Who takes a unit keeps the lists, and leaves the others a thread woken.
LEMMA TakeStep ==
  ASSUME TypeInv, QueueInv, WaitersInv, WakeInv, NEW s \in Mutexes, NEW next,
         pc[curr] \in WaitPoints(s), Takes(curr, s, next)
  PROVE  QueueInv' /\ WaitersInv' /\ WakeInv'
<1>1. curr \in Threads /\ value[s] \in Nat /\ value \in [Mutexes -> Nat]
      /\ pc \in [Threads -> Points] /\ saved \in [Threads -> {ON, OFF, NULL}]
  BY DEF TypeInv
<1>2. /\ UNCHANGED <<curr, ready, status, waiters>> /\ value[s] > 0
      /\ value'[s] = value[s] - 1
      /\ \A r \in Mutexes \ {s} : value'[r] = value[r]
      /\ saved'[curr] = NULL
      /\ \A u \in Threads \ {curr} : pc'[u] = pc[u] /\ saved'[u] = saved[u]
  BY <1>1 DEF Takes, Goto
<1>3. QueueInv'
  BY <1>2 DEF QueueInv
<1>4. ASSUME NEW r \in Mutexes PROVE WaitersOK(r)'
  <2>1. WaitersOK(r) /\ ToSet(waiters[r]) \subseteq Threads
    BY WaitersType DEF WaitersInv
  <2>2. curr \notin ToSet(waiters[r])
    BY <1>2, TakerFacts
  <2>3. WaitPoints(r)' = WaitPoints(r)
    BY DEF WaitPoints
  <2>4. ASSUME NEW u \in ToSet(waiters[r]) PROVE status[u] = "BLOCKED"
    BY <2>1, <2>2, <2>4 DEF WaitersOK, Blocked
  <2> QED
    BY <1>2, <2>1, <2>2, <2>3, <2>4 DEF WaitersOK, Blocked
<1>5. ASSUME NEW r \in Mutexes, waiters'[r] # <<>>
      PROVE  value'[r] <= Cardinality(Woken(r)')
  <2>1. value[r] \in Nat /\ value[r] <= Cardinality(Woken(r))
    BY <1>1, <1>2, <1>5 DEF WakeInv
  <2>2. IsFiniteSet(Woken(r))
    BY FS_Subset, Woken(r) \in SUBSET Threads DEF Woken
  <2>3. Woken(r)' = Woken(r) \ {curr}
    <3>1. curr \notin Woken(r)'
      BY <1>2 DEF Woken
    <3>2. ASSUME NEW u \in Threads \ {curr}
          PROVE  u \in Woken(r)' <=> u \in Woken(r)
      BY <1>2, <3>2 DEF Woken, WaitPoints
    <3> QED
      BY <3>1, <3>2 DEF Woken
  <2>4. /\ Cardinality(Woken(r)) \in Nat
        /\ Cardinality(Woken(r)') = IF curr \in Woken(r)
                                    THEN Cardinality(Woken(r)) - 1
                                    ELSE Cardinality(Woken(r))
    BY <2>2, <2>3, FS_RemoveElement, FS_CardinalityType
  <2>5. CASE r = s
    BY <1>1, <1>2, <2>1, <2>4, <2>5
  <2>6. CASE r # s
    <3>1. curr \notin Woken(r)
      BY <2>6, WaitPointsAre DEF Woken
    <3> QED
      BY <1>2, <2>1, <2>4, <2>6, <3>1
  <2> QED
    BY <2>5, <2>6
<1> QED
  BY <1>3, <1>4, <1>5 DEF WaitersInv, WakeInv

\* The ASSERTs of a thread that waits hold, but in the idle thread, when it
\* is already in the list it enters.
LEMMA WaitAsserts ==
  ASSUME TypeInv, QueueInv, WaitersInv, PlaceInv, NEW s \in Mutexes,
         pc[curr] \in WaitPoints(s), Waits(curr, s)
  PROVE  \/ panic' = "none" /\ curr \notin ToSet(waiters[s])
         \/ /\ panic' # "none" /\ curr' = idle
            /\ pc'[idle] \in {"put_slots", "put_mutex"}
<1>1. curr \in Threads /\ schedule(ready, [status EXCEPT ![curr] = "BLOCKED"])
  BY DEF TypeInv, Waits
<1>2. ScheduleAsserts(ready, [status EXCEPT ![curr] = "BLOCKED"])
  BY <1>1, SwitchBlocked
<1>3. CASE curr \notin ToSet(waiters[s])
  BY <1>2, <1>3 DEF Waits, ASSERT
<1>4. CASE curr \in ToSet(waiters[s])
  <2>1. curr = idle /\ ready = <<>>
    <3>1. Blocked(curr, s) /\ status[curr] = "RUNNING"
      BY <1>1, <1>4 DEF WaitersInv, WaitersOK, QueueInv
    <3> QED
      BY <3>1 DEF Blocked
  <2>2. curr' = idle
    BY <1>1, <2>1, SwitchBlocked
  <2>3. pc[idle] \in {"put_slots", "put_mutex"}
    <3>1. pc[idle] \in Downs /\ PlaceOK(idle)
      BY <2>1, <1>1, WaitPointsAre DEF PlaceInv
    <3> QED
      BY <3>1 DEF PlaceOK, Own, Downs, PutPoints, IdlePoints
  <2>4. panic' # "none" /\ pc' = pc
    BY <1>4 DEF Waits, ASSERT
  <2> QED
    BY <2>2, <2>3, <2>4
<1> QED
  BY <1>3, <1>4

\* A thread that waits keeps the lists; when it leaves the idle thread as the
\* only one to run and that one waits too, it is for nothing that is free.
LEMMA WaitStep ==
  ASSUME TypeInv, QueueInv, WaitersInv, WakeInv, NEW s \in Mutexes,
         pc[curr] \in WaitPoints(s), Waits(curr, s),
         curr \notin ToSet(waiters[s])
  PROVE  WaitersInv' /\ WakeInv'
<1>1. /\ curr \in Threads /\ schedule(ready, [status EXCEPT ![curr] = "BLOCKED"])
      /\ pc \in [Threads -> Points] /\ saved \in [Threads -> {ON, OFF, NULL}]
      /\ intr \in {ON, OFF} /\ waiters \in [Mutexes -> Seq(Threads)]
  BY DEF TypeInv, Waits
<1>2. /\ Switched("BLOCKED")
      /\ \/ ready = <<>> /\ ready' = <<>> /\ curr' = idle
         \/ ready # <<>> /\ status[curr'] = "READY"
  BY <1>1, SwitchBlocked
<1>3. /\ UNCHANGED <<pc, value>> /\ value[s] = 0 /\ saved'[curr] # NULL
      /\ \A u \in Threads \ {curr} : saved'[u] = saved[u]
      /\ waiters'[s] = Append(waiters[s], curr)
      /\ \A r \in Mutexes \ {s} : waiters'[r] = waiters[r]
  BY <1>1 DEF Waits
<1>4. ASSUME NEW r \in Mutexes, NEW u \in ToSet(waiters[r])
      PROVE  /\ u \in Threads /\ u # curr /\ pc'[u] \in WaitPoints(r)
             /\ saved'[u] # NULL /\ Blocked(u, r)'
  <2>1. /\ u \in Threads /\ pc[u] \in WaitPoints(r) /\ saved[u] # NULL
        /\ Blocked(u, r)
    BY <1>4, WaitersType DEF WaitersInv, WaitersOK
  <2>2. u # curr
    <3>1. ASSUME u = curr PROVE r = s
      BY <2>1, <3>1, WaitPointsAre
    <3> QED
      BY <1>4, <3>1
  <2>3. status[u] = "BLOCKED"
    BY <2>1, <2>2 DEF Blocked
  <2>4. CASE u # curr'
    BY <1>2, <1>3, <2>1, <2>2, <2>3, <2>4 DEF Switched, Blocked
  <2>5. CASE u = curr'
    <3>1. ready = <<>> /\ ready' = <<>> /\ curr' = idle
      BY <1>2, <2>3, <2>5
    <3>2. ASSUME value[r] # 0 PROVE FALSE
      <4>1. r # s /\ value[r] \in Nat /\ waiters[r] # <<>>
        BY <1>3, <1>4, <3>2 DEF TypeInv, ToSet
      <4>2. Cardinality(Woken(r)) # 0
        BY <4>1, <3>2 DEF WakeInv
      <4>3. PICK w \in Threads : w \in Woken(r)
        BY <4>2, FS_EmptySet DEF Woken
      <4>4. ToSet(ready) = {}
        BY <3>1 DEF ToSet
      <4>5. w = curr
        BY <4>3, <4>4 DEF Woken, QueueInv, TypeInv
      <4> QED
        BY <4>1, <4>3, <4>5, WaitPointsAre DEF Woken
    <3> QED
      BY <1>3, <2>5, <3>1, <3>2, <2>1, <2>2 DEF Blocked
  <2> QED
    BY <1>3, <2>1, <2>2, <2>4, <2>5
<1>5. ASSUME NEW r \in Mutexes PROVE WaitersOK(r)'
  <2>1. WaitPoints(r)' = WaitPoints(r)
    BY DEF WaitPoints
  <2>2. WaitersOK(r) /\ waiters[r] \in Seq(Threads)
    BY WaitersType DEF WaitersInv
  <2>3. CASE r # s
    BY <1>3, <1>4, <2>1, <2>2, <2>3 DEF WaitersOK
  <2>4. CASE r = s
    <3>1. /\ ToSet(waiters'[s]) = ToSet(waiters[s]) \cup {curr}
          /\ IsInjective(waiters'[s])
      BY <1>1, <1>3, <2>2, <2>4, AppendFacts DEF WaitersOK
    <3>0. PICK t \in Threads : t = curr
      BY <1>1
    <3>2. Blocked(t, s)'
      <4>1. CASE curr' # curr
        BY <1>2, <3>0, <4>1 DEF Switched, Blocked
      <4>2. CASE curr' = curr
        <5>1. ready' = <<>> /\ curr' = idle
          BY <1>1, <1>2, <4>2 DEF QueueInv
        <5> QED
          BY <1>3, <3>0, <4>2, <5>1 DEF Blocked
      <4> QED
        BY <4>1, <4>2
    <3>3. pc'[t] \in WaitPoints(s)' /\ saved'[t] # NULL
      BY <1>3, <2>1, <2>4, <3>0
    <3>4. ASSUME NEW u \in ToSet(waiters'[s])
          PROVE  pc'[u] \in WaitPoints(s)' /\ saved'[u] # NULL /\ Blocked(u, s)'
      <4>1. CASE u = curr
        BY <3>0, <3>2, <3>3, <4>1
      <4>2. CASE u \in ToSet(waiters[s])
        BY <1>4, <2>1, <2>4, <4>2
      <4> QED
        BY <3>1, <3>4, <4>1, <4>2
    <3> QED
      BY <2>4, <3>1, <3>4 DEF WaitersOK
  <2> QED
    BY <2>3, <2>4
<1>6. ASSUME NEW r \in Mutexes, waiters'[r] # <<>>
      PROVE  value'[r] <= Cardinality(Woken(r)')
  <2>1. IsFiniteSet(Woken(r)') /\ Cardinality(Woken(r)') \in Nat
    <3>1. Woken(r)' \in SUBSET Threads
      BY DEF Woken
    <3> QED
      BY <3>1, FS_Subset, FS_CardinalityType
  <2>2. CASE r = s
    BY <1>3, <2>1, <2>2
  <2>3. CASE r # s
    <3>1. value[r] \in Nat /\ value[r] <= Cardinality(Woken(r))
      BY <1>3, <1>6, <2>3 DEF WakeInv, TypeInv
    <3>2. ASSUME NEW w \in Woken(r) PROVE w \in Woken(r)'
      <4>1. w \in Threads /\ w # curr
        BY <2>3, <3>2, WaitPointsAre DEF Woken
      <4>2. status'[w] # "BLOCKED"
        BY <1>1, <1>2, <3>2, <4>1 DEF Switched, Woken, QueueInv
      <4> QED
        BY <1>3, <3>2, <4>1, <4>2 DEF Woken, WaitPoints
    <3>3. Woken(r) \in SUBSET (Woken(r)')
      BY <3>2
    <3>4. Cardinality(Woken(r)) <= Cardinality(Woken(r)')
      BY <2>1, <3>3, FS_Subset
    <3>5. Cardinality(Woken(r)) \in Nat
      BY <2>1, <3>3, FS_Subset, FS_CardinalityType
    <3> QED
      BY <1>3, <2>1, <3>1, <3>4, <3>5
  <2> QED
    BY <2>2, <2>3
<1> QED
  BY <1>5, <1>6 DEF WaitersInv, WakeInv

-----------------------------------------------------------------------------
(* sem_up.                                                                 *)

\* Below 255, sem_up counts, its ASSERTs hold, and the first waiter is woken.
LEMMA UpStep ==
  ASSUME TypeInv, QueueInv, WaitersInv, WakeInv, NEW s \in Mutexes,
         value[s] < 255, sem_up(s), saved[curr] = NULL,
         \A u \in Threads \ {curr} : pc'[u] = pc[u]
  PROVE  /\ panic' = "none" /\ value' = [value EXCEPT ![s] = value[s] + 1]
         /\ ready' \in Seq(Threads) /\ waiters' \in [Mutexes -> Seq(Threads)]
         /\ status' \in [Threads -> {"RUNNING", "READY", "BLOCKED"}]
         /\ QueueInv' /\ WaitersInv' /\ WakeInv'
<1>1. /\ curr \in Threads /\ value \in [Mutexes -> Nat] /\ value[s] \in Nat
      /\ status \in [Threads -> {"RUNNING", "READY", "BLOCKED"}]
      /\ ready \in Seq(Threads) /\ waiters \in [Mutexes -> Seq(Threads)]
      /\ waiters[s] \in Seq(Threads)
  BY DEF TypeInv
<1>2. /\ value' = [value EXCEPT ![s] = value[s] + 1] /\ value'[s] > 0
      /\ value'[s] = value[s] + 1
      /\ \A r \in Mutexes \ {s} : value'[r] = value[r]
  <2>1. PICK x \in Nat : x = value[s]
    BY <1>1
  <2>2. x < 255 /\ (x + 1) % 256 = x + 1 /\ x + 1 > 0
    <3>1. x < 255
      BY <2>1
    <3> QED
      BY <3>1
  <2>3. value' = [value EXCEPT ![s] = (x + 1) % 256]
    BY <2>1 DEF sem_up
  <2> QED
    BY <1>1, <2>1, <2>2, <2>3, ZenonT(40)
<1>3. /\ UNCHANGED <<curr, saved>>
  BY DEF sem_up
<1>4. Quiet(curr) /\ Quiet(curr)'
  BY <1>3 DEF Quiet
<1>5. ASSUME NEW r \in Mutexes, NEW u \in ToSet(waiters[r])
      PROVE  /\ u \in Threads /\ u # curr /\ pc[u] \in WaitPoints(r)
             /\ saved[u] # NULL /\ status[u] = "BLOCKED"
  BY <1>1, <1>4, <1>5, WaitersType, QuietFacts
     DEF WaitersInv, WaitersOK, Blocked
<1>6. CASE waiters[s] = <<>>
  <2>1. UNCHANGED <<ready, status, waiters>> /\ panic' = "none"
    BY <1>2, <1>6 DEF sem_up, ASSERT
  <2>2. QueueInv'
    BY <1>3, <2>1 DEF QueueInv
  <2>3. ASSUME NEW r \in Mutexes PROVE WaitersOK(r)'
    <3>1. WaitersOK(r)
      BY DEF WaitersInv
    <3>2. WaitPoints(r)' = WaitPoints(r)
      BY DEF WaitPoints
    <3> QED
      BY <1>3, <1>5, <2>1, <3>1, <3>2 DEF WaitersOK, Blocked
  <2>4. ASSUME NEW r \in Mutexes, waiters'[r] # <<>>
        PROVE  value'[r] <= Cardinality(Woken(r)')
    <3>1. r # s /\ value[r] <= Cardinality(Woken(r))
      BY <1>6, <2>1, <2>4 DEF WakeInv
    <3>2. Woken(r)' = Woken(r)
      <4>1. curr \notin Woken(r) /\ curr \notin Woken(r)'
        BY <1>3 DEF Woken
      <4>2. ASSUME NEW u \in Threads \ {curr}
            PROVE  u \in Woken(r)' <=> u \in Woken(r)
        BY <1>3, <2>1, <4>2 DEF Woken, WaitPoints
      <4> QED
        BY <4>1, <4>2 DEF Woken
    <3> QED
      BY <1>2, <3>1, <3>2
  <2> QED
    BY <1>1, <1>2, <2>1, <2>2, <2>3, <2>4 DEF WaitersInv, WakeInv
<1>7. CASE waiters[s] # <<>>
  <2> DEFINE h == Head(waiters[s])
  <2>1. /\ h \in Threads /\ Tail(waiters[s]) \in Seq(Threads)
        /\ ToSet(waiters[s]) = ToSet(Tail(waiters[s])) \cup {h}
        /\ IsInjective(Tail(waiters[s])) /\ h \notin ToSet(Tail(waiters[s]))
    BY <1>1, <1>7, TailFacts DEF WaitersInv, WaitersOK
  <2>2. /\ h # curr /\ pc[h] \in WaitPoints(s) /\ saved[h] # NULL
        /\ status[h] = "BLOCKED"
    BY <1>5, <2>1
  <2>3. h \notin ToSet(ready)
    BY <2>1, <2>2 DEF QueueInv
  <2>4. /\ ready' = <<h>> \o ready
        /\ status' = [status EXCEPT ![h] = "READY"]
        /\ waiters' = [waiters EXCEPT ![s] = Tail(waiters[s])]
    BY <1>7 DEF sem_up, thread_unblock
  <2>5. panic' = "none"
    BY <1>2, <1>7, <2>2, <2>3
       DEF sem_up, ASSERT, UnblockAsserts, BlockedStates
  <2> HIDE DEF h
  <2>6. /\ ready' \in Seq(Threads) /\ IsInjective(ready')
        /\ ToSet(ready') = ToSet(ready) \cup {h}
    BY <1>1, <2>1, <2>3, <2>4, ConsFacts DEF QueueInv
  <2>7. /\ status' \in [Threads -> {"RUNNING", "READY", "BLOCKED"}]
        /\ status'[h] = "READY"
        /\ \A u \in Threads \ {h} : status'[u] = status[u]
        /\ waiters' \in [Mutexes -> Seq(Threads)]
        /\ waiters'[s] = Tail(waiters[s])
        /\ \A r \in Mutexes \ {s} : waiters'[r] = waiters[r]
    BY <1>1, <2>1, <2>4
  <2>8. QueueInv'
    <3>1. ASSUME NEW u \in Threads
          PROVE  /\ u \in ToSet(ready') <=> status'[u] = "READY"
                 /\ u = curr <=> status'[u] = "RUNNING"
      <4>1. /\ u \in ToSet(ready) <=> status[u] = "READY"
            /\ u = curr <=> status[u] = "RUNNING"
        BY DEF QueueInv
      <4>2. CASE u = h
        BY <2>2, <2>6, <2>7, <4>2
      <4>3. CASE u # h
        BY <2>6, <2>7, <4>1, <4>3
      <4> QED
        BY <4>2, <4>3
    <3> QED
      BY <1>3, <2>6, <3>1 DEF QueueInv
  <2>9. ASSUME NEW r \in Mutexes PROVE WaitersOK(r)'
    <3>1. WaitPoints(r)' = WaitPoints(r) /\ WaitersOK(r)
      BY DEF WaitPoints, WaitersInv
    <3>2. ASSUME NEW u \in ToSet(waiters[r]), u # h
          PROVE  /\ pc'[u] \in WaitPoints(r) /\ saved'[u] # NULL
                 /\ status'[u] = "BLOCKED"
      BY <1>3, <1>5, <2>7, <3>2, ZenonT(40)
    <3>3. CASE r = s
      <4>1. /\ IsInjective(waiters'[r])
            /\ \A u \in ToSet(waiters'[r]) : u \in ToSet(waiters[r]) /\ u # h
        BY <2>1, <2>7, <3>3
      <4> QED
        BY <3>1, <3>2, <4>1 DEF WaitersOK, Blocked
    <3>4. CASE r # s
      <4>1. \A u \in ToSet(waiters[r]) : u # h
        BY <1>5, <2>2, <3>4, WaitPointsAre
      <4> QED
        BY <2>7, <3>1, <3>2, <3>4, <4>1 DEF WaitersOK, Blocked
    <3> QED
      BY <3>3, <3>4
  <2>10. ASSUME NEW r \in Mutexes, waiters'[r] # <<>>
         PROVE  value'[r] <= Cardinality(Woken(r)')
    <3>1. waiters[r] # <<>> => value[r] <= Cardinality(Woken(r))
      BY DEF WakeInv
    <3>2. IsFiniteSet(Woken(r))
      BY FS_Subset, Woken(r) \in SUBSET Threads DEF Woken
    <3>3. curr \notin Woken(r) /\ curr \notin Woken(r)'
      BY <1>3 DEF Woken
    <3>4. h \notin Woken(r)
      BY <2>2 DEF Woken
    <3>5. ASSUME NEW u \in Threads \ {curr, h}
          PROVE  u \in Woken(r)' <=> u \in Woken(r)
      BY <1>3, <2>7, <3>5 DEF Woken, WaitPoints
    <3>6. CASE r = s
      <4>1. h \in Woken(r)'
        BY <1>3, <2>1, <2>2, <2>7, <3>6 DEF Woken, WaitPoints
      <4>2. Woken(r)' = Woken(r) \cup {h}
        BY <2>1, <3>3, <3>5, <4>1 DEF Woken
      <4>3. /\ Cardinality(Woken(r)) \in Nat
            /\ Cardinality(Woken(r)') = Cardinality(Woken(r)) + 1
        BY <3>2, <3>4, <4>2, FS_AddElement, FS_CardinalityType
      <4> QED
        BY <1>1, <1>2, <1>7, <3>1, <3>6, <4>3
    <3>7. CASE r # s
      <4>1. h \notin Woken(r)'
        BY <2>2, <3>7, WaitPointsAre DEF Woken, WaitPoints
      <4>2. Woken(r)' = Woken(r)
        BY <2>1, <3>3, <3>4, <3>5, <4>1 DEF Woken
      <4> QED
        BY <1>2, <2>7, <2>10, <3>1, <3>7, <4>2
    <3> QED
      BY <3>6, <3>7
  <2> QED
    BY <1>2, <2>5, <2>6, <2>7, <2>8, <2>9, <2>10 DEF WaitersInv, WakeInv
<1> QED
  BY <1>6, <1>7

-----------------------------------------------------------------------------
(* The points and their counts.                                            *)

\* The points are different from each other and from NULL.
LEMMA PointFacts ==
  /\ NULL \notin PutPoints /\ NULL \notin GetPoints /\ NULL \notin IdlePoints
  /\ PutPoints \cap GetPoints = {} /\ PutPoints \cap IdlePoints = {}
  /\ GetPoints \cap IdlePoints = {} /\ "run" \notin PutPoints
  /\ PutPoints \subseteq Points /\ GetPoints \subseteq Points
  /\ IdlePoints \subseteq Points /\ "run" \in Points
<1>1. /\ PutPoints \subseteq Points /\ GetPoints \subseteq Points
      /\ IdlePoints \subseteq Points /\ "run" \in Points /\ NULL \notin Points
  BY DEF Points
<1>2. /\ PutPoints \cap GetPoints = {} /\ PutPoints \cap IdlePoints = {}
      /\ GetPoints \cap IdlePoints = {} /\ "run" \notin PutPoints
  BY DEF PutPoints, GetPoints, IdlePoints
<1> QED
  BY <1>1, <1>2

\* A step that moves no thread across the border of P.
LEMMA SameCount ==
  ASSUME NEW t \in Threads, NEW P,
         \A u \in Threads \ {t} : pc'[u] = pc[u] /\ resume'[u] = resume[u],
         In(t, P)' <=> In(t, P)
  PROVE  CountAt(P)' = CountAt(P) /\ CountAt(P) \in Nat
  BY CountMoves

\* A step of the handler.
LEMMA HandlerMove ==
  ASSUME TypeInv, PlaceInv, NEW t \in Threads, pc[t] \in PutPoints,
         pc'[t] \in PutPoints, \A u \in Threads \ {t} : pc'[u] = pc[u],
         resume' = resume, NEW P
  PROVE  /\ CountAt(P) \in Nat /\ CountAt(P)' \in Nat
         /\ P \subseteq GetPoints => CountAt(P)' = CountAt(P)
         /\ P \subseteq PutPoints =>
              CountAt(P)' + (IF pc[t] \in P THEN 1 ELSE 0)
                = CountAt(P) + (IF pc'[t] \in P THEN 1 ELSE 0)
         /\ pc[t] \in P => CountAt(P) >= 1
<1>1. pc \in [Threads -> Points] /\ resume[t] \notin PutPoints
  BY DEF TypeInv, PlaceInv, PlaceOK
<1>2. /\ resume'[t] = resume[t]
      /\ \A u \in Threads \ {t} : pc'[u] = pc[u] /\ resume'[u] = resume[u]
  BY <1>1
<1>3. /\ CountAt(P) \in Nat /\ CountAt(P)' \in Nat
      /\ CountAt(P)' + (IF In(t, P) THEN 1 ELSE 0)
           = CountAt(P) + (IF In(t, P)' THEN 1 ELSE 0)
      /\ In(t, P) => CountAt(P) >= 1
  BY <1>2, CountMoves
<1>4. P \subseteq GetPoints => (In(t, P)' <=> In(t, P))
  BY <1>2, PointFacts DEF In
<1>5. P \subseteq PutPoints => (In(t, P) <=> pc[t] \in P)
  BY <1>1 DEF In
<1>6. P \subseteq PutPoints => (In(t, P)' <=> pc'[t] \in P)
  BY <1>1, <1>2 DEF In
<1>7. pc[t] \in P => In(t, P)
  BY DEF In
<1> QED
  BY <1>3, <1>4, <1>5, <1>6, <1>7

\* A step of a thread in its own code.
LEMMA OwnMove ==
  ASSUME TypeInv, PlaceInv, NEW t \in Threads, pc[t] \notin PutPoints,
         pc'[t] \notin PutPoints, \A u \in Threads \ {t} : pc'[u] = pc[u],
         resume' = resume, NEW P
  PROVE  /\ CountAt(P) \in Nat /\ CountAt(P)' \in Nat
         /\ P \subseteq PutPoints => CountAt(P)' = CountAt(P)
         /\ P \subseteq GetPoints =>
              CountAt(P)' + (IF pc[t] \in P THEN 1 ELSE 0)
                = CountAt(P) + (IF pc'[t] \in P THEN 1 ELSE 0)
         /\ pc[t] \in P => CountAt(P) >= 1
<1>1. pc \in [Threads -> Points] /\ resume[t] = NULL
  BY DEF TypeInv, PlaceInv, PlaceOK
<1>2. /\ resume'[t] = NULL
      /\ \A u \in Threads \ {t} : pc'[u] = pc[u] /\ resume'[u] = resume[u]
  BY <1>1
<1>3. /\ CountAt(P) \in Nat /\ CountAt(P)' \in Nat
      /\ CountAt(P)' + (IF In(t, P) THEN 1 ELSE 0)
           = CountAt(P) + (IF In(t, P)' THEN 1 ELSE 0)
      /\ In(t, P) => CountAt(P) >= 1
  BY <1>2, CountMoves
<1>4. P \subseteq PutPoints => (In(t, P)' <=> In(t, P))
  BY <1>1, <1>2, PointFacts DEF In
<1>5. P \subseteq GetPoints => (In(t, P) <=> pc[t] \in P)
  BY <1>1, PointFacts DEF In
<1>6. P \subseteq GetPoints => (In(t, P)' <=> pc'[t] \in P)
  BY <1>2, PointFacts DEF In
<1>7. pc[t] \in P => In(t, P)
  BY DEF In
<1> QED
  BY <1>3, <1>4, <1>5, <1>6, <1>7

\* Two threads count as two.
LEMMA CountTwo ==
  ASSUME NEW P, NEW t \in Threads, NEW u \in Threads, t # u,
         In(t, P), In(u, P)
  PROVE  CountAt(P) \in Nat /\ CountAt(P) >= 2
<1> DEFINE A == {w \in Threads : In(w, P)}
<1>1. CountAt(P) = Cardinality(A)
  BY DEF CountAt, In
<1>2. t \in A /\ u \in A
  OBVIOUS
<1>3. IsFiniteSet(A)
  BY FS_Subset, A \in SUBSET Threads
<1> HIDE DEF A
<1>4. /\ IsFiniteSet(A \ {t}) /\ Cardinality(A \ {t}) = Cardinality(A) - 1
  BY <1>2, <1>3, FS_RemoveElement
<1>5. Cardinality((A \ {t}) \ {u}) = Cardinality(A \ {t}) - 1
  BY <1>2, <1>4, FS_RemoveElement
<1>6. /\ Cardinality(A) \in Nat /\ Cardinality(A \ {t}) \in Nat
      /\ Cardinality((A \ {t}) \ {u}) \in Nat
  BY <1>3, <1>4, FS_RemoveElement, FS_CardinalityType
<1> QED
  BY <1>1, <1>4, <1>5, <1>6

\* The six counts of SemaphoresCount.
PutClaims == CountAt({"put_mutex", "put_store"})
PutDone   == CountAt({"put_up_mutex", "put_up_items"})
PutHolds  == CountAt({"put_store", "put_up_mutex"})
GetClaims == CountAt({"get_mutex", "get_read", "get_front"})
GetDone   == CountAt({"get_up_mutex", "get_up_slots"})
GetHolds  == CountAt({"get_read", "get_front", "get_up_mutex"})
counts == <<PutClaims, PutDone, PutHolds, GetClaims, GetDone, GetHolds>>

\* The equations between them, and what they bound.
LEMMA CountFacts ==
  ASSUME panic = "none", TypeInv, DataInv, SemaphoresCount
  PROVE  /\ value[slots] + Len(unread) + PutClaims + GetDone = BUF_SIZE
         /\ value[items] + GetClaims + PutDone = Len(unread)
         /\ value[mutex] + GetHolds + PutHolds = 1
         /\ PutClaims \in Nat /\ PutDone \in Nat /\ PutHolds \in Nat
         /\ GetClaims \in Nat /\ GetDone \in Nat /\ GetHolds \in Nat
         /\ value[slots] \in Nat /\ value[items] \in Nat /\ value[mutex] \in Nat
         /\ Len(unread) \in Nat
<1>1. /\ value[slots] \in Nat /\ value[items] \in Nat /\ value[mutex] \in Nat
  BY DEF TypeInv
<1>2. Len(unread) \in Nat
  BY DEF DataInv
<1>3. ASSUME NEW P PROVE CountAt(P) \in Nat
  <2>1. {t \in Threads : {pc[t], resume[t]} \cap P # {}} \in SUBSET Threads
    OBVIOUS
  <2> QED
    BY <2>1, FS_Subset, FS_CardinalityType DEF CountAt
<1> QED
  BY <1>1, <1>2, <1>3
     DEF SemaphoresCount, PutClaims, PutDone, PutHolds, GetClaims, GetDone,
         GetHolds

-----------------------------------------------------------------------------
(* Parts of a step.                                                        *)

\* What holds as long as no ASSERT has failed.
Good == /\ panic = "none" /\ ThreadInv /\ DataInv /\ RingInv /\ GotInv
        /\ SemaphoresCount

\* Only t moves.
LEMMA PlaceStep ==
  ASSUME PlaceInv, NEW t \in Threads, PlaceOK(t)',
         \A u \in Threads \ {t} : /\ pc'[u] = pc[u] /\ saved'[u] = saved[u]
                                  /\ ctx'[u] = ctx[u] /\ resume'[u] = resume[u]
  PROVE  PlaceInv'
<1>1. ASSUME NEW u \in Threads \ {t} PROVE PlaceOK(u)'
  <2>1. PlaceOK(u) /\ Own(u)' = Own(u)
    BY <1>1 DEF PlaceInv, Own
  <2> QED
    BY <1>1, <2>1 DEF PlaceOK
<1> QED
  BY <1>1 DEF PlaceInv

\* The queue is not touched, and t does not come to read from it.
LEMMA QueueStep ==
  ASSUME DataInv, RingInv, GotInv, NEW t \in Threads,
         UNCHANGED <<queueVars, typed, got>>,
         \A u \in Threads \ {t} : pc'[u] = pc[u] /\ resume'[u] = resume[u],
         Own(t)' = "get_front" => Own(t) = "get_front"
  PROVE  DataInv' /\ RingInv' /\ GotInv'
<1>1. UNCHANGED <<buffer, front, rear, unread>>
  BY DEF queueVars
<1>2. ASSUME NEW u \in Threads PROVE Own(u)' = "get_front" => Own(u) = "get_front"
  <2>1. u # t => Own(u)' = Own(u)
    BY DEF Own
  <2> QED
    BY <2>1
<1> QED
  BY <1>1, <1>2 DEF DataInv, RingInv, GotInv

\* A sum of the counts that stays the same.
LEMMA CountStep ==
  ASSUME Good, panic' = "none", Len(unread') = Len(unread),
         UNCHANGED counts, UNCHANGED value
  PROVE  SemaphoresCount'
<1>1. /\ value[slots] + Len(unread) + PutClaims + GetDone = BUF_SIZE
      /\ value[items] + GetClaims + PutDone = Len(unread)
      /\ value[mutex] + GetHolds + PutHolds = 1
  BY CountFacts DEF Good, ThreadInv
<1> QED
  BY <1>1
     DEF SemaphoresCount, PutClaims, PutDone, PutHolds, GetClaims, GetDone,
         GetHolds, counts

\* A thread that does not move from or to the points that are counted.
LEMMA StillCounts ==
  ASSUME NEW t \in Threads,
         \A u \in Threads \ {t} : pc'[u] = pc[u] /\ resume'[u] = resume[u],
         \A P \in SUBSET ((PutPoints \ {"put_slots", "put_iret"})
                           \cup (GetPoints \ {"get_items"})) :
           In(t, P)' <=> In(t, P)
  PROVE  UNCHANGED counts
<1>1. \A P \in SUBSET ((PutPoints \ {"put_slots", "put_iret"})
                           \cup (GetPoints \ {"get_items"})) :
        CountAt(P)' = CountAt(P)
  BY SameCount
<1> QED
  BY <1>1 DEF counts, PutClaims, PutDone, PutHolds, GetClaims, GetDone,
              GetHolds, PutPoints, GetPoints

\* A pass of sem_down: its thread gets the semaphore, or waits.
LEMMA DownStep ==
  ASSUME Good, NEW t \in Threads, NEW p, At(t, p), NEW s \in Mutexes,
         p \in WaitPoints(s), NEW next,
         \/ p \in PutPoints /\ next \in PutPoints
         \/ p \in GetPoints /\ next \in GetPoints \ {"get_front"},
         sem_down(t, s, next), SemFrame
  PROVE  /\ AssertFailsInIdleOnly'
         /\ panic' = "none" =>
              ThreadInv' /\ DataInv' /\ RingInv' /\ GotInv'
         /\ \/ value' = value /\ pc' = pc
            \/ /\ value[s] > 0 /\ value' = [value EXCEPT ![s] = @ - 1]
               /\ pc' = [pc EXCEPT ![t] = next]
         /\ panic' = "none" \/ value' = value
         /\ UNCHANGED <<unread, resume>>
<1>1. /\ TypeInv /\ PlaceInv /\ FlagInv /\ QueueInv /\ WaitersInv /\ WakeInv
      /\ DataInv /\ RingInv /\ GotInv
  BY DEF Good, ThreadInv
<1>2. t = curr /\ pc[t] = p /\ ctx[t] = "none" /\ panic = "none"
  BY DEF At, Executing
<1>3. /\ UNCHANGED <<resume, unread, typed, got>> /\ UNCHANGED queueVars
      /\ resume \in [Threads -> Points \cup {NULL}] /\ intr \in {ON, OFF}
      /\ pc \in [Threads -> Points] /\ saved \in [Threads -> {ON, OFF, NULL}]
      /\ value \in [Mutexes -> Nat] /\ waiters \in [Mutexes -> Seq(Threads)]
      /\ ctx \in [Threads -> {"none", "start", "iret"}]
      /\ p \in Points /\ next \in Points
  BY <1>1, PointFacts DEF SemFrame, queueVars, TypeInv
<1>4. /\ PlaceOK(t) /\ p \in Downs
      /\ resume[t] # NULL => intr = OFF
      /\ saved[t] # NULL => intr = OFF
  BY <1>1, <1>2, WaitPointsAre DEF PlaceInv, FlagInv
<1>5. CASE Takes(t, s, next)
  <2>1. /\ value[s] > 0 /\ value' = [value EXCEPT ![s] = @ - 1]
        /\ pc' = [pc EXCEPT ![t] = next] /\ saved' = [saved EXCEPT ![t] = NULL]
        /\ UNCHANGED <<curr, ready, status, ctx, panic, waiters>>
    BY <1>5 DEF Takes, Goto
  <2>2. /\ intr' \in {ON, OFF}
        /\ resume[t] # NULL => intr' = OFF
    <3>1. resume[t] # NULL => (IF saved[t] = NULL THEN intr ELSE saved[t]) = OFF
      BY <1>4 DEF PlaceOK
    <3> QED
      BY <1>5, <3>1 DEF Takes, INTERRUPT_RESTORE
  <2>3. QueueInv' /\ WaitersInv' /\ WakeInv'
    BY <1>1, <1>2, <1>5, TakeStep
  <2>4. TypeInv'
    <3>1. value[s] \in Nat /\ value[s] - 1 \in Nat
      BY <1>3, <2>1
    <3>2. value' \in [Mutexes -> Nat]
      BY <1>3, <2>1, <3>1
    <3> QED
      BY <1>1, <1>3, <2>1, <2>2, <3>2 DEF TypeInv
  <2>5. /\ pc'[t] = next /\ saved'[t] = NULL /\ resume'[t] = resume[t]
        /\ ctx'[t] = "none"
        /\ \A u \in Threads \ {t} : /\ pc'[u] = pc[u] /\ saved'[u] = saved[u]
                                     /\ ctx'[u] = ctx[u] /\ resume'[u] = resume[u]
    BY <1>2, <1>3, <2>1
  <2>6. PlaceOK(t)'
    <3>1. CASE p \in PutPoints /\ next \in PutPoints
      BY <1>2, <1>4, <2>5, <3>1, PointFacts DEF PlaceOK, Own, IdlePoints
    <3>2. CASE p \in GetPoints /\ next \in GetPoints
      BY <1>2, <1>4, <2>5, <3>2, PointFacts DEF PlaceOK, Own, IdlePoints
    <3> QED
      BY <3>1, <3>2
  <2>7. PlaceInv'
    BY <1>1, <2>5, <2>6, PlaceStep
  <2>8. FlagInv'
    BY <1>2, <2>1, <2>2, <2>5 DEF FlagInv
  <2>9. Own(t)' # "get_front" \/ Own(t) = "get_front"
    BY <1>3, <2>5 DEF Own, PutPoints
  <2>10. DataInv' /\ RingInv' /\ GotInv'
    BY <1>1, <1>3, <2>5, <2>9, QueueStep
  <2> QED
    BY <1>2, <1>3, <2>1, <2>3, <2>4, <2>7, <2>8, <2>10
       DEF ThreadInv, AssertFailsInIdleOnly
<1>6. CASE Waits(t, s)
  <2>1. /\ \/ panic' = "none" /\ curr \notin ToSet(waiters[s])
           \/ /\ panic' # "none" /\ curr' = idle
              /\ pc'[idle] \in {"put_slots", "put_mutex"}
    BY <1>1, <1>2, <1>6, WaitAsserts
  <2>2. AssertFailsInIdleOnly'
    BY <2>1 DEF AssertFailsInIdleOnly
  <2>3. /\ UNCHANGED <<pc, ctx, value>>
        /\ waiters' = [waiters EXCEPT ![s] = Append(waiters[s], t)]
        /\ saved' = [saved EXCEPT ![t] = IF saved[t] = NULL THEN intr ELSE saved[t]]
        /\ schedule(ready, [status EXCEPT ![curr] = "BLOCKED"])
    BY <1>2, <1>6 DEF Waits
  <2>4. ASSUME panic' = "none"
        PROVE  ThreadInv' /\ DataInv' /\ RingInv' /\ GotInv'
    <3>1. WaitersInv' /\ WakeInv'
      BY <1>1, <1>2, <1>6, <2>1, <2>4, WaitStep
    <3>2. Switched("BLOCKED")
      BY <1>1, <2>3, SwitchBlocked
    <3>3. /\ saved' \in [Threads -> {ON, OFF, NULL}]
          /\ saved'[t] = IF saved[t] = NULL THEN intr ELSE saved[t]
          /\ \A u \in Threads \ {t} : saved'[u] = saved[u]
      BY <1>3, <2>3
    <3>4. waiters' \in [Mutexes -> Seq(Threads)]
      BY <1>3, <2>3
    <3>5. TypeInv'
      BY <1>3, <2>3, <3>2, <3>3, <3>4 DEF TypeInv, Switched
    <3>6. PlaceOK(t)'
      <4>1. pc'[t] = pc[t] /\ resume'[t] = resume[t] /\ ctx'[t] = "none"
            /\ Own(t)' = Own(t)
        BY <1>2, <1>3, <2>3 DEF Own
      <4>2. resume[t] # NULL => saved'[t] = OFF
        BY <1>4, <3>3 DEF PlaceOK
      <4>3. saved'[t] # NULL
        BY <1>3, <3>3
      <4> QED
        BY <1>2, <1>4, <4>1, <4>2, <4>3 DEF PlaceOK
    <3>7. PlaceInv'
      BY <1>1, <1>3, <2>3, <3>3, <3>6, PlaceStep
    <3>8. FlagInv' /\ QueueInv'
      BY <3>2 DEF FlagInv, Switched
    <3>9. Own(t)' = Own(t)
      BY <1>3, <2>3 DEF Own
    <3>10. DataInv' /\ RingInv' /\ GotInv'
      BY <1>1, <1>3, <2>3, <3>9, QueueStep
    <3> QED
      BY <3>1, <3>5, <3>7, <3>8, <3>10 DEF ThreadInv
  <2> QED
    BY <1>3, <2>2, <2>3, <2>4
<1> QED
  BY <1>5, <1>6 DEF sem_down, Takes, Waits

\* A call of sem_up below 255.
LEMMA UpCall ==
  ASSUME Good, NEW t \in Threads, NEW p, At(t, p), NEW s \in Mutexes, NEW next,
         \/ p \in PutPoints \ Downs /\ next \in PutPoints
         \/ p \in GetPoints \ Downs /\ next \in (GetPoints \cup {"run"})
                                             \ {"get_front"},
         value[s] < 255, sem_up(s), Goto(t, next),
         UNCHANGED <<queueVars, typed, resume>>,
         got' \in [Threads -> Chars \cup {NULL}],
         \A u \in Threads \ {t} : got'[u] = got[u]
  PROVE  /\ panic' = "none" /\ value' = [value EXCEPT ![s] = value[s] + 1]
         /\ pc' = [pc EXCEPT ![t] = next]
         /\ p \notin PutPoints \/ got'[t] = got[t] =>
              ThreadInv' /\ DataInv' /\ RingInv' /\ GotInv'
<1>1. /\ TypeInv /\ PlaceInv /\ FlagInv /\ QueueInv /\ WaitersInv /\ WakeInv
      /\ DataInv /\ RingInv /\ GotInv
  BY DEF Good, ThreadInv
<1>2. t = curr /\ pc[t] = p /\ ctx[t] = "none" /\ panic = "none"
  BY DEF At, Executing
<1>3. /\ PlaceOK(t) /\ saved[t] = NULL
      /\ resume[t] # NULL => intr = OFF
  <2>1. PlaceOK(t) /\ (resume[t] # NULL => intr = OFF)
    BY <1>1, <1>2 DEF PlaceInv, FlagInv
  <2>2. p # "parked"
    BY PointFacts DEF IdlePoints
  <2> QED
    BY <1>2, <2>1, <2>2 DEF PlaceOK
<1>4. /\ pc \in [Threads -> Points] /\ intr \in {ON, OFF}
      /\ next \in Points /\ pc' = [pc EXCEPT ![t] = next]
  BY <1>1, PointFacts DEF TypeInv, Goto
<1>5. /\ UNCHANGED <<curr, ctx, saved>>
      /\ intr' \in {ON, OFF}
      /\ intr = OFF => intr' = OFF
  BY <1>4 DEF sem_up, INTERRUPT_RESTORE
<1>6. /\ pc'[t] = next
      /\ \A u \in Threads \ {t} : pc'[u] = pc[u]
  BY <1>4
<1>7. /\ panic' = "none" /\ value' = [value EXCEPT ![s] = value[s] + 1]
      /\ ready' \in Seq(Threads) /\ waiters' \in [Mutexes -> Seq(Threads)]
      /\ status' \in [Threads -> {"RUNNING", "READY", "BLOCKED"}]
      /\ QueueInv' /\ WaitersInv' /\ WakeInv'
  BY <1>1, <1>2, <1>3, <1>6, UpStep
<1>8. ASSUME p \notin PutPoints \/ got'[t] = got[t]
      PROVE  ThreadInv' /\ DataInv' /\ RingInv' /\ GotInv'
  <2>1. TypeInv'
    <3>1. value[s] \in Nat /\ value[s] + 1 \in Nat /\ value \in [Mutexes -> Nat]
      BY <1>1 DEF TypeInv
    <3>2. value' \in [Mutexes -> Nat]
      BY <1>7, <3>1
    <3>3. pc' \in [Threads -> Points]
      BY <1>4
    <3> QED
      BY <1>1, <1>5, <1>7, <3>2, <3>3 DEF TypeInv
  <2>2. PlaceOK(t)'
    <3>1. /\ ctx'[t] = "none" /\ saved'[t] = NULL /\ resume'[t] = resume[t]
      BY <1>2, <1>3, <1>5
    <3>2. CASE p \in PutPoints /\ next \in PutPoints
      BY <1>2, <1>3, <1>6, <3>1, <3>2, PointFacts DEF PlaceOK, Own, IdlePoints
    <3>3. CASE p \in GetPoints /\ next \in GetPoints \cup {"run"}
      BY <1>2, <1>3, <1>6, <3>1, <3>3, PointFacts DEF PlaceOK, Own, IdlePoints
    <3> QED
      BY <3>2, <3>3
  <2>3. PlaceInv'
    BY <1>1, <1>5, <1>6, <2>2, PlaceStep
  <2>4. FlagInv'
    BY <1>2, <1>3, <1>5 DEF FlagInv
  <2>5. DataInv' /\ RingInv'
    BY <1>1 DEF DataInv, RingInv, queueVars
  <2>6. GotInv'
    <3> SUFFICES ASSUME NEW u \in Threads, Own(u)' = "get_front"
                 PROVE  got'[u] = Head(unread')
      BY DEF GotInv
    <3>1. unread' = unread
      BY DEF queueVars
    <3>2. CASE u # t
      BY <1>1, <1>6, <3>1, <3>2 DEF GotInv, Own
    <3>3. CASE u = t
      <4>1. Own(t)' = Own(t) /\ p \in PutPoints
        BY <1>2, <1>3, <1>6, <3>3, PointFacts DEF Own, PlaceOK, PutPoints
      <4> QED
        BY <1>1, <1>8, <3>1, <3>3, <4>1 DEF GotInv
    <3> QED
      BY <3>2, <3>3
  <2> QED
    BY <1>7, <2>1, <2>3, <2>4, <2>5, <2>6 DEF ThreadInv
<1> QED
  BY <1>4, <1>7, <1>8

-----------------------------------------------------------------------------
(* The steps of the scheduler.                                             *)

\* A step of the current thread between points that are not counted, without
\* a switch.
LEMMA StandStep ==
  ASSUME Good, NEW t, t = curr, UNCHANGED <<curr, ready, status, panic>>,
         UNCHANGED <<lockVars, queueVars, typed, got, resume, keys>>,
         NEW p \in IdlePoints \cup {"run"} \cup GetPoints,
         pc' = [pc EXCEPT ![t] = p], p = pc[t] \/ (p \in IdlePoints /\ t = idle),
         pc[t] \notin PutPoints, p # "parked",
         \A u \in Threads \ {t} : saved'[u] = saved[u] /\ ctx'[u] = ctx[u],
         saved' \in [Threads -> {ON, OFF, NULL}], saved'[t] = NULL,
         ctx' \in [Threads -> {"none", "start", "iret"}], ctx'[t] = "none",
         saved[t] # NULL => pc[t] = "parked", intr' \in {ON, OFF}
  PROVE  Inv'
<1>1. /\ TypeInv /\ PlaceInv /\ FlagInv /\ QueueInv /\ WaitersInv /\ WakeInv
      /\ DataInv /\ RingInv /\ GotInv /\ t \in Threads /\ panic = "none"
  BY DEF Good, ThreadInv, TypeInv
<1>2. /\ pc'[t] = p /\ p \in Points
      /\ \A u \in Threads \ {t} : pc'[u] = pc[u]
  BY <1>1, PointFacts DEF TypeInv
<1>3. TypeInv'
  BY <1>1, <1>2 DEF TypeInv, lockVars
<1>4. resume[t] = NULL /\ resume'[t] = NULL
  BY <1>1 DEF PlaceInv, PlaceOK
<1>5. PlaceOK(t)'
  <2>1. PlaceOK(t) /\ Own(t) = pc[t]
    BY <1>1, <1>4 DEF PlaceInv, Own
  <2>2. Own(t)' = p
    BY <1>2, <1>4 DEF Own
  <2>3. t = idle <=> p \in IdlePoints
    BY <2>1 DEF PlaceOK
  <2>4. NULL \notin PutPoints \cup {"parked", "halted"}
    BY PointFacts DEF IdlePoints
  <2> QED
    BY <1>2, <1>4, <2>2, <2>3, <2>4, PointFacts DEF PlaceOK
<1>6. PlaceInv'
  BY <1>1, <1>2, <1>5, PlaceStep
<1>7. FlagInv'
  BY <1>4 DEF FlagInv
<1>8. Quiet(curr) /\ Quiet(curr)'
  BY DEF Quiet, Downs
<1>9. QueueInv' /\ WaitersInv' /\ WakeInv'
  BY <1>1, <1>2, <1>8, QuietStep DEF lockVars
<1>10. Own(t)' = "get_front" => Own(t) = "get_front"
  BY <1>2, <1>4, PointFacts DEF Own, GetPoints
<1>11. DataInv' /\ RingInv' /\ GotInv'
  BY <1>1, <1>2, <1>10, QueueStep
<1>12. UNCHANGED counts
  <2>1. ASSUME NEW P \in SUBSET ((PutPoints \ {"put_slots", "put_iret"})
                           \cup (GetPoints \ {"get_items"}))
        PROVE  In(t, P)' <=> In(t, P)
    <3>1. CASE p = pc[t]
      BY <1>2, <1>4, <3>1 DEF In
    <3>2. CASE p \in IdlePoints /\ t = idle
      <4>1. pc[t] \in IdlePoints
        BY <1>1, <1>4, <3>2 DEF PlaceInv, PlaceOK, Own
      <4> QED
        BY <1>2, <1>4, <3>2, <4>1, PointFacts DEF In
    <3> QED
      BY <3>1, <3>2
  <2> QED
    BY <1>1, <1>2, <2>1, StillCounts
<1>13. SemaphoresCount'
  BY <1>1, <1>12, CountStep DEF lockVars, queueVars
<1> QED
  BY <1>1, <1>3, <1>6, <1>7, <1>9, <1>11, <1>13
     DEF Inv, ThreadInv, AssertFailsInIdleOnly

\* The same with a switch.
LEMMA LeaveStep ==
  ASSUME Good, NEW t, t = curr, panic' = "none",
         UNCHANGED <<lockVars, queueVars, typed, got, resume, keys>>,
         NEW p \in IdlePoints \cup {"run"} \cup GetPoints,
         pc' = [pc EXCEPT ![t] = p], p = pc[t] \/ (p \in IdlePoints /\ t = idle),
         pc[t] \notin PutPoints, saved[t] = NULL,
         NEW left, Switched(left), curr' = curr \/ status[curr'] = "READY",
         \A u \in Threads \ {t} : saved'[u] = saved[u] /\ ctx'[u] = ctx[u],
         saved' \in [Threads -> {ON, OFF, NULL}],
         saved'[t] # NULL <=> p = "parked",
         ctx' \in [Threads -> {"none", "start", "iret"}],
         ctx'[t] # "none" => saved'[t] = NULL
  PROVE  Inv'
<1>1. /\ TypeInv /\ PlaceInv /\ FlagInv /\ QueueInv /\ WaitersInv /\ WakeInv
      /\ DataInv /\ RingInv /\ GotInv /\ t \in Threads /\ panic = "none"
  BY DEF Good, ThreadInv, TypeInv
<1>2. /\ pc'[t] = p /\ p \in Points
      /\ \A u \in Threads \ {t} : pc'[u] = pc[u]
  BY <1>1, PointFacts DEF TypeInv
<1>3. TypeInv'
  BY <1>1, <1>2 DEF TypeInv, lockVars, Switched
<1>4. resume[t] = NULL /\ resume'[t] = NULL
  BY <1>1 DEF PlaceInv, PlaceOK
<1>5. PlaceOK(t)'
  <2>1. PlaceOK(t) /\ Own(t) = pc[t]
    BY <1>1, <1>4 DEF PlaceInv, Own
  <2>2. Own(t)' = p
    BY <1>2, <1>4 DEF Own
  <2>3. t = idle <=> p \in IdlePoints
    BY <2>1 DEF PlaceOK
  <2>4. NULL \notin PutPoints \cup {"parked", "halted"}
    BY PointFacts DEF IdlePoints
  <2> QED
    BY <1>2, <1>4, <2>2, <2>3, <2>4, PointFacts DEF PlaceOK
<1>6. PlaceInv'
  BY <1>1, <1>2, <1>5, PlaceStep
<1>7. FlagInv' /\ QueueInv'
  BY DEF FlagInv, Switched
<1>8. Quiet(curr) /\ (saved'[curr] = NULL \/ pc'[curr] \notin Downs)
  BY <1>2 DEF Quiet, Downs
<1>9. WaitersInv' /\ WakeInv'
  BY <1>1, <1>2, <1>8, QuietSwitch DEF lockVars
<1>10. Own(t)' = "get_front" => Own(t) = "get_front"
  BY <1>2, <1>4, PointFacts DEF Own, GetPoints
<1>11. DataInv' /\ RingInv' /\ GotInv'
  BY <1>1, <1>2, <1>10, QueueStep
<1>12. UNCHANGED counts
  <2>1. ASSUME NEW P \in SUBSET ((PutPoints \ {"put_slots", "put_iret"})
                           \cup (GetPoints \ {"get_items"}))
        PROVE  In(t, P)' <=> In(t, P)
    <3>1. CASE p = pc[t]
      BY <1>2, <1>4, <3>1 DEF In
    <3>2. CASE p \in IdlePoints /\ t = idle
      <4>1. pc[t] \in IdlePoints
        BY <1>1, <1>4, <3>2 DEF PlaceInv, PlaceOK, Own
      <4> QED
        BY <1>2, <1>4, <3>2, <4>1, PointFacts DEF In
    <3> QED
      BY <3>1, <3>2
  <2> QED
    BY <1>1, <1>2, <2>1, StillCounts
<1>13. SemaphoresCount'
  BY <1>1, <1>12, CountStep DEF lockVars, queueVars
<1> QED
  BY <1>3, <1>6, <1>7, <1>9, <1>11, <1>13
     DEF Inv, ThreadInv, AssertFailsInIdleOnly

\* Where the current thread can be interrupted.
LEMMA Interruptible ==
  ASSUME Good, intr = ON
  PROVE  /\ saved[curr] = NULL /\ resume[curr] = NULL
         /\ LeaveHlt[curr] \in IdlePoints \cup {"run"} \cup GetPoints
         /\ LeaveHlt = [pc EXCEPT ![curr] = LeaveHlt[curr]]
         /\ LeaveHlt[curr] \notin {"parked", "halted"}
         /\ pc[curr] \notin PutPoints
         /\ \/ LeaveHlt[curr] = pc[curr]
            \/ curr = idle /\ {pc[curr], LeaveHlt[curr]} \subseteq IdlePoints
<1>1. curr \in Threads /\ pc \in [Threads -> Points] /\ FlagInv /\ PlaceOK(curr)
  BY DEF Good, ThreadInv, TypeInv, PlaceInv
<1>2. saved[curr] = NULL /\ resume[curr] = NULL
  BY <1>1 DEF FlagInv
<1>3. pc[curr] \notin PutPoints /\ pc[curr] # "parked"
  BY <1>1, <1>2 DEF PlaceOK
<1>4. pc[curr] \in IdlePoints \cup {"run"} \cup GetPoints
  BY <1>1, <1>3 DEF Points
<1>5. LeaveHlt[curr] = IF pc[curr] = "halted" THEN "idle" ELSE pc[curr]
  BY <1>1 DEF LeaveHlt
<1>6. pc[curr] = "halted" => curr = idle
  BY <1>1, <1>2 DEF PlaceOK, Own, IdlePoints
<1>7. LeaveHlt = [pc EXCEPT ![curr] = LeaveHlt[curr]]
  <2> DEFINE x == IF pc[curr] = "halted" THEN "idle" ELSE pc[curr]
  <2>1. LeaveHlt = [pc EXCEPT ![curr] = x]
    BY DEF LeaveHlt
  <2>2. LeaveHlt[curr] = x
    BY <1>5
  <2> HIDE DEF x
  <2> QED
    BY <2>1, <2>2
<1>8. /\ LeaveHlt[curr] \in IdlePoints \cup {"run"} \cup GetPoints
      /\ LeaveHlt[curr] \notin {"parked", "halted"}
  BY <1>3, <1>4, <1>5 DEF IdlePoints
<1>9. \/ LeaveHlt[curr] = pc[curr]
      \/ curr = idle /\ {pc[curr], LeaveHlt[curr]} \subseteq IdlePoints
  BY <1>5, <1>6 DEF IdlePoints
<1> QED
  BY <1>2, <1>3, <1>7, <1>8, <1>9

\* The steps that are the scheduler's own.
LEMMA KernelInv ==
  ASSUME Good, Kernel
  PROVE  Inv'
<1>1. /\ curr \in Threads /\ pc \in [Threads -> Points] /\ PlaceOK(curr)
      /\ saved \in [Threads -> {ON, OFF, NULL}] /\ intr \in {ON, OFF}
      /\ ctx \in [Threads -> {"none", "start", "iret"}] /\ idle \in Threads
      /\ TypeInv /\ QueueInv /\ panic = "none"
  BY DEF Good, ThreadInv, TypeInv, PlaceInv
<1>2. UNCHANGED <<lockVars, queueVars, typed, got, resume, keys>>
  BY DEF Kernel
<1>3. PICK t \in Threads : t = curr
  BY <1>1
<1>4. CASE kthread \/ intr_exit
  <2>1. /\ ctx[t] # "none" /\ ctx' = [ctx EXCEPT ![t] = "none"] /\ intr' = ON
        /\ UNCHANGED <<curr, ready, status, ava, pc, saved, panic>>
    BY <1>3, <1>4 DEF kthread, intr_exit
  <2>2. saved[t] = NULL /\ pc[t] \notin PutPoints /\ pc[t] # "parked"
    BY <1>1, <1>3, <2>1 DEF PlaceOK
  <2>3. pc[t] \in IdlePoints \cup {"run"} \cup GetPoints
    BY <1>1, <2>2 DEF Points
  <2>4. PICK p \in IdlePoints \cup {"run"} \cup GetPoints :
            p = pc[t] /\ pc' = [pc EXCEPT ![t] = p]
    BY <1>1, <2>1, <2>3
  <2>5. /\ \A u \in Threads \ {t} : saved'[u] = saved[u] /\ ctx'[u] = ctx[u]
        /\ saved' \in [Threads -> {ON, OFF, NULL}] /\ saved'[t] = NULL
        /\ ctx' \in [Threads -> {"none", "start", "iret"}] /\ ctx'[t] = "none"
    BY <1>1, <2>1, <2>2
  <2> QED
    BY <1>2, <1>3, <2>1, <2>2, <2>3, <2>4, <2>5, StandStep, ZenonT(40)
<1>5. CASE idle_unblocked
  <2>1. /\ t = idle /\ pc[t] = "parked" /\ ctx[t] = "none"
        /\ saved' = [saved EXCEPT ![t] = NULL]
        /\ pc' = [pc EXCEPT ![t] = "sti_hlt"]
        /\ UNCHANGED <<curr, ready, status, ava, ctx, panic>>
    BY <1>3, <1>5 DEF idle_unblocked, At, Executing, Goto
  <2>2. intr' \in {ON, OFF}
    BY <1>5 DEF idle_unblocked, INTERRUPT_RESTORE
  <2>3. /\ \A u \in Threads \ {t} : saved'[u] = saved[u] /\ ctx'[u] = ctx[u]
        /\ saved' \in [Threads -> {ON, OFF, NULL}] /\ saved'[t] = NULL
        /\ ctx' \in [Threads -> {"none", "start", "iret"}] /\ ctx'[t] = "none"
    BY <1>1, <2>1
  <2>4. "sti_hlt" \in IdlePoints /\ pc[t] \notin PutPoints
    BY <2>1 DEF IdlePoints, PutPoints
  <2> QED
    BY <1>2, <1>3, <2>1, <2>2, <2>3, <2>4, StandStep
<1>6. CASE idle_hlt
  <2>1. /\ t = idle /\ pc[t] = "sti_hlt" /\ ctx[t] = "none" /\ intr' = ON
        /\ pc' = [pc EXCEPT ![t] = "halted"]
        /\ UNCHANGED <<curr, ready, status, ava, ctx, saved, panic>>
    BY <1>3, <1>6 DEF idle_hlt, At, Executing, Goto
  <2>2. saved[t] = NULL
    BY <1>1, <1>3, <2>1 DEF PlaceOK, Downs
  <2>3. /\ \A u \in Threads \ {t} : saved'[u] = saved[u] /\ ctx'[u] = ctx[u]
        /\ saved' \in [Threads -> {ON, OFF, NULL}] /\ saved'[t] = NULL
        /\ ctx' \in [Threads -> {"none", "start", "iret"}] /\ ctx'[t] = "none"
    BY <1>1, <2>1, <2>2
  <2>4. "halted" \in IdlePoints /\ pc[t] \notin PutPoints
    BY <2>1 DEF IdlePoints, PutPoints
  <2> QED
    BY <1>2, <1>3, <2>1, <2>2, <2>3, <2>4, StandStep
<1>7. CASE idle_block
  <2>1. /\ t = idle /\ pc[t] = "idle" /\ ctx[t] = "none"
        /\ saved' = [saved EXCEPT ![t] = intr]
        /\ pc' = [pc EXCEPT ![t] = "parked"] /\ UNCHANGED ctx
        /\ schedule(ready, [status EXCEPT ![curr] = "BLOCKED"])
        /\ ASSERT(ScheduleAsserts(ready, [status EXCEPT ![curr] = "BLOCKED"]))
    BY <1>3, <1>7 DEF idle_block, At, Executing, Goto
  <2>2. /\ Switched("BLOCKED") /\ panic' = "none"
        /\ curr' = curr \/ status[curr'] = "READY"
    <3>1. /\ Switched("BLOCKED")
          /\ ScheduleAsserts(ready, [status EXCEPT ![curr] = "BLOCKED"])
          /\ \/ ready = <<>> /\ ready' = <<>> /\ curr' = idle
             \/ ready # <<>> /\ status[curr'] = "READY"
      BY <1>1, <2>1, SwitchBlocked
    <3> QED
      BY <1>3, <2>1, <3>1 DEF ASSERT
  <2>3. saved[t] = NULL
    BY <1>1, <1>3, <2>1 DEF PlaceOK, Downs
  <2>4. /\ \A u \in Threads \ {t} : saved'[u] = saved[u] /\ ctx'[u] = ctx[u]
        /\ saved' \in [Threads -> {ON, OFF, NULL}] /\ saved'[t] # NULL
        /\ ctx' \in [Threads -> {"none", "start", "iret"}] /\ ctx'[t] = "none"
    BY <1>1, <2>1
  <2>5. "parked" \in IdlePoints /\ pc[t] \notin PutPoints
    BY <2>1 DEF IdlePoints, PutPoints
  <2> QED
    BY <1>2, <1>3, <2>1, <2>2, <2>3, <2>4, <2>5, LeaveStep
<1>8. CASE time_intr_handler
  <2>1. /\ intr = ON /\ ctx[t] = "none" /\ pc' = LeaveHlt /\ saved' = saved
    BY <1>3, <1>8 DEF time_intr_handler
  <2>0. PICK p \in IdlePoints \cup {"run"} \cup GetPoints : p = LeaveHlt[curr]
    BY <2>1, Interruptible
  <2>2. /\ saved[t] = NULL
        /\ pc' = [pc EXCEPT ![t] = p] /\ p # "parked" /\ pc[t] \notin PutPoints
        /\ p = pc[t] \/ (p \in IdlePoints /\ t = idle)
    <3>1. /\ saved[curr] = NULL /\ pc[curr] \notin PutPoints
          /\ p # "parked" /\ LeaveHlt = [pc EXCEPT ![curr] = p]
          /\ p = pc[curr] \/ (p \in IdlePoints /\ curr = idle)
      BY <2>0, <2>1, Interruptible
    <3> QED
      BY <1>3, <2>1, <3>1
  <2>3. /\ \A u \in Threads \ {t} : saved'[u] = saved[u]
        /\ saved' \in [Threads -> {ON, OFF, NULL}] /\ saved'[t] = NULL
    BY <1>1, <2>1, <2>2
  <2>4. CASE ava[curr] = 0 /\ schedule(ready, status)
             /\ ASSERT(ScheduleAsserts(ready, status))
             /\ ctx' = [ctx EXCEPT ![curr] = "iret"]
    <3>1. /\ Switched("READY") /\ panic' = "none"
          /\ curr' = curr \/ status[curr'] = "READY"
      BY <1>1, <2>4, SwitchSlice DEF ASSERT
    <3>2. /\ \A u \in Threads \ {t} : ctx'[u] = ctx[u]
          /\ ctx' \in [Threads -> {"none", "start", "iret"}]
      BY <1>1, <1>3, <2>4
    <3>3. /\ \A u \in Threads \ {t} : saved'[u] = saved[u] /\ ctx'[u] = ctx[u]
          /\ saved'[t] # NULL <=> p = "parked"
          /\ ctx'[t] # "none" => saved'[t] = NULL
      BY <2>2, <2>3, <3>2
    <3> QED
      BY <1>2, <1>3, <2>0, <2>2, <2>3, <3>1, <3>2, <3>3, LeaveStep
  <2>5. CASE UNCHANGED <<intr, curr, ready, status, ctx, panic>>
    BY <1>1, <1>2, <1>3, <2>1, <2>2, <2>3, <2>5, StandStep, ZenonT(40)
  <2> QED
    BY <1>8, <2>4, <2>5 DEF time_intr_handler
<1> QED
  BY <1>4, <1>5, <1>6, <1>7, <1>8 DEF Kernel

-----------------------------------------------------------------------------
(* The steps of the handler and of the readers.                            *)

\* A step that calls no function of the scheduler.
LEMMA PlainStep ==
  ASSUME Good, NEW t \in Threads, t = curr, ctx[t] = "none", saved[t] = NULL,
         NEW q \in Points, Goto(t, q), PlainFrame,
         resume' \in [Threads -> Points \cup {NULL}],
         \A u \in Threads \ {t} : resume'[u] = resume[u],
         q \in PutPoints <=> resume'[t] # NULL, q # "parked",
         resume'[t] \notin PutPoints \cup {"parked", "halted"},
         t = idle <=> Own(t)' \in IdlePoints,
         intr' \in {ON, OFF},
         resume'[t] # NULL => intr' = OFF
  PROVE  /\ ThreadInv' /\ panic' = "none"
         /\ pc' = [pc EXCEPT ![t] = q] /\ pc'[t] = q
         /\ \A u \in Threads \ {t} : pc'[u] = pc[u]
<1>1. /\ TypeInv /\ PlaceInv /\ FlagInv /\ QueueInv /\ WaitersInv /\ WakeInv
      /\ panic = "none"
  BY DEF Good, ThreadInv
<1>2. /\ pc' = [pc EXCEPT ![t] = q] /\ pc'[t] = q
      /\ \A u \in Threads \ {t} : pc'[u] = pc[u]
      /\ pc' \in [Threads -> Points]
  BY <1>1 DEF Goto, TypeInv
<1>3. /\ UNCHANGED <<curr, ready, status, ctx, saved, panic, value, waiters>>
  BY DEF PlainFrame, lockVars
<1>4. TypeInv'
  BY <1>1, <1>2, <1>3 DEF TypeInv
<1>5. PlaceOK(t)'
  BY <1>2, <1>3 DEF PlaceOK
<1>6. PlaceInv'
  BY <1>1, <1>2, <1>3, <1>5, PlaceStep
<1>7. FlagInv'
  BY <1>3 DEF FlagInv
<1>8. Quiet(curr) /\ Quiet(curr)'
  BY <1>3 DEF Quiet
<1>9. QueueInv' /\ WaitersInv' /\ WakeInv'
  BY <1>1, <1>2, <1>3, <1>8, QuietStep
<1> QED
  BY <1>1, <1>2, <1>3, <1>4, <1>6, <1>7, <1>9 DEF ThreadInv

\* A key.
LEMMA KeyInv ==
  ASSUME Good, NEW c \in Chars, keyboard_interrupt(c)
  PROVE  Inv'
<1>1. /\ TypeInv /\ PlaceInv /\ DataInv /\ RingInv /\ GotInv
      /\ curr \in Threads /\ panic = "none"
  BY DEF Good, ThreadInv, TypeInv
<1>2. PICK t \in Threads : t = curr
  BY <1>1
<1>3. PICK p \in IdlePoints \cup {"run"} \cup GetPoints : p = LeaveHlt[curr]
  BY Interruptible DEF keyboard_interrupt
<1>4. /\ saved[t] = NULL /\ resume[t] = NULL /\ p \notin {"parked", "halted"}
      /\ p = pc[t] \/ (t = idle /\ {pc[t], p} \subseteq IdlePoints)
      /\ pc[t] \notin PutPoints
  BY <1>2, <1>3, Interruptible DEF keyboard_interrupt
<1>5. /\ ctx[t] = "none" /\ intr' = OFF /\ Goto(t, "put_slots") /\ PlainFrame
      /\ typed' = [typed EXCEPT ![t] = c]
      /\ resume' = [resume EXCEPT ![t] = p] /\ UNCHANGED <<queueVars, got>>
  BY <1>2, <1>3 DEF keyboard_interrupt
<1>6. /\ resume' \in [Threads -> Points \cup {NULL}] /\ resume'[t] = p
      /\ \A u \in Threads \ {t} : resume'[u] = resume[u]
      /\ p \notin PutPoints /\ p # NULL
  BY <1>1, <1>5, PointFacts DEF TypeInv, Points
<1>7. Own(t)' = p
  BY <1>6 DEF Own
<1>8. t = idle <=> p \in IdlePoints
  BY <1>1, <1>4, PointFacts DEF PlaceInv, PlaceOK, Own
<1>9. "put_slots" \in PutPoints /\ "put_slots" \in Points
  BY DEF PutPoints, Points
<1>10. /\ ThreadInv' /\ panic' = "none" /\ pc'[t] = "put_slots"
       /\ \A u \in Threads \ {t} : pc'[u] = pc[u]
  BY <1>2, <1>4, <1>5, <1>6, <1>7, <1>8, <1>9, PlainStep
<1>11. DataInv' /\ RingInv'
  BY <1>1, <1>5 DEF DataInv, RingInv, queueVars
<1>12. GotInv'
  <2> SUFFICES ASSUME NEW u \in Threads, Own(u)' = "get_front"
               PROVE  got'[u] = Head(unread')
    BY DEF GotInv
  <2>1. Own(u) = "get_front"
    <3>1. CASE u = t
      BY <1>4, <1>7, <3>1 DEF Own, IdlePoints
    <3>2. CASE u # t
      BY <1>6, <1>10, <3>2 DEF Own
    <3> QED
      BY <3>1, <3>2
  <2> QED
    BY <1>1, <1>5, <2>1 DEF GotInv, queueVars
<1>13. UNCHANGED counts
  <2>1. ASSUME NEW P \in SUBSET ((PutPoints \ {"put_slots", "put_iret"})
                           \cup (GetPoints \ {"get_items"}))
        PROVE  In(t, P)' <=> In(t, P)
    <3>1. In(t, P)' <=> p \in P
      BY <1>6, <1>10 DEF In, GetPoints
    <3>2. In(t, P) <=> pc[t] \in P
      BY <1>4, PointFacts DEF In
    <3> QED
      BY <1>4, <3>1, <3>2, PointFacts
  <2> QED
    BY <1>6, <1>10, <2>1, StillCounts
<1>14. SemaphoresCount'
  BY <1>5, <1>10, <1>13, CountStep DEF queueVars, PlainFrame, lockVars
<1> QED
  BY <1>10, <1>11, <1>12, <1>14 DEF Inv, AssertFailsInIdleOnly

\* The return of the handler.
LEMMA IretInv ==
  ASSUME Good, NEW t \in Threads, put_iret(t)
  PROVE  Inv'
<1>1. /\ TypeInv /\ PlaceInv /\ DataInv /\ RingInv /\ GotInv /\ panic = "none"
  BY DEF Good, ThreadInv
<1>2. /\ t = curr /\ ctx[t] = "none" /\ pc[t] = "put_iret" /\ intr' = ON
      /\ Goto(t, resume[t]) /\ PlainFrame
      /\ resume' = [resume EXCEPT ![t] = NULL]
      /\ UNCHANGED <<queueVars, typed, got, keys>>
  BY DEF put_iret, At, Executing
<1>3. /\ PlaceOK(t) /\ "put_iret" \in PutPoints /\ "put_iret" \notin Downs
      /\ "put_iret" # "parked"
  BY <1>1 DEF PlaceInv, PutPoints, Downs
<1>4. PICK p \in Points : p = resume[t]
  BY <1>1, <1>2, <1>3 DEF TypeInv, PlaceOK
<1>5. /\ saved[t] = NULL /\ p # NULL /\ p # "parked" /\ p \notin PutPoints
      /\ Own(t) = p
  BY <1>2, <1>3, <1>4 DEF PlaceOK, Own
<1>6. t = idle <=> p \in IdlePoints
  BY <1>3, <1>5 DEF PlaceOK
<1>7. /\ resume' \in [Threads -> Points \cup {NULL}] /\ resume'[t] = NULL
      /\ \A u \in Threads \ {t} : resume'[u] = resume[u]
      /\ NULL \notin PutPoints \cup {"parked", "halted"}
  BY <1>1, <1>2, PointFacts DEF TypeInv, IdlePoints
<1>8. Own(t)' = p
  BY <1>1, <1>2, <1>4, <1>7 DEF Own, Goto, TypeInv
<1>9. Goto(t, p)
  BY <1>2, <1>4
<1>10. /\ ThreadInv' /\ panic' = "none" /\ pc'[t] = p
       /\ \A u \in Threads \ {t} : pc'[u] = pc[u]
  BY <1>2, <1>5, <1>6, <1>7, <1>8, <1>9, PlainStep
<1>11. DataInv' /\ RingInv' /\ GotInv'
  BY <1>1, <1>2, <1>5, <1>7, <1>8, <1>10, QueueStep
<1>12. UNCHANGED counts
  <2>1. ASSUME NEW P \in SUBSET ((PutPoints \ {"put_slots", "put_iret"})
                           \cup (GetPoints \ {"get_items"}))
        PROVE  In(t, P)' <=> In(t, P)
    <3>1. "put_iret" \notin P /\ NULL \notin P
      BY PointFacts DEF GetPoints
    <3> QED
      BY <1>2, <1>4, <1>7, <1>10, <3>1 DEF In
  <2> QED
    BY <1>7, <1>10, <2>1, StillCounts
<1>13. SemaphoresCount'
  BY <1>2, <1>10, <1>12, CountStep DEF queueVars, PlainFrame, lockVars
<1> QED
  BY <1>10, <1>11, <1>13 DEF Inv, AssertFailsInIdleOnly

\* A reader enters io_queue_getchar.
LEMMA GetcharInv ==
  ASSUME Good, NEW t \in Threads, io_queue_getchar(t)
  PROVE  Inv'
<1>1. /\ TypeInv /\ PlaceInv /\ DataInv /\ RingInv /\ GotInv /\ panic = "none"
      /\ intr \in {ON, OFF}
  BY DEF Good, ThreadInv, TypeInv
<1>2. /\ t = curr /\ ctx[t] = "none" /\ pc[t] = "run" /\ t # idle
      /\ Goto(t, "get_items") /\ PlainFrame
      /\ UNCHANGED <<intr, queueVars, typed, got, resume, keys>>
  BY DEF io_queue_getchar, At, Executing
<1>3. /\ PlaceOK(t) /\ "get_items" \in GetPoints /\ "get_items" \notin PutPoints
      /\ "get_items" \in Points /\ "get_items" \notin IdlePoints
  BY <1>1 DEF PlaceInv, PutPoints, GetPoints, IdlePoints, Points
<1>4. saved[t] = NULL /\ resume[t] = NULL
  BY <1>2, <1>3, PointFacts DEF PlaceOK, Downs
<1>5. /\ resume' \in [Threads -> Points \cup {NULL}] /\ resume'[t] = NULL
      /\ \A u \in Threads \ {t} : resume'[u] = resume[u]
      /\ NULL \notin PutPoints \cup {"parked", "halted"}
  BY <1>1, <1>2, <1>4, PointFacts DEF TypeInv, IdlePoints
<1>6. Own(t)' = "get_items"
  BY <1>1, <1>2, <1>5 DEF Own, Goto, TypeInv
<1>7. /\ ThreadInv' /\ panic' = "none" /\ pc'[t] = "get_items"
      /\ \A u \in Threads \ {t} : pc'[u] = pc[u]
  BY <1>1, <1>2, <1>3, <1>4, <1>5, <1>6, PlainStep
<1>8. DataInv' /\ RingInv' /\ GotInv'
  BY <1>1, <1>2, <1>5, <1>6, <1>7, QueueStep
<1>9. UNCHANGED counts
  <2>1. ASSUME NEW P \in SUBSET ((PutPoints \ {"put_slots", "put_iret"})
                           \cup (GetPoints \ {"get_items"}))
        PROVE  In(t, P)' <=> In(t, P)
    <3>1. "get_items" \notin P /\ NULL \notin P /\ "run" \notin P
      BY PointFacts DEF GetPoints, PutPoints
    <3> QED
      BY <1>2, <1>4, <1>5, <1>7, <3>1 DEF In
  <2> QED
    BY <1>5, <1>7, <2>1, StillCounts
<1>10. SemaphoresCount'
  BY <1>2, <1>7, <1>9, CountStep DEF queueVars, PlainFrame, lockVars
<1> QED
  BY <1>7, <1>8, <1>10 DEF Inv, AssertFailsInIdleOnly

\* What a thread at p adds to the counts.
AddPutClaims(p) == IF p \in {"put_mutex", "put_store"} THEN 1 ELSE 0
AddPutDone(p)   == IF p \in {"put_up_mutex", "put_up_items"} THEN 1 ELSE 0
AddPutHolds(p)  == IF p \in {"put_store", "put_up_mutex"} THEN 1 ELSE 0
AddGetClaims(p) == IF p \in {"get_mutex", "get_read", "get_front"} THEN 1 ELSE 0
AddGetDone(p)   == IF p \in {"get_up_mutex", "get_up_slots"} THEN 1 ELSE 0
AddGetHolds(p)  == IF p \in {"get_read", "get_front", "get_up_mutex"}
                   THEN 1 ELSE 0

\* The counts when the handler moves from p to q.
LEMMA PutCounts ==
  ASSUME TypeInv, PlaceInv, NEW t \in Threads, resume' = resume,
         pc[t] \in PutPoints, pc'[t] \in PutPoints,
         \A u \in Threads \ {t} : pc'[u] = pc[u]
  PROVE  /\ UNCHANGED <<GetClaims, GetDone, GetHolds>>
         /\ PutClaims + AddPutClaims(pc'[t]) = PutClaims' + AddPutClaims(pc[t])
         /\ PutDone + AddPutDone(pc'[t]) = PutDone' + AddPutDone(pc[t])
         /\ PutHolds + AddPutHolds(pc'[t]) = PutHolds' + AddPutHolds(pc[t])
         /\ PutClaims' \in Nat /\ PutDone' \in Nat /\ PutHolds' \in Nat
         /\ AddPutClaims(pc[t]) <= PutClaims /\ AddPutDone(pc[t]) <= PutDone
         /\ AddPutHolds(pc[t]) <= PutHolds
<1>1. ASSUME NEW P \in SUBSET GetPoints PROVE CountAt(P)' = CountAt(P)
  BY HandlerMove
<1>2. ASSUME NEW P \in SUBSET PutPoints
      PROVE  /\ CountAt(P) + (IF pc'[t] \in P THEN 1 ELSE 0)
                  = CountAt(P)' + (IF pc[t] \in P THEN 1 ELSE 0)
             /\ CountAt(P)' \in Nat
             /\ (IF pc[t] \in P THEN 1 ELSE 0) <= CountAt(P)
  <2>0. pc[t] \in PutPoints /\ P \subseteq PutPoints
    OBVIOUS
  <2>1. /\ CountAt(P)' + (IF pc[t] \in P THEN 1 ELSE 0)
             = CountAt(P) + (IF pc'[t] \in P THEN 1 ELSE 0)
        /\ CountAt(P)' \in Nat /\ CountAt(P) \in Nat
        /\ pc[t] \in P => CountAt(P) >= 1
    BY <2>0, HandlerMove
  <2> QED
    BY <2>1
<1>3. UNCHANGED <<GetClaims, GetDone, GetHolds>>
  BY <1>1 DEF GetClaims, GetDone, GetHolds, GetPoints
<1>4. /\ {"put_mutex", "put_store"} \in SUBSET PutPoints
      /\ {"put_up_mutex", "put_up_items"} \in SUBSET PutPoints
      /\ {"put_store", "put_up_mutex"} \in SUBSET PutPoints
  BY DEF PutPoints
<1> QED
  BY <1>2, <1>3, <1>4
     DEF PutClaims, PutDone, PutHolds, AddPutClaims, AddPutDone, AddPutHolds

\* The counts when a thread moves from p to q in its own code.
LEMMA GetCounts ==
  ASSUME TypeInv, PlaceInv, NEW t \in Threads, resume' = resume,
         pc[t] \notin PutPoints, pc'[t] \notin PutPoints,
         \A u \in Threads \ {t} : pc'[u] = pc[u]
  PROVE  /\ UNCHANGED <<PutClaims, PutDone, PutHolds>>
         /\ GetClaims + AddGetClaims(pc'[t]) = GetClaims' + AddGetClaims(pc[t])
         /\ GetDone + AddGetDone(pc'[t]) = GetDone' + AddGetDone(pc[t])
         /\ GetHolds + AddGetHolds(pc'[t]) = GetHolds' + AddGetHolds(pc[t])
         /\ GetClaims' \in Nat /\ GetDone' \in Nat /\ GetHolds' \in Nat
         /\ AddGetClaims(pc[t]) <= GetClaims /\ AddGetDone(pc[t]) <= GetDone
         /\ AddGetHolds(pc[t]) <= GetHolds
<1>1. ASSUME NEW P \in SUBSET PutPoints PROVE CountAt(P)' = CountAt(P)
  BY OwnMove
<1>2. ASSUME NEW P \in SUBSET GetPoints
      PROVE  /\ CountAt(P) + (IF pc'[t] \in P THEN 1 ELSE 0)
                  = CountAt(P)' + (IF pc[t] \in P THEN 1 ELSE 0)
             /\ CountAt(P)' \in Nat
             /\ (IF pc[t] \in P THEN 1 ELSE 0) <= CountAt(P)
  <2>0. pc[t] \notin PutPoints /\ P \subseteq GetPoints
    OBVIOUS
  <2>1. /\ CountAt(P)' + (IF pc[t] \in P THEN 1 ELSE 0)
             = CountAt(P) + (IF pc'[t] \in P THEN 1 ELSE 0)
        /\ CountAt(P)' \in Nat /\ CountAt(P) \in Nat
        /\ pc[t] \in P => CountAt(P) >= 1
    BY <2>0, OwnMove
  <2> QED
    BY <2>1
<1>3. UNCHANGED <<PutClaims, PutDone, PutHolds>>
  BY <1>1 DEF PutClaims, PutDone, PutHolds, PutPoints
<1>4. /\ {"get_mutex", "get_read", "get_front"} \in SUBSET GetPoints
      /\ {"get_up_mutex", "get_up_slots"} \in SUBSET GetPoints
      /\ {"get_read", "get_front", "get_up_mutex"} \in SUBSET GetPoints
  BY DEF GetPoints
<1> QED
  BY <1>2, <1>3, <1>4
     DEF GetClaims, GetDone, GetHolds, AddGetClaims, AddGetDone, AddGetHolds

\* The equations are SemaphoresCount.
LEMMA CountsAre ==
  ASSUME value'[slots] + Len(unread') + PutClaims' + GetDone' = BUF_SIZE,
         value'[items] + GetClaims' + PutDone' = Len(unread'),
         value'[mutex] + GetHolds' + PutHolds' = 1
  PROVE  SemaphoresCount'
  BY DEF SemaphoresCount, PutClaims, PutDone, PutHolds, GetClaims, GetDone,
         GetHolds

\* The four calls of sem_down.
LEMMA DownInv ==
  ASSUME Good, NEW t \in Threads,
         put_slots(t) \/ put_mutex(t) \/ get_items(t) \/ get_mutex(t)
  PROVE  Inv'
<1>1. /\ TypeInv /\ PlaceInv /\ DataInv /\ panic = "none"
      /\ value \in [Mutexes -> Nat] /\ slots \in Mutexes /\ items \in Mutexes
      /\ mutex \in Mutexes
  BY DEF Good, ThreadInv, TypeInv
<1>2. /\ value[slots] + Len(unread) + PutClaims + GetDone = BUF_SIZE
      /\ value[items] + GetClaims + PutDone = Len(unread)
      /\ value[mutex] + GetHolds + PutHolds = 1
      /\ PutClaims \in Nat /\ PutDone \in Nat /\ PutHolds \in Nat
      /\ GetClaims \in Nat /\ GetDone \in Nat /\ GetHolds \in Nat
      /\ value[slots] \in Nat /\ value[items] \in Nat /\ value[mutex] \in Nat
      /\ Len(unread) \in Nat
  BY <1>1, CountFacts DEF Good
<1>3. /\ {"put_slots", "put_mutex", "put_store"} \subseteq PutPoints
      /\ {"get_items", "get_mutex", "get_read"} \subseteq GetPoints
  BY DEF PutPoints, GetPoints
<1>4. ASSUME value' = value, pc' = pc, UNCHANGED <<unread, resume>>
      PROVE  SemaphoresCount'
  <2>1. UNCHANGED <<PutClaims, PutDone, PutHolds, GetClaims, GetDone, GetHolds>>
    BY <1>4 DEF PutClaims, PutDone, PutHolds, GetClaims, GetDone, GetHolds,
                CountAt
  <2> QED
    BY <1>2, <1>4, <2>1, CountsAre
<1>5. ASSUME put_slots(t) PROVE Inv'
  <2>1. At(t, "put_slots") /\ sem_down(t, slots, "put_mutex") /\ SemFrame
    BY <1>5 DEF put_slots
  <2>2. /\ AssertFailsInIdleOnly'
        /\ panic' = "none" =>
             ThreadInv' /\ DataInv' /\ RingInv' /\ GotInv'
        /\ \/ value' = value /\ pc' = pc
           \/ /\ value[slots] > 0 /\ value' = [value EXCEPT ![slots] = @ - 1]
              /\ pc' = [pc EXCEPT ![t] = "put_mutex"]
        /\ UNCHANGED <<unread, resume>>
    BY <1>3, <2>1, WaitPointsAre, DownStep
  <2>3. CASE /\ value[slots] > 0 /\ value' = [value EXCEPT ![slots] = @ - 1]
             /\ pc' = [pc EXCEPT ![t] = "put_mutex"]
    <3>1. /\ UNCHANGED <<GetClaims, GetDone, GetHolds, PutDone, PutHolds>>
          /\ PutClaims' = PutClaims + 1
      <4>1. /\ pc[t] = "put_slots" /\ pc'[t] = "put_mutex" /\ resume' = resume
            /\ \A u \in Threads \ {t} : pc'[u] = pc[u]
        BY <1>1, <2>1, <2>2, <2>3 DEF At, TypeInv
      <4>2. /\ PutClaims + AddPutClaims("put_mutex") = PutClaims' + AddPutClaims("put_slots")
            /\ PutClaims' \in Nat
            /\ PutDone + AddPutDone("put_mutex") = PutDone' + AddPutDone("put_slots")
            /\ PutDone' \in Nat
            /\ PutHolds + AddPutHolds("put_mutex") = PutHolds' + AddPutHolds("put_slots")
            /\ PutHolds' \in Nat
            /\ UNCHANGED <<GetClaims, GetDone, GetHolds>>
        BY <1>1, <1>3, <4>1, PutCounts
      <4>3. /\ AddPutClaims("put_slots") = 0 /\ AddPutClaims("put_mutex") = 1
            /\ AddPutDone("put_slots") = 0 /\ AddPutDone("put_mutex") = 0
            /\ AddPutHolds("put_slots") = 0 /\ AddPutHolds("put_mutex") = 0
        BY DEF AddPutClaims, AddPutDone, AddPutHolds
      <4> QED
        BY <1>2, <4>2, <4>3
    <3>2. /\ value'[slots] = value[slots] - 1 /\ value'[items] = value[items]
          /\ value'[mutex] = value[mutex]
      BY <1>1, <2>3, Distinct
    <3>3. SemaphoresCount'
      <4>1. unread' = unread
        BY <2>2
      <4>2. value'[slots] + Len(unread') + PutClaims' + GetDone' = BUF_SIZE
        <5>0. PICK a \in Nat, b \in Nat, c \in Nat, d \in Nat :
                /\ a = value[slots] /\ b = Len(unread)
                /\ c = PutClaims /\ d = GetDone
          BY <1>2
        <5>2. a + b + c + d = BUF_SIZE
          BY <1>2, <5>0
        <5>3. (a - 1) + b + (c + 1) + d = BUF_SIZE
          BY <5>2
        <5>1. (value[slots] - 1) + Len(unread) + (PutClaims + 1) + GetDone = BUF_SIZE
          BY <5>0, <5>3
        <5> QED
          BY <3>1, <3>2, <4>1, <5>1
      <4>3. value'[items] + GetClaims' + PutDone' = Len(unread')
        BY <1>2, <3>1, <3>2, <4>1
      <4>4. value'[mutex] + GetHolds' + PutHolds' = 1
        BY <1>2, <3>1, <3>2, <4>1
      <4> QED
        BY <4>2, <4>3, <4>4, CountsAre
    <3> QED
      BY <2>2, <3>3 DEF Inv
  <2> QED
    BY <1>4, <2>2, <2>3 DEF Inv
<1>6. ASSUME put_mutex(t) PROVE Inv'
  <2>1. At(t, "put_mutex") /\ sem_down(t, mutex, "put_store") /\ SemFrame
    BY <1>6 DEF put_mutex
  <2>2. /\ AssertFailsInIdleOnly'
        /\ panic' = "none" =>
             ThreadInv' /\ DataInv' /\ RingInv' /\ GotInv'
        /\ \/ value' = value /\ pc' = pc
           \/ /\ value[mutex] > 0 /\ value' = [value EXCEPT ![mutex] = @ - 1]
              /\ pc' = [pc EXCEPT ![t] = "put_store"]
        /\ UNCHANGED <<unread, resume>>
    BY <1>3, <2>1, WaitPointsAre, DownStep
  <2>3. CASE /\ value[mutex] > 0 /\ value' = [value EXCEPT ![mutex] = @ - 1]
             /\ pc' = [pc EXCEPT ![t] = "put_store"]
    <3>1. /\ UNCHANGED <<GetClaims, GetDone, GetHolds, PutDone, PutClaims>>
          /\ PutHolds' = PutHolds + 1
      <4>1. /\ pc[t] = "put_mutex" /\ pc'[t] = "put_store" /\ resume' = resume
            /\ \A u \in Threads \ {t} : pc'[u] = pc[u]
        BY <1>1, <2>1, <2>2, <2>3 DEF At, TypeInv
      <4>2. /\ PutClaims + AddPutClaims("put_store") = PutClaims' + AddPutClaims("put_mutex")
            /\ PutClaims' \in Nat
            /\ PutDone + AddPutDone("put_store") = PutDone' + AddPutDone("put_mutex")
            /\ PutDone' \in Nat
            /\ PutHolds + AddPutHolds("put_store") = PutHolds' + AddPutHolds("put_mutex")
            /\ PutHolds' \in Nat
            /\ UNCHANGED <<GetClaims, GetDone, GetHolds>>
        BY <1>1, <1>3, <4>1, PutCounts
      <4>3. /\ AddPutClaims("put_mutex") = 1 /\ AddPutClaims("put_store") = 1
            /\ AddPutDone("put_mutex") = 0 /\ AddPutDone("put_store") = 0
            /\ AddPutHolds("put_mutex") = 0 /\ AddPutHolds("put_store") = 1
        BY DEF AddPutClaims, AddPutDone, AddPutHolds
      <4> QED
        BY <1>2, <4>2, <4>3
    <3>2. /\ value'[mutex] = value[mutex] - 1 /\ value'[items] = value[items]
          /\ value'[slots] = value[slots]
      BY <1>1, <2>3, Distinct
    <3>3. SemaphoresCount'
      <4>1. unread' = unread
        BY <2>2
      <4>2. value'[slots] + Len(unread') + PutClaims' + GetDone' = BUF_SIZE
        BY <1>2, <3>1, <3>2, <4>1
      <4>3. value'[items] + GetClaims' + PutDone' = Len(unread')
        BY <1>2, <3>1, <3>2, <4>1
      <4>4. value'[mutex] + GetHolds' + PutHolds' = 1
        <5>1. (value[mutex] - 1) + GetHolds + (PutHolds + 1) = 1
          BY <1>2, SMTT(40)
        <5> QED
          BY <3>1, <3>2, <4>1, <5>1
      <4> QED
        BY <4>2, <4>3, <4>4, CountsAre
    <3> QED
      BY <2>2, <3>3 DEF Inv
  <2> QED
    BY <1>4, <2>2, <2>3 DEF Inv
<1>7. ASSUME get_items(t) PROVE Inv'
  <2>1. At(t, "get_items") /\ sem_down(t, items, "get_mutex") /\ SemFrame
    BY <1>7 DEF get_items
  <2>2. /\ AssertFailsInIdleOnly'
        /\ panic' = "none" =>
             ThreadInv' /\ DataInv' /\ RingInv' /\ GotInv'
        /\ \/ value' = value /\ pc' = pc
           \/ /\ value[items] > 0 /\ value' = [value EXCEPT ![items] = @ - 1]
              /\ pc' = [pc EXCEPT ![t] = "get_mutex"]
        /\ UNCHANGED <<unread, resume>>
    BY <1>3, <2>1, WaitPointsAre, DownStep
  <2>3. CASE /\ value[items] > 0 /\ value' = [value EXCEPT ![items] = @ - 1]
             /\ pc' = [pc EXCEPT ![t] = "get_mutex"]
    <3>1. /\ UNCHANGED <<PutClaims, PutDone, PutHolds, GetDone, GetHolds>>
          /\ GetClaims' = GetClaims + 1
      <4>1. /\ pc[t] = "get_items" /\ pc'[t] = "get_mutex" /\ resume' = resume
            /\ \A u \in Threads \ {t} : pc'[u] = pc[u]
        BY <1>1, <2>1, <2>2, <2>3 DEF At, TypeInv
      <4>2. /\ GetClaims + AddGetClaims("get_mutex") = GetClaims' + AddGetClaims("get_items")
            /\ GetClaims' \in Nat
            /\ GetDone + AddGetDone("get_mutex") = GetDone' + AddGetDone("get_items")
            /\ GetDone' \in Nat
            /\ GetHolds + AddGetHolds("get_mutex") = GetHolds' + AddGetHolds("get_items")
            /\ GetHolds' \in Nat
            /\ UNCHANGED <<PutClaims, PutDone, PutHolds>>
        BY <1>1, <1>3, <4>1, PointFacts, GetCounts
      <4>3. /\ AddGetClaims("get_items") = 0 /\ AddGetClaims("get_mutex") = 1
            /\ AddGetDone("get_items") = 0 /\ AddGetDone("get_mutex") = 0
            /\ AddGetHolds("get_items") = 0 /\ AddGetHolds("get_mutex") = 0
        BY DEF AddGetClaims, AddGetDone, AddGetHolds
      <4> QED
        BY <1>2, <4>2, <4>3
    <3>2. /\ value'[items] = value[items] - 1 /\ value'[slots] = value[slots]
          /\ value'[mutex] = value[mutex]
      BY <1>1, <2>3, Distinct
    <3>3. SemaphoresCount'
      <4>1. unread' = unread
        BY <2>2
      <4>2. value'[slots] + Len(unread') + PutClaims' + GetDone' = BUF_SIZE
        BY <1>2, <3>1, <3>2, <4>1
      <4>3. value'[items] + GetClaims' + PutDone' = Len(unread')
        <5>1. (value[items] - 1) + (GetClaims + 1) + PutDone = Len(unread)
          BY <1>2, SMTT(40)
        <5> QED
          BY <3>1, <3>2, <4>1, <5>1
      <4>4. value'[mutex] + GetHolds' + PutHolds' = 1
        BY <1>2, <3>1, <3>2, <4>1
      <4> QED
        BY <4>2, <4>3, <4>4, CountsAre
    <3> QED
      BY <2>2, <3>3 DEF Inv
  <2> QED
    BY <1>4, <2>2, <2>3 DEF Inv
<1>8. ASSUME get_mutex(t) PROVE Inv'
  <2>1. At(t, "get_mutex") /\ sem_down(t, mutex, "get_read") /\ SemFrame
    BY <1>8 DEF get_mutex
  <2>2. /\ AssertFailsInIdleOnly'
        /\ panic' = "none" =>
             ThreadInv' /\ DataInv' /\ RingInv' /\ GotInv'
        /\ \/ value' = value /\ pc' = pc
           \/ /\ value[mutex] > 0 /\ value' = [value EXCEPT ![mutex] = @ - 1]
              /\ pc' = [pc EXCEPT ![t] = "get_read"]
        /\ UNCHANGED <<unread, resume>>
    BY <1>3, <2>1, WaitPointsAre, DownStep
  <2>3. CASE /\ value[mutex] > 0 /\ value' = [value EXCEPT ![mutex] = @ - 1]
             /\ pc' = [pc EXCEPT ![t] = "get_read"]
    <3>1. /\ UNCHANGED <<PutClaims, PutDone, PutHolds, GetClaims, GetDone>>
          /\ GetHolds' = GetHolds + 1
      <4>1. /\ pc[t] = "get_mutex" /\ pc'[t] = "get_read" /\ resume' = resume
            /\ \A u \in Threads \ {t} : pc'[u] = pc[u]
        BY <1>1, <2>1, <2>2, <2>3 DEF At, TypeInv
      <4>2. /\ GetClaims + AddGetClaims("get_read") = GetClaims' + AddGetClaims("get_mutex")
            /\ GetClaims' \in Nat
            /\ GetDone + AddGetDone("get_read") = GetDone' + AddGetDone("get_mutex")
            /\ GetDone' \in Nat
            /\ GetHolds + AddGetHolds("get_read") = GetHolds' + AddGetHolds("get_mutex")
            /\ GetHolds' \in Nat
            /\ UNCHANGED <<PutClaims, PutDone, PutHolds>>
        BY <1>1, <1>3, <4>1, PointFacts, GetCounts
      <4>3. /\ AddGetClaims("get_mutex") = 1 /\ AddGetClaims("get_read") = 1
            /\ AddGetDone("get_mutex") = 0 /\ AddGetDone("get_read") = 0
            /\ AddGetHolds("get_mutex") = 0 /\ AddGetHolds("get_read") = 1
        BY DEF AddGetClaims, AddGetDone, AddGetHolds
      <4> QED
        BY <1>2, <4>2, <4>3
    <3>2. /\ value'[mutex] = value[mutex] - 1 /\ value'[items] = value[items]
          /\ value'[slots] = value[slots]
      BY <1>1, <2>3, Distinct
    <3>3. SemaphoresCount'
      <4>1. unread' = unread
        BY <2>2
      <4>2. value'[slots] + Len(unread') + PutClaims' + GetDone' = BUF_SIZE
        BY <1>2, <3>1, <3>2, <4>1
      <4>3. value'[items] + GetClaims' + PutDone' = Len(unread')
        BY <1>2, <3>1, <3>2, <4>1
      <4>4. value'[mutex] + GetHolds' + PutHolds' = 1
        <5>1. (value[mutex] - 1) + (GetHolds + 1) + PutHolds = 1
          BY <1>2, SMTT(40)
        <5> QED
          BY <3>1, <3>2, <4>1, <5>1
      <4> QED
        BY <4>2, <4>3, <4>4, CountsAre
    <3> QED
      BY <2>2, <3>3 DEF Inv
  <2> QED
    BY <1>4, <2>2, <2>3 DEF Inv
<1> QED
  BY <1>5, <1>6, <1>7, <1>8

\* The handler gives the mutex back.
LEMMA PutUpMutexInv ==
  ASSUME Good, NEW t \in Threads, put_up_mutex(t)
  PROVE  Inv'
<1>1. /\ TypeInv /\ PlaceInv /\ DataInv /\ RingInv /\ panic = "none"
      /\ value \in [Mutexes -> Nat] /\ slots \in Mutexes /\ items \in Mutexes
      /\ mutex \in Mutexes /\ BUF_SIZE \in 1 .. 255
  BY DEF Good, ThreadInv, TypeInv
<1>2. /\ value[slots] + Len(unread) + PutClaims + GetDone = BUF_SIZE
      /\ value[items] + GetClaims + PutDone = Len(unread)
      /\ value[mutex] + GetHolds + PutHolds = 1
      /\ PutClaims \in Nat /\ PutDone \in Nat /\ PutHolds \in Nat
      /\ GetClaims \in Nat /\ GetDone \in Nat /\ GetHolds \in Nat
      /\ value[slots] \in Nat /\ value[items] \in Nat /\ value[mutex] \in Nat
      /\ Len(unread) \in Nat
  BY <1>1, CountFacts DEF Good
<1>3. /\ At(t, "put_up_mutex") /\ pc[t] = "put_up_mutex"
      /\ sem_up(mutex) /\ Goto(t, "put_up_items")
      /\ UNCHANGED <<queueVars, typed, resume>> /\ UNCHANGED got
  BY DEF put_up_mutex, SemFrame, At
<1>4. /\ pc'[t] = "put_up_items" /\ unread' = unread
      /\ \A u \in Threads \ {t} : pc'[u] = pc[u]
  BY <1>1, <1>3 DEF Goto, TypeInv, queueVars
<1>5. /\ AddPutClaims("put_up_mutex") = 0 /\ AddPutClaims("put_up_items") = 0
      /\ AddPutDone("put_up_mutex") = 1 /\ AddPutDone("put_up_items") = 1
      /\ AddPutHolds("put_up_mutex") = 1 /\ AddPutHolds("put_up_items") = 0
  BY DEF AddPutClaims, AddPutDone, AddPutHolds
<1>6. "put_up_mutex" \in PutPoints /\ "put_up_items" \in PutPoints
  BY DEF PutPoints
<1>7. /\ PutClaims' = PutClaims /\ PutDone' = PutDone
      /\ PutHolds' = PutHolds - 1 /\ GetClaims' = GetClaims
      /\ GetDone' = GetDone /\ GetHolds' = GetHolds
      /\ PutHolds >= 1
  <2>1. /\ PutClaims + AddPutClaims("put_up_items") = PutClaims' + AddPutClaims("put_up_mutex")
        /\ PutDone + AddPutDone("put_up_items") = PutDone' + AddPutDone("put_up_mutex")
        /\ PutHolds + AddPutHolds("put_up_items") = PutHolds' + AddPutHolds("put_up_mutex")
        /\ PutClaims' \in Nat /\ PutDone' \in Nat /\ PutHolds' \in Nat
        /\ AddPutHolds("put_up_mutex") <= PutHolds
        /\ UNCHANGED <<GetClaims, GetDone, GetHolds>>
    BY <1>1, <1>3, <1>4, <1>6, PutCounts
  <2> QED
    BY <1>2, <1>5, <2>1
<1>8. PICK a \in Nat, b \in Nat, c \in Nat :
        /\ a = value[mutex] /\ b = GetHolds /\ c = PutHolds
  BY <1>2
<1>9. a + b + c = 1
  BY <1>2, <1>8
<1>10. a < 255
  <2>1. c >= 1
    BY <1>7, <1>8
  <2> QED
    BY <1>1, <1>9, <2>1
<1>11. value[mutex] < 255
  BY <1>8, <1>10
<1>12. /\ got' \in [Threads -> Chars \cup {NULL}]
       /\ \A u \in Threads \ {t} : got'[u] = got[u]
       /\ got'[t] = got[t]
  BY <1>1, <1>3 DEF DataInv
<1>13. /\ panic' = "none"
       /\ value' = [value EXCEPT ![mutex] = value[mutex] + 1]
       /\ ThreadInv' /\ DataInv' /\ RingInv' /\ GotInv'
  <2>1. "put_up_mutex" \in PutPoints \ Downs /\ "put_up_items" \in PutPoints
    BY DEF PutPoints, GetPoints, Downs
  <2> QED
    BY <1>1, <1>3, <1>6, <1>11, <1>12, <2>1, UpCall
<1>14. /\ value'[mutex] = value[mutex] + 1
       /\ value'[slots] = value[slots] /\ value'[items] = value[items]
  BY <1>1, <1>13, Distinct
<1>15. (a + 1) + b + (c - 1) = 1
  BY <1>9
<1>16. value'[mutex] + GetHolds' + PutHolds' = 1
  BY <1>4, <1>7, <1>8, <1>14, <1>15
<1>17. value'[slots] + Len(unread') + PutClaims' + GetDone' = BUF_SIZE
  BY <1>2, <1>4, <1>7, <1>14
<1>18. value'[items] + GetClaims' + PutDone' = Len(unread')
  BY <1>2, <1>4, <1>7, <1>14
<1>19. SemaphoresCount'
  BY <1>16, <1>17, <1>18, CountsAre
<1> QED
  BY <1>13, <1>19 DEF Inv, AssertFailsInIdleOnly

\* The handler announces its character.
LEMMA PutUpItemsInv ==
  ASSUME Good, NEW t \in Threads, put_up_items(t)
  PROVE  Inv'
<1>1. /\ TypeInv /\ PlaceInv /\ DataInv /\ RingInv /\ panic = "none"
      /\ value \in [Mutexes -> Nat] /\ slots \in Mutexes /\ items \in Mutexes
      /\ mutex \in Mutexes /\ BUF_SIZE \in 1 .. 255
  BY DEF Good, ThreadInv, TypeInv
<1>2. /\ value[slots] + Len(unread) + PutClaims + GetDone = BUF_SIZE
      /\ value[items] + GetClaims + PutDone = Len(unread)
      /\ value[mutex] + GetHolds + PutHolds = 1
      /\ PutClaims \in Nat /\ PutDone \in Nat /\ PutHolds \in Nat
      /\ GetClaims \in Nat /\ GetDone \in Nat /\ GetHolds \in Nat
      /\ value[slots] \in Nat /\ value[items] \in Nat /\ value[mutex] \in Nat
      /\ Len(unread) \in Nat
  BY <1>1, CountFacts DEF Good
<1>3. /\ At(t, "put_up_items") /\ pc[t] = "put_up_items"
      /\ sem_up(items) /\ Goto(t, "put_iret")
      /\ UNCHANGED <<queueVars, typed, resume>> /\ UNCHANGED got
  BY DEF put_up_items, SemFrame, At
<1>4. /\ pc'[t] = "put_iret" /\ unread' = unread
      /\ \A u \in Threads \ {t} : pc'[u] = pc[u]
  BY <1>1, <1>3 DEF Goto, TypeInv, queueVars
<1>5. /\ AddPutClaims("put_up_items") = 0 /\ AddPutClaims("put_iret") = 0
      /\ AddPutDone("put_up_items") = 1 /\ AddPutDone("put_iret") = 0
      /\ AddPutHolds("put_up_items") = 0 /\ AddPutHolds("put_iret") = 0
  BY DEF AddPutClaims, AddPutDone, AddPutHolds
<1>6. "put_up_items" \in PutPoints /\ "put_iret" \in PutPoints
  BY DEF PutPoints
<1>7. /\ PutClaims' = PutClaims /\ PutDone' = PutDone - 1
      /\ PutHolds' = PutHolds /\ GetClaims' = GetClaims
      /\ GetDone' = GetDone /\ GetHolds' = GetHolds
      /\ PutDone >= 1
  <2>1. /\ PutClaims + AddPutClaims("put_iret") = PutClaims' + AddPutClaims("put_up_items")
        /\ PutDone + AddPutDone("put_iret") = PutDone' + AddPutDone("put_up_items")
        /\ PutHolds + AddPutHolds("put_iret") = PutHolds' + AddPutHolds("put_up_items")
        /\ PutClaims' \in Nat /\ PutDone' \in Nat /\ PutHolds' \in Nat
        /\ AddPutDone("put_up_items") <= PutDone
        /\ UNCHANGED <<GetClaims, GetDone, GetHolds>>
    BY <1>1, <1>3, <1>4, <1>6, PutCounts
  <2> QED
    BY <1>2, <1>5, <2>1
<1>8. PICK a \in Nat, b \in Nat, c \in Nat, l \in Nat :
        /\ a = value[items] /\ b = GetClaims /\ c = PutDone /\ l = Len(unread)
  BY <1>2
<1>9. a + b + c = l
  BY <1>2, <1>8
<1>10. a < 255
  <2>1. c >= 1
    BY <1>7, <1>8
  <2>2. l <= BUF_SIZE
    BY <1>1, <1>8 DEF RingInv
  <2> QED
    BY <1>1, <1>9, <2>1, <2>2
<1>11. value[items] < 255
  BY <1>8, <1>10
<1>12. /\ got' \in [Threads -> Chars \cup {NULL}]
       /\ \A u \in Threads \ {t} : got'[u] = got[u]
       /\ got'[t] = got[t]
  BY <1>1, <1>3 DEF DataInv
<1>13. /\ panic' = "none"
       /\ value' = [value EXCEPT ![items] = value[items] + 1]
       /\ ThreadInv' /\ DataInv' /\ RingInv' /\ GotInv'
  <2>1. "put_up_items" \in PutPoints \ Downs /\ "put_iret" \in PutPoints
    BY DEF PutPoints, GetPoints, Downs
  <2> QED
    BY <1>1, <1>3, <1>6, <1>11, <1>12, <2>1, UpCall
<1>14. /\ value'[items] = value[items] + 1
       /\ value'[slots] = value[slots] /\ value'[mutex] = value[mutex]
  BY <1>1, <1>13, Distinct
<1>15. (a + 1) + b + (c - 1) = l
  BY <1>9
<1>16. value'[items] + GetClaims' + PutDone' = Len(unread')
  BY <1>4, <1>7, <1>8, <1>14, <1>15
<1>17. value'[slots] + Len(unread') + PutClaims' + GetDone' = BUF_SIZE
  BY <1>2, <1>4, <1>7, <1>14
<1>18. value'[mutex] + GetHolds' + PutHolds' = 1
  BY <1>2, <1>4, <1>7, <1>14
<1>19. SemaphoresCount'
  BY <1>16, <1>17, <1>18, CountsAre
<1> QED
  BY <1>13, <1>19 DEF Inv, AssertFailsInIdleOnly

\* A reader gives the mutex back.
LEMMA GetUpMutexInv ==
  ASSUME Good, NEW t \in Threads, get_up_mutex(t)
  PROVE  Inv'
<1>1. /\ TypeInv /\ PlaceInv /\ DataInv /\ RingInv /\ panic = "none"
      /\ value \in [Mutexes -> Nat] /\ slots \in Mutexes /\ items \in Mutexes
      /\ mutex \in Mutexes /\ BUF_SIZE \in 1 .. 255
  BY DEF Good, ThreadInv, TypeInv
<1>2. /\ value[slots] + Len(unread) + PutClaims + GetDone = BUF_SIZE
      /\ value[items] + GetClaims + PutDone = Len(unread)
      /\ value[mutex] + GetHolds + PutHolds = 1
      /\ PutClaims \in Nat /\ PutDone \in Nat /\ PutHolds \in Nat
      /\ GetClaims \in Nat /\ GetDone \in Nat /\ GetHolds \in Nat
      /\ value[slots] \in Nat /\ value[items] \in Nat /\ value[mutex] \in Nat
      /\ Len(unread) \in Nat
  BY <1>1, CountFacts DEF Good
<1>3. /\ At(t, "get_up_mutex") /\ pc[t] = "get_up_mutex"
      /\ sem_up(mutex) /\ Goto(t, "get_up_slots")
      /\ UNCHANGED <<queueVars, typed, resume>> /\ UNCHANGED got
  BY DEF get_up_mutex, SemFrame, At
<1>4. /\ pc'[t] = "get_up_slots" /\ unread' = unread
      /\ \A u \in Threads \ {t} : pc'[u] = pc[u]
  BY <1>1, <1>3 DEF Goto, TypeInv, queueVars
<1>5. /\ AddGetClaims("get_up_mutex") = 0 /\ AddGetClaims("get_up_slots") = 0
      /\ AddGetDone("get_up_mutex") = 1 /\ AddGetDone("get_up_slots") = 1
      /\ AddGetHolds("get_up_mutex") = 1 /\ AddGetHolds("get_up_slots") = 0
  BY DEF AddGetClaims, AddGetDone, AddGetHolds
<1>6. "get_up_mutex" \notin PutPoints /\ "get_up_slots" \notin PutPoints
  BY DEF PutPoints
<1>7. /\ PutClaims' = PutClaims /\ PutDone' = PutDone
      /\ PutHolds' = PutHolds /\ GetClaims' = GetClaims
      /\ GetDone' = GetDone /\ GetHolds' = GetHolds - 1
      /\ GetHolds >= 1
  <2>1. /\ GetClaims + AddGetClaims("get_up_slots") = GetClaims' + AddGetClaims("get_up_mutex")
        /\ GetDone + AddGetDone("get_up_slots") = GetDone' + AddGetDone("get_up_mutex")
        /\ GetHolds + AddGetHolds("get_up_slots") = GetHolds' + AddGetHolds("get_up_mutex")
        /\ GetClaims' \in Nat /\ GetDone' \in Nat /\ GetHolds' \in Nat
        /\ AddGetHolds("get_up_mutex") <= GetHolds
        /\ UNCHANGED <<PutClaims, PutDone, PutHolds>>
    BY <1>1, <1>3, <1>4, <1>6, GetCounts
  <2> QED
    BY <1>2, <1>5, <2>1
<1>8. PICK a \in Nat, b \in Nat, c \in Nat :
        /\ a = value[mutex] /\ b = GetHolds /\ c = PutHolds
  BY <1>2
<1>9. a + b + c = 1
  BY <1>2, <1>8
<1>10. a < 255
  <2>1. b >= 1
    BY <1>7, <1>8
  <2> QED
    BY <1>1, <1>9, <2>1
<1>11. value[mutex] < 255
  BY <1>8, <1>10
<1>12. /\ got' \in [Threads -> Chars \cup {NULL}]
       /\ \A u \in Threads \ {t} : got'[u] = got[u]
  BY <1>1, <1>3 DEF DataInv
<1>13. /\ panic' = "none"
       /\ value' = [value EXCEPT ![mutex] = value[mutex] + 1]
       /\ ThreadInv' /\ DataInv' /\ RingInv' /\ GotInv'
  <2>1. /\ "get_up_mutex" \in GetPoints \ Downs
        /\ "get_up_slots" \in (GetPoints \cup {"run"}) \ {"get_front"}
    BY DEF PutPoints, GetPoints, Downs
  <2> QED
    BY <1>1, <1>3, <1>6, <1>11, <1>12, <2>1, UpCall
<1>14. /\ value'[mutex] = value[mutex] + 1
       /\ value'[slots] = value[slots] /\ value'[items] = value[items]
  BY <1>1, <1>13, Distinct
<1>15. (a + 1) + (b - 1) + c = 1
  BY <1>9
<1>16. value'[mutex] + GetHolds' + PutHolds' = 1
  BY <1>4, <1>7, <1>8, <1>14, <1>15
<1>17. value'[slots] + Len(unread') + PutClaims' + GetDone' = BUF_SIZE
  BY <1>2, <1>4, <1>7, <1>14
<1>18. value'[items] + GetClaims' + PutDone' = Len(unread')
  BY <1>2, <1>4, <1>7, <1>14
<1>19. SemaphoresCount'
  BY <1>16, <1>17, <1>18, CountsAre
<1> QED
  BY <1>13, <1>19 DEF Inv, AssertFailsInIdleOnly

\* A reader gives its place back.
LEMMA GetUpSlotsInv ==
  ASSUME Good, NEW t \in Threads, get_up_slots(t)
  PROVE  Inv'
<1>1. /\ TypeInv /\ PlaceInv /\ DataInv /\ RingInv /\ panic = "none"
      /\ value \in [Mutexes -> Nat] /\ slots \in Mutexes /\ items \in Mutexes
      /\ mutex \in Mutexes /\ BUF_SIZE \in 1 .. 255
  BY DEF Good, ThreadInv, TypeInv
<1>2. /\ value[slots] + Len(unread) + PutClaims + GetDone = BUF_SIZE
      /\ value[items] + GetClaims + PutDone = Len(unread)
      /\ value[mutex] + GetHolds + PutHolds = 1
      /\ PutClaims \in Nat /\ PutDone \in Nat /\ PutHolds \in Nat
      /\ GetClaims \in Nat /\ GetDone \in Nat /\ GetHolds \in Nat
      /\ value[slots] \in Nat /\ value[items] \in Nat /\ value[mutex] \in Nat
      /\ Len(unread) \in Nat
  BY <1>1, CountFacts DEF Good
<1>3. /\ At(t, "get_up_slots") /\ pc[t] = "get_up_slots"
      /\ sem_up(slots) /\ Goto(t, "run")
      /\ UNCHANGED <<queueVars, typed, resume>> /\ got' = [got EXCEPT ![t] = NULL]
  BY DEF get_up_slots, SemFrame, At
<1>4. /\ pc'[t] = "run" /\ unread' = unread
      /\ \A u \in Threads \ {t} : pc'[u] = pc[u]
  BY <1>1, <1>3 DEF Goto, TypeInv, queueVars
<1>5. /\ AddGetClaims("get_up_slots") = 0 /\ AddGetClaims("run") = 0
      /\ AddGetDone("get_up_slots") = 1 /\ AddGetDone("run") = 0
      /\ AddGetHolds("get_up_slots") = 0 /\ AddGetHolds("run") = 0
  BY DEF AddGetClaims, AddGetDone, AddGetHolds
<1>6. "get_up_slots" \notin PutPoints /\ "run" \notin PutPoints
  BY DEF PutPoints
<1>7. /\ PutClaims' = PutClaims /\ PutDone' = PutDone
      /\ PutHolds' = PutHolds /\ GetClaims' = GetClaims
      /\ GetDone' = GetDone - 1 /\ GetHolds' = GetHolds
      /\ GetDone >= 1
  <2>1. /\ GetClaims + AddGetClaims("run") = GetClaims' + AddGetClaims("get_up_slots")
        /\ GetDone + AddGetDone("run") = GetDone' + AddGetDone("get_up_slots")
        /\ GetHolds + AddGetHolds("run") = GetHolds' + AddGetHolds("get_up_slots")
        /\ GetClaims' \in Nat /\ GetDone' \in Nat /\ GetHolds' \in Nat
        /\ AddGetDone("get_up_slots") <= GetDone
        /\ UNCHANGED <<PutClaims, PutDone, PutHolds>>
    BY <1>1, <1>3, <1>4, <1>6, GetCounts
  <2> QED
    BY <1>2, <1>5, <2>1
<1>8. PICK a \in Nat, b \in Nat, c \in Nat, d \in Nat :
        /\ a = value[slots] /\ b = Len(unread) /\ c = PutClaims /\ d = GetDone
  BY <1>2
<1>9. a + b + c + d = BUF_SIZE
  BY <1>2, <1>8
<1>10. a < 255
  <2>1. d >= 1
    BY <1>7, <1>8
  <2> QED
    BY <1>1, <1>9, <2>1
<1>11. value[slots] < 255
  BY <1>8, <1>10
<1>12. /\ got' \in [Threads -> Chars \cup {NULL}]
       /\ \A u \in Threads \ {t} : got'[u] = got[u]
  BY <1>1, <1>3 DEF DataInv
<1>13. /\ panic' = "none"
       /\ value' = [value EXCEPT ![slots] = value[slots] + 1]
       /\ ThreadInv' /\ DataInv' /\ RingInv' /\ GotInv'
  <2>1. /\ "get_up_slots" \in GetPoints \ Downs
        /\ "run" \in (GetPoints \cup {"run"}) \ {"get_front"}
    BY DEF PutPoints, GetPoints, Downs
  <2> QED
    BY <1>1, <1>3, <1>6, <1>11, <1>12, <2>1, UpCall
<1>14. /\ value'[slots] = value[slots] + 1
       /\ value'[items] = value[items] /\ value'[mutex] = value[mutex]
  BY <1>1, <1>13, Distinct
<1>15. (a + 1) + b + c + (d - 1) = BUF_SIZE
  BY <1>9
<1>16. value'[slots] + Len(unread') + PutClaims' + GetDone' = BUF_SIZE
  BY <1>4, <1>7, <1>8, <1>14, <1>15
<1>17. value'[items] + GetClaims' + PutDone' = Len(unread')
  BY <1>2, <1>4, <1>7, <1>14
<1>18. value'[mutex] + GetHolds' + PutHolds' = 1
  BY <1>2, <1>4, <1>7, <1>14
<1>19. SemaphoresCount'
  BY <1>16, <1>17, <1>18, CountsAre
<1> QED
  BY <1>13, <1>19 DEF Inv, AssertFailsInIdleOnly

-----------------------------------------------------------------------------
(* The ring.                                                               *)

\* The remainder of a number below two times the size of the buffer.
LEMMA Wraps ==
  ASSUME NEW n \in Nat, n < BUF_SIZE + BUF_SIZE
  PROVE  n % BUF_SIZE = IF n < BUF_SIZE THEN n ELSE n - BUF_SIZE
<1>0. BUF_SIZE \in Nat \ {0}
  OBVIOUS
<1>1. PICK q \in Nat : q = n \div BUF_SIZE
  BY <1>0, Division
<1>2. q * BUF_SIZE <= n /\ n < q * BUF_SIZE + BUF_SIZE
  BY <1>0, <1>1, Division
<1>3. n = BUF_SIZE * q + (n % BUF_SIZE) /\ n % BUF_SIZE \in 0 .. BUF_SIZE - 1
  BY <1>0, <1>1
<1>4. q = 0 \/ q = 1
  <2> SUFFICES ASSUME q # 0, q # 1 PROVE FALSE
    OBVIOUS
  <2>1. PICK d \in Nat : q = 2 + d
    BY q - 2 \in Nat
  <2>2. d * BUF_SIZE \in Nat
    BY <1>0
  <2>3. q * BUF_SIZE = BUF_SIZE + BUF_SIZE + d * BUF_SIZE
    BY <1>0, <2>1
  <2> QED
    BY <1>0, <1>2, <2>2, <2>3
<1>5. CASE q = 0
  BY <1>0, <1>3, <1>5
<1>6. CASE q = 1
  BY <1>0, <1>3, <1>6
<1> QED
  BY <1>4, <1>5, <1>6

\* The place of the character at distance k from the front.
Place(f, k) == IF f + k < BUF_SIZE THEN f + k ELSE f + k - BUF_SIZE

\* RingInv without the remainders.
LEMMA RingIs ==
  ASSUME NEW f \in 0 .. BUF_SIZE - 1, NEW k \in 0 .. BUF_SIZE
  PROVE  /\ (f + k) % BUF_SIZE = Place(f, k)
         /\ Place(f, k) \in 0 .. BUF_SIZE - 1
<1>1. f + k \in Nat /\ f + k < BUF_SIZE + BUF_SIZE
  OBVIOUS
<1>2. (f + k) % BUF_SIZE = Place(f, k)
  BY <1>1, Wraps, SMTT(40) DEF Place
<1> QED
  BY <1>1, <1>2 DEF Place

\* Places less than a turn apart are different.
LEMMA PlacesApart ==
  ASSUME NEW f \in 0 .. BUF_SIZE - 1, NEW k \in 0 .. BUF_SIZE - 1,
         NEW n \in 0 .. BUF_SIZE - 1, k < n
  PROVE  Place(f, k) # Place(f, n)
<1>1. BUF_SIZE \in Nat
  OBVIOUS
<1>2. CASE f + n < BUF_SIZE
  BY <1>1, <1>2 DEF Place
<1>3. CASE f + k >= BUF_SIZE
  BY <1>1, <1>3 DEF Place
<1>4. CASE f + n >= BUF_SIZE /\ f + k < BUF_SIZE
  BY <1>1, <1>4 DEF Place
<1> QED
  BY <1>2, <1>3, <1>4

\* A thread that has read and not yet moved front holds the mutex, and there
\* is a character for it.
LEMMA FrontFacts ==
  ASSUME Good, NEW u \in Threads, Own(u) = "get_front"
  PROVE  /\ unread # <<>>
         /\ \A t \in Threads \ {u} : Own(t) # "get_front"
<1>1. /\ value[slots] + Len(unread) + PutClaims + GetDone = BUF_SIZE
      /\ value[items] + GetClaims + PutDone = Len(unread)
      /\ value[mutex] + GetHolds + PutHolds = 1
      /\ PutClaims \in Nat /\ PutDone \in Nat /\ PutHolds \in Nat
      /\ GetClaims \in Nat /\ GetDone \in Nat /\ GetHolds \in Nat
      /\ value[slots] \in Nat /\ value[items] \in Nat /\ value[mutex] \in Nat
      /\ Len(unread) \in Nat
  BY CountFacts DEF Good, ThreadInv
<1>2. ASSUME NEW t \in Threads, Own(t) = "get_front", NEW P, "get_front" \in P
      PROVE  In(t, P)
  BY <1>2 DEF Own, In
<1>3. GetClaims >= 1
  <2> DEFINE P == {"get_mutex", "get_read", "get_front"}
             A == {t \in Threads : In(t, P)}
  <2>1. GetClaims = Cardinality(A)
    BY DEF GetClaims, CountAt, In
  <2>2. u \in A
    BY <1>2
  <2>3. IsFiniteSet(A)
    BY FS_Subset, A \in SUBSET Threads
  <2> HIDE DEF A
  <2>4. /\ Cardinality(A \ {u}) = Cardinality(A) - 1
        /\ IsFiniteSet(A \ {u})
    BY <2>2, <2>3, FS_RemoveElement
  <2>5. Cardinality(A \ {u}) \in Nat /\ Cardinality(A) \in Nat
    BY <2>3, <2>4, FS_CardinalityType
  <2> QED
    BY <2>1, <2>4, <2>5
<1>4. unread # <<>>
  <2>1. PICK a \in Nat, b \in Nat, c \in Nat :
          a = value[items] /\ b = GetClaims /\ c = PutDone
    BY <1>1
  <2>2. a + b + c = Len(unread) /\ b >= 1
    BY <1>1, <1>3, <2>1
  <2>3. Len(unread) # 0
    BY <2>2
  <2> QED
    BY <2>3
<1>5. ASSUME NEW t \in Threads \ {u}, Own(t) = "get_front" PROVE FALSE
  <2>1. GetHolds >= 2
    BY <1>2, <1>5, CountTwo DEF GetHolds
  <2>2. PICK a \in Nat, b \in Nat, c \in Nat :
          a = value[mutex] /\ b = GetHolds /\ c = PutHolds
    BY <1>1
  <2>3. a + b + c = 1 /\ b >= 2
    BY <1>1, <2>1, <2>2
  <2> QED
    BY <2>3
<1> QED
  BY <1>4, <1>5

\* The handler stores its character.
LEMMA PutStoreInv ==
  ASSUME Good, NEW t \in Threads, put_store(t)
  PROVE  Inv'
<1>1. /\ TypeInv /\ PlaceInv /\ FlagInv /\ DataInv /\ RingInv /\ GotInv
      /\ panic = "none" /\ BUF_SIZE \in 1 .. 255
  BY DEF Good, ThreadInv
<1>2. /\ value[slots] + Len(unread) + PutClaims + GetDone = BUF_SIZE
      /\ value[items] + GetClaims + PutDone = Len(unread)
      /\ value[mutex] + GetHolds + PutHolds = 1
      /\ PutClaims \in Nat /\ PutDone \in Nat /\ PutHolds \in Nat
      /\ GetClaims \in Nat /\ GetDone \in Nat /\ GetHolds \in Nat
      /\ value[slots] \in Nat /\ value[items] \in Nat /\ value[mutex] \in Nat
      /\ Len(unread) \in Nat
  BY <1>1, CountFacts DEF Good
<1>3. /\ t = curr /\ ctx[t] = "none" /\ pc[t] = "put_store"
      /\ Goto(t, "put_up_mutex") /\ PlainFrame
      /\ buffer' = [buffer EXCEPT ![rear] = typed[t]]
      /\ rear' = (rear + 1) % BUF_SIZE
      /\ unread' = Append(unread, typed[t])
      /\ typed' = [typed EXCEPT ![t] = NULL]
      /\ UNCHANGED <<intr, front, got, resume>>
  BY DEF put_store, At, Executing
<1>4. /\ PlaceOK(t) /\ "put_store" \in PutPoints /\ "put_store" \notin Downs
      /\ "put_up_mutex" \in PutPoints /\ "put_up_mutex" \in Points
      /\ "put_up_mutex" # "parked" /\ "put_store" # "parked"
  BY <1>1 DEF PlaceInv, PutPoints, Downs, Points
<1>5. /\ saved[t] = NULL /\ resume[t] # NULL /\ intr = OFF
  BY <1>1, <1>3, <1>4 DEF PlaceOK, FlagInv
<1>6. /\ resume' \in [Threads -> Points \cup {NULL}] /\ resume'[t] # NULL
      /\ \A u \in Threads \ {t} : resume'[u] = resume[u]
      /\ resume'[t] \notin PutPoints \cup {"parked", "halted"}
      /\ intr' \in {ON, OFF} /\ intr' = OFF
  BY <1>1, <1>3, <1>4, <1>5 DEF TypeInv, PlaceOK
<1>7. t = idle <=> Own(t)' \in IdlePoints
  BY <1>3, <1>4, <1>5 DEF PlaceOK, Own
<1>8. /\ ThreadInv' /\ panic' = "none" /\ pc'[t] = "put_up_mutex"
      /\ \A u \in Threads \ {t} : pc'[u] = pc[u]
  BY <1>3, <1>4, <1>5, <1>6, <1>7, PlainStep
<1>9. /\ AddPutClaims("put_store") = 1 /\ AddPutClaims("put_up_mutex") = 0
      /\ AddPutDone("put_store") = 0 /\ AddPutDone("put_up_mutex") = 1
      /\ AddPutHolds("put_store") = 1 /\ AddPutHolds("put_up_mutex") = 1
  BY DEF AddPutClaims, AddPutDone, AddPutHolds
<1>10. /\ PutClaims' = PutClaims - 1 /\ PutDone' = PutDone + 1
       /\ PutHolds' = PutHolds /\ GetClaims' = GetClaims
       /\ GetDone' = GetDone /\ GetHolds' = GetHolds
       /\ PutClaims >= 1
  <2>1. /\ PutClaims + AddPutClaims("put_up_mutex") = PutClaims' + AddPutClaims("put_store")
        /\ PutDone + AddPutDone("put_up_mutex") = PutDone' + AddPutDone("put_store")
        /\ PutHolds + AddPutHolds("put_up_mutex") = PutHolds' + AddPutHolds("put_store")
        /\ PutClaims' \in Nat /\ PutDone' \in Nat /\ PutHolds' \in Nat
        /\ AddPutClaims("put_store") <= PutClaims
        /\ UNCHANGED <<GetClaims, GetDone, GetHolds>>
    BY <1>1, <1>3, <1>4, <1>8, PutCounts
  <2>2. PutClaims' = PutClaims - 1 /\ PutClaims >= 1
    BY <1>2, <1>9, <2>1
  <2>3. PutDone' = PutDone + 1
    BY <1>2, <1>9, <2>1
  <2>4. PutHolds' = PutHolds
    BY <1>2, <1>9, <2>1
  <2> QED
    BY <2>1, <2>2, <2>3, <2>4
<1>11. PICK a \in Nat, b \in Nat, c \in Nat, d \in Nat :
        /\ a = value[slots] /\ b = Len(unread) /\ c = PutClaims /\ d = GetDone
  BY <1>2
<1>12. a + b + c + d = BUF_SIZE /\ c >= 1
  BY <1>2, <1>10, <1>11
<1>13. b < BUF_SIZE
  BY <1>1, <1>12
<1>14. PICK x \in Chars \cup {NULL} : x = typed[t]
  BY <1>1 DEF DataInv
<1>15. /\ unread' \in Seq(Chars \cup {NULL}) /\ Len(unread') = b + 1
       /\ \A i \in 1 .. b : unread'[i] = unread[i]
       /\ unread'[b + 1] = x /\ unread \in Seq(Chars \cup {NULL})
  BY <1>1, <1>3, <1>11, <1>14 DEF DataInv
<1>16. /\ front \in 0 .. BUF_SIZE - 1 /\ rear \in 0 .. BUF_SIZE - 1
       /\ buffer \in [0 .. BUF_SIZE - 1 -> Chars \cup {NULL}]
       /\ b \in 0 .. BUF_SIZE /\ b + 1 \in 0 .. BUF_SIZE
       /\ front' = front
  BY <1>1, <1>3, <1>13 DEF DataInv
<1>17. rear = Place(front, b) /\ rear' = Place(front, b + 1)
  <2>1. rear = Place(front, b)
    BY <1>1, <1>11, <1>16, RingIs DEF RingInv
  <2>2. 1 \in 0 .. BUF_SIZE
    BY <1>1
  <2>3. rear' = Place(rear, 1)
    BY <1>3, <1>16, <2>2, RingIs
  <2> QED
    BY <1>1, <1>13, <1>16, <2>1, <2>3 DEF Place
<1>18. rear' \in 0 .. BUF_SIZE - 1 /\ rear' = (front' + Len(unread')) % BUF_SIZE
  BY <1>15, <1>16, <1>17, RingIs
<1>19. DataInv'
  <2>1. buffer' \in [0 .. BUF_SIZE - 1 -> Chars \cup {NULL}]
    BY <1>3, <1>14, <1>16
  <2>2. typed' \in [Threads -> Chars \cup {NULL}]
    BY <1>1, <1>3 DEF DataInv
  <2> QED
    BY <1>1, <1>3, <1>15, <1>16, <1>18, <2>1, <2>2 DEF DataInv
<1>20. ASSUME NEW i \in 1 .. Len(unread')
       PROVE  buffer'[(front' + i - 1) % BUF_SIZE] = unread'[i]
  <2>1. PICK k \in 0 .. BUF_SIZE - 1 : i = k + 1
    <3>1. i \in Nat /\ 1 <= i /\ i <= b + 1
      BY <1>15
    <3>2. i - 1 \in 0 .. BUF_SIZE - 1 /\ i = (i - 1) + 1
      BY <1>13, <3>1
    <3> QED
      BY <3>2
  <2>2. /\ (front + i - 1) % BUF_SIZE = Place(front, k)
        /\ Place(front, k) \in 0 .. BUF_SIZE - 1
    <3>1. front + i - 1 = front + k /\ k \in 0 .. BUF_SIZE
      BY <1>16, <2>1
    <3> QED
      BY <1>16, <3>1, RingIs
  <2>3. CASE k < b
    <3>1. Place(front, k) # rear
      <4>1. b \in 0 .. BUF_SIZE - 1
        BY <1>13, <1>16
      <4> QED
        BY <1>16, <1>17, <2>3, <4>1, PlacesApart
    <3>2. i \in 1 .. b
      BY <2>1, <2>3
    <3>3. buffer[Place(front, k)] = unread[i]
      BY <1>1, <1>11, <2>2, <3>2 DEF RingInv
    <3> QED
      BY <1>3, <1>15, <1>16, <2>2, <3>1, <3>2, <3>3
  <2>4. CASE k >= b
    <3>1. k = b
      BY <1>15, <2>1, <2>4
    <3> QED
      BY <1>3, <1>14, <1>15, <1>16, <1>17, <2>1, <2>2, <3>1
  <2> QED
    BY <2>3, <2>4
<1>21. RingInv'
  BY <1>15, <1>16, <1>18, <1>20 DEF RingInv
<1>22. GotInv'
  <2> SUFFICES ASSUME NEW u \in Threads, Own(u)' = "get_front"
               PROVE  got'[u] = Head(unread')
    BY DEF GotInv
  <2>1. Own(u) = "get_front"
    BY <1>3, <1>5, <1>8 DEF Own
  <2>2. unread # <<>> /\ got[u] = Head(unread)
    BY <1>1, <2>1, FrontFacts DEF GotInv
  <2>3. Head(unread') = Head(unread)
    BY <1>11, <1>15, <2>2
  <2> QED
    BY <1>3, <2>2, <2>3
<1>23. UNCHANGED value
  BY <1>3 DEF PlainFrame, lockVars
<1>24. value'[slots] + Len(unread') + PutClaims' + GetDone' = BUF_SIZE
  <2>1. a + (b + 1) + (c - 1) + d = BUF_SIZE
    BY <1>12
  <2> QED
    BY <1>10, <1>11, <1>15, <1>23, <2>1
<1>25. value'[items] + GetClaims' + PutDone' = Len(unread')
  <2>1. PICK e \in Nat, g \in Nat, h \in Nat :
          e = value[items] /\ g = GetClaims /\ h = PutDone
    BY <1>2
  <2>2. e + g + h = b
    BY <1>2, <1>11, <2>1
  <2>3. e + g + (h + 1) = b + 1
    BY <2>2
  <2> QED
    BY <1>10, <1>15, <1>23, <2>1, <2>3
<1>26. value'[mutex] + GetHolds' + PutHolds' = 1
  BY <1>2, <1>10, <1>23
<1>27. SemaphoresCount'
  BY <1>24, <1>25, <1>26, CountsAre
<1> QED
  BY <1>8, <1>19, <1>21, <1>22, <1>27 DEF Inv, AssertFailsInIdleOnly

\* A reader in the critical section goes on to q.
LEMMA ReaderStep ==
  ASSUME Good, NEW t \in Threads, t = curr, ctx[t] = "none",
         pc[t] \in GetPoints \ Downs, NEW q \in GetPoints \ Downs,
         Goto(t, q), PlainFrame, UNCHANGED <<intr, resume>>
  PROVE  /\ ThreadInv' /\ panic' = "none" /\ pc'[t] = q
         /\ \A u \in Threads \ {t} : pc'[u] = pc[u]
         /\ resume[t] = NULL /\ Own(t) = pc[t] /\ Own(t)' = q
<1>1. /\ TypeInv /\ PlaceInv
  BY DEF Good, ThreadInv
<1>2. /\ PlaceOK(t) /\ pc[t] \notin PutPoints /\ pc[t] # "parked"
      /\ pc[t] \notin IdlePoints /\ q \notin IdlePoints
      /\ q \notin PutPoints /\ q \in Points /\ q # "parked"
  BY <1>1, PointFacts DEF PlaceInv, IdlePoints
<1>3. /\ saved[t] = NULL /\ resume[t] = NULL /\ Own(t) = pc[t] /\ t # idle
  BY <1>2 DEF PlaceOK, Own
<1>4. pc'[t] = q
  BY <1>1 DEF Goto, TypeInv
<1>5. /\ resume' \in [Threads -> Points \cup {NULL}] /\ resume'[t] = NULL
      /\ \A u \in Threads \ {t} : resume'[u] = resume[u]
      /\ NULL \notin PutPoints \cup {"parked", "halted"}
      /\ intr' \in {ON, OFF}
  BY <1>1, <1>3, PointFacts DEF TypeInv, IdlePoints
<1>6. Own(t)' = q
  BY <1>4, <1>5 DEF Own
<1>7. /\ ThreadInv' /\ panic' = "none" /\ pc'[t] = q
      /\ \A u \in Threads \ {t} : pc'[u] = pc[u]
  BY <1>2, <1>3, <1>5, <1>6, PlainStep
<1> QED
  BY <1>3, <1>6, <1>7

\* A reader reads the character at the front.
LEMMA GetReadInv ==
  ASSUME Good, NEW t \in Threads, get_read(t)
  PROVE  Inv'
<1>1. /\ TypeInv /\ PlaceInv /\ DataInv /\ RingInv /\ GotInv
      /\ panic = "none" /\ BUF_SIZE \in 1 .. 255
  BY DEF Good, ThreadInv
<1>2. /\ value[items] + GetClaims + PutDone = Len(unread)
      /\ PutDone \in Nat /\ GetClaims \in Nat /\ GetDone \in Nat
      /\ GetHolds \in Nat /\ value[items] \in Nat /\ Len(unread) \in Nat
  BY <1>1, CountFacts DEF Good
<1>3. /\ t = curr /\ ctx[t] = "none" /\ pc[t] = "get_read"
      /\ Goto(t, "get_front") /\ PlainFrame
      /\ got' = [got EXCEPT ![t] = buffer[front]]
      /\ UNCHANGED <<intr, queueVars, typed, resume>>
  BY DEF get_read, At, Executing
<1>4. /\ "get_read" \in GetPoints \ Downs /\ "get_front" \in GetPoints \ Downs
      /\ "get_read" \notin PutPoints /\ "get_front" \notin PutPoints
  BY DEF GetPoints, PutPoints, Downs
<1>5. /\ ThreadInv' /\ panic' = "none" /\ pc'[t] = "get_front"
      /\ \A u \in Threads \ {t} : pc'[u] = pc[u]
      /\ resume[t] = NULL
  BY <1>3, <1>4, ReaderStep
<1>6. /\ AddGetClaims("get_read") = 1 /\ AddGetClaims("get_front") = 1
      /\ AddGetDone("get_read") = 0 /\ AddGetDone("get_front") = 0
      /\ AddGetHolds("get_read") = 1 /\ AddGetHolds("get_front") = 1
  BY DEF AddGetClaims, AddGetDone, AddGetHolds
<1>7. UNCHANGED counts /\ GetClaims >= 1
  <2>1. /\ GetClaims + AddGetClaims("get_front") = GetClaims' + AddGetClaims("get_read")
        /\ GetDone + AddGetDone("get_front") = GetDone' + AddGetDone("get_read")
        /\ GetHolds + AddGetHolds("get_front") = GetHolds' + AddGetHolds("get_read")
        /\ GetClaims' \in Nat /\ GetDone' \in Nat /\ GetHolds' \in Nat
        /\ AddGetClaims("get_read") <= GetClaims
        /\ UNCHANGED <<PutClaims, PutDone, PutHolds>>
    BY <1>1, <1>3, <1>4, <1>5, GetCounts
  <2>2. /\ GetClaims' = GetClaims /\ GetDone' = GetDone
        /\ GetHolds' = GetHolds /\ GetClaims >= 1
    BY <1>2, <1>6, <2>1
  <2> QED
    BY <2>1, <2>2 DEF counts
<1>8. Len(unread) >= 1
  <2>1. PICK a \in Nat, b \in Nat, c \in Nat, d \in Nat :
          a = value[items] /\ b = GetClaims /\ c = PutDone /\ d = Len(unread)
    BY <1>2
  <2>2. a + b + c = d /\ b >= 1
    BY <1>2, <1>7, <2>1
  <2>3. d >= 1
    BY <2>2
  <2> QED
    BY <2>1, <2>3
<1>9. UNCHANGED <<buffer, front, rear, unread>>
  BY <1>3 DEF queueVars
<1>10. buffer[front] = Head(unread) /\ buffer[front] \in Chars \cup {NULL}
  <2>1. 1 \in 1 .. Len(unread) /\ front \in 0 .. BUF_SIZE - 1
    BY <1>1, <1>2, <1>8 DEF DataInv
  <2>2. front + 1 - 1 = front + 0 /\ 0 \in 0 .. BUF_SIZE
    <3>1. PICK k \in 0 .. BUF_SIZE - 1 : k = front
      BY <2>1
    <3>2. k + 1 - 1 = k + 0
      OBVIOUS
    <3>3. 0 \in 0 .. BUF_SIZE
      BY <1>1
    <3> QED
      BY <3>1, <3>2, <3>3
  <2>3. (front + 1 - 1) % BUF_SIZE = Place(front, 0)
    BY <2>1, <2>2, RingIs
  <2>4. Place(front, 0) = front
    BY <2>1 DEF Place
  <2>5. buffer[front] = unread[1]
    BY <1>1, <2>1, <2>3, <2>4 DEF RingInv
  <2> QED
    BY <1>1, <2>1, <2>5 DEF DataInv
<1>11. DataInv' /\ RingInv'
  BY <1>1, <1>3, <1>9, <1>10 DEF DataInv, RingInv
<1>12. GotInv'
  <2> SUFFICES ASSUME NEW u \in Threads, Own(u)' = "get_front"
               PROVE  got'[u] = Head(unread')
    BY DEF GotInv
  <2>1. CASE u = t
    BY <1>1, <1>3, <1>9, <1>10, <2>1 DEF DataInv
  <2>2. CASE u # t
    <3>1. Own(u) = "get_front"
      BY <1>3, <1>5, <2>2 DEF Own
    <3> QED
      BY <1>1, <1>3, <1>9, <2>2, <3>1 DEF GotInv, DataInv
  <2> QED
    BY <2>1, <2>2
<1>13. SemaphoresCount'
  BY <1>3, <1>5, <1>7, <1>9, CountStep DEF PlainFrame, lockVars
<1> QED
  BY <1>5, <1>11, <1>12, <1>13 DEF Inv, AssertFailsInIdleOnly

\* A reader moves front past the character it read.
LEMMA GetFrontInv ==
  ASSUME Good, NEW t \in Threads, get_front(t)
  PROVE  Inv'
<1>1. /\ TypeInv /\ PlaceInv /\ DataInv /\ RingInv /\ GotInv
      /\ panic = "none" /\ BUF_SIZE \in 1 .. 255
  BY DEF Good, ThreadInv
<1>2. /\ value[slots] + Len(unread) + PutClaims + GetDone = BUF_SIZE
      /\ value[items] + GetClaims + PutDone = Len(unread)
      /\ value[mutex] + GetHolds + PutHolds = 1
      /\ PutClaims \in Nat /\ PutDone \in Nat /\ PutHolds \in Nat
      /\ GetClaims \in Nat /\ GetDone \in Nat /\ GetHolds \in Nat
      /\ value[slots] \in Nat /\ value[items] \in Nat /\ value[mutex] \in Nat
      /\ Len(unread) \in Nat
  BY <1>1, CountFacts DEF Good
<1>3. /\ t = curr /\ ctx[t] = "none" /\ pc[t] = "get_front"
      /\ Goto(t, "get_up_mutex") /\ PlainFrame
      /\ front' = (front + 1) % BUF_SIZE /\ unread' = Tail(unread)
      /\ UNCHANGED <<intr, buffer, rear, typed, got, resume>>
  BY DEF get_front, At, Executing
<1>4. /\ "get_front" \in GetPoints \ Downs /\ "get_up_mutex" \in GetPoints \ Downs
      /\ "get_front" \notin PutPoints /\ "get_up_mutex" \notin PutPoints
  BY DEF GetPoints, PutPoints, Downs
<1>5. /\ ThreadInv' /\ panic' = "none" /\ pc'[t] = "get_up_mutex"
      /\ \A u \in Threads \ {t} : pc'[u] = pc[u]
      /\ Own(t) = "get_front" /\ Own(t)' = "get_up_mutex"
  BY <1>3, <1>4, ReaderStep
<1>6. /\ AddGetClaims("get_front") = 1 /\ AddGetClaims("get_up_mutex") = 0
      /\ AddGetDone("get_front") = 0 /\ AddGetDone("get_up_mutex") = 1
      /\ AddGetHolds("get_front") = 1 /\ AddGetHolds("get_up_mutex") = 1
  BY DEF AddGetClaims, AddGetDone, AddGetHolds
<1>7. /\ GetClaims' = GetClaims - 1 /\ GetDone' = GetDone + 1
      /\ GetHolds' = GetHolds /\ PutClaims' = PutClaims
      /\ PutDone' = PutDone /\ PutHolds' = PutHolds
  <2>1. /\ GetClaims + AddGetClaims("get_up_mutex") = GetClaims' + AddGetClaims("get_front")
        /\ GetDone + AddGetDone("get_up_mutex") = GetDone' + AddGetDone("get_front")
        /\ GetHolds + AddGetHolds("get_up_mutex") = GetHolds' + AddGetHolds("get_front")
        /\ GetClaims' \in Nat /\ GetDone' \in Nat /\ GetHolds' \in Nat
        /\ UNCHANGED <<PutClaims, PutDone, PutHolds>>
    BY <1>1, <1>3, <1>4, <1>5, GetCounts
  <2>2. GetClaims' = GetClaims - 1
    BY <1>2, <1>6, <2>1
  <2>3. GetDone' = GetDone + 1
    BY <1>2, <1>6, <2>1
  <2>4. GetHolds' = GetHolds
    BY <1>2, <1>6, <2>1
  <2> QED
    BY <2>1, <2>2, <2>3, <2>4
<1>8. unread # <<>> /\ \A u \in Threads \ {t} : Own(u) # "get_front"
  BY <1>5, FrontFacts
<1>9. PICK a \in Nat, b \in Nat, c \in Nat, d \in Nat :
        /\ a = value[slots] /\ b = Len(unread) /\ c = PutClaims /\ d = GetDone
  BY <1>2
<1>10. a + b + c + d = BUF_SIZE
  BY <1>2, <1>9
<1>11. /\ unread \in Seq(Chars \cup {NULL}) /\ b >= 1
       /\ unread' \in Seq(Chars \cup {NULL}) /\ Len(unread') = b - 1
       /\ \A i \in 1 .. b - 1 : unread'[i] = unread[i + 1]
  BY <1>1, <1>3, <1>8, <1>9 DEF DataInv
<1>12. b <= BUF_SIZE
  BY <1>10
<1>13. /\ front \in 0 .. BUF_SIZE - 1 /\ rear \in 0 .. BUF_SIZE - 1
       /\ b \in 0 .. BUF_SIZE /\ b - 1 \in 0 .. BUF_SIZE
  BY <1>1, <1>11, <1>12 DEF DataInv
<1>14. front' = Place(front, 1) /\ front' \in 0 .. BUF_SIZE - 1
  <2>1. 1 \in 0 .. BUF_SIZE
    BY <1>1
  <2>2. PICK f \in 0 .. BUF_SIZE - 1 : f = front
    BY <1>13
  <2>3. (f + 1) % BUF_SIZE = Place(f, 1) /\ Place(f, 1) \in 0 .. BUF_SIZE - 1
    BY <2>1, RingIs
  <2>4. front' = (f + 1) % BUF_SIZE
    BY <1>3, <2>2
  <2> QED
    BY <2>2, <2>3, <2>4
<1>15. ASSUME NEW k \in 0 .. BUF_SIZE - 1
       PROVE  Place(front', k) = Place(front, k + 1)
  BY <1>13, <1>14 DEF Place
<1>16. rear' = (front' + Len(unread')) % BUF_SIZE
  <2>1. rear = Place(front, b)
    BY <1>1, <1>9, <1>13, RingIs DEF RingInv
  <2>2. PICK k \in 0 .. BUF_SIZE - 1 : k = b - 1
    BY <1>11, <1>13
  <2>3. Place(front', k) = rear
    BY <1>13, <1>15, <2>1, <2>2
  <2>4. k \in 0 .. BUF_SIZE
    OBVIOUS
  <2>5. (front' + k) % BUF_SIZE = Place(front', k)
    BY <1>14, <2>4, RingIs
  <2> QED
    BY <1>3, <1>11, <2>2, <2>3, <2>5
<1>17. DataInv'
  BY <1>1, <1>3, <1>11, <1>14 DEF DataInv
<1>18. ASSUME NEW i \in 1 .. Len(unread')
       PROVE  buffer'[(front' + i - 1) % BUF_SIZE] = unread'[i]
  <2>1. PICK k \in 0 .. BUF_SIZE - 1 : i = k + 1
    <3>1. i \in Nat /\ 1 <= i /\ i <= b - 1
      BY <1>11
    <3>2. i - 1 \in 0 .. BUF_SIZE - 1 /\ i = (i - 1) + 1
      BY <1>12, <3>1
    <3> QED
      BY <3>2
  <2>2. k \in 0 .. BUF_SIZE /\ k + 1 \in 0 .. BUF_SIZE
    BY <1>1, <2>1
  <2>3. (front' + i - 1) % BUF_SIZE = Place(front, i)
    <3>1. front' + i - 1 = front' + k
      BY <1>14, <2>1
    <3>2. (front' + k) % BUF_SIZE = Place(front', k)
      BY <1>14, <2>2, RingIs
    <3> QED
      BY <1>15, <2>1, <3>1, <3>2
  <2>4. (front + (i + 1) - 1) % BUF_SIZE = Place(front, i)
    <3>1. front + (i + 1) - 1 = front + i
      BY <1>13, <2>1
    <3>2. i \in 0 .. BUF_SIZE
      BY <2>1, <2>2
    <3> QED
      BY <1>13, <3>1, <3>2, RingIs
  <2>5. i \in 1 .. b - 1 /\ i + 1 \in 1 .. b
    BY <1>11
  <2>6. buffer[(front + (i + 1) - 1) % BUF_SIZE] = unread[i + 1]
    BY <1>1, <1>9, <2>5 DEF RingInv
  <2> QED
    BY <1>3, <1>11, <2>3, <2>4, <2>5, <2>6
<1>19. RingInv'
  <2>1. Len(unread') <= BUF_SIZE
    BY <1>11, <1>12
  <2> QED
    BY <1>16, <1>18, <2>1 DEF RingInv
<1>20. GotInv'
  <2> SUFFICES ASSUME NEW u \in Threads, Own(u)' = "get_front" PROVE FALSE
    BY DEF GotInv
  <2>1. u # t
    BY <1>5
  <2>2. Own(u) = "get_front"
    BY <1>3, <1>5, <2>1 DEF Own
  <2> QED
    BY <1>8, <2>1, <2>2
<1>21. UNCHANGED value
  BY <1>3 DEF PlainFrame, lockVars
<1>22. value'[slots] + Len(unread') + PutClaims' + GetDone' = BUF_SIZE
  <2>1. a + (b - 1) + c + (d + 1) = BUF_SIZE
    BY <1>10
  <2> QED
    BY <1>7, <1>9, <1>11, <1>21, <2>1
<1>23. value'[items] + GetClaims' + PutDone' = Len(unread')
  <2>1. PICK e \in Nat, g \in Nat, h \in Nat :
          e = value[items] /\ g = GetClaims /\ h = PutDone
    BY <1>2
  <2>2. e + g + h = b
    BY <1>2, <1>9, <2>1
  <2>3. e + (g - 1) + h = b - 1
    BY <2>2
  <2> QED
    BY <1>7, <1>11, <1>21, <2>1, <2>3
<1>24. value'[mutex] + GetHolds' + PutHolds' = 1
  BY <1>2, <1>7, <1>21
<1>25. SemaphoresCount'
  BY <1>22, <1>23, <1>24, CountsAre
<1> QED
  BY <1>5, <1>17, <1>19, <1>20, <1>25 DEF Inv, AssertFailsInIdleOnly

-----------------------------------------------------------------------------
(* The theorems.                                                           *)

\* A step preserves the invariant; after a failed ASSERT there is none.
LEMMA NextInv == Inv /\ [Next]_vars => Inv'
<1> SUFFICES ASSUME Inv, [Next]_vars PROVE Inv'
  OBVIOUS
<1>1. CASE UNCHANGED vars
  <2>1. /\ UNCHANGED <<intr, curr, ready, status, ctx, pc, saved, panic, value,
                       waiters, buffer, front, rear, unread, typed, got, resume>>
    BY <1>1 DEF vars, schedVars, lockVars, queueVars
  <2>2. \A t \in Threads : Own(t)' = Own(t) /\ (PlaceOK(t)' <=> PlaceOK(t))
    BY <2>1 DEF Own, PlaceOK
  <2>3. /\ \A s \in Mutexes : /\ WaitersOK(s)' <=> WaitersOK(s)
                              /\ Woken(s)' = Woken(s)
    BY <2>1 DEF WaitersOK, Blocked, Woken, WaitPoints
  <2>4. ThreadInv => ThreadInv'
    BY <2>1, <2>2, <2>3
       DEF ThreadInv, TypeInv, PlaceInv, FlagInv, QueueInv, WaitersInv, WakeInv
  <2>5. DataInv /\ RingInv /\ GotInv => DataInv' /\ RingInv' /\ GotInv'
    BY <2>1, <2>2 DEF DataInv, RingInv, GotInv
  <2>6. SemaphoresCount' <=> SemaphoresCount
    BY <2>1 DEF SemaphoresCount, CountAt
  <2> QED
    BY <2>1, <2>4, <2>5, <2>6 DEF Inv, AssertFailsInIdleOnly
<1>2. CASE Next
  <2>1. panic = "none"
    BY <1>2 DEF Next, Kernel, Handler, Reader, kthread, intr_exit, idle_block,
      idle_unblocked, idle_hlt, time_intr_handler, keyboard_interrupt,
      put_slots, put_mutex, put_store, put_up_mutex, put_up_items, put_iret,
      io_queue_getchar, get_items, get_mutex, get_read, get_front,
      get_up_mutex, get_up_slots, At, Executing
  <2>2. Good
    BY <2>1 DEF Inv, Good
  <2>3. CASE Kernel
    BY <2>2, <2>3, KernelInv
  <2>4. ASSUME NEW c \in Chars, keyboard_interrupt(c) PROVE Inv'
    BY <2>2, <2>4, KeyInv
  <2>5. ASSUME NEW t \in Threads, Handler(t) PROVE Inv'
    BY <2>2, <2>5, DownInv, PutStoreInv, PutUpMutexInv, PutUpItemsInv, IretInv
       DEF Handler
  <2>6. ASSUME NEW t \in Threads, Reader(t) PROVE Inv'
    BY <2>2, <2>6, GetcharInv, DownInv, GetReadInv, GetFrontInv, GetUpMutexInv,
       GetUpSlotsInv DEF Reader
  <2> QED
    BY <1>2, <2>3, <2>4, <2>5, <2>6 DEF Next
<1> QED
  BY <1>1, <1>2

\* The inductive invariant holds in every reachable state.
LEMMA Invariance == Spec => []Inv
<1>1. Init => Inv
  BY InitInv
<1>2. Inv /\ [Next]_vars => Inv'
  BY NextInv
<1> QED
  BY <1>1, <1>2, PTL DEF Spec

(***************************************************************************)
(* slots, items and mutex of an io_queue_t always count the free places,   *)
(* the characters to read and the one owner.                               *)
(***************************************************************************)
THEOREM Counted == Spec => []SemaphoresCount
<1>1. Inv => SemaphoresCount
  BY DEF Inv
<1> QED
  BY <1>1, Invariance, PTL

(***************************************************************************)
(* io_queue_putchar never overwrites a character that was not read, and    *)
(* io_queue_getchar takes the oldest: the buffer from front to rear is     *)
(* what was stored and not read.                                           *)
(***************************************************************************)
THEOREM InOrder == Spec => []BufferHoldsUnread
<1>1. Inv => BufferHoldsUnread
  <2> SUFFICES ASSUME Inv, panic = "none" PROVE BufferHoldsUnread
    BY DEF BufferHoldsUnread
  <2>1. RingInv /\ GotInv /\ PlaceInv
    BY DEF Inv, ThreadInv
  <2>2. ASSUME NEW t \in Threads, At(t, "get_front")
        PROVE  got[t] = Head(unread)
    <3>1. pc[t] = "get_front" /\ "get_front" \notin PutPoints
      BY <2>2 DEF At, Executing, PutPoints
    <3>2. Own(t) = "get_front"
      BY <2>1, <3>1 DEF PlaceInv, PlaceOK, Own
    <3> QED
      BY <2>1, <3>2 DEF GotInv
  <2> QED
    BY <2>1, <2>2 DEF RingInv, BufferHoldsUnread
<1> QED
  BY <1>1, Invariance, PTL

(***************************************************************************)
(* sem_up wakes enough: as long as a semaphore of the queue is free and a  *)
(* thread waits for it, one that was woken is about to look at it.         *)
(***************************************************************************)
THEOREM SomeoneLooks == Spec => []NoLostWakeup
<1>1. Inv => NoLostWakeup
  <2> SUFFICES ASSUME Inv, panic = "none", NEW s \in Mutexes, value[s] > 0,
                      waiters[s] # <<>>
               PROVE  \E t \in Threads :
                        /\ pc[t] \in WaitPoints(s) /\ saved[t] # NULL
                        /\ status[t] \in {"READY", "RUNNING"}
    BY DEF NoLostWakeup
  <2>1. /\ value[s] \in Nat /\ value[s] <= Cardinality(Woken(s))
        /\ status \in [Threads -> {"RUNNING", "READY", "BLOCKED"}]
    BY DEF Inv, ThreadInv, TypeInv, WakeInv
  <2>2. Woken(s) # {}
    <3>1. SUFFICES ASSUME Woken(s) = {} PROVE FALSE
      OBVIOUS
    <3>2. Cardinality(Woken(s)) = 0
      BY <3>1, FS_EmptySet
    <3>3. PICK n \in Nat : n = value[s]
      BY <2>1
    <3>4. n > 0 /\ n <= 0
      BY <2>1, <3>2, <3>3
    <3> QED
      BY <3>4
  <2> QED
    BY <2>1, <2>2 DEF Woken
<1> QED
  BY <1>1, Invariance, PTL

(***************************************************************************)
(* No ASSERT of sem_down, sem_up, thread_unblock or schedule fails, but in *)
(* a handler that waits in the idle thread.                                *)
(***************************************************************************)
THEOREM AssertsHold == Spec => []AssertFailsInIdleOnly
<1>1. Inv => AssertFailsInIdleOnly
  BY DEF Inv
<1> QED
  BY <1>1, Invariance, PTL
=============================================================================
