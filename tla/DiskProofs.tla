----------------------------- MODULE DiskProofs -----------------------------
(***************************************************************************)
(* Proofs about Disk, for any threads and drives, any longest transfer and *)
(* any number of looks: what ide_read returns, how a request leaves the    *)
(* channel, and when a drive is given up.                                  *)
(***************************************************************************)
EXTENDS Disk, TLAPS

-----------------------------------------------------------------------------
(* The inductive invariant.                                                *)

Ops == {"read", "write", "identify"}

\* The places after the command of a read, or of an identify, was sent.
AfterCmd == {"sem_down", "spin_wait", "sleep", "disk_read"}

Pcs == {"out", "lock", "loop", "cmd", "cmd_out", "disk_write"} \cup AfterCmd

TypeInv ==
  /\ pc \in [Threads -> Pcs] /\ offset \in [Threads -> Nat]
  /\ looks \in [Threads -> Nat] /\ seen \in [Threads -> Nat]
  /\ req \in [Threads -> [op : Ops \cup {"none"}, d : Drives \cup {NULL},
                          lba : Nat, cnt : Nat]]
  /\ reg \in [d : Drives \cup {NULL}, lba : Nat, cnt : Nat]
  /\ buf = [t \in Threads |-> buf[t]]
  /\ sem \in Nat /\ irq \in Nat /\ waiting_intr \in BOOLEAN
  /\ panic \in BOOLEAN /\ probed \subseteq Drives

\* t uses the channel, with its mutex or, during boot, without.
Active(t) == pc[t] \notin {"out", "lock"}

\* What the place a thread is at says of its request.
RequestOK(t) ==
  /\ pc[t] = "out" => offset[t] = 0
  /\ pc[t] = "lock" => offset[t] = 0 /\ req[t].op # "identify"
  /\ pc[t] # "out" => /\ req[t].op \in Ops /\ req[t].cnt > 0
                      /\ req[t].d \in Drives
  /\ Active(t) /\ pc[t] # "loop" => offset[t] < req[t].cnt
  /\ pc[t] = "disk_read" => req[t].op # "write"
  /\ pc[t] = "disk_write" => req[t].op = "write"
  /\ pc[t] # "out" /\ req[t].op = "identify" =>
       t = main /\ req[t].d \notin probed /\ req[t].cnt = 1
  /\ pc[t] # "out" /\ req[t].op # "identify" => probed = Drives

\* One thread at a time uses the channel: the one that has the mutex, or main
\* before all drives are probed.
OwnerInv ==
  /\ \A t \in Threads : Active(t) /\ req[t].op # "identify" => mutex = t
  /\ mutex # NULL => /\ mutex \in Threads /\ Active(mutex)
                     /\ req[mutex].op # "identify"

(***************************************************************************)
(* From send_cmd to sem_down there is one token, in waiting_intr until the *)
(* handler moves it to sem; at other times there is none, and the handler  *)
(* changes nothing.                                                        *)
(***************************************************************************)
Tokens == sem + (IF waiting_intr THEN 1 ELSE 0)

Awaits(t) == \/ pc[t] \in {"cmd_out", "sem_down"}
             \/ req[t].op = "write" /\ pc[t] \in {"spin_wait", "sleep",
                                                  "disk_write"}

TokenInv ==
  /\ \A t \in Threads : Active(t) => Tokens = IF Awaits(t) THEN 1 ELSE 0
  /\ (\A t \in Threads : ~Active(t)) => Tokens = 0

\* The i-th sector of a request that reads.
Wanted(r, i) == IF r.op = "identify" THEN <<r.d, "id">>
                ELSE disk[r.d][r.lba + i]

\* What a thread that reads has so far, and what it has told the drive.
ReadOK(t) ==
  Active(t) /\ req[t].op # "write" =>
    /\ offset[t] <= req[t].cnt
    /\ offset[t] > 0 =>
         buf[t] = [i \in 0 .. offset[t] - 1 |-> Wanted(req[t], i)]
    /\ pc[t] # "loop" =>
         /\ reg.d = req[t].d
         /\ req[t].op = "read" => reg.lba = req[t].lba + offset[t]

(***************************************************************************)
(* Every look of spin_wait that found the drive busy is followed by a      *)
(* sleep; what it looks at is the drive's answer to the command, and the   *)
(* transfer is of that command.                                            *)
(***************************************************************************)
LooksOK(t) ==
  /\ pc[t] \in {"spin_wait", "sleep"} => cmd \in {req[t].op, "failed"}
  /\ pc[t] = "sem_down" /\ req[t].op # "write" => cmd \in {req[t].op, "failed"}
  /\ pc[t] = "disk_read" => cmd = req[t].op /\ ~busy
  /\ pc[t] = "sem_down" /\ req[t].op # "write" => seen[t] = 0
  /\ pc[t] = "spin_wait" => seen[t] + looks[t] = Looks
  /\ pc[t] = "sleep" => seen[t] + looks[t] = Looks + 1 /\ looks[t] > 0

Inv == /\ TypeInv /\ OwnerInv /\ TokenInv
       /\ \A t \in Threads : RequestOK(t) /\ ReadOK(t) /\ LooksOK(t)
       /\ GivesUpAfterAllLooks

-----------------------------------------------------------------------------
(* The counts of a command.                                                *)

\* The count of a command fits the byte: a command has at least one sector
\* and, in a read, the most a byte can say.
LEMMA CountFits ==
  ASSUME NEW c \in 1 .. MaxSectors
  PROVE  Byte(c) = c
<1>0. MaxSectors \in Nat  BY DiskAssumption
<1>1. CASE c = MaxSectors
  <2>1. c % MaxSectors = 0  BY <1>0, <1>1
  <2> QED  BY <1>1, <2>1 DEF Byte
<1>2. CASE c < MaxSectors
  <2>1. c \in Nat /\ c # 0  BY <1>0
  <2>2. c % MaxSectors = c  BY <1>0, <1>2, <2>1
  <2> QED  BY <2>1, <2>2 DEF Byte
<1> QED  BY <1>0, <1>1, <1>2

\* Whatever count is put out, the register holds a number.
LEMMA ByteType ==
  ASSUME NEW c \in Nat
  PROVE  Byte(c) \in Nat
<1>1. c % MaxSectors \in 0 .. MaxSectors - 1  BY DiskAssumption
<1> QED  BY <1>1, DiskAssumption DEF Byte

\* curr_cnt of a request that is not done: a positive number, and in a read
\* what is left of the request or a full transfer of it.
LEMMA CurrCntRange ==
  ASSUME TypeInv, NEW t \in Threads, offset[t] < req[t].cnt
  PROVE  /\ CurrCnt(t) \in Nat \ {0}
         /\ req[t].op # "write" => /\ CurrCnt(t) \in 1 .. MaxSectors
                                  /\ offset[t] + CurrCnt(t) <= req[t].cnt
<1>1. offset[t] \in Nat /\ req[t].cnt \in Nat /\ MaxSectors \in Nat \ {0}
  BY DiskAssumption DEF TypeInv
<1> DEFINE more == offset[t] + MaxSectors < req[t].cnt
<1>2. CASE req[t].op # "write"
  <2>1. CurrCnt(t) = IF more THEN MaxSectors ELSE req[t].cnt - offset[t]
    BY <1>2 DEF CurrCnt, ReadCnt
  <2> QED  BY <1>1, <1>2, <2>1
<1>3. CASE req[t].op = "write"
  <2>1. CurrCnt(t) = IF more THEN req[t].cnt - offset[t] ELSE MaxSectors
    BY <1>3 DEF CurrCnt, WriteCnt
  <2> QED  BY <1>1, <1>3, <2>1
<1> QED  BY <1>2, <1>3

-----------------------------------------------------------------------------
(* One thread at a time.                                                   *)

\* At most one thread is between its first access to the channel and its
\* last: the mutex keeps ide_read and ide_write apart, and the identify
\* commands, which do without it, are over before the first of them.
LEMMA OneActive ==
  ASSUME TypeInv, OwnerInv, \A t \in Threads : RequestOK(t),
         NEW t \in Threads, NEW u \in Threads, Active(t), Active(u)
  PROVE  t = u
<1>1. pc[t] # "out" /\ pc[u] # "out"  BY DEF Active
<1>2. CASE req[t].op # "identify" /\ req[u].op # "identify"
  BY <1>2 DEF OwnerInv
<1>3. CASE req[t].op = "identify" /\ req[u].op = "identify"
  BY <1>1, <1>3 DEF RequestOK
<1>4. CASE req[t].op = "identify" /\ req[u].op # "identify"
  BY <1>1, <1>4 DEF RequestOK
<1>5. CASE req[t].op # "identify" /\ req[u].op = "identify"
  BY <1>1, <1>5 DEF RequestOK
<1> QED  BY <1>2, <1>3, <1>4, <1>5

\* What a step leaves alone of a thread.
Same(u) == /\ pc'[u] = pc[u] /\ req'[u] = req[u] /\ offset'[u] = offset[u]
           /\ looks'[u] = looks[u] /\ seen'[u] = seen[u]

\* A step that leaves a thread outside of the channel alone leaves it in
\* order.
LEMMA OutsideKept ==
  ASSUME TypeInv, NEW u \in Threads, ~Active(u), RequestOK(u), LooksOK(u),
         Same(u), probed \subseteq probed', probed' \subseteq Drives
  PROVE  RequestOK(u)' /\ ReadOK(u)' /\ LooksOK(u)' /\ ~Active(u)'
<1>1. ~Active(u)'  BY DEF Active, Same
<1>2. pc'[u] \in {"out", "lock"}  BY <1>1 DEF Active
<1>3. RequestOK(u)'  BY <1>1, <1>2 DEF RequestOK, Same, Active
<1>4. ReadOK(u)'  BY <1>1 DEF ReadOK
<1>5. LooksOK(u)'  BY <1>2 DEF LooksOK
<1> QED  BY <1>1, <1>3, <1>4, <1>5

\* A step of the thread that uses the channel, from one place in the driver
\* to another: what is left to show of it is about that thread alone.
LEMMA DriverStep ==
  ASSUME Inv, ~panic, ~panic', NEW t \in Threads, Active(t), Active(t)',
         TypeInv', req' = req, mutex' = mutex, probed' = probed,
         \A u \in Threads \ {t} : Same(u),
         Tokens' = IF Awaits(t)' THEN 1 ELSE 0,
         RequestOK(t)', ReadOK(t)', LooksOK(t)'
  PROVE  Inv'
<1>1. \A u \in Threads \ {t} : ~Active(u)  BY OneActive DEF Inv
<1>2. probed' \subseteq Drives /\ probed \subseteq probed'  BY DEF Inv, TypeInv
<1>3. \A u \in Threads \ {t} : /\ RequestOK(u)' /\ ReadOK(u)' /\ LooksOK(u)'
                               /\ ~Active(u)'
  BY <1>1, <1>2, OutsideKept DEF Inv
<1>4. \A u \in Threads : RequestOK(u)' /\ ReadOK(u)' /\ LooksOK(u)'  BY <1>3
<1>5. OwnerInv'
  <2>1. \A u \in Threads : (Active(u) /\ req[u].op # "identify" => mutex = u)'
    BY <1>3 DEF Inv, OwnerInv
  <2>2. ASSUME mutex # NULL
        PROVE  mutex \in Threads /\ Active(mutex)' /\ req[mutex].op # "identify"
    BY <1>1, <2>2 DEF Inv, OwnerInv
  <2> QED  BY <2>1, <2>2 DEF OwnerInv
<1>6. TokenInv'  BY <1>3 DEF TokenInv
<1>7. GivesUpAfterAllLooks'  BY DEF GivesUpAfterAllLooks
<1> QED  BY <1>4, <1>5, <1>6, <1>7 DEF Inv

-----------------------------------------------------------------------------
(* The steps of the thread that uses the channel.                          *)

\* The registers hold the next part of the request.
LEMMA SetupInv ==
  ASSUME Inv, NEW t \in Threads, setup(t)
  PROVE  Inv'
<1> USE DEF At, Goto
<1>1. Active(t) /\ Active(t)' /\ pc[t] = "loop" /\ pc'[t] = "cmd"
  BY DEF setup, Active, Inv, TypeInv
<1>2. CurrCnt(t) \in Nat  BY CurrCntRange DEF Inv, setup
<1>3. TypeInv'
  <2>1. reg' \in [d : Drives \cup {NULL}, lba : Nat, cnt : Nat]
    BY <1>2, ByteType DEF setup, Inv, TypeInv
  <2> QED  BY <2>1 DEF setup, spin, count, Inv, TypeInv, Pcs
<1>4. RequestOK(t)'
  BY <1>1 DEF setup, count, Inv, RequestOK, Active
<1>5. ReadOK(t)'
  BY <1>1 DEF setup, Inv, ReadOK, Active, Wanted
<1>6. LooksOK(t)'  BY <1>1 DEF LooksOK
<1>7. Tokens' = IF Awaits(t)' THEN 1 ELSE 0
  BY <1>1 DEF setup, Inv, TokenInv, Tokens, Awaits
<1>8. \A u \in Threads \ {t} : Same(u)  BY DEF setup, spin, Same, Inv, TypeInv
<1> QED  BY <1>1, <1>3, <1>4, <1>5, <1>6, <1>7, <1>8, DriverStep
      DEF setup, count

\* send_cmd makes the token before it sends the command, so that the
\* interrupt finds it however early it comes.
LEMMA SendWaitInv ==
  ASSUME Inv, NEW t \in Threads, send_wait(t)
  PROVE  Inv'
<1> USE DEF At, Goto
<1>1. Active(t) /\ Active(t)' /\ pc[t] = "cmd" /\ pc'[t] = "cmd_out"
  BY DEF send_wait, Active, Inv, TypeInv
<1>3. TypeInv'  BY DEF send_wait, drive, spin, count, Inv, TypeInv, Pcs
<1>4. RequestOK(t)'
  BY <1>1 DEF send_wait, count, Inv, RequestOK, Active
<1>5. ReadOK(t)'
  BY <1>1 DEF send_wait, drive, Inv, ReadOK, Active, Wanted
<1>6. LooksOK(t)'  BY <1>1 DEF LooksOK
<1>7. Tokens' = IF Awaits(t)' THEN 1 ELSE 0
  BY <1>1 DEF send_wait, Inv, TypeInv, TokenInv, Tokens, Awaits
<1>8. \A u \in Threads \ {t} : Same(u)
  BY DEF send_wait, spin, Same, Inv, TypeInv
<1> QED  BY <1>1, <1>3, <1>4, <1>5, <1>6, <1>7, <1>8, DriverStep
      DEF send_wait, count

\* The command; a write goes on to wait for the drive, with all its looks.
LEMMA SendCmdInv ==
  ASSUME Inv, NEW t \in Threads, send_cmd(t)
  PROVE  Inv'
<1> USE DEF At, Goto, Enter
<1>1. /\ Active(t) /\ Active(t)' /\ pc[t] = "cmd_out"
      /\ pc'[t] = IF req[t].op = "write" THEN "spin_wait" ELSE "sem_down"
      /\ seen'[t] = 0 /\ (req[t].op = "write" => looks'[t] = Looks)
  BY DEF send_cmd, Active, Inv, TypeInv
<1>3. TypeInv'
  BY DiskAssumption DEF send_cmd, count, Inv, TypeInv, Pcs, AfterCmd
<1>4. RequestOK(t)'
  BY <1>1 DEF send_cmd, count, Inv, RequestOK, Active
<1>5. ReadOK(t)'
  BY <1>1 DEF send_cmd, Inv, ReadOK, Active, Wanted
<1>6. LooksOK(t)'
  BY <1>1, DiskAssumption DEF send_cmd, LooksOK
<1>7. Tokens' = IF Awaits(t)' THEN 1 ELSE 0
  BY <1>1 DEF send_cmd, Inv, TypeInv, TokenInv, Tokens, Awaits
<1>8. \A u \in Threads \ {t} : Same(u)  BY DEF send_cmd, Same, Inv, TypeInv
<1> QED  BY <1>1, <1>3, <1>4, <1>5, <1>6, <1>7, <1>8, DriverStep
      DEF send_cmd, count

\* The token is used up.
LEMMA SemDownInv ==
  ASSUME Inv, NEW t \in Threads, sem_down(t)
  PROVE  Inv'
<1> USE DEF At, Goto, Enter
<1>1. /\ Active(t) /\ Active(t)' /\ pc[t] = "sem_down"
      /\ pc'[t] = IF req[t].op = "write" THEN "loop" ELSE "spin_wait"
      /\ (req[t].op # "write" => looks'[t] = Looks)
  BY DEF sem_down, Active, Inv, TypeInv
<1>2. CurrCnt(t) \in Nat
  BY <1>1, CurrCntRange DEF Inv, RequestOK
<1>3. TypeInv'
  <2>1. sem' \in Nat  BY DEF sem_down, Inv, TypeInv
  <2>2. pc' \in [Threads -> Pcs] /\ looks' \in [Threads -> Nat]
    <3>1. PICK q \in {"spin_wait", "loop"} :
            /\ pc' = [pc EXCEPT ![t] = q]
            /\ looks' = [looks EXCEPT ![t] = IF q = "spin_wait" THEN Looks ELSE 0]
      BY DEF sem_down
    <3> QED  BY <3>1, DiskAssumption DEF Inv, TypeInv, Pcs, AfterCmd
  <2>3. offset' \in [Threads -> Nat]  BY <1>2 DEF sem_down, Inv, TypeInv
  <2> QED  BY <2>1, <2>2, <2>3 DEF sem_down, drive, count, Inv, TypeInv
<1>4. RequestOK(t)'
  BY <1>1 DEF sem_down, count, Inv, RequestOK, Active
<1>5. ReadOK(t)'
  BY <1>1, ZenonT(40) DEF sem_down, drive, Inv, ReadOK, Active, Wanted
<1>6. LooksOK(t)'
  BY <1>1, DiskAssumption DEF sem_down, drive, Inv, LooksOK
<1>7. Tokens' = IF Awaits(t)' THEN 1 ELSE 0
  BY <1>1 DEF sem_down, Inv, TypeInv, TokenInv, Tokens, Awaits
<1>8. \A u \in Threads \ {t} : Same(u)  BY DEF sem_down, Same, Inv, TypeInv
<1> QED  BY <1>1, <1>3, <1>4, <1>5, <1>6, <1>7, <1>8, DriverStep
      DEF sem_down, count

\* A look of spin_wait that finds the drive ready.
LEMMA SpinWaitInv ==
  ASSUME Inv, NEW t \in Threads, spin_wait(t)
  PROVE  Inv'
<1> USE DEF At, Goto
<1>1. /\ Active(t) /\ Active(t)' /\ pc[t] = "spin_wait"
      /\ pc'[t] = IF req[t].op = "write" THEN "disk_write" ELSE "disk_read"
  BY DEF spin_wait, Active, Inv, TypeInv
<1>3. TypeInv'
  BY DEF spin_wait, drive, spin, count, Inv, TypeInv, Pcs, AfterCmd
<1>4. RequestOK(t)'
  BY <1>1 DEF spin_wait, count, Inv, RequestOK, Active
<1>5. ReadOK(t)'
  BY <1>1 DEF spin_wait, drive, Inv, ReadOK, Active, Wanted
<1>6. LooksOK(t)'
  BY <1>1 DEF spin_wait, DataReady, drive, Inv, LooksOK
<1>7. Tokens' = IF Awaits(t)' THEN 1 ELSE 0
  BY <1>1 DEF spin_wait, Inv, TypeInv, TokenInv, Tokens, Awaits
<1>8. \A u \in Threads \ {t} : Same(u)
  BY DEF spin_wait, spin, Same, Inv, TypeInv
<1> QED  BY <1>1, <1>3, <1>4, <1>5, <1>6, <1>7, <1>8, DriverStep
      DEF spin_wait, count

\* A look that finds it busy: the look is counted, the sleep is still to come.
LEMMA SpinBusyInv ==
  ASSUME Inv, NEW t \in Threads, spin_busy(t)
  PROVE  Inv'
<1> USE DEF At, Goto
<1>1. /\ Active(t) /\ Active(t)' /\ pc[t] = "spin_wait"
      /\ pc'[t] = "sleep"
  BY DEF spin_busy, Active, Inv, TypeInv
<1>3. TypeInv'
  BY DEF spin_busy, drive, count, Inv, TypeInv, Pcs, AfterCmd
<1>4. RequestOK(t)'
  BY <1>1 DEF spin_busy, count, Inv, RequestOK, Active
<1>5. ReadOK(t)'
  BY <1>1 DEF spin_busy, drive, Inv, ReadOK, Active, Wanted
<1>6. LooksOK(t)'
  <2>1. cmd' \in {req'[t].op, "failed"}  BY <1>1 DEF spin_busy, drive, Inv, LooksOK
  <2>2. pc'[t] = "spin_wait" => seen'[t] + looks'[t] = Looks
    BY <1>1, DiskAssumption DEF spin_busy, Inv, TypeInv, LooksOK
  <2>3. pc'[t] = "sleep" => seen'[t] + looks'[t] = Looks + 1 /\ looks'[t] > 0
    BY <1>1, DiskAssumption DEF spin_busy, Inv, TypeInv, LooksOK
  <2> QED  BY <1>1, <2>1, <2>2, <2>3 DEF LooksOK
<1>7. Tokens' = IF Awaits(t)' THEN 1 ELSE 0
  BY <1>1 DEF spin_busy, Inv, TypeInv, TokenInv, Tokens, Awaits
<1>8. \A u \in Threads \ {t} : Same(u)  BY DEF spin_busy, Same, Inv, TypeInv
<1> QED  BY <1>1, <1>3, <1>4, <1>5, <1>6, <1>7, <1>8, DriverStep
      DEF spin_busy, count

\* The end of the sleep takes one look away.
LEMMA SpinWakeInv ==
  ASSUME Inv, NEW t \in Threads, spin_wake(t)
  PROVE  Inv'
<1> USE DEF At, Goto
<1>1. /\ Active(t) /\ Active(t)' /\ pc[t] = "sleep"
      /\ pc'[t] = "spin_wait" /\ looks[t] > 0
  BY DEF spin_wake, Active, Inv, TypeInv, LooksOK
<1>3. TypeInv'
  BY <1>1 DEF spin_wake, drive, count, Inv, TypeInv, Pcs, AfterCmd
<1>4. RequestOK(t)'
  BY <1>1 DEF spin_wake, count, Inv, RequestOK, Active
<1>5. ReadOK(t)'
  BY <1>1 DEF spin_wake, drive, Inv, ReadOK, Active, Wanted
<1>6. LooksOK(t)'
  <2>1. cmd' \in {req'[t].op, "failed"}  BY <1>1 DEF spin_wake, drive, Inv, LooksOK
  <2>2. /\ looks[t] \in Nat /\ seen[t] \in Nat /\ Looks \in Nat
        /\ seen[t] + looks[t] = Looks + 1
    BY <1>1, DiskAssumption DEF Inv, TypeInv, LooksOK
  <2>3. looks'[t] = looks[t] - 1 /\ seen'[t] = seen[t]
    BY <1>1 DEF spin_wake, Inv, TypeInv
  <2>4. seen'[t] + looks'[t] = Looks  BY <2>2, <2>3
  <2> QED  BY <1>1, <2>1, <2>4 DEF LooksOK
<1>7. Tokens' = IF Awaits(t)' THEN 1 ELSE 0
  BY <1>1 DEF spin_wake, Inv, TypeInv, TokenInv, Tokens, Awaits
<1>8. \A u \in Threads \ {t} : Same(u)  BY DEF spin_wake, Same, Inv, TypeInv
<1> QED  BY <1>1, <1>3, <1>4, <1>5, <1>6, <1>7, <1>8, DriverStep
      DEF spin_wake, count

\* insw: the sectors of the command come behind those of the commands
\* before.
LEMMA DiskReadInv ==
  ASSUME Inv, NEW t \in Threads, disk_read(t)
  PROVE  Inv'
<1> USE DEF At, Goto
<1> DEFINE n == CurrCnt(t)
<1>1. /\ Active(t) /\ Active(t)' /\ pc[t] = "disk_read" /\ pc'[t] = "loop"
      /\ req[t].op # "write"
  BY DEF disk_read, Active, Inv, TypeInv, RequestOK
<1>2. n \in 1 .. MaxSectors /\ offset[t] + n <= req[t].cnt /\ Byte(n) = n
  BY <1>1, CurrCntRange, CountFits DEF Inv, RequestOK, Active
<1>a. /\ n \in Nat \ {0} /\ offset[t] \in Nat /\ offset'[t] = offset[t] + n
      /\ req'[t] = req[t] /\ disk' = disk
  <2>1. n \in Nat \ {0}
    <3>1. MaxSectors \in Nat  BY DiskAssumption
    <3> HIDE DEF n
    <3> QED  BY <1>2, <3>1
  <2>2. offset[t] \in Nat  BY DEF Inv, TypeInv
  <2>3. offset'[t] = offset[t] + n /\ req'[t] = req[t] /\ disk' = disk
    BY DEF disk_read, Inv, TypeInv
  <2> QED  BY <2>1, <2>2, <2>3
<1> HIDE DEF n
<1>3. TypeInv'
  <2>1. irq' \in Nat  BY <1>2, <1>a DEF disk_read, n, Inv, TypeInv
  <2>2. buf' = [u \in Threads |-> buf'[u]]  BY DEF disk_read, Inv, TypeInv
  <2>3. offset' \in [Threads -> Nat]  BY <1>a DEF disk_read, n, Inv, TypeInv
  <2> QED  BY <2>1, <2>2, <2>3 DEF disk_read, spin, count, Inv, TypeInv, Pcs
<1>4. RequestOK(t)'
  BY <1>1 DEF disk_read, count, Inv, RequestOK, Active
<1>5. ReadOK(t)'
  <2>1. buf'[t] = [i \in 0 .. offset[t] + n - 1 |->
                     IF i < offset[t] THEN buf[t][i] ELSE Data(i - offset[t])]
    BY <1>2 DEF disk_read, n, Inv, TypeInv
  <2>2. /\ reg.d = req[t].d /\ cmd = req[t].op
        /\ req[t].op = "read" => reg.lba = req[t].lba + offset[t]
    BY <1>1 DEF Inv, ReadOK, LooksOK
  <2>3. ASSUME NEW i \in 0 .. offset[t] + n - 1, i < offset[t]
        PROVE  buf[t][i] = Wanted(req[t], i)
    <3>1. offset[t] > 0 /\ i \in 0 .. offset[t] - 1  BY <1>a, <2>3
    <3>2. buf[t] = [j \in 0 .. offset[t] - 1 |-> Wanted(req[t], j)]
      BY <1>1, <3>1 DEF Inv, ReadOK
    <3> QED  BY <3>1, <3>2
  <2>4. ASSUME NEW i \in 0 .. offset[t] + n - 1, ~(i < offset[t])
        PROVE  Data(i - offset[t]) = Wanted(req[t], i)
    <3>1. CASE req[t].op = "identify"
      BY <2>2, <3>1 DEF Data, Wanted
    <3>2. CASE req[t].op # "identify"
      <4>1. req[t].op = "read"
        BY <1>1, <3>2 DEF Inv, RequestOK, Ops, Active
      <4>2. reg.lba + (i - offset[t]) = req[t].lba + i
        <5>1. req[t].lba \in Nat  BY DEF Inv, TypeInv
        <5> QED  BY <1>a, <2>2, <4>1, <5>1
      <4> QED  BY <2>2, <4>1, <4>2 DEF Data, Wanted
    <3> QED  BY <3>1, <3>2
  <2>5. buf'[t] = [i \in 0 .. offset'[t] - 1 |-> Wanted(req[t], i)]
    BY <1>a, <2>1, <2>3, <2>4
  <2>6. \A i : Wanted(req[t], i)' = Wanted(req[t], i)  BY <1>a DEF Wanted
  <2> QED  BY <1>1, <1>2, <1>a, <2>5, <2>6 DEF ReadOK
<1>6. LooksOK(t)'  BY <1>1 DEF LooksOK
<1>7. Tokens' = IF Awaits(t)' THEN 1 ELSE 0
  BY <1>1 DEF disk_read, Inv, TypeInv, TokenInv, Tokens, Awaits
<1>8. \A u \in Threads \ {t} : Same(u)
  BY DEF disk_read, spin, Same, Inv, TypeInv
<1> QED  BY <1>1, <1>3, <1>4, <1>5, <1>6, <1>7, <1>8, DriverStep
      DEF disk_read, count

\* outsw: nobody reads while a sector is written.
LEMMA DiskWriteInv ==
  ASSUME Inv, NEW t \in Threads, disk_write(t)
  PROVE  Inv'
<1> USE DEF At, Goto
<1>1. /\ Active(t) /\ Active(t)' /\ pc[t] = "disk_write"
      /\ pc'[t] = "sem_down" /\ req[t].op = "write"
  BY DEF disk_write, Active, Inv, TypeInv, RequestOK
<1>3. TypeInv'
  BY DEF disk_write, spin, count, Inv, TypeInv, Pcs, AfterCmd
<1>4. RequestOK(t)'
  BY <1>1 DEF disk_write, count, Inv, RequestOK, Active
<1>5. ReadOK(t)'  BY <1>1 DEF disk_write, ReadOK
<1>6. LooksOK(t)'  BY <1>1 DEF disk_write, LooksOK
<1>7. Tokens' = IF Awaits(t)' THEN 1 ELSE 0
  BY <1>1 DEF disk_write, Inv, TypeInv, TokenInv, Tokens, Awaits
<1>8. \A u \in Threads \ {t} : Same(u)
  BY DEF disk_write, spin, Same, Inv, TypeInv
<1> QED  BY <1>1, <1>3, <1>4, <1>5, <1>6, <1>7, <1>8, DriverStep
      DEF disk_write, count

-----------------------------------------------------------------------------
(* The steps outside of the channel, into it and out of it.                *)

\* Nobody uses the channel when main probes a drive: main itself is the only
\* one who could, as another would need all drives to be probed.
LEMMA PrintDiskInfoInv ==
  ASSUME Inv, NEW d \in Drives, print_disk_info(d)
  PROVE  Inv'
<1> USE DEF At, Goto
<1>1. main \in Threads /\ pc[main] = "out" /\ pc'[main] = "cmd" /\ ~panic
  BY DiskAssumption DEF print_disk_info, Inv, TypeInv
<1>2. \A u \in Threads \ {main} : pc[u] = "out"
  BY DEF print_disk_info, Inv, RequestOK
<1>3. \A u \in Threads : ~Active(u)  BY <1>1, <1>2 DEF Active
<1>4. /\ req'[main] = [op |-> "identify", d |-> d, lba |-> 0, cnt |-> 1]
      /\ offset'[main] = 0
  BY <1>1 DEF print_disk_info, Inv, TypeInv, RequestOK
<1>5. \A u \in Threads \ {main} : Same(u)
  BY DEF print_disk_info, spin, Same, Inv, TypeInv
<1>6. \A u \in Threads \ {main} : /\ RequestOK(u)' /\ ReadOK(u)' /\ LooksOK(u)'
                                  /\ ~Active(u)'
  <2>1. probed \subseteq probed' /\ probed' \subseteq Drives
    BY DEF print_disk_info, count, Inv, TypeInv
  <2> QED  BY <1>3, <1>5, <2>1, OutsideKept DEF Inv
<1>7. TypeInv'
  <2>1. req' \in [Threads -> [op : Ops \cup {"none"}, d : Drives \cup {NULL},
                              lba : Nat, cnt : Nat]]
    BY <1>1 DEF print_disk_info, Inv, TypeInv, Ops
  <2> QED  BY <2>1 DEF print_disk_info, spin, count, Inv, TypeInv, Pcs
<1>8. RequestOK(main)' /\ ReadOK(main)' /\ LooksOK(main)'
  <2>1. RequestOK(main)'
    BY <1>1, <1>4 DEF print_disk_info, count, RequestOK, Active, Ops
  <2>2. ReadOK(main)'
    BY <1>1, <1>4 DEF print_disk_info, ReadOK, Inv, TypeInv
  <2> QED  BY <1>1, <2>1, <2>2 DEF LooksOK
<1>9. OwnerInv'
  BY <1>3, <1>4, <1>6 DEF print_disk_info, OwnerInv, Inv
<1>10. TokenInv'
  <2>1. Tokens' = 0  BY <1>3 DEF print_disk_info, Inv, TokenInv, Tokens
  <2>2. ~Awaits(main)'  BY <1>1, <1>4 DEF Awaits
  <2>3. Active(main)'  BY <1>1 DEF Active
  <2> QED  BY <1>1, <1>6, <2>1, <2>2, <2>3 DEF TokenInv
<1>11. GivesUpAfterAllLooks'
  BY <1>1 DEF print_disk_info, GivesUpAfterAllLooks
<1> QED  BY <1>6, <1>7, <1>8, <1>9, <1>10, <1>11 DEF Inv

\* A request, up to the mutex.
LEMMA IdeCallInv ==
  ASSUME Inv, NEW t \in Threads, NEW op \in {"read", "write"},
         NEW d \in Drives, NEW lba \in 0 .. MaxLba, NEW cnt \in 1 .. MaxCnt,
         ide_call(t, op, d, lba, cnt)
  PROVE  Inv'
<1> USE DEF At, Goto
<1>1. pc[t] = "out" /\ pc'[t] = "lock" /\ ~panic /\ ~panic'
  BY DEF ide_call, Inv, TypeInv
<1>2. /\ req'[t] = [op |-> op, d |-> d, lba |-> lba, cnt |-> cnt]
      /\ offset'[t] = 0
  BY <1>1 DEF ide_call, Inv, TypeInv, RequestOK
<1>3. \A u \in Threads \ {t} : Same(u)
  BY DEF ide_call, spin, Same, Inv, TypeInv
<1>4. \A u \in Threads : Active(u)' <=> Active(u)
  BY <1>1, <1>3 DEF Active, Same
<1>5. TypeInv'
  <2>1. lba \in Nat /\ cnt \in Nat  BY DiskAssumption
  <2>2. req' \in [Threads -> [op : Ops \cup {"none"}, d : Drives \cup {NULL},
                              lba : Nat, cnt : Nat]]
    BY <2>1 DEF ide_call, Inv, TypeInv, Ops
  <2> QED  BY <2>2 DEF ide_call, drive, spin, Inv, TypeInv, Pcs
<1>6. RequestOK(t)' /\ ReadOK(t)' /\ LooksOK(t)'
  <2>1. cnt > 0  BY DiskAssumption
  <2>2. RequestOK(t)'
    BY <1>1, <1>2, <2>1 DEF ide_call, RequestOK, Active, Ops
  <2> QED  BY <1>1, <2>2 DEF ReadOK, LooksOK, Active
<1>7. ASSUME NEW u \in Threads, u # t
      PROVE  RequestOK(u)' /\ ReadOK(u)' /\ LooksOK(u)'
  <2>1. Same(u)  BY <1>3, <1>7
  <2>2. RequestOK(u)'
    BY <2>1 DEF ide_call, Same, Inv, RequestOK, Active
  <2>3. ReadOK(u)'
    BY <2>1 DEF ide_call, drive, Same, Inv, ReadOK, Active, Wanted
  <2>4. LooksOK(u)'  BY <2>1 DEF ide_call, drive, Same, Inv, LooksOK
  <2> QED  BY <2>2, <2>3, <2>4
<1>8. OwnerInv'
  <2>1. \A u \in Threads : Active(u) => req'[u] = req[u]
    BY <1>1, <1>3 DEF Active, Same
  <2>2. mutex' = mutex  BY DEF ide_call
  <2> QED  BY <1>4, <2>1, <2>2 DEF Inv, OwnerInv
<1>9. TokenInv'
  <2>1. Tokens' = Tokens  BY DEF ide_call, Tokens
  <2>2. \A u \in Threads : Active(u) => (Awaits(u)' <=> Awaits(u))
    BY <1>1, <1>3 DEF Active, Same, Awaits
  <2> QED  BY <1>4, <2>1, <2>2 DEF Inv, TokenInv
<1>10. GivesUpAfterAllLooks'  BY <1>1 DEF GivesUpAfterAllLooks
<1> QED  BY <1>5, <1>6, <1>7, <1>8, <1>9, <1>10 DEF Inv

\* The mutex is free, so nobody uses the channel.
LEMMA MutexLockInv ==
  ASSUME Inv, NEW t \in Threads, mutex_lock(t)
  PROVE  Inv'
<1> USE DEF At, Goto
<1>1. pc[t] = "lock" /\ pc'[t] = "loop" /\ ~panic /\ ~panic' /\ Active(t)'
  BY DEF mutex_lock, Inv, TypeInv, Active
<1>2. offset[t] = 0 /\ req[t].op # "identify" /\ probed = Drives
  BY <1>1 DEF Inv, RequestOK
<1>3. \A u \in Threads : ~Active(u)
  <2>1. SUFFICES ASSUME NEW u \in Threads, Active(u) PROVE FALSE  OBVIOUS
  <2>2. pc[u] # "out"  BY <2>1 DEF Active
  <2>3. req[u].op # "identify"  BY <1>2, <2>2 DEF Inv, RequestOK
  <2>4. mutex = u  BY <2>1, <2>3 DEF Inv, OwnerInv
  <2> QED  BY <2>4, DiskAssumption DEF mutex_lock
<1>4. \A u \in Threads \ {t} : Same(u)
  BY DEF mutex_lock, spin, Same, Inv, TypeInv
<1>5. \A u \in Threads \ {t} : /\ RequestOK(u)' /\ ReadOK(u)' /\ LooksOK(u)'
                               /\ ~Active(u)'
  <2>1. probed \subseteq probed' /\ probed' \subseteq Drives
    BY DEF mutex_lock, count, Inv, TypeInv
  <2> QED  BY <1>3, <1>4, <2>1, OutsideKept DEF Inv
<1>6. TypeInv'  BY DEF mutex_lock, drive, spin, count, Inv, TypeInv, Pcs
<1>7. RequestOK(t)' /\ ReadOK(t)' /\ LooksOK(t)'
  <2>1. RequestOK(t)'
    BY <1>1 DEF mutex_lock, count, Inv, RequestOK, Active
  <2>2. ReadOK(t)'
    <3>1. offset'[t] = 0 /\ req'[t].cnt >= 0
      BY <1>2 DEF mutex_lock, Inv, TypeInv
    <3> QED  BY <1>1, <3>1 DEF ReadOK
  <2> QED  BY <1>1, <2>1, <2>2 DEF LooksOK
<1>8. OwnerInv'  BY <1>1, <1>2, <1>5 DEF mutex_lock, OwnerInv
<1>9. TokenInv'
  <2>1. Tokens' = 0  BY <1>3 DEF mutex_lock, Inv, TokenInv, Tokens
  <2>2. ~Awaits(t)'  BY <1>1 DEF Awaits
  <2> QED  BY <1>1, <1>5, <2>1, <2>2 DEF TokenInv
<1>10. GivesUpAfterAllLooks'  BY <1>1 DEF GivesUpAfterAllLooks
<1> QED  BY <1>5, <1>6, <1>7, <1>8, <1>9, <1>10 DEF Inv

\* The end of a request, with the mutex or without: whoever used the channel
\* leaves it.
LEMMA IdeReturnInv ==
  ASSUME Inv, NEW t \in Threads, identify_return(t) \/ ide_return(t)
  PROVE  Inv'
<1> USE DEF At, Goto, Leave, identify_return
<1>1. /\ pc[t] = "loop" /\ pc'[t] = "out" /\ ~panic /\ ~panic'
      /\ Active(t) /\ ~Active(t)'
  BY DEF ide_return, Inv, TypeInv, Active
<1>2. \A u \in Threads \ {t} : ~Active(u)  BY <1>1, OneActive DEF Inv
<1>3. \A u \in Threads \ {t} : Same(u)  BY DEF ide_return, Same, Inv, TypeInv
<1>4. probed \subseteq probed' /\ probed' \subseteq Drives
  BY <1>1 DEF ide_return, Inv, TypeInv, RequestOK
<1>5. \A u \in Threads \ {t} : /\ RequestOK(u)' /\ ReadOK(u)' /\ LooksOK(u)'
                               /\ ~Active(u)'
  BY <1>2, <1>3, <1>4, OutsideKept DEF Inv
<1>6. TypeInv'
  <2>1. req' \in [Threads -> [op : Ops \cup {"none"}, d : Drives \cup {NULL},
                              lba : Nat, cnt : Nat]]
    <3>1. NoRequest \in [op : Ops \cup {"none"}, d : Drives \cup {NULL},
                         lba : Nat, cnt : Nat]
      BY DEF NoRequest
    <3>2. req' = [req EXCEPT ![t] = NoRequest]  BY DEF ide_return
    <3> HIDE DEF NoRequest, Ops
    <3> QED  BY <3>1, <3>2 DEF Inv, TypeInv
  <2>2. /\ pc' = [pc EXCEPT ![t] = "out"] /\ offset' = [offset EXCEPT ![t] = 0]
        /\ looks' = [looks EXCEPT ![t] = 0] /\ seen' = [seen EXCEPT ![t] = 0]
        /\ buf' = [buf EXCEPT ![t] = <<>>]
        /\ UNCHANGED <<reg, sem, irq, waiting_intr, panic>>
    BY DEF ide_return, drive
  <2> QED  BY <1>4, <2>1, <2>2 DEF Inv, TypeInv, Pcs
<1>7. RequestOK(t)' /\ ReadOK(t)' /\ LooksOK(t)'
  BY <1>1 DEF ide_return, Inv, TypeInv, RequestOK, ReadOK, LooksOK, Active
<1>8. mutex' = NULL
  <2>1. CASE req[t].op # "identify"  BY <2>1 DEF ide_return
  <2>2. CASE req[t].op = "identify"
    <3>1. mutex # t  BY <2>2, DiskAssumption DEF Inv, OwnerInv
    <3>2. mutex = NULL  BY <1>2, <3>1 DEF Inv, OwnerInv
    <3> QED  BY <2>2, <3>2 DEF ide_return
  <2> QED  BY <2>1, <2>2
<1>9. OwnerInv'  BY <1>1, <1>5, <1>8 DEF OwnerInv
<1>10. TokenInv'
  <2>1. ~Awaits(t)  BY <1>1 DEF Awaits
  <2>2. Tokens = 0  BY <1>1, <2>1 DEF Inv, TokenInv
  <2>3. Tokens' = 0  BY <2>2 DEF ide_return, Tokens
  <2> QED  BY <1>1, <1>5, <2>3 DEF TokenInv
<1>11. GivesUpAfterAllLooks'  BY <1>1 DEF GivesUpAfterAllLooks
<1> QED  BY <1>5, <1>6, <1>7, <1>9, <1>10, <1>11 DEF Inv

-----------------------------------------------------------------------------
(* The interrupt, the drive and the rest.                                  *)

\* A step that leaves the requests, the mutex, the registers and the sectors
\* alone, keeps the command or fails a drive that was busy, and does not
\* change how many tokens there are, keeps the invariant.
LEMMA BackgroundStep ==
  ASSUME Inv, Tokens' = Tokens, TypeInv',
         UNCHANGED <<pc, req, offset, buf, looks, seen, mutex, reg, disk,
                     probed>>,
         \/ cmd' = cmd /\ (busy' => busy)
         \/ cmd' = "failed" /\ busy,
         GivesUpAfterAllLooks'
  PROVE  Inv'
<1>1. \A t \in Threads : RequestOK(t)'  BY DEF Inv, RequestOK, Active
<1>2. \A t \in Threads : ReadOK(t)'  BY DEF Inv, ReadOK, Active, Wanted
<1>3. \A t \in Threads : LooksOK(t)'  BY DEF Inv, LooksOK
<1>4. OwnerInv'  BY DEF Inv, OwnerInv, Active
<1>5. TokenInv'  BY DEF Inv, TokenInv, Active, Awaits
<1> QED  BY <1>1, <1>2, <1>3, <1>4, <1>5 DEF Inv

\* The handler: moving the token from waiting_intr to sem is all it does, so
\* that an interrupt nobody waits for, or a second one, changes nothing.
LEMMA HandlerInv ==
  ASSUME Inv, disk_intr_handler
  PROVE  Inv'
<1>1. TypeInv'
  <2>1. irq' \in Nat
    <3>1. irq \in Nat /\ irq' \in 0 .. irq - 1
      BY DEF disk_intr_handler, Inv, TypeInv
    <3> QED  BY <3>1
  <2>2. sem' \in Nat
    <3>1. sem \in Nat /\ (sem' = sem \/ sem' = sem + 1)
      BY DEF disk_intr_handler, Inv, TypeInv
    <3> QED  BY <3>1
  <2>3. waiting_intr' \in BOOLEAN  BY DEF disk_intr_handler
  <2> QED  BY <2>1, <2>2, <2>3 DEF disk_intr_handler, thread, count, Inv, TypeInv
<1>2. Tokens' = Tokens
  BY DEF disk_intr_handler, Tokens, Inv, TypeInv
<1>3. GivesUpAfterAllLooks'  BY DEF disk_intr_handler, GivesUpAfterAllLooks
<1> QED  BY <1>1, <1>2, <1>3, BackgroundStep
      DEF disk_intr_handler, thread, count

\* The drive becomes ready.
LEMMA DriveReadyInv ==
  ASSUME Inv, drive_ready
  PROVE  Inv'
<1>1. TypeInv'  BY DEF drive_ready, thread, count, Inv, TypeInv
<1>2. Tokens' = Tokens  BY DEF drive_ready, Tokens
<1>3. GivesUpAfterAllLooks'  BY DEF drive_ready, GivesUpAfterAllLooks
<1> QED  BY <1>1, <1>2, <1>3, BackgroundStep DEF drive_ready, thread, count

\* The drive fails: it was busy, so no transfer was going on.
LEMMA DriveFailInv ==
  ASSUME Inv, drive_fail
  PROVE  Inv'
<1>1. TypeInv'  BY DEF drive_fail, thread, count, Inv, TypeInv
<1>2. Tokens' = Tokens  BY DEF drive_fail, Tokens
<1>3. GivesUpAfterAllLooks'  BY DEF drive_fail, GivesUpAfterAllLooks
<1> QED  BY <1>1, <1>2, <1>3, BackgroundStep DEF drive_fail, thread, count

\* The end of boot.
LEMMA IntrEnableInv ==
  ASSUME Inv, intr_enable
  PROVE  Inv'
<1>1. TypeInv'  BY DEF intr_enable, drive, thread, Inv, TypeInv
<1>2. Tokens' = Tokens  BY DEF intr_enable, Tokens
<1>3. GivesUpAfterAllLooks'  BY DEF intr_enable, At, GivesUpAfterAllLooks
<1> QED  BY <1>1, <1>2, <1>3, BackgroundStep DEF intr_enable, drive, thread

\* The PANIC: no look is left, so all of them found the drive busy.
LEMMA SpinTimeoutInv ==
  ASSUME Inv, NEW t \in Threads, spin_timeout(t)
  PROVE  Inv'
<1>1. TypeInv'  BY DEF spin_timeout, drive, thread, count, Inv, TypeInv
<1>2. Tokens' = Tokens  BY DEF spin_timeout, Tokens
<1>3. pc'[t] = "spin_wait" /\ seen'[t] = Looks
  BY DiskAssumption DEF spin_timeout, At, thread, Inv, TypeInv, LooksOK
<1>4. GivesUpAfterAllLooks'  BY <1>3 DEF GivesUpAfterAllLooks
<1> QED  BY <1>1, <1>2, <1>4, BackgroundStep
      DEF spin_timeout, drive, thread, count

\* The PANIC over a drive without data: it has failed the command, as it had
\* one and did not say that it is ready.
LEMMA SpinFailedInv ==
  ASSUME Inv, NEW t \in Threads, spin_failed(t)
  PROVE  Inv'
<1>1. TypeInv'  BY DEF spin_failed, drive, thread, count, Inv, TypeInv
<1>2. Tokens' = Tokens  BY DEF spin_failed, Tokens
<1>3. pc'[t] = "spin_wait" /\ cmd' = "failed"
  <2>1. pc[t] = "spin_wait" /\ cmd \in {"none", "failed"}
    BY DEF spin_failed, At, DataReady
  <2>2. req[t].op \in Ops /\ cmd \in {req[t].op, "failed"}
    BY <2>1 DEF Inv, RequestOK, LooksOK
  <2>3. cmd = "failed"  BY <2>1, <2>2 DEF Ops
  <2> QED  BY <2>1, <2>3 DEF spin_failed, drive, thread
<1>4. GivesUpAfterAllLooks'  BY <1>3 DEF GivesUpAfterAllLooks
<1> QED  BY <1>1, <1>2, <1>4, BackgroundStep
      DEF spin_failed, drive, thread, count

\* The ASSERT of select_sector: the request goes past the last sector.
LEMMA SetupAssertInv ==
  ASSUME Inv, NEW t \in Threads, setup_assert(t)
  PROVE  Inv'
<1>1. TypeInv'  BY DEF setup_assert, drive, thread, count, Inv, TypeInv
<1>2. Tokens' = Tokens  BY DEF setup_assert, Tokens
<1>3. pc'[t] = "loop" /\ req'[t].lba + req'[t].cnt - 1 > LastLba
  <2>1. req[t].lba \in Nat /\ req[t].cnt \in Nat /\ offset[t] \in Nat
    BY DEF Inv, TypeInv
  <2> QED  BY <2>1, DiskAssumption DEF setup_assert, At, thread
<1>4. GivesUpAfterAllLooks'  BY <1>3 DEF GivesUpAfterAllLooks
<1> QED  BY <1>1, <1>2, <1>4, BackgroundStep
      DEF setup_assert, drive, thread, count

-----------------------------------------------------------------------------
(* The theorems.                                                           *)

\* The channel starts clean, with nobody in the driver.
LEMMA InitInv == Init => Inv
<1> SUFFICES ASSUME Init PROVE Inv  OBVIOUS
<1>1. TypeInv
  BY DEF Init, TypeInv, NoRequest, Pcs
<1>2. \A t \in Threads : pc[t] = "out" /\ offset[t] = 0 /\ ~Active(t)
  BY DEF Init, Active
<1>3. OwnerInv /\ TokenInv
  BY <1>2 DEF Init, OwnerInv, TokenInv, Tokens
<1>4. \A t \in Threads : RequestOK(t) /\ ReadOK(t) /\ LooksOK(t)
  BY <1>2 DEF RequestOK, ReadOK, LooksOK
<1> QED  BY <1>1, <1>3, <1>4 DEF Init, Inv, GivesUpAfterAllLooks

\* Every step keeps the invariant.
LEMMA NextInv == Inv /\ [Next]_vars => Inv'
<1> SUFFICES ASSUME Inv, [Next]_vars PROVE Inv'  OBVIOUS
<1>1. CASE Next
  <2>1. ASSUME NEW t \in Threads, Driver(t) \/ spin_wake(t) PROVE Inv'
    BY <2>1, MutexLockInv, SetupInv, SendWaitInv, SendCmdInv, SemDownInv,
       SpinWaitInv, SpinBusyInv, SpinTimeoutInv, SpinFailedInv, SetupAssertInv,
       DiskReadInv, DiskWriteInv, IdeReturnInv, SpinWakeInv DEF Driver
  <2> QED
    BY <1>1, <2>1, PrintDiskInfoInv, IdeCallInv, IntrEnableInv,
       DriveReadyInv, DriveFailInv, HandlerInv DEF Next
<1>2. CASE UNCHANGED vars
  <2> USE <1>2 DEF vars, drive, thread, count
  <2>1. TypeInv'  BY DEF Inv, TypeInv
  <2>2. Tokens' = Tokens  BY DEF Tokens
  <2>3. GivesUpAfterAllLooks'  BY DEF Inv, GivesUpAfterAllLooks
  <2> QED  BY <2>1, <2>2, <2>3, BackgroundStep
<1> QED  BY <1>1, <1>2

\* The invariant always holds.
LEMMA SpecInv == Spec => []Inv
<1> QED  BY InitInv, NextInv, PTL DEF Spec

(***************************************************************************)
(* What ide_read returns are the sectors it was asked for, for any number  *)
(* of threads and drives, any request and any longest transfer: no thread  *)
(* gets between its commands, and whatever interrupt wakes it, the drive   *)
(* has its command and spin_wait has seen it ready.                        *)
(***************************************************************************)
THEOREM ReadsAreRight == Spec => []ReadsTheSectors
<1>1. Inv => ReadsTheSectors
  <2> SUFFICES ASSUME Inv, NEW t \in Threads, Done(t), req[t].op # "write"
               PROVE  buf[t] = [i \in 0 .. req[t].cnt - 1 |-> Wanted(req[t], i)]
    BY DEF ReadsTheSectors, Wanted
  <2>1. pc[t] = "loop" /\ offset[t] >= req[t].cnt  BY DEF Done, At
  <2>2. offset[t] <= req[t].cnt /\ req[t].cnt > 0
    BY <2>1 DEF Inv, RequestOK, ReadOK, Active
  <2>3. offset[t] \in Nat /\ req[t].cnt \in Nat  BY DEF Inv, TypeInv
  <2>4. offset[t] = req[t].cnt  BY <2>1, <2>2, <2>3
  <2> QED  BY <2>1, <2>2, <2>4 DEF Inv, ReadOK, Active
<1> QED  BY <1>1, SpecInv, PTL

(***************************************************************************)
(* A request leaves the channel as it found it: the semaphore is back at   *)
(* 0, no interrupt is waited for and the mutex is free, however many       *)
(* interrupts came, were lost or are still to come.                        *)
(***************************************************************************)
THEOREM ChannelIsLeftClean == Spec => []ChannelClean
<1>1. Inv => ChannelClean
  <2> SUFFICES ASSUME Inv PROVE ChannelClean  OBVIOUS
  <2>1. Tokens \in {0, 1}  BY DEF Inv, TokenInv
  <2>2. sem <= 1  BY <2>1 DEF Tokens, Inv, TypeInv
  <2>3. ASSUME \A t \in Threads : pc[t] \in {"out", "lock"}
        PROVE  sem = 0 /\ ~waiting_intr /\ mutex = NULL
    <3>1. \A t \in Threads : ~Active(t)  BY <2>3 DEF Active
    <3>2. Tokens = 0  BY <3>1 DEF Inv, TokenInv
    <3> QED  BY <3>1, <3>2 DEF Tokens, Inv, TypeInv, OwnerInv
  <2> QED  BY <2>2, <2>3 DEF ChannelClean
<1> QED  BY <1>1, SpecInv, PTL

(***************************************************************************)
(* A drive that answers in time is never given up: a PANIC of ide_read or  *)
(* ide_write is over a drive that failed the command or was busy at every  *)
(* look of one spin_wait, for any number of looks, or over a request past  *)
(* the last sector.                                                        *)
(***************************************************************************)
THEOREM GivesUpOnlyThen == Spec => []GivesUpAfterAllLooks
<1>1. Inv => GivesUpAfterAllLooks  BY DEF Inv
<1> QED  BY <1>1, SpecInv, PTL
=============================================================================
