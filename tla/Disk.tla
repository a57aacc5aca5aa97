-------------------------------- MODULE Disk --------------------------------
(***************************************************************************)
(* The IDE driver of device/disk.c: ide_channel_init with the identify     *)
(* command, ide_read, ide_write and the interrupt handler of one channel   *)
(* with its two drives.                                                    *)
(*                                                                         *)
(* The mutex of the channel is the abstract mutex of thread/lock.c, its    *)
(* semaphore a counter.  The interrupt can come between any two steps of a *)
(* thread; the handler itself is one step, with interrupts off.  The drive *)
(* behaves as the driver uses it: it is busy from a command until it has   *)
(* data or wants it, or has failed; it has the sectors when they are       *)
(* transferred, and interrupts once for every sector and for a failure.    *)
(* It fails when it likes, and always when a command goes past its end.    *)
(* Interrupts that are not taken in time become one.                       *)
(***************************************************************************)
EXTENDS Integers, FiniteSets

CONSTANTS
  Threads,
  main,         \* the thread that boots
  Drives,       \* the disks of the channel
  Looks,        \* how often spin_wait looks, 3000 times in 30 seconds
  MaxSectors,   \* the most sectors of a command, 256, which a byte has as 0
  LastLba,      \* MAX_LBA, the last sector of a drive
  MaxLba,       \* bound: the last sector a request starts at
  MaxCnt,       \* bound: the most sectors of a request
  MaxRequests,  \* bound: how many requests there are
  NULL

ASSUME DiskAssumption ==
  /\ {MaxSectors, LastLba, MaxCnt, Looks} \subseteq Nat \ {0}
  /\ MaxLba \in Nat /\ MaxRequests \in Nat
  /\ NULL \notin Threads \cup Drives /\ main \in Threads

VARIABLES
  mutex,         \* the thread that has channel->mutex, or NULL
  sem,           \* channel->sem
  waiting_intr,  \* channel->waiting_intr
  reg,           \* the registers: the drive, first sector and sector count
  cmd,           \* what the drive is to do, "none" when it has done it and
                 \* "failed" when it cannot
  busy,          \* the BUSY bit of the status register
  irq,           \* the interrupts of the channel that are not taken yet
  disk,          \* the sectors of the drives
  pc,            \* where each thread is; "out" is outside of the driver
  req,           \* the request of a thread
  offset,        \* the sectors of it that are done
  looks,         \* how often its spin_wait will still look
  seen,          \* how often it has found the drive busy since its command
  buf,           \* the sectors a thread has read
  boot,          \* main has yet to turn interrupts on and start others
  probed,        \* the drives ide_channel_init is done with
  requests,      \* how many requests were made
  panic          \* a drive gave no answer or no data, or an ASSERT failed

drive  == <<reg, cmd, busy, irq, disk>>
thread == <<pc, req, offset, buf, looks, seen>>
spin   == <<looks, seen>>
count  == <<boot, probed, requests>>
vars   == <<mutex, sem, waiting_intr, drive, thread, count, panic>>

Lbas == 0 .. LastLba
NoRequest == [op |-> "none", d |-> NULL, lba |-> 0, cnt |-> 0]

Init ==
  /\ mutex = NULL /\ sem = 0 /\ waiting_intr = FALSE
  /\ reg = [d |-> NULL, lba |-> 0, cnt |-> 0]
  /\ cmd = "none" /\ busy = FALSE /\ irq = 0
  /\ disk = [d \in Drives |-> [l \in Lbas |-> <<d, l>>]]
  /\ pc = [t \in Threads |-> "out"]
  /\ req = [t \in Threads |-> NoRequest]
  /\ offset = [t \in Threads |-> 0]
  /\ buf = [t \in Threads |-> <<>>]
  /\ looks = [t \in Threads |-> 0] /\ seen = [t \in Threads |-> 0]
  /\ boot = TRUE /\ probed = {} /\ requests = 0 /\ panic = FALSE

-----------------------------------------------------------------------------
At(t, p) == ~panic /\ pc[t] = p

Goto(t, p) == pc' = [pc EXCEPT ![t] = p]

\* print_disk_info(d), called by ide_channel_init for each drive in turn: the
\* identify command, without the mutex.
print_disk_info(d) ==
  /\ At(main, "out") /\ d \notin probed
  /\ req' = [req EXCEPT ![main] = [op |-> "identify", d |-> d, lba |-> 0,
                                   cnt |-> 1]]
  /\ reg' = [reg EXCEPT !.d = d]
  /\ Goto(main, "cmd")
  /\ UNCHANGED <<mutex, sem, waiting_intr, cmd, busy, irq, disk, offset, buf,
                 spin, count, panic>>

\* ide_read and ide_write, up to mutex_lock.
ide_call(t, op, d, lba, cnt) ==
  /\ At(t, "out") /\ requests < MaxRequests /\ probed = Drives
  /\ boot => t = main
  /\ requests' = requests + 1
  /\ req' = [req EXCEPT ![t] = [op |-> op, d |-> d, lba |-> lba, cnt |-> cnt]]
  /\ Goto(t, "lock")
  /\ UNCHANGED <<mutex, sem, waiting_intr, drive, offset, buf, spin, boot,
                 probed, panic>>

\* The end of boot, in main.
intr_enable ==
  /\ At(main, "out") /\ boot /\ probed = Drives
  /\ boot' = FALSE
  /\ UNCHANGED <<mutex, sem, waiting_intr, drive, thread, probed, requests,
                 panic>>

mutex_lock(t) ==
  /\ At(t, "lock") /\ mutex = NULL
  /\ mutex' = t
  /\ Goto(t, "loop")
  /\ UNCHANGED <<sem, waiting_intr, drive, req, offset, buf, spin, count,
                 panic>>

\* Mutant: the two cases are exchanged, as in ide_write.
ReadCnt_Exchanged(t) ==
  IF offset[t] + MaxSectors < req[t].cnt THEN req[t].cnt - offset[t]
  ELSE MaxSectors

\* curr_cnt in ide_read; print_disk_info reads one sector.
ReadCnt(t) ==
  IF offset[t] + MaxSectors < req[t].cnt THEN MaxSectors
  ELSE req[t].cnt - offset[t]

\* curr_cnt in ide_write, where the two cases are exchanged.
WriteCnt(t) ==
  IF offset[t] + MaxSectors < req[t].cnt THEN req[t].cnt - offset[t]
  ELSE MaxSectors

CurrCnt(t) == IF req[t].op = "write" THEN WriteCnt(t) ELSE ReadCnt(t)

\* A count in a byte, as disk_read, disk_write and the drive take it.
Byte(n) == IF n % MaxSectors = 0 THEN MaxSectors ELSE n % MaxSectors

\* select_disk, count_out and select_sector, ...
setup(t) ==
  /\ At(t, "loop") /\ offset[t] < req[t].cnt
  /\ req[t].lba + offset[t] <= LastLba
  /\ reg' = [d |-> req[t].d, lba |-> req[t].lba + offset[t],
             cnt |-> Byte(CurrCnt(t))]
  /\ Goto(t, "cmd")
  /\ UNCHANGED <<mutex, sem, waiting_intr, cmd, busy, irq, disk, req, offset,
                 buf, spin, count, panic>>

\* ... whose ASSERT fails.
setup_assert(t) ==
  /\ At(t, "loop") /\ offset[t] < req[t].cnt
  /\ req[t].lba + offset[t] > LastLba
  /\ panic' = TRUE
  /\ UNCHANGED <<mutex, sem, waiting_intr, drive, thread, count>>

\* Mutant: waiting_intr is not set.
send_wait_Skip(t) ==
  /\ At(t, "cmd")
  /\ Goto(t, "cmd_out")
  /\ UNCHANGED <<mutex, sem, waiting_intr, drive, req, offset, buf, spin,
                 count, panic>>

\* send_cmd: first waiting_intr, ...
send_wait(t) ==
  /\ At(t, "cmd")
  /\ waiting_intr' = TRUE
  /\ Goto(t, "cmd_out")
  /\ UNCHANGED <<mutex, sem, drive, req, offset, buf, spin, count, panic>>

\* Mutant: ms goes on from one spin_wait to the next.
Enter_Static(t, p) ==
  /\ Goto(t, p)
  /\ looks' = [looks EXCEPT ![t] = IF @ = 0 THEN Looks ELSE @]

\* Where a thread goes, with spin_wait's ms = 30 * 1000 where it calls it.
Enter(t, p) ==
  /\ Goto(t, p)
  /\ looks' = [looks EXCEPT ![t] = IF p = "spin_wait" THEN Looks ELSE 0]

\* ... then the command.
send_cmd(t) ==
  /\ At(t, "cmd_out")
  /\ cmd' = req[t].op /\ busy' = TRUE
  /\ seen' = [seen EXCEPT ![t] = 0]
  /\ Enter(t, IF req[t].op = "write" THEN "spin_wait" ELSE "sem_down")
  /\ UNCHANGED <<mutex, sem, waiting_intr, reg, irq, disk, req, offset, buf,
                 count, panic>>

\* A read waits for the interrupt before the data, a write after them.
sem_down(t) ==
  /\ At(t, "sem_down") /\ sem > 0
  /\ sem' = sem - 1
  /\ \/ /\ req[t].op # "write"
        /\ Enter(t, "spin_wait")
        /\ UNCHANGED offset
     \/ /\ req[t].op = "write"
        /\ offset' = [offset EXCEPT ![t] = @ + CurrCnt(t)]
        /\ Enter(t, "loop")
  /\ UNCHANGED <<mutex, waiting_intr, drive, req, buf, seen, count, panic>>

\* The DATA_READY bit of a drive that is not busy.
DataReady == cmd \notin {"none", "failed"}

\* spin_wait: the drive is not busy and has, or wants, data, ...
spin_wait(t) ==
  /\ At(t, "spin_wait") /\ looks[t] > 0 /\ ~busy /\ DataReady
  /\ Goto(t, IF req[t].op = "write" THEN "disk_write" ELSE "disk_read")
  /\ UNCHANGED <<mutex, sem, waiting_intr, drive, req, offset, buf, spin,
                 count, panic>>

\* ... or has none: false at once, and the caller's PANIC, ...
spin_failed(t) ==
  /\ At(t, "spin_wait") /\ looks[t] > 0 /\ ~busy /\ ~DataReady
  /\ panic' = TRUE
  /\ UNCHANGED <<mutex, sem, waiting_intr, drive, thread, count>>

\* ... or is busy: sleep_by_msecond(10), ...
spin_busy(t) ==
  /\ At(t, "spin_wait") /\ looks[t] > 0 /\ busy
  /\ seen' = [seen EXCEPT ![t] = @ + 1]
  /\ Goto(t, "sleep")
  /\ UNCHANGED <<mutex, sem, waiting_intr, drive, req, offset, buf, looks,
                 count, panic>>

\* ... and ms -= 10 ...
spin_wake(t) ==
  /\ At(t, "sleep")
  /\ looks' = [looks EXCEPT ![t] = @ - 1]
  /\ Goto(t, "spin_wait")
  /\ UNCHANGED <<mutex, sem, waiting_intr, drive, req, offset, buf, seen,
                 count, panic>>

\* ... until the 30 seconds are over; the last sleep is not followed by
\* another look.
spin_timeout(t) ==
  /\ At(t, "spin_wait") /\ looks[t] = 0
  /\ panic' = TRUE
  /\ UNCHANGED <<mutex, sem, waiting_intr, drive, thread, count>>

\* What the drive has in its k-th sector for the command it was given.
Data(k) == IF cmd = "identify" THEN <<reg.d, "id">> ELSE disk[reg.d][reg.lba + k]

\* insw: the sectors after the first interrupt as they become ready.
disk_read(t) ==
  LET n == Byte(CurrCnt(t))
  IN  /\ At(t, "disk_read")
      /\ buf' = [buf EXCEPT ![t] = [i \in 0 .. offset[t] + n - 1 |->
                   IF i < offset[t] THEN @[i] ELSE Data(i - offset[t])]]
      /\ offset' = [offset EXCEPT ![t] = @ + CurrCnt(t)]
      /\ cmd' = "none"
      /\ irq' = irq + n - 1
      /\ Goto(t, "loop")
      /\ UNCHANGED <<mutex, sem, waiting_intr, reg, busy, disk, req, spin,
                     count, panic>>

\* outsw: the i-th sector of the buffer of t is <<t, i>>; the ones after its
\* end are what the memory there holds.
disk_write(t) ==
  /\ At(t, "disk_write")
  /\ disk' = [disk EXCEPT ![reg.d] = [l \in Lbas |->
                IF l \in reg.lba .. reg.lba + reg.cnt - 1
                THEN <<t, offset[t] + l - reg.lba>> ELSE @[l]]]
  /\ cmd' = "none"
  /\ irq' = irq + reg.cnt
  /\ Goto(t, "sem_down")
  /\ UNCHANGED <<mutex, sem, waiting_intr, reg, busy, req, offset, buf, spin,
                 count, panic>>

\* A request is over, and its thread outside of the driver.
Leave(t) ==
  /\ At(t, "loop") /\ offset[t] >= req[t].cnt
  /\ req' = [req EXCEPT ![t] = NoRequest]
  /\ offset' = [offset EXCEPT ![t] = 0]
  /\ buf' = [buf EXCEPT ![t] = <<>>]
  /\ seen' = [seen EXCEPT ![t] = 0]
  /\ looks' = [looks EXCEPT ![t] = 0]
  /\ Goto(t, "out")
  /\ UNCHANGED <<sem, waiting_intr, drive, boot, requests, panic>>

\* print_disk_info prints what it got, and is done with the drive.
identify_return(t) ==
  /\ Leave(t) /\ req[t].op = "identify"
  /\ probed' = probed \cup {req[t].d}
  /\ UNCHANGED mutex

\* The loop of ide_read or ide_write is over: mutex_unlock.
ide_return(t) ==
  /\ Leave(t) /\ req[t].op # "identify"
  /\ mutex' = NULL
  /\ UNCHANGED probed

-----------------------------------------------------------------------------
\* The drive is ready for the transfer; it has interrupted if it has data.
drive_ready ==
  /\ ~panic /\ busy
  /\ cmd # "identify" => reg.lba + reg.cnt - 1 <= LastLba
  /\ busy' = FALSE
  /\ irq' = IF cmd = "write" THEN irq ELSE irq + 1
  /\ UNCHANGED <<mutex, sem, waiting_intr, reg, cmd, disk, thread, count,
                 panic>>

\* The drive cannot do what it was told: an error, with an interrupt.
drive_fail ==
  /\ ~panic /\ busy
  /\ busy' = FALSE /\ cmd' = "failed"
  /\ irq' = irq + 1
  /\ UNCHANGED <<mutex, sem, waiting_intr, reg, disk, thread, count, panic>>

\* Mutant: the handler does not look at waiting_intr.
disk_intr_handler_Always ==
  /\ ~panic /\ irq > 0
  /\ irq' \in 0 .. irq - 1
  /\ sem' = sem + 1
  /\ waiting_intr' = FALSE
  /\ UNCHANGED <<mutex, reg, cmd, busy, disk, thread, count, panic>>

disk_intr_handler ==
  /\ ~panic /\ irq > 0
  /\ irq' \in 0 .. irq - 1
  /\ sem' = IF waiting_intr THEN sem + 1 ELSE sem
  /\ waiting_intr' = FALSE
  /\ UNCHANGED <<mutex, reg, cmd, busy, disk, thread, count, panic>>

Driver(t) ==
  \/ mutex_lock(t) \/ setup(t) \/ setup_assert(t) \/ send_wait(t)
  \/ send_cmd(t) \/ sem_down(t)
  \/ spin_wait(t) \/ spin_failed(t) \/ spin_busy(t) \/ spin_timeout(t)
  \/ disk_read(t) \/ disk_write(t) \/ identify_return(t) \/ ide_return(t)

Next ==
  \/ \E d \in Drives : print_disk_info(d)
  \/ \E t \in Threads, op \in {"read", "write"}, d \in Drives :
       \E lba \in 0 .. MaxLba, cnt \in 1 .. MaxCnt :
         ide_call(t, op, d, lba, cnt)
  \/ \E t \in Threads : Driver(t) \/ spin_wake(t)
  \/ intr_enable
  \/ drive_ready \/ drive_fail
  \/ disk_intr_handler

\* The drive answers or fails, the interrupt is taken, the threads run, and sleeps
\* end but for those during boot (Timer!SleepEnds).
Fairness == /\ \A t \in Threads : /\ WF_vars(Driver(t))
                                 /\ WF_vars(~boot /\ spin_wake(t))
            /\ WF_vars(drive_ready \/ drive_fail)
            /\ WF_vars(disk_intr_handler)

Spec == Init /\ [][Next]_vars /\ Fairness

-----------------------------------------------------------------------------
(* Properties.                                                             *)

Done(t) == At(t, "loop") /\ offset[t] >= req[t].cnt

\* What ide_read returns are the cnt sectors from lba, across its commands,
\* and although an interrupt left over from the command before can be taken
\* for that of the next; print_disk_info gets the information of its drive.
ReadsTheSectors ==
  \A t \in Threads : Done(t) /\ req[t].op # "write" =>
    buf[t] = [i \in 0 .. req[t].cnt - 1 |->
                IF req[t].op = "identify" THEN <<req[t].d, "id">>
                ELSE disk[req[t].d][req[t].lba + i]]

\* A request leaves the channel as it found it: every sem_up of the handler
\* was for a sem_down, and no interrupt is waited for.  That holds for the
\* identify command too, which does without the mutex.
ChannelClean ==
  /\ sem <= 1
  /\ ~panic /\ (\A t \in Threads : pc[t] \in {"out", "lock"})
       => sem = 0 /\ ~waiting_intr /\ mutex = NULL

(***************************************************************************)
(* The kernel never gives up a drive that answers in time.  spin_wait's    *)
(* caller PANICs only over a drive that failed the command, or that was    *)
(* busy at every look of one spin_wait: each command of a request has its  *)
(* 30 seconds, however long the ones before took.  select_sector's ASSERT  *)
(* fails only for a request that itself goes past the last sector.         *)
(***************************************************************************)
GivesUpAfterAllLooks ==
  panic => \E t \in Threads :
    \/ pc[t] = "spin_wait" /\ (seen[t] = Looks \/ cmd = "failed")
    \/ pc[t] = "loop" /\ req[t].lba + req[t].cnt - 1 > LastLba

\* The comment on ide_write: the data go to the cnt sectors from lba.
WritesTheSectors ==
  \A t \in Threads : Done(t) /\ req[t].op = "write" =>
    /\ \A i \in 0 .. req[t].cnt - 1 : disk[req[t].d][req[t].lba + i] = <<t, i>>
    /\ \A l \in Lbas : disk[req[t].d][l][1] = t
         => l \in req[t].lba .. req[t].lba + req[t].cnt - 1

(***************************************************************************)
(* Every request ends: the interrupt of its command is not lost, whether   *)
(* it comes before or after the thread waits for it.  The exceptions are a *)
(* panic (GivesUpAfterAllLooks), and a drive that main finds busy during   *)
(* boot: it may sleep for ever then.                                       *)
(***************************************************************************)
RequestsEnd ==
  \A t \in Threads : pc[t] # "out" ~> \/ pc[t] = "out" \/ panic
                                      \/ boot /\ pc[t] = "sleep"
=============================================================================
