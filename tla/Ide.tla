-------------------------------- MODULE Ide ---------------------------------
(***************************************************************************)
(* One disk and ide_rw_blks of drv/ide.c, which reads or writes a block of *)
(* it by polling, with the semaphores of kernel/ksync.c.                   *)
(*                                                                         *)
(* The callers are system calls, and a system call is not switched away    *)
(* from (module Kernel), so there is one request at a time.  The disk is   *)
(* external: it takes its time, may fail, and may stop answering.  The     *)
(* interrupt it raises with each block stays at the slave 8259: nothing in *)
(* kenos enables the cascade on the master, so ide_handler never runs.     *)
(***************************************************************************)
EXTENDS Integers

CONSTANTS
  Data,          \* contents of a block
  NoData,        \* what the data register holds when the disk offers nothing
  Capacity,      \* blocks on the disk
  ATA_TIMEOUT,   \* polls before wait4ctrl gives up
  BYTE,          \* 2^8: wait4ctrl returns a t_8
  UINT           \* 2^32: a semaphore is an unsigned int

ASSUME IdeAssumption ==
  /\ NoData \notin Data
  /\ Capacity \in Nat /\ BYTE \in Nat \ {0} /\ UINT \in Nat \ {0, 1}
  /\ ATA_TIMEOUT \in Nat \ {0} /\ ATA_TIMEOUT % BYTE # 0

VARIABLES
  disk,          \* disk[b]: what is on the disk
  status,        \* its status register: which of BSY, DRQ and ERR are set
  command,       \* what it was told to do last
  data_reg,      \* the block in its buffer
  present,       \* idev->present
  mutex,         \* ictrl->mutex.value
  io_sema,       \* ictrl->io_sema.value
  pc,            \* where the driver is
  request,       \* its arguments
  timeout,       \* the local of wait4ctrl, and its return value
  buffer,        \* the caller's buffer
  result         \* what ide_rw_blks returned last

device == <<disk, status, command, data_reg>>
driver == <<pc, request, timeout, buffer, result>>
vars == <<device, present, mutex, io_sema, driver>>

Blocks == 0 .. Capacity - 1
Requests == [type : {"IO_READ", "IO_WRITE"}, block : 0 .. Capacity, nblocks : {0, 1}]

TypeOK ==
  /\ disk \in [Blocks -> Data]
  /\ status \subseteq {"BSY", "DRQ", "ERR"}
  /\ command \in Requests
  /\ data_reg \in Data \cup {NoData}
  /\ present \in BOOLEAN
  /\ mutex \in 0 .. UINT - 1
  /\ io_sema \in 0 .. UINT - 1
  /\ pc \in {"return", "lock", "select", "command", "wait", "waited", "write", "sleep",
             "check", "copy", "fail", "unlock"}
  /\ request \in Requests
  /\ timeout \in 0 .. ATA_TIMEOUT
  /\ buffer \in Data \cup {NoData}
  /\ result \in {"-1", "0", "nblocks"}

\* What init_ide_dev leaves: the disk was found, or was not.
Init ==
  /\ disk \in [Blocks -> Data]
  /\ status = {}
  /\ command = [type |-> "IO_READ", block |-> 0, nblocks |-> 0]
  /\ data_reg = NoData
  /\ present \in BOOLEAN
  /\ mutex = 1
  /\ io_sema = 0
  /\ pc = "return"
  /\ request = command
  /\ timeout = 0
  /\ buffer = NoData
  /\ result = "0"

-----------------------------------------------------------------------------
(* The disk (ATA/ATAPI-4, PIO data-in and data-out).                       *)

DiskFails ==
  /\ "BSY" \in status
  /\ status' = {"ERR"}
  /\ UNCHANGED <<disk, command, data_reg, present, mutex, io_sema, driver>>

\* The block to read is in its buffer, or the buffer is free for the one to
\* write.
DiskOffers ==
  /\ "BSY" \in status
  /\ command.type = "IO_READ" \/ data_reg = NoData
  /\ status' = {"DRQ"}
  /\ data_reg' = IF command.type = "IO_READ" THEN disk[command.block] ELSE NoData
  /\ UNCHANGED <<disk, command, present, mutex, io_sema, driver>>

DiskWrites ==
  /\ "BSY" \in status
  /\ command.type = "IO_WRITE" /\ data_reg # NoData
  /\ disk' = [disk EXCEPT ![command.block] = data_reg]
  /\ status' = {}
  /\ data_reg' = NoData
  /\ UNCHANGED <<command, present, mutex, io_sema, driver>>

\* ERR as inb sees it: it means nothing while BSY is set.
ErrSeen(seen) == seen \in IF "BSY" \in status THEN BOOLEAN ELSE {"ERR" \in status}

-----------------------------------------------------------------------------
(* kernel/ksync.c: the value is unsigned, so it is below 0 for no one and  *)
(* ksema_p returns 0 whatever it was.                                      *)

ksema_p(value) == (value + UINT - 1) % UINT
ksema_v(value) == (value + 1) % UINT

-----------------------------------------------------------------------------
(* drv/ide.c                                                               *)

Goto(from, to) == pc = from /\ pc' = to
Return(value) == pc' = "return" /\ result' = value

\* ide_rw_blks up to the lock.  As in C the buffer is the caller's: nothing
\* clears it before a read.
Enter(r) ==
  /\ pc = "return"
  /\ request' = r
  /\ buffer' \in IF r.type = "IO_WRITE" THEN Data ELSE {NoData}
  /\ IF ~present THEN Return("-1")
     ELSE IF r.nblocks = 0 THEN Return("0")
     ELSE IF r.block + r.nblocks > Capacity THEN Return("-1")
     ELSE pc' = "lock" /\ UNCHANGED result
  /\ UNCHANGED <<device, present, mutex, io_sema, timeout>>

Lock ==
  /\ Goto("lock", "select")
  /\ mutex' = ksema_p(mutex)
  /\ UNCHANGED <<device, present, io_sema, request, timeout, buffer, result>>

\* Mutant: the disk is not asked whether it is ready.
SelectDev_Unchecked ==
  /\ pc = "select"
  /\ pc' = "command"
  /\ UNCHANGED <<device, present, mutex, io_sema, request, timeout, buffer, result>>

\* Mutant: a path that returns with the mutex locked.
SelectDev_KeepsLock ==
  /\ pc = "select"
  /\ IF status \cap {"BSY", "DRQ"} = {} THEN pc' = "command" /\ UNCHANGED result
                                        ELSE Return("-1")
  /\ UNCHANGED <<device, present, mutex, io_sema, request, timeout, buffer>>

\* select_dev: the disk has to be neither busy nor in a transfer.
select_dev ==
  /\ pc = "select"
  /\ pc' = IF status \cap {"BSY", "DRQ"} = {} THEN "command" ELSE "fail"
  /\ UNCHANGED <<device, present, mutex, io_sema, request, timeout, buffer, result>>

\* The registers are written, and the disk starts.
Command ==
  /\ Goto("command", "wait")
  /\ command' = request
  /\ status' = {"BSY"}
  /\ data_reg' = NoData
  /\ timeout' = ATA_TIMEOUT
  /\ UNCHANGED <<disk, present, mutex, io_sema, request, buffer, result>>

\* One round of the loop of wait4ctrl(ictrl, ATA_STATUS_BSY, 0, ATA_TIMEOUT).
wait4ctrl ==
  /\ pc = "wait"
  /\ IF "BSY" \notin status THEN pc' = "waited" /\ UNCHANGED timeout
     ELSE /\ timeout' = timeout - 1
          /\ pc' = IF timeout' = 0 THEN "waited" ELSE "wait"
  /\ UNCHANGED <<device, present, mutex, io_sema, request, buffer, result>>

\* What wait4ctrl returns.
Returned == timeout % BYTE

\* Mutant: the result of wait4ctrl is ignored.
CheckWait_Ignored ==
  /\ pc = "waited"
  /\ \E err \in BOOLEAN :
       /\ ErrSeen(err)
       /\ pc' = IF err THEN "fail"
                ELSE IF request.type = "IO_WRITE" THEN "write" ELSE "sleep"
  /\ UNCHANGED <<device, present, mutex, io_sema, request, timeout, buffer, result>>

\* The test of what wait4ctrl returned and the first test of ERR.
CheckWait ==
  /\ pc = "waited"
  /\ IF Returned = 0 THEN pc' = "fail"
     ELSE \E err \in BOOLEAN :
            /\ ErrSeen(err)
            /\ pc' = IF err THEN "fail"
                     ELSE IF request.type = "IO_WRITE" THEN "write" ELSE "sleep"
  /\ UNCHANGED <<device, present, mutex, io_sema, request, timeout, buffer, result>>

\* The block is written to the data register; with the last word the disk,
\* if it asked for it, is busy again.
WriteData ==
  /\ Goto("write", "sleep")
  /\ IF "DRQ" \in status THEN status' = {"BSY"} /\ data_reg' = buffer
                         ELSE UNCHANGED <<status, data_reg>>
  /\ UNCHANGED <<disk, command, present, mutex, io_sema, request, timeout, buffer, result>>

\* Mutant: ksema_p with a signed value, which waits for the interrupt.
Sleep_Signed ==
  /\ pc = "sleep"
  /\ IF io_sema = 0 THEN UNCHANGED <<pc, io_sema>>
                    ELSE pc' = "check" /\ io_sema' = io_sema - 1
  /\ UNCHANGED <<device, present, mutex, request, timeout, buffer, result>>

\* while (0 > ksema_p(&(ictrl->io_sema))): never true, so once.
Sleep ==
  /\ Goto("sleep", "check")
  /\ io_sema' = ksema_p(io_sema)
  /\ UNCHANGED <<device, present, mutex, request, timeout, buffer, result>>

Check ==
  /\ pc = "check"
  /\ \E err \in BOOLEAN :
       /\ ErrSeen(err)
       /\ pc' = IF err THEN "fail"
                ELSE IF request.type = "IO_READ" THEN "copy" ELSE "unlock"
  /\ UNCHANGED <<device, present, mutex, io_sema, request, timeout, buffer, result>>

\* The block is read from the data register; with the last word the transfer
\* is over.
Copy ==
  /\ Goto("copy", "unlock")
  /\ IF "DRQ" \in status
     THEN buffer' = data_reg /\ data_reg' = NoData /\ status' = status \ {"DRQ"}
     ELSE buffer' = NoData /\ UNCHANGED <<data_reg, status>>
  /\ UNCHANGED <<disk, command, present, mutex, io_sema, request, timeout, result>>

\* Unlock and return, after an error or not.
Unlock ==
  /\ \/ pc = "fail" /\ Return("-1")
     \/ pc = "unlock" /\ Return("nblocks")
  /\ mutex' = ksema_v(mutex)
  /\ UNCHANGED <<device, present, io_sema, request, timeout, buffer>>

ide_rw_blks ==
  \/ Lock \/ select_dev \/ Command \/ wait4ctrl \/ CheckWait
  \/ WriteData \/ Sleep \/ Check \/ Copy \/ Unlock

Next ==
  \/ \E r \in Requests : Enter(r)
  \/ ide_rw_blks
  \/ DiskFails \/ DiskOffers \/ DiskWrites

Spec == Init /\ [][Next]_vars

\* The driver executes.  Of the disk nothing is assumed: it may never answer.
FairSpec == Spec /\ WF_vars(ide_rw_blks)

-----------------------------------------------------------------------------
(* Properties.                                                             *)

\* A read that reports success has put the block asked for in the buffer:
\* whatever the disk was doing when it was called, even though neither the
\* semaphore nor DRQ is waited for.
ReadReturnsTheBlock ==
  pc = "return" /\ result = "nblocks" /\ request.type = "IO_READ"
    => buffer = disk[request.block]

\* The mutex is free exactly between requests, after every error too.
MutexBalanced == mutex = IF pc \in {"return", "lock"} THEN 1 ELSE 0

\* The disk is not given a command while it is busy with one or holds data of
\* one that timed out or went wrong.
NoCommandInTransfer == [][Command => status \cap {"BSY", "DRQ"} = {}]_vars

\* Every request comes back, though the disk may never answer and its
\* interrupt never arrives.
RequestReturns == pc # "return" ~> pc = "return"

\* wait4ctrl "Returns whether or not the timeout expired" (ide.c:96).
TellsWhetherExpired == pc = "waited" => (Returned = 0 <=> timeout = 0)
=============================================================================
