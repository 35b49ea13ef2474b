------------------------------- MODULE IdeDisk ------------------------------
(***************************************************************************)
(* One IDE controller with its drive (src/kernel/ide.c): calls that read   *)
(* and write by programmed i/o or by bus-master DMA, each under the lock   *)
(* of the controller, the interrupt that wakes ctrl->waiter, and what may  *)
(* go wrong: a wait that times out while the drive goes on with the        *)
(* command, its interrupt that comes late, a command that fails.           *)
(*                                                                         *)
(* The kernel runs without interrupts, so a call is a few steps, from one  *)
(* sleep to the next.  Of the data only the number of sectors is kept that *)
(* a call has moved with a command of its own.  The drive is external: it  *)
(* asks for the first sector of a write at once, which ide_pio_write takes *)
(* for granted, and forgets a command when it is given another one.        *)
(***************************************************************************)
EXTENDS Integers

CONSTANTS
  IdeTasks,    \* numbers from 1; 0 is no task
  SectorNr,    \* sectors of a call
  IdeScenes    \* sets of what one behaviour may have: the calls "read",
               \* "write", "udma", "identify"; "late", a wait may time out
               \* before the drive is done; "fail", a command may fail

ASSUME IdeAssumption == IdeTasks \subseteq Nat \ {0} /\ SectorNr \in Nat \ {0}

VARIABLE
  ide   \* [lock: the holder; waiter; irq, one is pending;
        \*  call: of each task [op, pc, i, n: the
        \*  sector it is at and their number, moved, last]; drive:
        \*  [owner, op, phase, left]; scene; halt]

NoCall == [op |-> "none", pc |-> "user", i |-> 0, n |-> 0, moved |-> 0, last |-> "none"]
IdleDrive == [owner |-> 0, op |-> "none", phase |-> "idle", left |-> 0]
Pc(t) == ide.call[t].pc
May(what) == what \in ide.scene
IdeDo(s) == ide.halt = "" /\ ide' = s

\* lock_release and the return of a call.  last is what a caller can rely on:
\* a call that is "short" returns EOK and has not moved all its sectors.
IdeReturn(s, t, ret) ==
  [s EXCEPT !.lock = 0, !.drive.owner = IF @ = t THEN 0 ELSE @,
            !.call[t] = [NoCall EXCEPT !.last =
               IF ret # "EOK" THEN "failed"
               ELSE IF s.call[t].moved = s.call[t].n THEN "done"
               ELSE IF s.call[t].op = "udma" THEN "short_dma" ELSE "short_pio"]]

BugIdeFailed(s, t) == [IdeReturn(s, t, "failed") EXCEPT !.lock = s.lock]

\* The rollback of a call that failed: -EIO, -ETIME, or the 1 that a misplaced
\* parenthesis makes of them.
IdeFailed(s, t) == IdeReturn(s, t, "failed")

\* A command goes out; the drive raises DRQ for the data of a write and is
\* busy with any other command.
Command(s, t) ==
  [s EXCEPT !.drive = [owner |-> t, op |-> s.call[t].op, left |-> s.call[t].n,
                       phase |-> IF s.call[t].op = "write" THEN "drq" ELSE "busy"]]

\* task_block for the interrupt.
IdeBlock(s, t) == [s EXCEPT !.waiter = t, !.call[t].pc = "block"]

\* ide_pio_read_sector and ide_pio_write_sector: a sector goes through if the
\* drive asks for it, in a command of this call.
ReadSector(s, t) ==
  IF s.drive.phase = "drq" /\ s.drive.owner = t
    THEN [s EXCEPT !.call[t].moved = @ + 1, !.drive.left = @ - 1,
                   !.drive.phase = IF s.drive.left = 1 THEN "idle" ELSE "busy"]
    ELSE s
WriteSector(s, t) == [s EXCEPT !.drive.phase = IF @ = "drq" THEN "busy" ELSE @]

\* The loop of ide_pio_read after DRQ, the one of ide_pio_write after a sector
\* is written.
NextSector(s, t) == [s EXCEPT !.call[t].i = @ + 1]
ReadOn(s, t) ==
  IF s.call[t].i + 1 = s.call[t].n THEN IdeReturn(ReadSector(s, t), t, "EOK")
  ELSE IdeBlock(NextSector(ReadSector(s, t), t), t)
WriteOn(s, t) ==
  IF s.call[t].i + 1 = s.call[t].n THEN IdeReturn(s, t, "EOK")
  ELSE IdeBlock(WriteSector(NextSector(s, t), t), t)

\* ide_identify after the drive is no longer busy.
Identified(s, t) == IdeReturn(ReadSector(s, t), t, "EOK")
-----------------------------------------------------------------------------
\* The start of a call.
Call(t, op) ==
  /\ Pc(t) = "user" /\ May(op)
  /\ IdeDo([ide EXCEPT !.call[t] = [NoCall EXCEPT !.op = op, !.pc = "lock",
                                      !.n = IF op = "identify" THEN 1 ELSE SectorNr]])

\* lock_acquire; then ide_udma_read and ide_udma_write set up the transfer,
\* give the command and block, ide_identify gives its command, the others
\* wait for the drive.
Enter(t) ==
  /\ Pc(t) = "lock" /\ ide.lock = 0
  /\ LET s == [ide EXCEPT !.lock = t]
     IN IdeDo(CASE ide.call[t].op = "udma" -> IdeBlock(Command(s, t), t)
                [] ide.call[t].op = "identify" -> [Command(s, t) EXCEPT !.call[t].pc = "named"]
                [] OTHER -> [s EXCEPT !.call[t].pc = "ready"])

\* task_block returns EOK.  A DMA transfer is stopped and its call is over: of
\* an error it only asserts that the bus master reports none.
Woken(t) ==
  /\ Pc(t) = "woken"
  /\ IF ide.call[t].op # "udma" THEN IdeDo([ide EXCEPT !.call[t].pc = ide.call[t].op])
     ELSE \/ IdeDo(IdeReturn(ide, t, "EOK"))
          \/ ide.drive.phase = "err" /\ IdeDo([ide EXCEPT !.halt = "ide_stop_dma"])

BugIdeBusyWait(t) == Pc(t) \in {"ready", "read", "write", "named", "reset"} /\ ide.drive.phase # "err"

\* A task in ide_busy_wait sees what it waits for: IDE_SR_DRDY, IDE_SR_DRQ
\* or no more than that the drive is not busy, without an error.
IdeBusyWait(t) ==
  /\ Pc(t) \in {"ready", "read", "write", "named", "reset"}
  /\ ide.drive.phase \notin {"busy", "err"}
  /\ Pc(t) = "read" => ide.drive.phase = "drq"

Ready(t) == IdeBusyWait(t) /\ IdeDo(
  CASE Pc(t) = "ready" -> LET s == Command(ide, t)
                          IN IdeBlock(IF s.call[t].op = "write" THEN WriteSector(s, t) ELSE s, t)
    [] Pc(t) = "read"  -> ReadOn(ide, t)
    [] Pc(t) = "write" -> WriteOn(ide, t)
    [] Pc(t) = "named" -> Identified(ide, t)
    [] OTHER           -> IdeFailed(ide, t))

\* It sees an error and resets the controller, which ends the command.
Reset(t) ==
  /\ Pc(t) \in {"ready", "read", "write", "named"} /\ ide.drive.phase = "err"
  /\ IdeDo([ide EXCEPT !.call[t].pc = "reset",
                        !.drive = [IdleDrive EXCEPT !.op = "reset", !.phase = "busy"]])

\* The time is over, in task_block or, while the drive is busy, in
\* ide_busy_wait; ctrl->waiter stays.
IdeTimeout(t) ==
  /\ May("late")
  /\ Pc(t) = "block" \/ (Pc(t) \in {"ready", "read", "write", "named", "reset"} /\ ide.drive.phase = "busy")
  /\ IdeDo(IdeFailed(ide, t))

\* ide_handler.  task_unblock asserts that the task is not running, which a
\* task may be that has left its call after a timeout.
IdeInterrupt ==
  /\ ide.irq
  /\ LET s == [ide EXCEPT !.irq = FALSE, !.waiter = 0]
     IN IF ide.waiter = 0 THEN IdeDo(s)
        ELSE IF Pc(ide.waiter) = "block" THEN IdeDo([s EXCEPT !.call[ide.waiter].pc = "woken"])
        ELSE \/ IdeDo(s)
             \/ Pc(ide.waiter) = "user" /\ IdeDo([ide EXCEPT !.halt = "task_unblock"])

\* The drive does the next part of a command, or fails.
DriveWorks ==
  LET d == ide.drive
      s == [ide EXCEPT !.irq = d.op # "reset" \/ @]
  IN /\ d.phase = "busy"
     /\ IdeDo(CASE d.op \in {"read", "identify"} -> [s EXCEPT !.drive.phase = "drq"]
                [] d.op = "reset" -> [s EXCEPT !.drive.phase = "idle"]
                [] OTHER ->
                     LET done == IF d.op = "udma" THEN d.left ELSE 1
                         u == [s EXCEPT !.drive.left = @ - done,
                                        !.drive.phase = IF done = d.left THEN "idle" ELSE "drq"]
                     IN IF d.owner = 0 THEN u ELSE [u EXCEPT !.call[d.owner].moved = @ + done])
DriveFails ==
  /\ May("fail") /\ ide.drive.phase = "busy" /\ ide.drive.op # "reset"
  /\ IdeDo([ide EXCEPT !.drive.phase = "err", !.irq = TRUE])

IdeInit(halt) ==
  \E scene \in IdeScenes :
    ide = [lock |-> 0, waiter |-> 0, irq |-> FALSE, call |-> [t \in IdeTasks |-> NoCall],
           drive |-> IdleDrive, scene |-> scene, halt |-> halt]

IdeNext ==
  \/ IdeInterrupt \/ DriveWorks \/ DriveFails
  \/ \E t \in IdeTasks : \/ Enter(t) \/ Woken(t) \/ Ready(t) \/ Reset(t) \/ IdeTimeout(t)
                         \/ \E op \in {"read", "write", "udma", "identify"} : Call(t, op)

\* Interrupts are taken, a task that is awake goes on, and the drive does its
\* work or the clock ends the wait.
IdeFair ==
  /\ WF_ide(IdeInterrupt)
  /\ WF_ide(DriveWorks \/ \E t \in IdeTasks : IdeTimeout(t))
  /\ \A t \in IdeTasks : WF_ide(Woken(t)) /\ WF_ide(Ready(t)) /\ WF_ide(Reset(t))
-----------------------------------------------------------------------------
\* A call of programmed i/o that returns EOK has moved every sector with its own
\* command, though the interrupt that woke it may belong to a command that was
\* given up: bread and bwrite look at nothing else.  One of DMA takes any
\* interrupt for its own, so that it has done so only where no wait times out,
\* no command fails and no IDENTIFY leaves its interrupt behind.
Sure == ~ May("late") /\ ~ May("fail") /\ ~ May("identify")
TransferDone ==
  \A t \in IdeTasks : ide.call[t].last # "short_pio" /\ (Sure => ide.call[t].last # "short_dma")

\* Whatever becomes of a call, it gives the controller back.
ControllerFreed == ide.lock # 0 ~> (ide.lock = 0 \/ ide.halt # "")
=============================================================================
