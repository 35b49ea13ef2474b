------------------------------- MODULE Floppy -------------------------------
(***************************************************************************)
(* The floppy disk (src/kernel/floppy.c): calls under fd->lock that start  *)
(* the motor, seek, set up the DMA channel of src/kernel/isa.c and wait    *)
(* for the controller, and the timer that stops the motor some time after  *)
(* the last call.  A timer belongs to the task that added it, task_exit    *)
(* frees the timers of a task, and fd->timer goes on pointing to it.       *)
(*                                                                         *)
(* The controller is external: it works only while the motor runs.  A      *)
(* sector holds <<task, i>>, the i-th one of what the task wrote.          *)
(***************************************************************************)
EXTENDS Integers, FiniteSetsExt

CONSTANTS
  FdTasks,     \* numbers from 1; 0 is no task
  Cylinder,    \* heads * sectors
  Tracks,      \* fd->tracks
  Requests     \* bound: pairs <<lba, count>>

\* Requests are those of sys_read and sys_write of /dev/fda, for any sectors;
\* the count is a u8.
ASSUME FdAssumption ==
  /\ FdTasks \subseteq Nat \ {0}
  /\ Cylinder \in Nat \ {0} /\ Tracks \in Nat \ {0}
  /\ Requests \subseteq Nat \X (1 .. 255)

VARIABLE
  fd   \* [lock, waiter, irq, motor, track; timer: what fd->timer points to,
       \*  "none" if it is NULL, and owner, the task that added it; buf: the
       \*  DMA buffer at DMA_BUF_ADDR; disk; job, what the controller does; ok,
       \*  its result; call: of each task [pc, mode, lba, count, left, at, buf];
       \*  wrong: of which requests one that returned well did not do its work,
       \*  those "inside" a cylinder or those "across" its end; halt]

FdIdle == [pc |-> "user", mode |-> "read", lba |-> 0, count |-> 0, left |-> 0, at |-> 0, buf |-> << >>]
FdSectors == Tracks * Cylinder
Lbas == 0 .. FdSectors - 1
FdPc(t) == fd.call[t].pc
FdDo(s) == fd.halt = "" /\ fd' = s

\* lba2chs, as far as a seek goes, and the sectors fd_transfer moves at once.
Track(lba) == lba \div Cylinder
Piece(c) == Min({c.count, Cylinder - (c.at % Cylinder)})
Inside(c) == (c.lba % Cylinder) + c.count <= Cylinder

\* fd_wait, behind a command.
FdWait(s, t, job) ==
  IF s.waiter # 0 THEN [s EXCEPT !.halt = "fd_wait"]
  ELSE [s EXCEPT !.waiter = t, !.job = job, !.call[t].pc = job]

\* fd_motor_off: the timer is added or put off.  One that task_exit has freed
\* is linked again by timer_update, with its handler, and will be freed twice;
\* when its memory is in use for something else, anything may follow.
MotorOff(s, t) ==
  LET u == [s EXCEPT !.motor = IF @ = "on" THEN "delay" ELSE @]
  IN CASE u.timer = "none"               -> [u EXCEPT !.timer = "armed", !.owner = t]
       [] u.timer \in {"armed", "freed"} -> [u EXCEPT !.timer = "armed"]
       [] OTHER                          -> [u EXCEPT !.halt = "timer_update"]

\* fd_transfer up to the command: the data of a write are copied before the
\* seek; isa_dma_addr and isa_dma_size set the channel.
Seek(s, t) ==
  LET c == s.call[t]
      u == IF c.mode = "read" THEN s
           ELSE [s EXCEPT !.buf = [i \in 0 .. Piece(c) - 1 |-> <<t, i>>]]
  IN IF s.track = Track(c.at) THEN FdWait(u, t, "transfer") ELSE FdWait(u, t, "seek")

\* fd_motor_on; the task sleeps if the motor has to start.
MotorOn(s, t) ==
  IF s.motor = "off" THEN [s EXCEPT !.motor = "on", !.call[t].pc = "spin"]
  ELSE Seek([s EXCEPT !.motor = "on"], t)

\* What a call that returns well has to have done.
Moved(s, c, t) ==
  \A i \in 0 .. c.count - 1 :
    IF c.mode = "read" THEN i \in DOMAIN c.buf /\ c.buf[i] = s.disk[c.lba + i] ELSE s.disk[c.lba + i] = <<t, i>>

\* The end of fd_read and fd_write.
FdReturn(s, t, ok) ==
  [MotorOff(s, t) EXCEPT !.lock = 0, !.call[t] = FdIdle, !.ok = TRUE,
                         !.wrong = IF ok /\ ~ Moved(s, s.call[t], t)
                                   THEN @ \cup {IF Inside(s.call[t]) THEN "inside" ELSE "across"} ELSE @]
-----------------------------------------------------------------------------
\* The assertion, which fails for the last sector of the disk as well.
FdCall(t, mode, q) ==
  /\ FdPc(t) = "user"
  /\ FdDo(IF q[1] + q[2] >= FdSectors THEN [fd EXCEPT !.halt = "fd_read"]
          ELSE [fd EXCEPT !.call[t] = [FdIdle EXCEPT !.pc = "lock", !.mode = mode, !.lba = q[1], !.at = q[1],
                                                     !.count = q[2], !.left = q[2]]])

BugFdEnter(t) == FdPc(t) = "lock" /\ FdDo(MotorOn(fd, t))

FdEnter(t) == FdPc(t) = "lock" /\ fd.lock = 0 /\ FdDo(MotorOn([fd EXCEPT !.lock = t], t))

\* The motor turns, or the track is reached: fd_result has read which one it
\* is, not to panic, and the heads have settled.
Spun(t) == FdPc(t) = "spin" /\ FdDo(Seek(fd, t))
Sought(t) ==
  FdPc(t) = "sought" /\ FdDo(IF fd.ok THEN FdWait(fd, t, "transfer") ELSE [fd EXCEPT !.halt = "seek failed"])

\* The end of fd_transfer and the loop around it: the left sectors are a u8,
\* the next piece, which is never a shorter one, is asked for with the whole
\* count and the same buf.  What was read fills fd.buf.
Done(t) ==
  LET c == fd.call[t]
      n == Piece(c)
      d == [c EXCEPT !.left = (@ - n) % 256, !.at = @ + n, !.buf = IF c.mode = "read" THEN fd.buf ELSE @]
      s == [fd EXCEPT !.call[t] = d]
  IN /\ c.pc = "done"
     /\ FdDo(IF ~ fd.ok THEN FdReturn(fd, t, FALSE) ELSE IF d.left = 0 THEN FdReturn(s, t, TRUE) ELSE Seek(s, t))

\* fd_handler.
FdInterrupt ==
  /\ fd.irq
  /\ FdDo([fd EXCEPT !.irq = FALSE, !.waiter = 0,
             !.call = [t \in FdTasks |-> IF t # fd.waiter THEN fd.call[t]
                         ELSE [fd.call[t] EXCEPT !.pc = IF @ = "seek" THEN "sought" ELSE "done"]]])

\* The controller ends what it does, while the motor runs, and well only if
\* the sectors are there.
Works(ok) ==
  LET c == fd.call[fd.waiter]
  IN /\ fd.job # "none" /\ fd.waiter # 0 /\ fd.motor # "off"
     /\ ok => c.at + Piece(c) <= FdSectors
     /\ FdDo([fd EXCEPT !.irq = TRUE, !.job = "none", !.ok = ok,
                !.track = IF fd.job = "seek" /\ ok THEN Track(c.at) ELSE @,
                !.buf = IF fd.job = "transfer" /\ c.mode = "read" /\ ok
                        THEN [i \in 0 .. Piece(c) - 1 |-> fd.disk[c.at + i]] ELSE @,
                !.disk = IF fd.job = "transfer" /\ c.mode = "write" /\ ok
                         THEN [l \in DOMAIN @ |-> IF l - c.at \in DOMAIN fd.buf THEN fd.buf[l - c.at] ELSE @[l]]
                         ELSE @])

\* fd_motor_timeout, at any time since the timer was put off.
MotorTimeout ==
  fd.timer = "armed" /\ FdDo([fd EXCEPT !.motor = "off", !.timer = "none"])

\* Nothing came for FDC_WAIT_TIMEOUT: the assertion after fd_wait fails.
FdTimeout ==
  fd.job # "none" /\ fd.motor = "off" /\ FdDo([fd EXCEPT !.halt = "fd_wait timed out"])

\* task_exit, timer_remove; the task's number is used for another one.
FdExit(t) ==
  FdPc(t) = "user" /\ fd.timer = "armed" /\ fd.owner = t /\ FdDo([fd EXCEPT !.timer = "freed"])

\* kmalloc hands out the freed memory, or the heap gives back its page.
TimerGone == fd.timer = "freed" /\ FdDo([fd EXCEPT !.timer = "gone"])

\* floppy_init, with fd_specify and fd_recalibrate.
FdInit(halt) ==
  fd = [lock |-> 0, waiter |-> 0, irq |-> FALSE, motor |-> "off", track |-> 0, timer |-> "none", owner |-> 0,
        buf |-> << >>, disk |-> [l \in Lbas |-> <<0, 0>>], job |-> "none", ok |-> TRUE,
        call |-> [t \in FdTasks |-> FdIdle], wrong |-> {}, halt |-> halt]

FdNext ==
  \/ FdInterrupt \/ MotorTimeout \/ FdTimeout \/ TimerGone \/ Works(TRUE) \/ Works(FALSE)
  \/ \E t \in FdTasks : \/ FdEnter(t) \/ Spun(t) \/ Sought(t) \/ Done(t) \/ FdExit(t)
                        \/ \E mode \in {"read", "write"}, q \in Requests : FdCall(t, mode, q)
-----------------------------------------------------------------------------
\* A call for sectors of one cylinder that returns well has read what is on
\* the disk or written its own data, though every call goes through one DMA
\* buffer and sleeps meanwhile, whatever other calls ask for.
FloppyExact == "inside" \notin fd.wrong

\* FDC_MOTOR_TIMEOUT: the motor is stopped when the drive has not been used,
\* so it runs while the controller works.
MotorRuns == fd.job # "none" => fd.motor # "off"
=============================================================================
