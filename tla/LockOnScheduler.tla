--------------------------- MODULE LockOnScheduler ---------------------------
(***************************************************************************)
(* The lock of mutex.c on the scheduler of task.c: user tasks enter the    *)
(* kernel, take one lock, wait for a device while they hold it (as every   *)
(* holder of the disk controller's lock does), and leave again.  Unlike in *)
(* Lock, the task that runs next is the one task_search picks.             *)
(***************************************************************************)
EXTENDS Scheduler

CONSTANT None

ASSUME NoneAssumption == None \notin Task

VARIABLES
  value,    \* mutex->value
  waiters,  \* mutex->waiters, newest first
  holder,   \* lock->holder
  pc        \* where each user task is, as in Lock; "io" waits inside the lock

lockVars == <<value, waiters, holder, pc>>
allVars  == <<vars, lockVars>>

\* The part of the scheduler that no lock operation touches.
Rest == <<timer, alarm, pending, ticks, last, timers, woken, phase>>

InUserMode == Running /\ cur \in UserTasks /\ pc[cur] = "out"
InKernel(p) == Running /\ cur \in UserTasks /\ pc[cur] = p
-----------------------------------------------------------------------------
\* mutex_lock, at its loop test.
MutexLock ==
  IF value = 1
    THEN /\ linked' = [linked EXCEPT ![cur] = TRUE]
         /\ Schedule([state EXCEPT ![cur] = "BLOCKED"], ticks, last)
         /\ waiters' = <<cur>> \o waiters
         /\ pc' = [pc EXCEPT ![cur] = "asleep"]
         /\ UNCHANGED <<value, holder>>
    ELSE /\ value' = 1
         /\ holder' = cur
         /\ pc' = [pc EXCEPT ![cur] = "in"]
         /\ UNCHANGED <<state, linked, cur, waiters>>

Acquire == InUserMode /\ MutexLock /\ UNCHANGED Rest
Retry   == InKernel("woken") /\ MutexLock /\ UNCHANGED Rest

\* The holder waits for its device; the interrupt ends the wait.
DeviceStart ==
  /\ InKernel("in")
  /\ pc' = [pc EXCEPT ![cur] = "io"]
  /\ linked' = [linked EXCEPT ![cur] = TRUE]
  /\ Schedule([state EXCEPT ![cur] = "BLOCKED"], ticks, last)
  /\ UNCHANGED <<value, waiters, holder>> /\ UNCHANGED Rest

DeviceDone(t) ==
  /\ InUserMode \/ (Running /\ cur = Idle)
  /\ t \in UserTasks /\ pc[t] = "io"
  /\ pc' = [pc EXCEPT ![t] = "served"]
  /\ Wake(t)
  /\ UNCHANGED <<value, waiters, holder>>

BugReleaseNewest ==
  /\ InKernel("served")
  /\ value' = 0
  /\ holder' = None
  /\ IF waiters = <<>>
       THEN /\ pc' = [pc EXCEPT ![cur] = "out"]
            /\ UNCHANGED <<state, linked, cur, waiters>>
       ELSE LET w == Head(waiters)
            IN  /\ waiters' = Tail(waiters)
                /\ linked' = [linked EXCEPT ![w] = FALSE]
                /\ pc' = [pc EXCEPT ![cur] = "yielding", ![w] = "woken"]
                /\ Schedule([state EXCEPT ![w] = "READY"], ticks, last)
  /\ UNCHANGED Rest

\* lock_release and mutex_unlock: wake the oldest waiter and yield to it.
Release ==
  /\ InKernel("served")
  /\ value' = 0
  /\ holder' = None
  /\ IF waiters = <<>>
       THEN /\ pc' = [pc EXCEPT ![cur] = "out"]
            /\ UNCHANGED <<state, linked, cur, waiters>>
       ELSE LET w == Last(waiters)
            IN  /\ waiters' = Front(waiters)
                /\ linked' = [linked EXCEPT ![w] = FALSE]
                /\ pc' = [pc EXCEPT ![cur] = "yielding", ![w] = "woken"]
                /\ Schedule([state EXCEPT ![w] = "READY"], ticks, last)
  /\ UNCHANGED Rest

YieldReturns ==
  /\ InKernel("yielding")
  /\ pc' = [pc EXCEPT ![cur] = "out"]
  /\ UNCHANGED <<value, waiters, holder>> /\ UNCHANGED vars

\* The clock interrupts user mode and the idle loop only.
LockClock ==
  /\ phase = "timers" \/ InUserMode \/ cur = Idle
  /\ Clock
  /\ UNCHANGED lockVars

LockIdle == IdleYield /\ UNCHANGED lockVars

LockInit ==
  /\ Init
  /\ value = 0 /\ waiters = <<>> /\ holder = None
  /\ pc = [t \in UserTasks |-> "out"]

LockNext ==
  \/ Acquire \/ Retry \/ DeviceStart \/ Release \/ YieldReturns
  \/ \E t \in UserTasks : DeviceDone(t)
  \/ LockClock \/ LockIdle

LockSpec == LockInit /\ [][LockNext]_allVars

\* A task in the kernel goes on, as nothing interrupts it; the idle loop leaves
\* its hlt; and a clock interrupt waits in the PIC until interrupts are on again.
KernelGoesOn == Retry \/ DeviceStart \/ Release \/ YieldReturns
FairLockSpec ==
  LockSpec /\ SF_allVars(LockClock) /\ WF_allVars(LockIdle) /\ WF_allVars(KernelGoesOn)
-----------------------------------------------------------------------------
\* The lock as Lock specifies it: waiting for the device is part of being in.
Abstract == INSTANCE Lock WITH
  Tasks <- UserTasks,
  MaxRepeat <- 1,
  repeat <- IF holder = None THEN 0 ELSE 1,
  pc <- [t \in UserTasks |-> IF pc[t] \in {"io", "served"} THEN "in" ELSE pc[t]]

\* Under the real scheduler the lock implements Lock.
ImplementsLock == Abstract!Spec
=============================================================================
