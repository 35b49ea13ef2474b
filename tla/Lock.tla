-------------------------------- MODULE Lock --------------------------------
(***************************************************************************)
(* lock_t, the reentrant sleeping lock of src/kernel/mutex.c, and the      *)
(* mutex_t under it.  A task sleeps on mutex->waiters while value is set;  *)
(* mutex_unlock wakes the task that has waited longest and yields, and the *)
(* woken task has to test value again.                                     *)
(*                                                                         *)
(* Which ready task runs next is left open here: every task that is not    *)
(* asleep may take the next step.  LockOnScheduler fixes the choice to the *)
(* one task_search makes.                                                  *)
(***************************************************************************)
EXTENDS Integers, SequencesExt

CONSTANTS
  Tasks,      \* tasks that use the lock
  None,       \* NULL
  MaxRepeat   \* bound on nested lock_acquire calls

ASSUME LockAssumption ==
  /\ None \notin Tasks
  /\ MaxRepeat \in Nat \ {0}

VARIABLES
  value,    \* mutex->value
  waiters,  \* mutex->waiters, from head.next (newest) to tail.prev (oldest)
  holder,   \* lock->holder
  repeat,   \* lock->repeat
  pc        \* where each task is, see Places

vars == <<value, waiters, holder, repeat, pc>>

Places == {"out",      \* outside the lock
           "asleep",   \* in task_block, called by mutex_lock
           "woken",    \* made ready by mutex_unlock, about to test value again
           "in",       \* holds the lock
           "yielding"} \* in the task_yield of mutex_unlock

\* list_push.  mutex_unlock takes tail.prev, which is Last(waiters).
Push(list, t) == <<t>> \o list
-----------------------------------------------------------------------------
\* The end of mutex_lock and of lock_acquire, once value is seen clear.
Take(t) ==
  /\ value' = value + 1
  /\ holder' = t
  /\ repeat' = 1
  /\ pc' = [pc EXCEPT ![t] = "in"]
  /\ UNCHANGED waiters

\* One task_block in the loop of mutex_lock.
Sleep(t) ==
  /\ waiters' = Push(waiters, t)
  /\ pc' = [pc EXCEPT ![t] = "asleep"]
  /\ UNCHANGED <<value, holder, repeat>>

\* The loop test of mutex_lock.
MutexLock(t) == IF value = 1 THEN Sleep(t) ELSE Take(t)

\* lock_acquire, from outside or nested in the same task.
Acquire(t) ==
  \/ /\ pc[t] = "out"
     /\ holder # t
     /\ MutexLock(t)
  \/ /\ pc[t] = "in"
     /\ holder = t
     /\ repeat < MaxRepeat
     /\ repeat' = repeat + 1
     /\ UNCHANGED <<value, waiters, holder, pc>>

\* mutex_lock goes on after task_block returned.
Retry(t) ==
  /\ pc[t] = "woken"
  /\ MutexLock(t)

BugMutexUnlockNoWake(t) ==
  /\ value' = value - 1
  /\ pc' = [pc EXCEPT ![t] = "out"]
  /\ UNCHANGED waiters

\* mutex_unlock.
MutexUnlock(t) ==
  /\ value' = value - 1
  /\ IF waiters = <<>>
       THEN /\ pc' = [pc EXCEPT ![t] = "out"]
            /\ UNCHANGED waiters
       ELSE /\ pc' = [pc EXCEPT ![t] = "yielding", ![Last(waiters)] = "woken"]
            /\ waiters' = Front(waiters)

BugReleaseKeepsHolder(t) ==
  /\ pc[t] = "in"
  /\ IF repeat > 1
       THEN repeat' = repeat - 1 /\ UNCHANGED <<value, waiters, holder, pc>>
       ELSE repeat' = 0 /\ MutexUnlock(t) /\ UNCHANGED holder

\* lock_release.
Release(t) ==
  /\ pc[t] = "in"
  /\ IF repeat > 1
       THEN repeat' = repeat - 1 /\ UNCHANGED <<value, waiters, holder, pc>>
       ELSE /\ holder' = None
            /\ repeat' = 0
            /\ MutexUnlock(t)

\* task_yield returns in mutex_unlock.
YieldReturns(t) ==
  /\ pc[t] = "yielding"
  /\ pc' = [pc EXCEPT ![t] = "out"]
  /\ UNCHANGED <<value, waiters, holder, repeat>>

Init ==
  /\ value = 0
  /\ waiters = <<>>
  /\ holder = None
  /\ repeat = 0
  /\ pc = [t \in Tasks |-> "out"]

Next == \E t \in Tasks : Acquire(t) \/ Retry(t) \/ Release(t) \/ YieldReturns(t)

Spec == Init /\ [][Next]_vars

\* A task that is not asleep runs eventually, and whoever is in the lock leaves
\* it: nested calls do not go on for ever.  Nobody has to come back for the lock.
Fair ==
  \A t \in Tasks : /\ WF_vars(Retry(t)) /\ WF_vars(Release(t)) /\ WF_vars(YieldReturns(t))
                   /\ SF_vars(repeat = 1 /\ Release(t))
-----------------------------------------------------------------------------
TypeOK ==
  /\ value \in {0, 1}
  /\ waiters \in Seq(Tasks)
  /\ holder \in Tasks \cup {None}
  /\ repeat \in 0 .. MaxRepeat
  /\ pc \in [Tasks -> Places]

\* One task at a time is between lock_acquire and its last lock_release, and
\* it is the one lock->holder names: lock_acquire tells a nested call from a
\* rival one by that field alone.
MutualExclusion ==
  /\ \A t \in Tasks : pc[t] = "in" <=> holder = t
  /\ value = (IF holder = None THEN 0 ELSE 1)
  /\ repeat > 0 <=> holder # None

\* mutex->waiters holds exactly the sleeping tasks, each of them once.
QueueExact ==
  /\ \A i, j \in 1 .. Len(waiters) : waiters[i] = waiters[j] => i = j
  /\ \A t \in Tasks :
       pc[t] = "asleep" <=> \E i \in 1 .. Len(waiters) : waiters[i] = t

\* No lost wake-up: whenever the mutex is free and somebody sleeps on it, a
\* task that was already woken is on its way to it.
NoLostWakeup ==
  value = 0 /\ waiters # <<>> => \E t \in Tasks : pc[t] = "woken"

\* The lock keeps being handed on: as long as a task sleeps on it, releases go
\* on waking sleepers.  (Which of them gets the lock is another matter, see
\* LockOnScheduler.)
HandedOn == (waiters # <<>>) ~> (\E t \in Tasks : pc[t] = "woken")
=============================================================================
