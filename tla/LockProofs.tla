----------------------------- MODULE LockProofs -----------------------------
(***************************************************************************)
(* Proofs about Lock, for any set of tasks and any nesting bound.          *)
(*                                                                         *)
(* The types are not inductive alone: that value stays 0 or 1 depends on   *)
(* lock_release being called by the holder, so TypeOK and MutualExclusion  *)
(* are proved together, and the facts about the queue of waiters, which    *)
(* the lock's own fields do not depend on, are proved on top of them.      *)
(***************************************************************************)
EXTENDS Lock, SequenceTheorems, TLAPS

\* list_push gives a list again.
LEMMA PushType ==
  ASSUME NEW S, NEW q \in Seq(S), NEW t \in S
  PROVE  Push(q, t) \in Seq(S)
BY DEF Push

\* Taking the oldest entry off a non-empty list leaves the others in place.
LEMMA FrontLastFacts ==
  ASSUME NEW S, NEW q \in Seq(S), q # <<>>
  PROVE  /\ Len(q) \in Nat \ {0}
         /\ Last(q) \in S
         /\ Front(q) \in Seq(S)
         /\ Len(Front(q)) = Len(q) - 1
         /\ \A i \in 1 .. Len(q) - 1 : Front(q)[i] = q[i]
<1>1. Len(q) \in Nat \ {0}
  OBVIOUS
<1>2. Last(q) \in S
  BY <1>1 DEF Last
<1>3. /\ Front(q) \in Seq(S)
      /\ Len(Front(q)) = Len(q) - 1
      /\ \A i \in 1 .. Len(q) - 1 : Front(q)[i] = q[i]
  <2> DEFINE n == Len(q) - 1
  <2>1. n \in Nat /\ 1 \in Int /\ n \in Int
    BY <1>1
  <2>2. \A i \in 1 .. n : q[i] \in S
    BY <1>1
  <2>3. Front(q) = SubSeq(q, 1, n)
    BY DEF Front
  <2> HIDE DEF n
  <2>4. /\ SubSeq(q, 1, n) \in Seq(S)
        /\ Len(SubSeq(q, 1, n)) = IF 1 <= n THEN n - 1 + 1 ELSE 0
        /\ \A i \in 1 .. n - 1 + 1 : SubSeq(q, 1, n)[i] = q[1 + i - 1]
    BY <2>1, <2>2, SubSeqProperties
  <2>5. /\ SubSeq(q, 1, n) \in Seq(S)
        /\ Len(SubSeq(q, 1, n)) = n
        /\ \A i \in 1 .. n : SubSeq(q, 1, n)[i] = q[i]
    BY <2>1, <2>4
  <2> QED
    BY <2>3, <2>5 DEF n
<1> QED
  BY <1>1, <1>2, <1>3

Ownership == TypeOK /\ MutualExclusion

\* Every step keeps the types and the agreement of holder, value and repeat.
LEMMA OwnershipStep == Ownership /\ [Next]_vars => Ownership'
<1> SUFFICES ASSUME Ownership, [Next]_vars
             PROVE  Ownership'
  OBVIOUS
<1> USE LockAssumption DEF Ownership, TypeOK, MutualExclusion
<1>1. ASSUME NEW t \in Tasks, pc[t] \in {"out", "woken"}, MutexLock(t)
      PROVE  Ownership'
  <2>1. CASE value = 1
    <3>1. Push(waiters, t) \in Seq(Tasks)
      BY PushType
    <3> QED
      BY <1>1, <2>1, <3>1 DEF MutexLock, Sleep, Places
  <2>2. CASE value # 1
    BY <1>1, <2>2 DEF MutexLock, Take, Places
  <2> QED
    BY <2>1, <2>2
<1>2. ASSUME NEW t \in Tasks, Acquire(t)
      PROVE  Ownership'
  <2>1. CASE pc[t] = "out"
    BY <1>1, <1>2, <2>1 DEF Acquire
  <2>2. CASE pc[t] = "in"
    BY <1>2, <2>2 DEF Acquire
  <2> QED
    BY <1>2, <2>1, <2>2 DEF Acquire
<1>3. ASSUME NEW t \in Tasks, Retry(t)
      PROVE  Ownership'
  BY <1>1, <1>3 DEF Retry
<1>4. ASSUME NEW t \in Tasks, Release(t)
      PROVE  Ownership'
  <2>1. CASE repeat > 1
    BY <1>4, <2>1 DEF Release
  <2>2. CASE ~(repeat > 1) /\ waiters = <<>>
    BY <1>4, <2>2 DEF Release, MutexUnlock, Places
  <2>3. CASE ~(repeat > 1) /\ waiters # <<>>
    <3> DEFINE w == Last(waiters)
    <3>1. w \in Tasks /\ Front(waiters) \in Seq(Tasks)
      BY <2>3, FrontLastFacts
    <3>2. pc' = [pc EXCEPT ![t] = "yielding", ![w] = "woken"]
      BY <1>4, <2>3 DEF Release, MutexUnlock
    <3>3. \A u \in Tasks : pc'[u] # "in"
      BY <1>4, <3>1, <3>2 DEF Release
    <3> QED
      BY <1>4, <2>3, <3>1, <3>2, <3>3 DEF Release, MutexUnlock, Places
  <2> QED
    BY <2>1, <2>2, <2>3
<1>5. ASSUME NEW t \in Tasks, YieldReturns(t)
      PROVE  Ownership'
  BY <1>5 DEF YieldReturns, Places
<1>6. CASE UNCHANGED vars
  BY <1>6 DEF vars
<1> QED
  BY <1>2, <1>3, <1>4, <1>5, <1>6 DEF Next

\* The state components of the lock keep their types; in particular
\* mutex->value, which the code counts up and down, stays 0 or 1.
THEOREM TypeCorrect == Spec => []TypeOK
<1>1. Init => Ownership
  BY LockAssumption DEF Init, Ownership, TypeOK, MutualExclusion, Places
<1>2. Ownership => TypeOK
  BY DEF Ownership
<1> QED
  BY <1>1, <1>2, OwnershipStep, PTL DEF Spec

\* At most one task is between lock_acquire and its last lock_release, and
\* lock->holder names it.
THEOREM Exclusion == Spec => []MutualExclusion
<1>1. Init => Ownership
  BY LockAssumption DEF Init, Ownership, TypeOK, MutualExclusion, Places
<1>2. Ownership => MutualExclusion
  BY DEF Ownership
<1> QED
  BY <1>1, <1>2, OwnershipStep, PTL DEF Spec
-----------------------------------------------------------------------------
Queue == QueueExact /\ NoLostWakeup

\* A step of mutex_lock, from outside or after a wake-up, keeps the queue exact
\* and leaves no sleeper behind on a free mutex.
LEMMA MutexLockQueue ==
  ASSUME Ownership, Queue, NEW t \in Tasks, pc[t] \in {"out", "woken"}, MutexLock(t)
  PROVE  Queue'
<1> USE DEF Ownership, TypeOK, Queue, QueueExact
<1>1. CASE value = 1
  <2>1. /\ waiters' = Push(waiters, t)
        /\ pc' = [pc EXCEPT ![t] = "asleep"]
        /\ value' = 1
    BY <1>1 DEF MutexLock, Sleep
  <2>2. /\ Len(waiters') = Len(waiters) + 1
        /\ waiters'[1] = t
        /\ \A i \in 2 .. Len(waiters) + 1 : waiters'[i] = waiters[i - 1]
    <3>1. waiters \in Seq(Tasks) /\ t \in Tasks
      OBVIOUS
    <3>2. /\ Len(Push(waiters, t)) = Len(waiters) + 1
          /\ Push(waiters, t)[1] = t
          /\ \A i \in 2 .. Len(waiters) + 1 : Push(waiters, t)[i] = waiters[i - 1]
      BY <3>1 DEF Push
    <3> QED
      BY <2>1, <3>2
  <2>3. \A i \in 1 .. Len(waiters) : waiters[i] # t
    OBVIOUS
  <2>4. \A i, j \in 1 .. Len(waiters') : waiters'[i] = waiters'[j] => i = j
    <3> SUFFICES ASSUME NEW i \in 1 .. Len(waiters'), NEW j \in 1 .. Len(waiters'),
                        waiters'[i] = waiters'[j]
                 PROVE  i = j
      OBVIOUS
    <3>1. CASE i = 1 \/ j = 1
      BY SMTT(60), <2>2, <2>3, <3>1
    <3>2. CASE i # 1 /\ j # 1
      <4>1. i - 1 \in 1 .. Len(waiters) /\ j - 1 \in 1 .. Len(waiters)
        BY <2>2, <3>2
      <4>2. waiters[i - 1] = waiters[j - 1]
        BY <2>2, <3>2
      <4> QED
        BY SMTT(60), <4>1, <4>2
    <3> QED
      BY <3>1, <3>2
  <2>5. ASSUME NEW u \in Tasks
        PROVE  pc'[u] = "asleep" <=> \E i \in 1 .. Len(waiters') : waiters'[i] = u
    <3>1. CASE u = t
      BY <2>1, <2>2, <3>1
    <3>2. CASE u # t
      <4>1. pc'[u] = pc[u]
        BY <2>1, <3>2
      <4>2. ASSUME NEW i \in 1 .. Len(waiters), waiters[i] = u
            PROVE  \E k \in 1 .. Len(waiters') : waiters'[k] = u
        <5>1. i + 1 \in 2 .. Len(waiters) + 1 /\ (i + 1) - 1 = i
          OBVIOUS
        <5>2. waiters'[i + 1] = u
          BY SMTT(60), <2>2, <4>2, <5>1
        <5> QED
          BY <2>2, <5>1, <5>2
      <4>3. ASSUME NEW i \in 1 .. Len(waiters'), waiters'[i] = u
            PROVE  \E k \in 1 .. Len(waiters) : waiters[k] = u
        <5>1. i \in 2 .. Len(waiters) + 1
          BY <2>2, <3>2, <4>3
        <5>2. i - 1 \in 1 .. Len(waiters) /\ waiters[i - 1] = u
          BY <2>2, <4>3, <5>1
        <5> QED
          BY <5>2
      <4> QED
        BY <4>1, <4>2, <4>3
    <3> QED
      BY <3>1, <3>2
  <2> QED
    BY <2>1, <2>4, <2>5 DEF NoLostWakeup
<1>2. CASE value # 1
  <2>1. /\ waiters' = waiters
        /\ pc' = [pc EXCEPT ![t] = "in"]
        /\ value' = 1
    BY <1>2 DEF MutexLock, Take
  <2> QED
    BY <2>1 DEF NoLostWakeup
<1> QED
  BY <1>1, <1>2

\* mutex_unlock moves exactly one sleeper, if there is one, to "woken".
LEMMA MutexUnlockQueue ==
  ASSUME Ownership, Queue, NEW t \in Tasks, pc[t] = "in", MutexUnlock(t)
  PROVE  Queue'
<1> USE DEF Ownership, TypeOK, Queue, QueueExact
<1>1. CASE waiters = <<>>
  <2>1. waiters' = <<>> /\ pc' = [pc EXCEPT ![t] = "out"]
    BY <1>1 DEF MutexUnlock
  <2> QED
    BY <1>1, <2>1 DEF NoLostWakeup
<1>2. CASE waiters # <<>>
  <2> DEFINE w == Last(waiters)
  <2>1. /\ waiters' = Front(waiters)
        /\ pc' = [pc EXCEPT ![t] = "yielding", ![w] = "woken"]
    BY <1>2 DEF MutexUnlock
  <2>2. /\ Len(waiters) \in Nat \ {0}
        /\ w \in Tasks
        /\ Len(waiters') = Len(waiters) - 1
        /\ \A i \in 1 .. Len(waiters) - 1 : waiters'[i] = waiters[i]
    BY SMTT(60), <1>2, <2>1, FrontLastFacts
  <2>3. w = waiters[Len(waiters)]
    BY DEF Last
  <2>4. pc[w] = "asleep" /\ w # t
    BY <2>2, <2>3
  <2>5. \A u \in Tasks : pc'[u] = IF u = w THEN "woken"
                                  ELSE IF u = t THEN "yielding" ELSE pc[u]
    BY <2>1, <2>2
  <2> HIDE DEF w
  <2>6. \A i, j \in 1 .. Len(waiters') : waiters'[i] = waiters'[j] => i = j
    BY <2>2
  <2>7. ASSUME NEW u \in Tasks
        PROVE  pc'[u] = "asleep" <=> \E i \in 1 .. Len(waiters') : waiters'[i] = u
    <3>1. CASE u = w
      BY <2>2, <2>3, <2>5, <3>1
    <3>2. CASE u # w
      BY <2>2, <2>3, <2>5, <3>2
    <3> QED
      BY <3>1, <3>2
  <2>8. \E u \in Tasks : pc'[u] = "woken"
    BY <2>2, <2>5
  <2> QED
    BY <2>6, <2>7, <2>8 DEF NoLostWakeup
<1> QED
  BY <1>1, <1>2

\* Every step keeps the queue facts.
LEMMA QueueStep == Ownership /\ Queue /\ [Next]_vars => Queue'
<1> SUFFICES ASSUME Ownership, Queue, [Next]_vars
             PROVE  Queue'
  OBVIOUS
<1>1. ASSUME NEW t \in Tasks, Acquire(t)
      PROVE  Queue'
  <2>1. CASE pc[t] = "out" /\ MutexLock(t)
    BY <2>1, MutexLockQueue
  <2>2. CASE UNCHANGED <<value, waiters, pc>>
    BY <2>2 DEF Queue, QueueExact, NoLostWakeup
  <2> QED
    BY <1>1, <2>1, <2>2 DEF Acquire
<1>2. ASSUME NEW t \in Tasks, Retry(t)
      PROVE  Queue'
  BY <1>2, MutexLockQueue DEF Retry
<1>3. ASSUME NEW t \in Tasks, Release(t)
      PROVE  Queue'
  <2>1. CASE repeat > 1
    BY <1>3, <2>1 DEF Release, Queue, QueueExact, NoLostWakeup
  <2>2. CASE ~(repeat > 1)
    BY <1>3, <2>2, MutexUnlockQueue DEF Release
  <2> QED
    BY <2>1, <2>2
<1>4. ASSUME NEW t \in Tasks, YieldReturns(t)
      PROVE  Queue'
  <2>1. /\ waiters' = waiters /\ value' = value
        /\ pc[t] = "yielding"
        /\ \A u \in Tasks : pc'[u] = IF u = t THEN "out" ELSE pc[u]
    BY <1>4 DEF YieldReturns, Ownership, TypeOK
  <2> QED
    BY <2>1 DEF Queue, QueueExact, NoLostWakeup
<1>5. CASE UNCHANGED vars
  BY <1>5 DEF vars, Queue, QueueExact, NoLostWakeup
<1> QED
  BY <1>1, <1>2, <1>3, <1>4, <1>5 DEF Next

Inv == Ownership /\ Queue

\* A lock set up by lock_init is free and has no waiters, which is Inv.
LEMMA InitInv == Init => Inv
BY LockAssumption DEF Init, Inv, Ownership, TypeOK, MutualExclusion, Places,
                      Queue, QueueExact, NoLostWakeup

\* No call of lock_acquire, lock_release or return from a sleep breaks Inv.
LEMMA InvStep == Inv /\ [Next]_vars => Inv'
BY OwnershipStep, QueueStep DEF Inv

\* mutex->waiters is exactly the set of tasks asleep in mutex_lock: task_unblock
\* in mutex_unlock never meets a task that is awake or queued twice.
THEOREM QueueIsExact == Spec => []QueueExact
<1>1. Inv => QueueExact
  BY DEF Inv, Queue
<1> QED
  BY <1>1, InitInv, InvStep, PTL DEF Spec

\* No wake-up is lost: nobody sleeps on a free mutex unless another task has
\* been woken for it.
THEOREM WakeupsArrive == Spec => []NoLostWakeup
<1>1. Inv => NoLostWakeup
  BY DEF Inv, Queue
<1> QED
  BY <1>1, InitInv, InvStep, PTL DEF Spec
=============================================================================
