-------------------------- MODULE SchedulerProofs ---------------------------
(***************************************************************************)
(* Proofs about Scheduler and LockOnScheduler, for any number of tasks,    *)
(* any priorities and any delays.                                          *)
(*                                                                         *)
(* TimeoutsOwned: SchedInv says that the timeouts of timer_list are, one   *)
(* each, those of the tasks whose task->timer is set, that only a task in  *)
(* a waiting list has one, and that a task is in a waiting list exactly    *)
(* while its state is a blocked one.  It needs two more facts to be        *)
(* inductive: only the running task is RUNNING (so that a timeout never    *)
(* hits the task on the processor), and idle never waits (so that a        *)
(* schedule() that finds nobody ready does not resurrect a waiter).  The   *)
(* rest is what the list operations and task_search compute.               *)
(*                                                                         *)
(* LockIsLock: a step of LockOnScheduler is one of Lock by the running     *)
(* task, or a stutter.  HeldByOne, which links mutex->value, lock->holder  *)
(* and the place of every task, is what makes the guards agree.            *)
(***************************************************************************)
EXTENDS LockOnScheduler, FiniteSetTheorems, SequenceTheorems, WellFoundedInduction, TLAPS

\* Where everything is after an insertion in the middle of a list.
LEMMA InsertFacts ==
  ASSUME NEW S, NEW q \in Seq(S), NEW t \in S, NEW k \in 1 .. Len(q) + 1
  PROVE  /\ InsertAt(q, k, t) \in Seq(S)
         /\ Len(InsertAt(q, k, t)) = Len(q) + 1
         /\ \A i \in 1 .. Len(q) + 1 :
              InsertAt(q, k, t)[i] = IF i < k THEN q[i] ELSE IF i = k THEN t ELSE q[i - 1]
<1> DEFINE front == SubSeq(q, 1, k - 1)
           back  == SubSeq(q, k, Len(q))
<1>1. Len(q) \in Nat /\ k \in Int /\ \A i \in 1 .. Len(q) : q[i] \in S
  OBVIOUS
<1>2. /\ front \in Seq(S) /\ Len(front) = k - 1
      /\ \A i \in 1 .. k - 1 : front[i] = q[i]
  <2>1. \A i \in 1 .. k - 1 : q[i] \in S
    BY <1>1
  <2>2. /\ front \in Seq(S)
        /\ Len(front) = IF 1 <= k - 1 THEN k - 1 - 1 + 1 ELSE 0
        /\ \A i \in 1 .. k - 1 - 1 + 1 : front[i] = q[1 + i - 1]
    BY <1>1, <2>1, SubSeqProperties
  <2> HIDE DEF front
  <2> QED
    BY <1>1, <2>2
<1>3. /\ back \in Seq(S) /\ Len(back) = Len(q) - k + 1
      /\ \A i \in 1 .. Len(q) - k + 1 : back[i] = q[k + i - 1]
  <2>1. \A i \in k .. Len(q) : q[i] \in S
    BY <1>1
  <2>2. /\ back \in Seq(S)
        /\ Len(back) = IF k <= Len(q) THEN Len(q) - k + 1 ELSE 0
        /\ \A i \in 1 .. Len(q) - k + 1 : back[i] = q[k + i - 1]
    BY <1>1, <2>1, SubSeqProperties
  <2> HIDE DEF back
  <2> QED
    BY <1>1, <2>2
<1>4. InsertAt(q, k, t) = front \o <<t>> \o back
  BY DEF InsertAt
<1> HIDE DEF front, back
<1>5. /\ front \o <<t>> \in Seq(S) /\ Len(front \o <<t>>) = k
      /\ \A i \in 1 .. k : (front \o <<t>>)[i] = IF i < k THEN q[i] ELSE t
  <2>1. <<t>> \in Seq(S) /\ Len(<<t>>) = 1 /\ <<t>>[1] = t
    OBVIOUS
  <2>2. /\ front \o <<t>> \in Seq(S)
        /\ Len(front \o <<t>>) = Len(front) + Len(<<t>>)
        /\ \A i \in 1 .. Len(front) + Len(<<t>>) : (front \o <<t>>)[i] =
             IF i <= Len(front) THEN front[i] ELSE <<t>>[i - Len(front)]
    BY <1>2, <2>1, ConcatProperties
  <2>3. Len(front) = k - 1 /\ Len(<<t>>) = 1 /\ k \in Int /\ k >= 1
    BY <1>1, <1>2, <2>1
  <2>4. ASSUME NEW i \in 1 .. k
        PROVE  (front \o <<t>>)[i] = IF i < k THEN q[i] ELSE t
    <3>1. i \in 1 .. Len(front) + Len(<<t>>)
      BY <2>3
    <3>2. (front \o <<t>>)[i] = IF i <= Len(front) THEN front[i] ELSE <<t>>[i - Len(front)]
      BY <2>2, <3>1
    <3>3. CASE i < k
      BY <3>2, <3>3, <2>3, <1>2
    <3>4. CASE i = k
      <4>1. ~ (i <= Len(front)) /\ i - Len(front) = 1
        BY <3>4, <2>3
      <4> QED
        BY <3>2, <3>4, <4>1, <2>1
    <3>5. i < k \/ i = k
      BY <1>1
    <3> QED
      BY <3>3, <3>4, <3>5, Zenon
  <2> QED
    BY SMTT(60), <2>2, <2>3, <2>4
<1> DEFINE start == front \o <<t>>
<1>6. /\ start \in Seq(S) /\ Len(start) = k
      /\ \A i \in 1 .. k : start[i] = IF i < k THEN q[i] ELSE t
  BY <1>5
<1>7. InsertAt(q, k, t) = start \o back
  BY <1>4
<1> HIDE DEF start
<1>8. /\ start \o back \in Seq(S)
      /\ Len(start \o back) = Len(start) + Len(back)
      /\ \A i \in 1 .. Len(start) + Len(back) : (start \o back)[i] =
           IF i <= Len(start) THEN start[i] ELSE back[i - Len(start)]
  BY <1>3, <1>6, ConcatProperties
<1>9. Len(start) + Len(back) = Len(q) + 1
  BY <1>1, <1>3, <1>6
<1>10. ASSUME NEW i \in 1 .. Len(q) + 1
       PROVE  (start \o back)[i] = IF i < k THEN q[i] ELSE IF i = k THEN t ELSE q[i - 1]
  <2>1. (start \o back)[i] = IF i <= k THEN start[i] ELSE back[i - k]
    BY <1>6, <1>8, <1>9
  <2>2. CASE i <= k
    <3>1. i \in 1 .. k
      BY <2>2, <1>1
    <3> QED
      BY <3>1, <2>1, <2>2, <1>6, <1>1
  <2>3. CASE i > k
    <3>1. i - k \in 1 .. Len(q) - k + 1 /\ k + (i - k) - 1 = i - 1 /\ ~ (i <= k)
      BY <2>3, <1>1
    <3>2. back[i - k] = q[i - 1]
      BY <3>1, <1>3
    <3> QED
      BY <2>1, <2>3, <3>1, <3>2, <1>1
  <2>4. i <= k \/ i > k
    BY <1>1
  <2> QED
    BY <2>2, <2>3, <2>4, Zenon
<1> QED
  BY <1>7, <1>8, <1>9, <1>10

\* Where everything is after the removal of an entry.
LEMMA RemoveFacts ==
  ASSUME NEW S, NEW q \in Seq(S), NEW k \in 1 .. Len(q)
  PROVE  /\ RemoveAt(q, k) \in Seq(S)
         /\ Len(RemoveAt(q, k)) = Len(q) - 1
         /\ \A i \in 1 .. Len(q) - 1 :
              RemoveAt(q, k)[i] = IF i < k THEN q[i] ELSE q[i + 1]
<1> DEFINE front == SubSeq(q, 1, k - 1)
           back  == SubSeq(q, k + 1, Len(q))
<1>1. Len(q) \in Nat /\ k \in Int /\ \A i \in 1 .. Len(q) : q[i] \in S
  OBVIOUS
<1>2. /\ front \in Seq(S) /\ Len(front) = k - 1
      /\ \A i \in 1 .. k - 1 : front[i] = q[i]
  <2>1. \A i \in 1 .. k - 1 : q[i] \in S
    BY <1>1
  <2>2. /\ front \in Seq(S)
        /\ Len(front) = IF 1 <= k - 1 THEN k - 1 - 1 + 1 ELSE 0
        /\ \A i \in 1 .. k - 1 - 1 + 1 : front[i] = q[1 + i - 1]
    BY <1>1, <2>1, SubSeqProperties
  <2> HIDE DEF front
  <2> QED
    BY <1>1, <2>2
<1>3. /\ back \in Seq(S) /\ Len(back) = Len(q) - k
      /\ \A i \in 1 .. Len(q) - k : back[i] = q[k + i]
  <2>1. (\A i \in k + 1 .. Len(q) : q[i] \in S) /\ k + 1 \in Int
    BY <1>1
  <2>2. /\ back \in Seq(S)
        /\ Len(back) = IF k + 1 <= Len(q) THEN Len(q) - (k + 1) + 1 ELSE 0
        /\ \A i \in 1 .. Len(q) - (k + 1) + 1 : back[i] = q[k + 1 + i - 1]
    BY <1>1, <2>1, SubSeqProperties
  <2> HIDE DEF back
  <2> QED
    BY <1>1, <2>2
<1>4. RemoveAt(q, k) = front \o back
  BY DEF RemoveAt
<1> HIDE DEF front, back
<1>5. /\ front \o back \in Seq(S)
      /\ Len(front \o back) = Len(front) + Len(back)
      /\ \A i \in 1 .. Len(front) + Len(back) : (front \o back)[i] =
           IF i <= Len(front) THEN front[i] ELSE back[i - Len(front)]
  BY <1>2, <1>3, ConcatProperties
<1>6. Len(front) + Len(back) = Len(q) - 1
  BY <1>1, <1>2, <1>3
<1>7. ASSUME NEW i \in 1 .. Len(q) - 1
      PROVE  (front \o back)[i] = IF i < k THEN q[i] ELSE q[i + 1]
  <2>1. (front \o back)[i] = IF i <= k - 1 THEN front[i] ELSE back[i - (k - 1)]
    BY <1>2, <1>5, <1>6
  <2>2. CASE i < k
    <3>1. i \in 1 .. k - 1 /\ i <= k - 1
      BY <2>2, <1>1
    <3> QED
      BY <3>1, <2>1, <2>2, <1>2
  <2>3. CASE i >= k
    <3>1. i - (k - 1) \in 1 .. Len(q) - k /\ k + (i - (k - 1)) = i + 1 /\ ~ (i <= k - 1)
      BY <2>3, <1>1
    <3>2. back[i - (k - 1)] = q[i + 1]
      BY <3>1, <1>3
    <3> QED
      BY <2>1, <2>3, <3>1, <3>2, <1>1
  <2>4. i < k \/ i >= k
    BY <1>1
  <2> QED
    BY <2>2, <2>3, <2>4, Zenon
<1> QED
  BY <1>4, <1>5, <1>6, <1>7

\* Every non-empty set of naturals has a least element.
LEMMA Least ==
  ASSUME NEW T \in SUBSET Nat, T # {}
  PROVE  \E x \in T : \A y \in T : x <= y
<1> DEFINE R == {p \in Nat \X Nat : p[1] < p[2]}
<1>1. IsWellFoundedOn(R, Nat)
  BY NatLessThanWellFounded DEF OpToRel
<1>2. \A x, y \in Nat : y < x => <<y, x>> \in R
  OBVIOUS
<1> HIDE DEF R
<1>3. PICK x \in T : \A y \in T : ~ (<<y, x>> \in R)
  BY <1>1, WFMin
<1>4. \A y \in T : ~ (y < x)
  BY <1>2, <1>3
<1> QED
  BY <1>4
-----------------------------------------------------------------------------
(* The timer list.                                                         *)

Entry == [task : Task, due : Int, kind : Kinds]

\* The entry at i is the timer of that kind that t owns.
Is(list, i, t, kind) == list[i].task = t /\ list[i].kind = kind

Has(list, t, kind) == \E i \in 1 .. Len(list) : Is(list, i, t, kind)

\* Nobody has two timeouts.
Single(list) ==
  \A t \in Task : \A i, j \in 1 .. Len(list) : Is(list, i, t, "timeout") /\ Is(list, j, t, "timeout") => i = j

LEMMA InsertKeeps ==
  ASSUME NEW list \in Seq(Entry), NEW e \in Entry, Single(list), e.kind = "timeout" => ~ Has(list, e.task, "timeout")
  PROVE  /\ Insert(list, e) \in Seq(Entry) /\ Single(Insert(list, e))
         /\ \A t \in Task : Has(Insert(list, e), t, "timeout") <=>
              Has(list, t, "timeout") \/ (e.task = t /\ e.kind = "timeout")
<1> DEFINE later == {i \in 1 .. Len(list) : list[i].due > e.due}
           at == IF later = {} THEN Len(list) + 1 ELSE CHOOSE i \in later : \A j \in later : i <= j
           n == Len(list)
           r == InsertAt(list, at, e)
<1>1. n \in Nat
  OBVIOUS
<1>2. at \in 1 .. n + 1
  <2>1. later \in SUBSET Nat /\ \A i \in later : i \in 1 .. n + 1
    BY <1>1
  <2>2. later # {} => \E i \in later : \A j \in later : i <= j
    <3> HIDE DEF later
    <3> QED
      BY <2>1, Least
  <2>3. CASE later = {}
    BY <1>1, <2>3
  <2>4. CASE later # {}
    <3> DEFINE least == CHOOSE i \in later : \A j \in later : i <= j
    <3>1. least \in later
      BY <2>2, <2>4, Zenon
    <3>2. at = least
      BY <2>4, Zenon
    <3> HIDE DEF least, later, at
    <3> QED
      BY <2>1, <3>1, <3>2
  <2> HIDE DEF later, at
  <2> QED
    BY <2>3, <2>4
<1>3. Insert(list, e) = r
  BY DEF Insert
<1> HIDE DEF at
<1>4. /\ r \in Seq(Entry) /\ Len(r) = n + 1
      /\ \A i \in 1 .. n + 1 : r[i] = IF i < at THEN list[i] ELSE IF i = at THEN e ELSE list[i - 1]
  BY <1>2, InsertFacts
<1> HIDE DEF r
<1>5. ASSUME NEW i \in 1 .. n + 1, i # at
      PROVE  \E m \in 1 .. n : r[i] = list[m] /\ m = (IF i < at THEN i ELSE i - 1)
  <2>1. CASE i < at
    BY <1>1, <1>2, <1>4, <2>1
  <2>2. CASE i > at
    <3>1. i - 1 \in 1 .. n /\ ~ (i < at) /\ i # at
      BY <1>1, <1>2, <2>2
    <3> QED
      BY <1>4, <3>1
  <2> QED
    BY <1>1, <1>2, <1>5, <2>1, <2>2
<1>6. r[at] = e
  BY <1>1, <1>2, <1>4
<1>7. ASSUME NEW m \in 1 .. n PROVE \E i \in 1 .. n + 1 : r[i] = list[m]
  <2>1. CASE m < at
    BY <1>1, <1>4, <2>1
  <2>2. CASE m >= at
    <3>1. m + 1 \in 1 .. n + 1 /\ ~ (m + 1 < at) /\ m + 1 # at /\ m + 1 - 1 = m
      BY <1>1, <1>2, <2>2
    <3> QED
      BY <1>4, <3>1
  <2> QED
    BY <1>1, <1>2, <2>1, <2>2
<1>8. Single(r)
  <2> SUFFICES ASSUME NEW t \in Task, NEW i \in 1 .. n + 1, NEW j \in 1 .. n + 1,
                      Is(r, i, t, "timeout"), Is(r, j, t, "timeout")
               PROVE  i = j
    BY <1>4 DEF Single
  <2>1. CASE i = at /\ j # at
    BY <1>5, <1>6, <2>1 DEF Is, Has
  <2>2. CASE i # at /\ j = at
    BY <1>5, <1>6, <2>2 DEF Is, Has
  <2>3. CASE i # at /\ j # at
    <3>1. PICK m \in 1 .. n : r[i] = list[m] /\ m = (IF i < at THEN i ELSE i - 1)
      BY <1>5, <2>3
    <3>2. PICK l \in 1 .. n : r[j] = list[l] /\ l = (IF j < at THEN j ELSE j - 1)
      BY <1>5, <2>3
    <3>3. m = l
      BY <3>1, <3>2 DEF Is, Single
    <3> QED
      BY <1>1, <1>2, <2>3, <3>1, <3>2, <3>3
  <2> QED
    BY <2>1, <2>2, <2>3
<1>9. \A t \in Task : Has(r, t, "timeout") <=> Has(list, t, "timeout") \/ (e.task = t /\ e.kind = "timeout")
  <2> TAKE t \in Task
  <2>1. ASSUME Has(r, t, "timeout") PROVE Has(list, t, "timeout") \/ (e.task = t /\ e.kind = "timeout")
    <3>1. PICK i \in 1 .. n + 1 : Is(r, i, t, "timeout")
      BY <1>4, <2>1 DEF Has
    <3>2. CASE i = at
      BY <1>6, <3>1, <3>2 DEF Is
    <3>3. CASE i # at
      <4>1. PICK m \in 1 .. n : r[i] = list[m]
        BY <1>5, <3>3
      <4> QED
        BY <3>1, <4>1 DEF Has, Is
    <3> QED
      BY <3>2, <3>3
  <2>2. ASSUME Has(list, t, "timeout") PROVE Has(r, t, "timeout")
    <3>1. PICK m \in 1 .. n : Is(list, m, t, "timeout")
      BY <2>2 DEF Has
    <3>2. PICK i \in 1 .. n + 1 : r[i] = list[m]
      BY <1>7
    <3> QED
      BY <1>4, <3>1, <3>2 DEF Has, Is
  <2>3. ASSUME e.task = t, e.kind = "timeout" PROVE Has(r, t, "timeout")
    BY <1>2, <1>4, <1>6, <2>3 DEF Has, Is
  <2> QED
    BY <2>1, <2>2, <2>3
<1> QED
  BY <1>3, <1>4, <1>8, <1>9

\* Taking one entry off the list.
LEMMA TakenOff ==
  ASSUME NEW list \in Seq(Entry), Single(list), NEW k \in 1 .. Len(list),
         NEW r \in Seq(Entry), Len(r) = Len(list) - 1,
         \A i \in 1 .. Len(list) - 1 : r[i] = IF i < k THEN list[i] ELSE list[i + 1]
  PROVE  /\ Single(r)
         /\ \A t \in Task : Has(r, t, "timeout") <=> Has(list, t, "timeout") /\ ~ Is(list, k, t, "timeout")
<1> DEFINE n == Len(list)
<1>1. n \in Nat
  OBVIOUS
<1>2. ASSUME NEW i \in 1 .. n - 1
      PROVE  \E m \in 1 .. n : r[i] = list[m] /\ m # k /\ m = (IF i < k THEN i ELSE i + 1)
  <2>1. CASE i < k
    BY <1>1, <2>1
  <2>2. CASE i >= k
    <3>1. i + 1 \in 1 .. n /\ ~ (i < k) /\ i + 1 # k
      BY <1>1, <2>2
    <3> QED
      BY <3>1
  <2> QED
    BY <1>1, <2>1, <2>2
<1>3. ASSUME NEW m \in 1 .. n, m # k PROVE \E i \in 1 .. n - 1 : r[i] = list[m]
  <2>1. CASE m < k
    <3>1. m \in 1 .. n - 1
      BY <1>1, <2>1
    <3> QED
      BY <2>1, <3>1
  <2>2. CASE m > k
    <3>1. m - 1 \in 1 .. n - 1 /\ ~ (m - 1 < k) /\ m - 1 + 1 = m
      BY <1>1, <2>2
    <3> QED
      BY <3>1
  <2> QED
    BY <1>1, <1>3, <2>1, <2>2
<1>4. Single(r)
  <2> SUFFICES ASSUME NEW t \in Task, NEW i \in 1 .. n - 1, NEW j \in 1 .. n - 1,
                      Is(r, i, t, "timeout"), Is(r, j, t, "timeout")
               PROVE  i = j
    BY DEF Single
  <2>1. PICK m \in 1 .. n : r[i] = list[m] /\ m # k /\ m = (IF i < k THEN i ELSE i + 1)
    BY <1>2
  <2>2. PICK l \in 1 .. n : r[j] = list[l] /\ l # k /\ l = (IF j < k THEN j ELSE j + 1)
    BY <1>2
  <2>3. m = l
    BY <2>1, <2>2 DEF Is, Single
  <2> QED
    BY <1>1, <2>1, <2>2, <2>3
<1>5. ASSUME NEW t \in Task
      PROVE  Has(r, t, "timeout") <=> Has(list, t, "timeout") /\ ~ Is(list, k, t, "timeout")
  <2>1. ASSUME Has(r, t, "timeout") PROVE Has(list, t, "timeout") /\ ~ Is(list, k, t, "timeout")
    <3>1. PICK i \in 1 .. n - 1 : Is(r, i, t, "timeout")
      BY <2>1 DEF Has
    <3>2. PICK m \in 1 .. n : r[i] = list[m] /\ m # k
      BY <1>2
    <3> QED
      BY <3>1, <3>2 DEF Has, Is, Single
  <2>2. ASSUME Has(list, t, "timeout"), ~ Is(list, k, t, "timeout") PROVE Has(r, t, "timeout")
    <3>1. PICK m \in 1 .. n : Is(list, m, t, "timeout")
      BY <2>2 DEF Has
    <3>2. m # k
      BY <2>2, <3>1
    <3> QED
      BY <1>3, <3>1, <3>2 DEF Has, Is
  <2> QED
    BY <2>1, <2>2
<1> QED
  BY <1>4, <1>5

\* timer_put: the entry that Without takes off is the first of its kind.
LEMMA WithoutFacts ==
  ASSUME NEW list \in Seq(Entry), Single(list), NEW t, NEW kind \in Kinds
  PROVE  LET w == Without(list, t, kind)
         IN  /\ w \in Seq(Entry) /\ Single(w)
             /\ \A u \in Task : Has(w, u, "timeout") <=>
                  Has(list, u, "timeout") /\ (kind = "timeout" => u # t)
<1> DEFINE I == {i \in 1 .. Len(list) : list[i].task = t /\ list[i].kind = kind}
           k == CHOOSE x \in I : \A y \in I : x =< y
<1>1. CASE ~ Has(list, t, kind)
  <2>1. Without(list, t, kind) = list
    BY <1>1 DEF Without, RemoveFirstMatch, Has, Is
  <2> QED
    BY <1>1, <2>1 DEF Has, Is
<1>2. CASE Has(list, t, kind)
  <2>1. I # {} /\ I \in SUBSET Nat
    BY <1>2 DEF Has, Is
  <2>2. k \in I
    <3> HIDE DEF I
    <3> QED
      BY <2>1, Least
  <2>3. Without(list, t, kind) = RemoveAt(list, k)
    BY <1>2, <2>1 DEF Without, RemoveFirstMatch, SelectInSeq, Min, Has, Is
  <2>4. k \in 1 .. Len(list) /\ Is(list, k, t, kind)
    BY <2>2 DEF Is
  <2> HIDE DEF k, I
  <2> DEFINE w == RemoveAt(list, k)
  <2>5. /\ w \in Seq(Entry) /\ Len(w) = Len(list) - 1
        /\ \A i \in 1 .. Len(list) - 1 : w[i] = IF i < k THEN list[i] ELSE list[i + 1]
    BY <2>4, RemoveFacts
  <2> HIDE DEF w
  <2>6. /\ Single(w)
        /\ \A u \in Task : Has(w, u, "timeout") <=> Has(list, u, "timeout") /\ ~ Is(list, k, u, "timeout")
    BY <2>4, <2>5, TakenOff
  <2>7. \A u \in Task : Has(list, u, "timeout") /\ ~ Is(list, k, u, "timeout") <=>
          Has(list, u, "timeout") /\ (kind = "timeout" => u # t)
    BY <2>4 DEF Is
  <2>8. Without(list, t, kind) = w
    BY <2>3 DEF w
  <2> QED
    BY <2>5, <2>6, <2>7, <2>8
<1> QED
  BY <1>1, <1>2

\* timer_wakeup takes the head.
LEMMA TailFacts ==
  ASSUME NEW list \in Seq(Entry), Single(list), list # <<>>
  PROVE  /\ Tail(list) \in Seq(Entry) /\ Single(Tail(list))
         /\ Head(list) \in Entry
         /\ \A u \in Task : Has(Tail(list), u, "timeout") <=>
              Has(list, u, "timeout") /\ ~ (Head(list).task = u /\ Head(list).kind = "timeout")
<1>1. Len(list) \in Nat /\ Len(list) > 0 /\ Head(list) = list[1] /\ list[1] \in Entry
  BY EmptySeq
<1>2. /\ Tail(list) \in Seq(Entry) /\ Len(Tail(list)) = Len(list) - 1
      /\ \A i \in 1 .. Len(list) - 1 : Tail(list)[i] = list[i + 1]
  OBVIOUS
<1> DEFINE r == Tail(list)
<1>3. 1 \in 1 .. Len(list) /\ \A i \in 1 .. Len(list) - 1 : r[i] = IF i < 1 THEN list[i] ELSE list[i + 1]
  BY <1>1, <1>2
<1>4. /\ Single(r)
      /\ \A t \in Task : Has(r, t, "timeout") <=> Has(list, t, "timeout") /\ ~ Is(list, 1, t, "timeout")
  <2> HIDE DEF r
  <2> r \in Seq(Entry) /\ Len(r) = Len(list) - 1
    BY <1>2 DEF r
  <2> QED
    BY <1>3, TakenOff
<1> QED
  BY <1>1, <1>2, <1>4 DEF Is

\* jiffies++ changes nobody's ownership.
LEMMA AgedFacts ==
  ASSUME NEW list \in Seq(Entry), Single(list)
  PROVE  LET a == [i \in DOMAIN list |-> [list[i] EXCEPT !.due = @ - 1]]
         IN  /\ a \in Seq(Entry) /\ Single(a)
             /\ \A u \in Task : Has(a, u, "timeout") <=> Has(list, u, "timeout")
<1> DEFINE a == [i \in DOMAIN list |-> [list[i] EXCEPT !.due = @ - 1]]
<1>1. DOMAIN list = 1 .. Len(list) /\ Len(list) \in Nat
  OBVIOUS
<1>2. ASSUME NEW i \in 1 .. Len(list)
      PROVE  a[i] \in Entry /\ a[i].task = list[i].task /\ a[i].kind = list[i].kind
  <2>1. list[i] \in Entry
    OBVIOUS
  <2>2. a[i] = [list[i] EXCEPT !.due = @ - 1]
    BY <1>1
  <2> QED
    BY SMTT(60), <2>1, <2>2 DEF Entry
<1>3. DOMAIN a = 1 .. Len(list)
  BY <1>1
<1> HIDE DEF a
<1>4. a \in Seq(Entry) /\ Len(a) = Len(list)
  <2>1. a = [i \in 1 .. Len(list) |-> a[i]]
    BY <1>1 DEF a
  <2>2. a \in [1 .. Len(list) -> Entry]
    BY <1>2, <2>1
  <2> QED
    BY <1>1, <2>2
<1>5. Single(a) /\ \A u \in Task : Has(a, u, "timeout") <=> Has(list, u, "timeout")
  BY SMTT(60), <1>2, <1>4 DEF Single, Has, Is
<1> QED
  BY <1>4, <1>5 DEF a
-----------------------------------------------------------------------------
(* task_search.                                                            *)

\* One turn of the loop of task_search, at entry i with candidate c.
Better(s, tk, la, c, i) ==
  IF i \in Others(s) /\ (c = -1 \/ tk[c] < tk[i] \/ la[i] < la[c]) THEN i ELSE c

\* f is the run of that loop over the first n entries.
IsScan(f, n, s, tk, la) ==
  f = [i \in -1 .. n - 1 |-> IF i = -1 THEN -1 ELSE Better(s, tk, la, f[i - 1], i)]

LEMMA ScanExists ==
  ASSUME NEW s, NEW tk, NEW la
  PROVE  \E f : IsScan(f, Slots, s, tk, la)
<1> DEFINE bad == {n \in Nat : ~ \E f : IsScan(f, n, s, tk, la)}
<1>1. ASSUME NEW n \in bad PROVE \E k \in bad : ~ (n <= k)
  <2>1. n # 0
    <3> DEFINE f == [i \in {-1} |-> -1]
    <3>1. -1 .. 0 - 1 = {-1}
      OBVIOUS
    <3>2. IsScan(f, 0, s, tk, la)
      BY <3>1 DEF IsScan
    <3> QED
      BY <3>2
  <2>2. n \in Nat /\ n - 1 \in Nat /\ ~ (n <= n - 1)
    BY <2>1
  <2>3. ASSUME NEW f, IsScan(f, n - 1, s, tk, la) PROVE FALSE
    <3> DEFINE b == Better(s, tk, la, f[n - 2], n - 1)
               g == [i \in -1 .. n - 1 |-> IF i = n - 1 THEN b ELSE f[i]]
    <3>1. \A i \in -1 .. n - 1 - 1 :
            f[i] = IF i = -1 THEN -1 ELSE Better(s, tk, la, f[i - 1], i)
      <4> DEFINE F(h, m) == [i \in -1 .. m |-> IF i = -1 THEN -1 ELSE Better(s, tk, la, h[i - 1], i)]
      <4>1. f = F(f, n - 1 - 1)
        BY <2>3 DEF IsScan
      <4>2. \A h, m : \A i \in -1 .. m : F(h, m)[i] = IF i = -1 THEN -1 ELSE Better(s, tk, la, h[i - 1], i)
        OBVIOUS
      <4> HIDE DEF F
      <4> QED
        BY <4>1, <4>2
    <3> HIDE DEF b
    <3>2. ASSUME NEW i \in -1 .. n - 1
          PROVE  g[i] = IF i = -1 THEN -1 ELSE Better(s, tk, la, g[i - 1], i)
      <4>1. CASE i = n - 1
        <5>1. g[n - 2] = f[n - 2] /\ i # -1 /\ i - 1 = n - 2
          BY <2>2, <4>1
        <5> QED
          BY <4>1, <5>1 DEF b
      <4>2. CASE i # n - 1
        <5>1. i \in -1 .. n - 1 - 1 /\ (i # -1 => i - 1 \in -1 .. n - 1 /\ i - 1 # n - 1)
          BY <2>2, <4>2
        <5>2. g[i] = f[i] /\ (i # -1 => g[i - 1] = f[i - 1])
          BY <4>2, <5>1
        <5> HIDE DEF g
        <5> QED
          BY <3>1, <5>1, <5>2
      <4> QED
        BY <4>1, <4>2
    <3>3. g = [i \in -1 .. n - 1 |-> g[i]]
      OBVIOUS
    <3> HIDE DEF g
    <3>4. IsScan(g, n, s, tk, la)
      BY <3>2, <3>3 DEF IsScan
    <3> QED
      BY <3>4
  <2>4. n - 1 \in bad
    BY <2>2, <2>3
  <2> QED
    BY <2>2, <2>4
<1>2. bad = {}
  <2>1. bad \in SUBSET Nat
    OBVIOUS
  <2> HIDE DEF bad
  <2> QED
    BY <1>1, <2>1, Least
<1> QED
  BY <1>2, SchedAssumption

\* task_search returns a ready task, or idle when there is no other.
LEMMA SearchFacts ==
  ASSUME NEW s, NEW tk, NEW la
  PROVE  Search(s, tk, la) \in Others(s) \cup {Idle}
<1> DEFINE scan == CHOOSE f : IsScan(f, Slots, s, tk, la)
<1>1. IsScan(scan, Slots, s, tk, la)
  BY ScanExists
<1>2. Search(s, tk, la) = IF Others(s) = {} THEN Idle ELSE scan[Slots - 1]
  BY DEF Search, IsScan, Better
<1>3. Slots \in Nat \ {0} /\ Others(s) \subseteq 0 .. Slots - 1
  BY SchedAssumption DEF Others, Task
<1> HIDE DEF scan
<1>4. \A i \in -1 .. Slots - 1 :
        scan[i] = IF i = -1 THEN -1 ELSE Better(s, tk, la, scan[i - 1], i)
  <2> DEFINE F(h) == [i \in -1 .. Slots - 1 |-> IF i = -1 THEN -1 ELSE Better(s, tk, la, h[i - 1], i)]
  <2>1. scan = F(scan)
    BY <1>1 DEF IsScan
  <2>2. \A h : \A i \in -1 .. Slots - 1 : F(h)[i] = IF i = -1 THEN -1 ELSE Better(s, tk, la, h[i - 1], i)
    OBVIOUS
  <2> HIDE DEF F
  <2> QED
    BY <2>1, <2>2
<1> DEFINE Right(i) == \/ scan[i] \in Others(s)
                       \/ scan[i] = -1 /\ \A j \in 0 .. i : j \notin Others(s)
           bad == {n \in 0 .. Slots : ~ Right(n - 1)}
<1>5. ASSUME NEW n \in bad PROVE \E k \in bad : ~ (n <= k)
  <2>1. n # 0
    <3>1. Right(-1)
      BY <1>3, <1>4
    <3> QED
      BY <3>1
  <2>2. n \in Nat /\ n - 1 \in 0 .. Slots - 1 /\ ~ (n <= n - 1) /\ n - 1 # -1 /\ n - 1 - 1 = n - 2
    BY <1>3, <2>1
  <2>3. scan[n - 1] = Better(s, tk, la, scan[n - 2], n - 1)
    BY <1>3, <1>4, <2>2
  <2>4. ASSUME Right(n - 2) PROVE Right(n - 1)
    <3>1. CASE scan[n - 2] \in Others(s)
      BY <2>3, <3>1 DEF Better
    <3>2. CASE scan[n - 2] = -1 /\ \A j \in 0 .. n - 2 : j \notin Others(s)
      <4>1. CASE n - 1 \in Others(s)
        BY <2>3, <3>2, <4>1 DEF Better
      <4>2. CASE n - 1 \notin Others(s)
        <5>1. scan[n - 1] = -1
          BY <2>3, <3>2, <4>2 DEF Better
        <5>2. \A j \in 0 .. n - 1 : j = n - 1 \/ j \in 0 .. n - 2
          BY <2>2
        <5> QED
          BY <3>2, <4>2, <5>1, <5>2
      <4> QED
        BY <4>1, <4>2
    <3> QED
      BY <2>4, <3>1, <3>2
  <2>5. ~ Right(n - 1)
    OBVIOUS
  <2> HIDE DEF Right
  <2>6. ~ Right(n - 1 - 1)
    BY <2>2, <2>4, <2>5
  <2>7. n - 1 \in bad
    <3>1. n - 1 \in 0 .. Slots
      BY <1>3, <2>2
    <3> QED
      BY <2>6, <3>1
  <2> QED
    BY <2>2, <2>7
<1>6. bad = {}
  <2>1. bad \in SUBSET Nat
    BY <1>3
  <2> HIDE DEF bad
  <2> QED
    BY <1>5, <2>1, Least
<1>7. Right(Slots - 1)
  <2>1. Slots \in 0 .. Slots
    BY <1>3
  <2> HIDE DEF Right
  <2> QED
    BY <1>6, <2>1
<1> QED
  BY <1>2, <1>3, <1>7
-----------------------------------------------------------------------------
(* Who owns a timeout.                                                     *)

\* A timer list whose timeouts are exactly those that task->timer names.
Owned(list) ==
  /\ list \in Seq(Entry)
  /\ Single(list)
  /\ \A t \in Task : Has(list, t, "timeout") <=> timer[t]

\* The types of what the waits are made of.
Typed ==
  /\ state \in [Task -> States]
  /\ linked \in [Task -> BOOLEAN]
  /\ timer \in [Task -> BOOLEAN]
  /\ cur \in Task

\* What a wait is: off the run queue and in a waiting list, the only place
\* where a task has a timeout.  The running task and idle are never in one.
Waits ==
  /\ \A t \in Task : linked[t] <=> state[t] \in Blocked
  /\ \A t \in Task : timer[t] => linked[t]
  /\ \A t \in Task : state[t] = "RUNNING" <=> t = cur
  /\ ~ linked[Idle]

SchedInv == Typed /\ Waits /\ Owned(timers)

\* The states a schedule() leaves.
LEMMA ScheduleFacts ==
  ASSUME NEW s \in [Task -> States], NEW tk, NEW la, Schedule(s, tk, la), cur \in Task,
         \A t \in Task : s[t] = "RUNNING" => t = cur, s[Idle] \notin Blocked
  PROVE  /\ state' \in [Task -> States] /\ cur' \in Task
         /\ \A t \in Task : state'[t] = "RUNNING" <=> t = cur'
         /\ \A t \in Task : state'[t] \in Blocked <=> s[t] \in Blocked
<1> DEFINE left == [s EXCEPT ![cur] = IF @ = "RUNNING" THEN "READY" ELSE @]
<1>1. PICK n : n = Search(s, tk, la)
  OBVIOUS
<1>2. cur' = n /\ state' = [left EXCEPT ![n] = "RUNNING"]
  BY <1>1 DEF Schedule
<1>3. Idle \in Task
  BY SchedAssumption DEF Idle, Task
<1>4. n \in Task /\ (n = Idle \/ s[n] = "READY")
  BY <1>1, <1>3, SearchFacts DEF Others
<1>5. /\ left \in [Task -> States]
      /\ \A t \in Task : left[t] = IF t = cur /\ s[t] = "RUNNING" THEN "READY" ELSE s[t]
  BY DEF States
<1> HIDE DEF left
<1>6. /\ state' \in [Task -> States]
      /\ \A t \in Task : state'[t] = IF t = n THEN "RUNNING" ELSE left[t]
  BY <1>2, <1>4, <1>5 DEF States
<1>7. s[n] \notin Blocked
  BY <1>4 DEF Blocked
<1> QED
  BY <1>2, <1>4, <1>5, <1>6, <1>7 DEF Blocked

\* Inserting a timer for somebody who has none, or an alarm.
LEMMA TimerAdded ==
  ASSUME SchedInv, NEW list, Owned(list), NEW d \in Int, NEW kind \in Kinds, kind = "timeout" => ~ timer[cur]
  PROVE  /\ TimerAdd(list, d, kind) \in Seq(Entry) /\ Single(TimerAdd(list, d, kind))
         /\ \A t \in Task : Has(TimerAdd(list, d, kind), t, "timeout") <=>
              timer[t] \/ (t = cur /\ kind = "timeout")
<1> DEFINE e == [task |-> cur, due |-> d, kind |-> kind]
<1>1. e \in Entry /\ e.task = cur /\ e.kind = kind
  BY DEF Entry, SchedInv, Typed
<1>2. e.kind = "timeout" => ~ Has(list, e.task, "timeout")
  BY <1>1 DEF Owned, SchedInv, Typed
<1>3. TimerAdd(list, d, kind) = Insert(list, e)
  BY DEF TimerAdd
<1> HIDE DEF e
<1>4. /\ Insert(list, e) \in Seq(Entry) /\ Single(Insert(list, e))
      /\ \A t \in Task : Has(Insert(list, e), t, "timeout") <=>
              Has(list, t, "timeout") \/ (e.task = t /\ e.kind = "timeout")
  BY <1>1, <1>2, InsertKeeps DEF Owned
<1> QED
  BY <1>1, <1>3, <1>4 DEF Owned

\* task_unblock of a task that waits.
LEMMA UnblockKeeps ==
  ASSUME SchedInv, NEW t \in Task, state[t] \in Blocked, NEW list, Owned(list),
         Unblock(t, list), UNCHANGED cur
  PROVE  SchedInv'
<1>1. t # cur
  BY DEF SchedInv, Typed, Waits, Blocked
<1>2. Typed'
  BY DEF SchedInv, Typed, Unblock, States
<1>3. /\ \A u \in Task : state'[u] = IF u = t THEN "READY" ELSE state[u]
      /\ \A u \in Task : linked'[u] = IF u = t THEN FALSE ELSE linked[u]
      /\ \A u \in Task : timer'[u] = IF u = t THEN FALSE ELSE timer[u]
  BY DEF SchedInv, Typed, Unblock
<1>4. Waits'
  <2> Idle \in Task
    BY SchedAssumption DEF Idle, Task
  <2> QED
    BY <1>1, <1>3 DEF SchedInv, Waits, Blocked
<1>5. Owned(timers)'
  <2>1. CASE timer[t]
    <3>1. timers' = Without(list, t, "timeout")
      BY <2>1 DEF Unblock
    <3>2. /\ Without(list, t, "timeout") \in Seq(Entry) /\ Single(Without(list, t, "timeout"))
          /\ \A u \in Task : Has(Without(list, t, "timeout"), u, "timeout") <=> Has(list, u, "timeout") /\ u # t
      BY WithoutFacts DEF Owned, Kinds
    <3> QED
      BY <1>3, <3>1, <3>2 DEF Owned
  <2>2. CASE ~ timer[t]
    BY <1>3, <2>2 DEF Unblock, Owned
  <2> QED
    BY <2>1, <2>2
<1> QED
  BY <1>2, <1>4, <1>5 DEF SchedInv

\* sys_kill and task_alarm.
LEMMA SignalKeeps ==
  ASSUME SchedInv, NEW t \in Task, NEW list, Owned(list), Signal(t, list), UNCHANGED cur
  PROVE  SchedInv'
<1>1. CASE state[t] \in {"WAITING", "SLEEPING"}
  <2>1. Unblock(t, list) /\ state[t] \in Blocked
    BY <1>1 DEF Signal, Blocked
  <2> QED
    BY <2>1, UnblockKeeps
<1>2. CASE state[t] \notin {"WAITING", "SLEEPING"}
  <2>1. timers' = list /\ UNCHANGED <<state, linked, timer, cur>>
    BY <1>2 DEF Signal
  <2> QED
    BY <2>1 DEF SchedInv, Typed, Waits, Owned
<1> QED
  BY <1>1, <1>2

\* The yields of the running task and of the clock: nothing but who runs.
LEMMA YieldKeeps ==
  ASSUME SchedInv, NEW tk, NEW la, Schedule(state, tk, la), UNCHANGED <<linked, timer, timers>>
  PROVE  SchedInv'
<1>1. /\ state \in [Task -> States] /\ cur \in Task
      /\ \A t \in Task : state[t] = "RUNNING" => t = cur
  BY DEF SchedInv, Typed, Waits
<1>2. state[Idle] \notin Blocked
  BY SchedAssumption DEF SchedInv, Waits, Idle, Task
<1>3. /\ state' \in [Task -> States] /\ cur' \in Task
      /\ \A t \in Task : state'[t] = "RUNNING" <=> t = cur'
      /\ \A t \in Task : state'[t] \in Blocked <=> state[t] \in Blocked
  BY <1>1, <1>2, ScheduleFacts
<1>4. Typed'
  BY <1>3 DEF SchedInv, Typed
<1>5. Waits'
  BY <1>3 DEF SchedInv, Waits
<1>6. Owned(timers)'
  BY DEF SchedInv, Owned
<1> QED
  BY <1>4, <1>5, <1>6 DEF SchedInv

\* task_block.
LEMMA BlockKeeps ==
  ASSUME SchedInv, NEW s \in Blocked, NEW d \in Int, Block(s, d)
  PROVE  SchedInv'
<1> DEFINE left == [state EXCEPT ![cur] = s]
<1>1. /\ left \in [Task -> States]
      /\ \A t \in Task : left[t] = IF t = cur THEN s ELSE state[t]
  BY DEF SchedInv, Typed, States
<1>2. cur \in Task /\ cur # Idle /\ Idle \in Task /\ s \in Blocked
  BY SchedAssumption DEF SchedInv, Typed, Block, Idle, Task
<1>3. (\A t \in Task : left[t] = "RUNNING" => t = cur) /\ left[Idle] \notin Blocked
  BY <1>1, <1>2 DEF SchedInv, Waits
<1>4. Schedule(left, ticks, last)
  BY DEF Block
<1> HIDE DEF left
<1>5. /\ state' \in [Task -> States] /\ cur' \in Task
      /\ \A t \in Task : state'[t] = "RUNNING" <=> t = cur'
      /\ \A t \in Task : state'[t] \in Blocked <=> left[t] \in Blocked
  BY <1>1, <1>2, <1>3, <1>4, ScheduleFacts
<1>6. \A t \in Task : state'[t] \in Blocked <=> t = cur \/ state[t] \in Blocked
  BY <1>1, <1>2, <1>5
<1>7. /\ linked' \in [Task -> BOOLEAN]
      /\ \A t \in Task : linked'[t] = IF t = cur THEN TRUE ELSE linked[t]
  BY DEF Block, SchedInv, Typed
<1>8. ~ timer[cur] /\ timer \in [Task -> BOOLEAN]
  BY <1>2 DEF SchedInv, Waits, Typed, Blocked
<1>9. CASE d = TIMELESS
  <2>1. UNCHANGED <<timer, timers>>
    BY <1>9 DEF Block
  <2>2. Typed'
    BY <1>5, <1>7, <2>1 DEF SchedInv, Typed
  <2>3. Waits'
    BY <1>2, <1>5, <1>6, <1>7, <2>1 DEF SchedInv, Waits
  <2> QED
    BY <2>1, <2>2, <2>3 DEF SchedInv, Owned
<1>10. CASE d # TIMELESS
  <2>1. /\ timer' \in [Task -> BOOLEAN]
        /\ \A t \in Task : timer'[t] = IF t = cur THEN TRUE ELSE timer[t]
    BY <1>8, <1>10 DEF Block
  <2>2. timers' = TimerAdd(timers, d, "timeout")
    BY <1>10 DEF Block
  <2>3. Typed'
    BY <1>5, <1>7, <2>1 DEF SchedInv, Typed
  <2>4. Waits'
    BY <1>2, <1>5, <1>6, <1>7, <2>1 DEF SchedInv, Waits
  <2>5. /\ TimerAdd(timers, d, "timeout") \in Seq(Entry) /\ Single(TimerAdd(timers, d, "timeout"))
        /\ \A t \in Task : Has(TimerAdd(timers, d, "timeout"), t, "timeout") <=> timer[t] \/ t = cur
    <3>1. Owned(timers) /\ "timeout" \in Kinds
      BY DEF SchedInv, Kinds
    <3> QED
      BY <1>8, <3>1, TimerAdded
  <2> QED
    BY <2>1, <2>2, <2>3, <2>4, <2>5 DEF SchedInv, Owned
<1> QED
  BY <1>9, <1>10

\* sys_alarm.
LEMMA AlarmKeeps == ASSUME SchedInv, NEW d \in Int, Alarm(d) PROVE SchedInv'
<1> DEFINE rest == IF alarm[cur] THEN Without(timers, cur, "alarm") ELSE timers
<1>1. Owned(rest)
  <2>1. /\ Without(timers, cur, "alarm") \in Seq(Entry) /\ Single(Without(timers, cur, "alarm"))
        /\ \A u \in Task : Has(Without(timers, cur, "alarm"), u, "timeout") <=> Has(timers, u, "timeout")
    BY WithoutFacts DEF SchedInv, Owned, Kinds
  <2> QED
    BY <2>1 DEF SchedInv, Owned
<1>2. timers' = TimerAdd(rest, d, "alarm") /\ UNCHANGED <<state, linked, timer, cur>>
  BY DEF Alarm
<1> HIDE DEF rest
<1>3. /\ TimerAdd(rest, d, "alarm") \in Seq(Entry) /\ Single(TimerAdd(rest, d, "alarm"))
      /\ \A t \in Task : Has(TimerAdd(rest, d, "alarm"), t, "timeout") <=> timer[t]
  <2>1. "alarm" \in Kinds /\ "alarm" # "timeout"
    BY DEF Kinds
  <2> QED
    BY <1>1, <2>1, TimerAdded
<1> QED
  BY <1>2, <1>3 DEF SchedInv, Typed, Waits, Owned

\* jiffies++.
LEMMA TickKeeps == ASSUME SchedInv, Tick PROVE SchedInv'
<1>1. timers' = [i \in DOMAIN timers |-> [timers[i] EXCEPT !.due = @ - 1]]
      /\ UNCHANGED <<state, linked, timer, cur>>
  BY DEF Tick
<1>2. /\ timers' \in Seq(Entry) /\ Single(timers')
      /\ \A u \in Task : Has(timers', u, "timeout") <=> Has(timers, u, "timeout")
  BY <1>1, AgedFacts DEF SchedInv, Owned
<1> QED
  BY <1>1, <1>2 DEF SchedInv, Typed, Waits, Owned

\* default_timeout: its task is still in the wait that armed it.
LEMMA FireTimeoutKeeps == ASSUME SchedInv, FireTimeout PROVE SchedInv'
<1>1. PICK t : t = Head(timers).task
  OBVIOUS
<1>2. /\ timers # <<>> /\ Head(timers).kind = "timeout" /\ timers' = Tail(timers)
      /\ state'  = [state  EXCEPT ![t] = "READY"]
      /\ linked' = [linked EXCEPT ![t] = FALSE]
      /\ timer'  = [timer  EXCEPT ![t] = FALSE]
      /\ UNCHANGED cur
  BY <1>1 DEF FireTimeout, Due
<1>3. /\ Tail(timers) \in Seq(Entry) /\ Single(Tail(timers)) /\ Head(timers) \in Entry
      /\ \A u \in Task : Has(Tail(timers), u, "timeout") <=> Has(timers, u, "timeout") /\ u # t
  BY <1>1, <1>2, TailFacts DEF SchedInv, Owned
<1>4. t \in Task /\ timer[t]
  <2>1. t \in Task
    BY <1>1, <1>3 DEF Entry
  <2>2. Len(timers) \in Nat /\ 1 \in 1 .. Len(timers) /\ Head(timers) = timers[1]
    BY <1>2, EmptySeq DEF SchedInv, Owned
  <2>3. Has(timers, t, "timeout")
    BY <1>1, <1>2, <2>2 DEF Has, Is
  <2> QED
    BY <2>1, <2>3 DEF SchedInv, Owned
<1>5. t # cur
  BY <1>4 DEF SchedInv, Typed, Waits, Blocked
<1>6. Typed'
  BY <1>2, <1>4 DEF SchedInv, Typed, States
<1>7. /\ \A u \in Task : state'[u] = IF u = t THEN "READY" ELSE state[u]
      /\ \A u \in Task : linked'[u] = IF u = t THEN FALSE ELSE linked[u]
      /\ \A u \in Task : timer'[u] = IF u = t THEN FALSE ELSE timer[u]
  BY <1>2, <1>4 DEF SchedInv, Typed
<1>8. Waits'
  <2> Idle \in Task
    BY SchedAssumption DEF Idle, Task
  <2>1. cur' = cur
    BY <1>2
  <2> QED
    BY ZenonT(60), <2>1, <1>5, <1>7 DEF SchedInv, Waits, Blocked
<1>9. Owned(timers)'
  BY <1>2, <1>3, <1>7 DEF SchedInv, Owned
<1> QED
  BY <1>6, <1>8, <1>9 DEF SchedInv

\* task_alarm.
LEMMA FireAlarmKeeps == ASSUME SchedInv, FireAlarm PROVE SchedInv'
<1>1. PICK t : t = Head(timers).task
  OBVIOUS
<1>2. /\ timers # <<>> /\ Head(timers).kind = "alarm" /\ UNCHANGED cur
      /\ Signal(t, Tail(timers))
  BY <1>1 DEF FireAlarm, Due
<1>3. /\ Tail(timers) \in Seq(Entry) /\ Single(Tail(timers)) /\ Head(timers) \in Entry
      /\ \A u \in Task : Has(Tail(timers), u, "timeout") <=> Has(timers, u, "timeout")
  BY <1>1, <1>2, TailFacts DEF SchedInv, Owned
<1>4. t \in Task /\ Owned(Tail(timers))
  BY <1>1, <1>3 DEF SchedInv, Owned, Entry
<1> QED
  BY <1>2, <1>4, SignalKeeps

LEMMA SchedNext == ASSUME SchedInv, Next PROVE SchedInv'
<1>0. /\ Delays \subseteq Int /\ TIMELESS \in Int
      /\ {"BLOCKED", "SLEEPING", "WAITING"} \subseteq Blocked
  BY SchedAssumption DEF TIMELESS, Blocked
<1>1. CASE Yield
  BY <1>1, YieldKeeps DEF Yield
<1>2. CASE \E d \in Delays \cup {TIMELESS} : Sleep(d) \/ DeviceWait(d)
  BY <1>0, <1>2, BlockKeeps DEF Sleep, DeviceWait
<1>3. CASE Wait
  BY <1>0, <1>3, BlockKeeps DEF Wait
<1>4. CASE \E t \in Task : Wake(t)
  <2>1. PICK t \in Task : state[t] \in Blocked /\ Unblock(t, timers) /\ UNCHANGED cur
    BY <1>4 DEF Wake, Blocked
  <2> QED
    BY <2>1, UnblockKeeps DEF SchedInv
<1>5. CASE \E t \in Task : Kill(t)
  <2>1. PICK t \in Task : Signal(t, timers) /\ UNCHANGED cur
    BY <1>5 DEF Kill
  <2> QED
    BY <2>1, SignalKeeps DEF SchedInv
<1>6. CASE TaskSignal
  BY <1>6 DEF TaskSignal, SchedInv, Typed, Waits, Owned
<1>7. CASE \E d \in Delays : Alarm(d)
  BY <1>0, <1>7, AlarmKeeps
<1>8. CASE EndTick
  <2>1. CASE ticks[cur] = 1
    BY <1>8, <2>1, YieldKeeps DEF EndTick
  <2>2. CASE ticks[cur] # 1
    BY <1>8, <2>2 DEF EndTick, SchedInv, Typed, Waits, Owned
  <2> QED
    BY <2>1, <2>2
<1> QED
  BY <1>1, <1>2, <1>3, <1>4, <1>5, <1>6, <1>7, <1>8, TickKeeps, FireTimeoutKeeps, FireAlarmKeeps
     DEF Next

LEMMA SchedStarts == Init => SchedInv
<1> SUFFICES ASSUME Init PROVE SchedInv
  OBVIOUS
<1>1. Idle \in Task
  BY SchedAssumption DEF Idle, Task
<1>2. Typed
  BY DEF Init, Typed, States
<1>3. Waits
  <2>1. \A t \in Task : state[t] = (IF t = cur THEN "RUNNING" ELSE "READY") /\ ~ linked[t] /\ ~ timer[t]
    BY DEF Init
  <2> QED
    BY <1>1, <2>1 DEF Waits, Blocked
<1>4. Owned(timers)
  BY DEF Init, Owned, Single, Has
<1> QED
  BY <1>2, <1>3, <1>4 DEF SchedInv

\* What TimeoutOwned says of the list, as a count.
LEMMA CountsOwned == SchedInv => TimeoutOwned
<1> SUFFICES ASSUME SchedInv PROVE TimeoutOwned
  OBVIOUS
<1>1. ASSUME NEW t \in Task
      PROVE  Cardinality({i \in DOMAIN timers : timers[i].task = t /\ timers[i].kind = "timeout"})
               = IF timer[t] THEN 1 ELSE 0
  <2> DEFINE mine == {i \in DOMAIN timers : timers[i].task = t /\ timers[i].kind = "timeout"}
  <2>1. DOMAIN timers = 1 .. Len(timers)
    BY DEF SchedInv, Owned
  <2>2. CASE timer[t]
    <3>1. PICK k \in 1 .. Len(timers) : Is(timers, k, t, "timeout")
      BY <2>2 DEF SchedInv, Owned, Has
    <3>2. mine = {k}
      BY <2>1, <3>1 DEF SchedInv, Owned, Single, Is
    <3> QED
      BY <2>2, <3>2, FS_Singleton
  <2>3. CASE ~ timer[t]
    <3>1. mine = {}
      BY <2>1, <2>3 DEF SchedInv, Owned, Has, Is
    <3> QED
      BY <2>3, <3>1, FS_EmptySet
  <2> QED
    BY <2>2, <2>3
<1> QED
  BY <1>1 DEF TimeoutOwned, SchedInv, Waits

\* A timeout of timer_list belongs to a task that is still in the wait that
\* armed it (task_block, task_unblock, timer_wakeup), so that default_timeout
\* never wakes anybody out of a later wait.
THEOREM TimeoutsOwned == Spec => []TimeoutOwned
<1>1. SchedInv /\ [Next]_vars => SchedInv'
  BY SchedNext DEF vars, SchedInv, Typed, Waits, Owned
<1> QED
  BY <1>1, SchedStarts, CountsOwned, PTL DEF Spec
-----------------------------------------------------------------------------
(* The lock on this scheduler is the lock of Lock.                         *)

Inside == {"in", "io", "served"}

LockPlaces == {"out", "asleep", "woken", "yielding"} \cup Inside

\* Whoever is between lock_acquire and lock_release is the one lock->holder
\* names, and mutex->value says whether there is one.
HeldByOne ==
  /\ value = IF holder = None THEN 0 ELSE 1
  /\ holder \in UserTasks \cup {None}
  /\ waiters \in Seq(UserTasks)
  /\ pc \in [UserTasks -> LockPlaces]
  /\ \A t \in UserTasks : pc[t] \in Inside <=> holder = t

\* Where a task is as Lock sees it.
PlaceOf(p) == IF p \in {"io", "served"} THEN "in" ELSE p

AbstractPc == [t \in UserTasks |-> PlaceOf(pc[t])]

LEMMA NoneIsNoTask == None \notin UserTasks
  BY SchedAssumption, NoneAssumption

LEMMA MutexLockMaps ==
  ASSUME HeldByOne, NEW c \in UserTasks, c = cur, pc[c] \in {"out", "woken"}, MutexLock
  PROVE  HeldByOne' /\ Abstract!MutexLock(c)
<1>1. c = cur
  OBVIOUS
<1>2. c \in UserTasks /\ c # None /\ pc[c] \in {"out", "woken"} /\ holder # c
  BY <1>1, NoneIsNoTask DEF HeldByOne, Inside
<1>3. CASE value = 1
  <2>1. /\ waiters' = <<c>> \o waiters /\ pc' = [pc EXCEPT ![c] = "asleep"]
        /\ UNCHANGED <<value, holder>>
    BY <1>1, <1>3 DEF MutexLock
  <2>2. /\ pc' \in [UserTasks -> LockPlaces]
        /\ \A t \in UserTasks : pc'[t] = IF t = c THEN "asleep" ELSE pc[t]
    BY <1>2, <2>1 DEF HeldByOne, LockPlaces
  <2>3. waiters' \in Seq(UserTasks)
    BY <1>2, <2>1 DEF HeldByOne
  <2>4. HeldByOne'
    BY <1>2, <2>1, <2>2, <2>3 DEF HeldByOne, Inside
  <2>5. AbstractPc' = [AbstractPc EXCEPT ![c] = "asleep"]
    BY <2>2 DEF AbstractPc, PlaceOf
  <2>6. Abstract!Sleep(c)
    BY <2>1, <2>5 DEF Abstract!Sleep, Abstract!Push, AbstractPc, PlaceOf
  <2> QED
    BY <1>3, <2>4, <2>6 DEF Abstract!MutexLock
<1>4. CASE value # 1
  <2>1. /\ value' = 1 /\ holder' = c /\ pc' = [pc EXCEPT ![c] = "in"] /\ UNCHANGED waiters
    BY <1>1, <1>4 DEF MutexLock
  <2>2. /\ pc' \in [UserTasks -> LockPlaces]
        /\ \A t \in UserTasks : pc'[t] = IF t = c THEN "in" ELSE pc[t]
    BY <1>2, <2>1 DEF HeldByOne, LockPlaces, Inside
  <2>3. value = 0 /\ holder = None
    BY <1>4 DEF HeldByOne
  <2>4. HeldByOne'
    BY <1>2, <2>1, <2>2, <2>3, NoneIsNoTask DEF HeldByOne, Inside
  <2>5. AbstractPc' = [AbstractPc EXCEPT ![c] = "in"]
    BY <2>2 DEF AbstractPc, PlaceOf
  <2>6. value' = value + 1 /\ (IF holder' = None THEN 0 ELSE 1) = 1
    BY <1>2, <2>1, <2>3
  <2>7. Abstract!Take(c)
    BY <2>1, <2>5, <2>6 DEF Abstract!Take, AbstractPc, PlaceOf
  <2> QED
    BY <1>4, <2>4, <2>7 DEF Abstract!MutexLock
<1> QED
  BY <1>3, <1>4

LEMMA ReleaseMaps ==
  ASSUME HeldByOne, NEW c \in UserTasks, c = cur, Release
  PROVE  HeldByOne' /\ Abstract!Release(c)
<1>1. c = cur
  OBVIOUS
<1>2. /\ c \in UserTasks /\ pc[c] = "served" /\ holder = c /\ value = 1 /\ c # None
  BY <1>1, NoneIsNoTask DEF Release, InKernel, HeldByOne, Inside
<1>3. value' = 0 /\ holder' = None /\ value' = value - 1
  BY <1>2 DEF Release
<1>4. \A t \in UserTasks : t # c => pc[t] \notin Inside
  BY <1>2 DEF HeldByOne
<1>5. AbstractPc[c] = "in" /\ ~ ((IF holder = None THEN 0 ELSE 1) > 1)
  BY <1>2 DEF AbstractPc, PlaceOf
<1>6. CASE waiters = <<>>
  <2>1. pc' = [pc EXCEPT ![c] = "out"] /\ UNCHANGED waiters
    BY <1>1, <1>6 DEF Release
  <2>2. /\ pc' \in [UserTasks -> LockPlaces]
        /\ \A t \in UserTasks : pc'[t] = IF t = c THEN "out" ELSE pc[t]
    BY <1>2, <2>1 DEF HeldByOne, LockPlaces
  <2>3. HeldByOne'
    BY <1>2, <1>3, <1>4, <2>1, <2>2, NoneIsNoTask DEF HeldByOne, Inside
  <2>4. AbstractPc' = [AbstractPc EXCEPT ![c] = "out"]
    BY <2>2 DEF AbstractPc, PlaceOf
  <2>5. Abstract!MutexUnlock(c)
    BY <1>3, <1>6, <2>1, <2>4 DEF Abstract!MutexUnlock, AbstractPc, PlaceOf
  <2> QED
    BY <1>3, <1>5, <2>3, <2>5 DEF Abstract!Release, AbstractPc, PlaceOf
<1>7. CASE waiters # <<>>
  <2>1. PICK w : w = Last(waiters)
    OBVIOUS
  <2>2. pc' = [pc EXCEPT ![c] = "yielding", ![w] = "woken"] /\ waiters' = Front(waiters)
    BY <1>1, <1>7, <2>1 DEF Release
  <2>3. waiters \in Seq(UserTasks) /\ Len(waiters) \in Nat /\ Len(waiters) > 0
    BY <1>7, EmptySeq DEF HeldByOne
  <2>4. w \in UserTasks /\ Front(waiters) \in Seq(UserTasks)
    BY <2>1, <2>3 DEF Last, Front
  <2>5. /\ pc' \in [UserTasks -> LockPlaces]
        /\ \A t \in UserTasks :
             pc'[t] = IF t = w THEN "woken" ELSE IF t = c THEN "yielding" ELSE pc[t]
    BY <1>2, <2>2, <2>4 DEF HeldByOne, LockPlaces
  <2>6. HeldByOne'
    BY <1>2, <1>3, <1>4, <2>2, <2>4, <2>5, NoneIsNoTask DEF HeldByOne, Inside
  <2>7. AbstractPc' = [AbstractPc EXCEPT ![c] = "yielding", ![Last(waiters)] = "woken"]
    BY <2>1, <2>4, <2>5, <1>2 DEF AbstractPc, PlaceOf
  <2>8. Abstract!MutexUnlock(c)
    BY <1>3, <1>7, <2>2, <2>7
       DEF Abstract!MutexUnlock, AbstractPc, PlaceOf, Abstract!Last, Abstract!Front, Last, Front
  <2> QED
    BY <1>3, <1>5, <2>6, <2>8 DEF Abstract!Release, AbstractPc, PlaceOf
<1> QED
  BY <1>6, <1>7

\* A task that waits for its device is, for Lock, inside the lock.
LEMMA MovesInside ==
  ASSUME HeldByOne, NEW t \in UserTasks, NEW p \in Inside, pc[t] \in Inside,
         pc' = [pc EXCEPT ![t] = p], UNCHANGED <<value, waiters, holder>>
  PROVE  HeldByOne' /\ UNCHANGED Abstract!vars
<1>1. /\ pc' \in [UserTasks -> LockPlaces]
      /\ \A u \in UserTasks : pc'[u] = IF u = t THEN p ELSE pc[u]
  BY DEF HeldByOne, LockPlaces
<1>2. AbstractPc' = AbstractPc
  BY <1>1 DEF AbstractPc, PlaceOf, Inside
<1>3. HeldByOne'
  BY <1>1 DEF HeldByOne
<1> QED
  BY <1>2, <1>3 DEF Abstract!vars, AbstractPc, PlaceOf

LEMMA LockMaps ==
  ASSUME HeldByOne, [LockNext]_allVars
  PROVE  HeldByOne' /\ [Abstract!Next]_(Abstract!vars)
<1>1. CASE Acquire
  <2>1. PICK c \in UserTasks : c = cur /\ pc[c] = "out" /\ MutexLock
    BY <1>1 DEF Acquire, InUserMode
  <2>2. HeldByOne' /\ Abstract!MutexLock(c)
    BY <2>1, MutexLockMaps
  <2>3. AbstractPc[c] = "out" /\ holder # c
    BY <2>1 DEF AbstractPc, PlaceOf, HeldByOne, Inside
  <2>4. Abstract!Acquire(c)
    BY <2>2, <2>3 DEF Abstract!Acquire, AbstractPc, PlaceOf
  <2> QED
    BY <2>2, <2>4 DEF Abstract!Next
<1>2. CASE Retry
  <2>1. PICK c \in UserTasks : c = cur /\ pc[c] = "woken" /\ MutexLock
    BY <1>2 DEF Retry, InKernel
  <2>2. HeldByOne' /\ Abstract!MutexLock(c)
    BY <2>1, MutexLockMaps
  <2>3. AbstractPc[c] = "woken"
    BY <2>1 DEF AbstractPc, PlaceOf
  <2>4. Abstract!Retry(c)
    BY <2>2, <2>3 DEF Abstract!Retry, AbstractPc, PlaceOf
  <2> QED
    BY <2>2, <2>4 DEF Abstract!Next
<1>3. CASE DeviceStart
  BY <1>3, MovesInside DEF DeviceStart, InKernel, Inside
<1>4. CASE Release
  <2>1. PICK c \in UserTasks : c = cur
    BY <1>4 DEF Release, InKernel
  <2>2. HeldByOne' /\ Abstract!Release(c)
    BY <1>4, <2>1, ReleaseMaps
  <2> QED
    BY <2>2 DEF Abstract!Next
<1>5. CASE YieldReturns
  <2>1. PICK c : c = cur
    OBVIOUS
  <2>2. /\ c \in UserTasks /\ pc[c] = "yielding" /\ pc' = [pc EXCEPT ![c] = "out"]
        /\ UNCHANGED <<value, waiters, holder>>
    BY <1>5, <2>1 DEF YieldReturns, InKernel
  <2>3. /\ pc' \in [UserTasks -> LockPlaces]
        /\ \A t \in UserTasks : pc'[t] = IF t = c THEN "out" ELSE pc[t]
    BY <2>2 DEF HeldByOne, LockPlaces
  <2>4. HeldByOne'
    BY <2>2, <2>3 DEF HeldByOne, Inside
  <2>5. AbstractPc[c] = "yielding" /\ AbstractPc' = [AbstractPc EXCEPT ![c] = "out"]
    BY <2>2, <2>3 DEF AbstractPc, PlaceOf
  <2>6. Abstract!YieldReturns(c)
    BY <2>2, <2>5 DEF Abstract!YieldReturns, AbstractPc, PlaceOf
  <2> QED
    BY <2>2, <2>4, <2>6 DEF Abstract!Next
<1>6. CASE \E t \in UserTasks : DeviceDone(t)
  <2>1. PICK t \in UserTasks : /\ pc[t] = "io" /\ pc' = [pc EXCEPT ![t] = "served"]
                               /\ UNCHANGED <<value, waiters, holder>>
    BY <1>6 DEF DeviceDone
  <2> QED
    BY <2>1, MovesInside DEF Inside
<1>7. CASE LockClock \/ LockIdle \/ UNCHANGED allVars
  <2>1. UNCHANGED lockVars
    BY <1>7 DEF LockClock, LockIdle, allVars
  <2> QED
    BY <2>1 DEF lockVars, HeldByOne, Abstract!vars
<1> QED
  BY <1>1, <1>2, <1>3, <1>4, <1>5, <1>6, <1>7 DEF LockNext

LEMMA LockStarts == LockInit => HeldByOne /\ Abstract!Init
<1> SUFFICES ASSUME LockInit PROVE HeldByOne /\ Abstract!Init
  OBVIOUS
<1>1. value = 0 /\ waiters = <<>> /\ holder = None /\ pc = [t \in UserTasks |-> "out"]
  BY DEF LockInit
<1>2. HeldByOne
  BY <1>1, NoneIsNoTask DEF HeldByOne, LockPlaces, Inside
<1>3. AbstractPc = [t \in UserTasks |-> "out"]
  BY <1>1 DEF AbstractPc, PlaceOf
<1>4. Abstract!Init
  BY <1>1, <1>3 DEF Abstract!Init, AbstractPc, PlaceOf
<1> QED
  BY <1>2, <1>4

\* Whichever ready task task_search picks, lock_acquire and lock_release are
\* the lock that Lock specifies: the choice only removes behaviours.
THEOREM LockIsLock == LockSpec => ImplementsLock
<1>1. LockInit => HeldByOne /\ Abstract!Init
  BY LockStarts
<1>2. HeldByOne /\ [LockNext]_allVars => HeldByOne' /\ [Abstract!Next]_(Abstract!vars)
  BY LockMaps
<1> QED
  BY <1>1, <1>2, PTL DEF LockSpec, ImplementsLock, Abstract!Spec
=============================================================================
