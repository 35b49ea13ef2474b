--------------------------- MODULE ElevatorProofs ---------------------------
(***************************************************************************)
(* Proofs about Elevator, for any set of tasks and any sectors.            *)
(*                                                                         *)
(* The drive is handed on by position in the list, so OneHasDrive is       *)
(* inductive only together with ListExact: the task at the position that   *)
(* NextEntry picks has to be another one than the caller that leaves, and  *)
(* one that is still waiting.  For the order of the requests the list is   *)
(* also Sorted, so that what is next in it is next on the disk.            *)
(***************************************************************************)
EXTENDS Elevator, SequenceTheorems, WellFoundedInduction, TLAPS

\* Where everything is after an insertion in the middle of a list.
LEMMA InsertFacts ==
  ASSUME NEW S, NEW q \in Seq(S), NEW t \in S, NEW k \in 1 .. Len(q) + 1
  PROVE  /\ InsertAt(q, k, t) \in Seq(S)
         /\ Len(InsertAt(q, k, t)) = Len(q) + 1
         /\ \A i \in 1 .. Len(q) + 1 :
              InsertAt(q, k, t)[i] = IF i < k THEN q[i] ELSE IF i = k THEN t ELSE q[i - 1]
<1> DEFINE front == SubSeq(q, 1, k - 1)
           back  == SubSeq(q, k, Len(q))
<1>1. Len(q) \in Nat /\ k \in Int /\ \A i \in 1 .. Len(q) : q[i] \in S
  OBVIOUS
<1>2. /\ front \in Seq(S) /\ Len(front) = k - 1
      /\ \A i \in 1 .. k - 1 : front[i] = q[i]
  <2>1. \A i \in 1 .. k - 1 : q[i] \in S
    BY <1>1
  <2>2. /\ front \in Seq(S)
        /\ Len(front) = IF 1 <= k - 1 THEN k - 1 - 1 + 1 ELSE 0
        /\ \A i \in 1 .. k - 1 - 1 + 1 : front[i] = q[1 + i - 1]
    BY <1>1, <2>1, SubSeqProperties
  <2> HIDE DEF front
  <2> QED
    BY <1>1, <2>2
<1>3. /\ back \in Seq(S) /\ Len(back) = Len(q) - k + 1
      /\ \A i \in 1 .. Len(q) - k + 1 : back[i] = q[k + i - 1]
  <2>1. \A i \in k .. Len(q) : q[i] \in S
    BY <1>1
  <2>2. /\ back \in Seq(S)
        /\ Len(back) = IF k <= Len(q) THEN Len(q) - k + 1 ELSE 0
        /\ \A i \in 1 .. Len(q) - k + 1 : back[i] = q[k + i - 1]
    BY <1>1, <2>1, SubSeqProperties
  <2> HIDE DEF back
  <2> QED
    BY <1>1, <2>2
<1>4. InsertAt(q, k, t) = front \o <<t>> \o back
  BY DEF InsertAt
<1> HIDE DEF front, back
<1>5. /\ front \o <<t>> \in Seq(S) /\ Len(front \o <<t>>) = k
      /\ \A i \in 1 .. k : (front \o <<t>>)[i] = IF i < k THEN q[i] ELSE t
  <2>1. <<t>> \in Seq(S) /\ Len(<<t>>) = 1 /\ <<t>>[1] = t
    OBVIOUS
  <2>2. /\ front \o <<t>> \in Seq(S)
        /\ Len(front \o <<t>>) = Len(front) + Len(<<t>>)
        /\ \A i \in 1 .. Len(front) + Len(<<t>>) : (front \o <<t>>)[i] =
             IF i <= Len(front) THEN front[i] ELSE <<t>>[i - Len(front)]
    BY <1>2, <2>1, ConcatProperties
  <2>3. Len(front) = k - 1 /\ Len(<<t>>) = 1 /\ k \in Int /\ k >= 1
    BY <1>1, <1>2, <2>1
  <2>4. ASSUME NEW i \in 1 .. k
        PROVE  (front \o <<t>>)[i] = IF i < k THEN q[i] ELSE t
    <3>1. i \in 1 .. Len(front) + Len(<<t>>)
      BY <2>3
    <3>2. (front \o <<t>>)[i] = IF i <= Len(front) THEN front[i] ELSE <<t>>[i - Len(front)]
      BY <2>2, <3>1
    <3>3. CASE i < k
      BY <3>2, <3>3, <2>3, <1>2
    <3>4. CASE i = k
      <4>1. ~ (i <= Len(front)) /\ i - Len(front) = 1
        BY <3>4, <2>3
      <4> QED
        BY <3>2, <3>4, <4>1, <2>1
    <3>5. i < k \/ i = k
      BY <1>1
    <3> QED
      BY <3>3, <3>4, <3>5, Zenon
  <2> QED
    BY SMTT(60), <2>2, <2>3, <2>4
<1> DEFINE start == front \o <<t>>
<1>6. /\ start \in Seq(S) /\ Len(start) = k
      /\ \A i \in 1 .. k : start[i] = IF i < k THEN q[i] ELSE t
  BY <1>5
<1>7. InsertAt(q, k, t) = start \o back
  BY <1>4
<1> HIDE DEF start
<1>8. /\ start \o back \in Seq(S)
      /\ Len(start \o back) = Len(start) + Len(back)
      /\ \A i \in 1 .. Len(start) + Len(back) : (start \o back)[i] =
           IF i <= Len(start) THEN start[i] ELSE back[i - Len(start)]
  BY <1>3, <1>6, ConcatProperties
<1>9. Len(start) + Len(back) = Len(q) + 1
  BY <1>1, <1>3, <1>6
<1>10. ASSUME NEW i \in 1 .. Len(q) + 1
       PROVE  (start \o back)[i] = IF i < k THEN q[i] ELSE IF i = k THEN t ELSE q[i - 1]
  <2>1. (start \o back)[i] = IF i <= k THEN start[i] ELSE back[i - k]
    BY <1>6, <1>8, <1>9
  <2>2. CASE i <= k
    <3>1. i \in 1 .. k
      BY <2>2, <1>1
    <3> QED
      BY <3>1, <2>1, <2>2, <1>6, <1>1
  <2>3. CASE i > k
    <3>1. i - k \in 1 .. Len(q) - k + 1 /\ k + (i - k) - 1 = i - 1 /\ ~ (i <= k)
      BY <2>3, <1>1
    <3>2. back[i - k] = q[i - 1]
      BY <3>1, <1>3
    <3> QED
      BY <2>1, <2>3, <3>1, <3>2, <1>1
  <2>4. i <= k \/ i > k
    BY <1>1
  <2> QED
    BY <2>2, <2>3, <2>4, Zenon
<1> QED
  BY <1>7, <1>8, <1>9, <1>10

\* Where everything is after the removal of an entry.
LEMMA RemoveFacts ==
  ASSUME NEW S, NEW q \in Seq(S), NEW k \in 1 .. Len(q)
  PROVE  /\ RemoveAt(q, k) \in Seq(S)
         /\ Len(RemoveAt(q, k)) = Len(q) - 1
         /\ \A i \in 1 .. Len(q) - 1 :
              RemoveAt(q, k)[i] = IF i < k THEN q[i] ELSE q[i + 1]
<1> DEFINE front == SubSeq(q, 1, k - 1)
           back  == SubSeq(q, k + 1, Len(q))
<1>1. Len(q) \in Nat /\ k \in Int /\ \A i \in 1 .. Len(q) : q[i] \in S
  OBVIOUS
<1>2. /\ front \in Seq(S) /\ Len(front) = k - 1
      /\ \A i \in 1 .. k - 1 : front[i] = q[i]
  <2>1. \A i \in 1 .. k - 1 : q[i] \in S
    BY <1>1
  <2>2. /\ front \in Seq(S)
        /\ Len(front) = IF 1 <= k - 1 THEN k - 1 - 1 + 1 ELSE 0
        /\ \A i \in 1 .. k - 1 - 1 + 1 : front[i] = q[1 + i - 1]
    BY <1>1, <2>1, SubSeqProperties
  <2> HIDE DEF front
  <2> QED
    BY <1>1, <2>2
<1>3. /\ back \in Seq(S) /\ Len(back) = Len(q) - k
      /\ \A i \in 1 .. Len(q) - k : back[i] = q[k + i]
  <2>1. (\A i \in k + 1 .. Len(q) : q[i] \in S) /\ k + 1 \in Int
    BY <1>1
  <2>2. /\ back \in Seq(S)
        /\ Len(back) = IF k + 1 <= Len(q) THEN Len(q) - (k + 1) + 1 ELSE 0
        /\ \A i \in 1 .. Len(q) - (k + 1) + 1 : back[i] = q[k + 1 + i - 1]
    BY <1>1, <2>1, SubSeqProperties
  <2> HIDE DEF back
  <2> QED
    BY <1>1, <2>2
<1>4. RemoveAt(q, k) = front \o back
  BY DEF RemoveAt
<1> HIDE DEF front, back
<1>5. /\ front \o back \in Seq(S)
      /\ Len(front \o back) = Len(front) + Len(back)
      /\ \A i \in 1 .. Len(front) + Len(back) : (front \o back)[i] =
           IF i <= Len(front) THEN front[i] ELSE back[i - Len(front)]
  BY <1>2, <1>3, ConcatProperties
<1>6. Len(front) + Len(back) = Len(q) - 1
  BY <1>1, <1>2, <1>3
<1>7. ASSUME NEW i \in 1 .. Len(q) - 1
      PROVE  (front \o back)[i] = IF i < k THEN q[i] ELSE q[i + 1]
  <2>1. (front \o back)[i] = IF i <= k - 1 THEN front[i] ELSE back[i - (k - 1)]
    BY <1>2, <1>5, <1>6
  <2>2. CASE i < k
    <3>1. i \in 1 .. k - 1 /\ i <= k - 1
      BY <2>2, <1>1
    <3> QED
      BY <3>1, <2>1, <2>2, <1>2
  <2>3. CASE i >= k
    <3>1. i - (k - 1) \in 1 .. Len(q) - k /\ k + (i - (k - 1)) = i + 1 /\ ~ (i <= k - 1)
      BY <2>3, <1>1
    <3>2. back[i - (k - 1)] = q[i + 1]
      BY <3>1, <1>3
    <3> QED
      BY <2>1, <2>3, <3>1, <3>2, <1>1
  <2>4. i < k \/ i >= k
    BY <1>1
  <2> QED
    BY <2>2, <2>3, <2>4, Zenon
<1> QED
  BY <1>4, <1>5, <1>6, <1>7

\* q contains no task twice; q contains t.
Unique(q)   == \A i, j \in 1 .. Len(q) : q[i] = q[j] => i = j
Holds(q, t) == \E i \in 1 .. Len(q) : q[i] = t

\* list_insert_sort adds its entry and nothing else.
LEMMA InsertExact ==
  ASSUME NEW S, NEW q \in Seq(S), NEW t \in S, NEW k \in 1 .. Len(q) + 1,
         Unique(q), ~ Holds(q, t)
  PROVE  /\ Unique(InsertAt(q, k, t))
         /\ \A u : Holds(InsertAt(q, k, t), u) <=> Holds(q, u) \/ u = t
<1> DEFINE r == InsertAt(q, k, t)
<1>1. /\ Len(q) \in Nat /\ k \in Int /\ 1 <= k /\ k <= Len(q) + 1
      /\ Len(r) = Len(q) + 1
      /\ \A i \in 1 .. Len(q) + 1 :
           r[i] = IF i < k THEN q[i] ELSE IF i = k THEN t ELSE q[i - 1]
  BY InsertFacts
<1> HIDE DEF r
<1>2. ASSUME NEW i \in 1 .. Len(q) + 1, i # k
      PROVE  \E m \in 1 .. Len(q) : r[i] = q[m] /\ m = (IF i < k THEN i ELSE i - 1)
  <2>1. CASE i < k
    BY <1>1, <2>1
  <2>2. CASE i > k
    <3>1. i - 1 \in 1 .. Len(q) /\ ~ (i < k) /\ i # k
      BY <1>1, <2>2
    <3> QED
      BY <1>1, <3>1
  <2> QED
    BY <1>1, <1>2, <2>1, <2>2
<1>3. r[k] = t
  BY <1>1
<1>4. Unique(r)
  <2> SUFFICES ASSUME NEW i \in 1 .. Len(q) + 1, NEW j \in 1 .. Len(q) + 1, r[i] = r[j]
               PROVE  i = j
    BY <1>1 DEF Unique
  <2>1. CASE i = k /\ j # k
    BY <2>1, <1>2, <1>3 DEF Holds
  <2>2. CASE i # k /\ j = k
    BY <2>2, <1>2, <1>3 DEF Holds
  <2>3. CASE i # k /\ j # k
    <3>1. PICK m \in 1 .. Len(q) : r[i] = q[m] /\ m = (IF i < k THEN i ELSE i - 1)
      BY <1>2, <2>3
    <3>2. PICK n \in 1 .. Len(q) : r[j] = q[n] /\ n = (IF j < k THEN j ELSE j - 1)
      BY <1>2, <2>3
    <3>3. m = n
      BY <3>1, <3>2 DEF Unique
    <3> QED
      BY <3>1, <3>2, <3>3, <2>3, <1>1
  <2> QED
    BY <2>1, <2>2, <2>3
<1>5. ASSUME NEW u, Holds(q, u)
      PROVE  Holds(r, u)
  <2>1. PICK m \in 1 .. Len(q) : q[m] = u
    BY <1>5 DEF Holds
  <2>2. CASE m < k
    <3>1. m \in 1 .. Len(q) + 1 /\ r[m] = u
      BY <1>1, <2>1, <2>2
    <3> QED
      BY <3>1, <1>1 DEF Holds
  <2>3. CASE m >= k
    <3>1. m + 1 \in 1 .. Len(q) + 1 /\ ~ (m + 1 < k) /\ m + 1 # k /\ m + 1 - 1 = m
      BY <1>1, <2>3
    <3>2. r[m + 1] = u
      BY <1>1, <2>1, <3>1
    <3> QED
      BY <3>1, <3>2, <1>1 DEF Holds
  <2> QED
    BY <1>1, <2>2, <2>3
<1>6. ASSUME NEW u, Holds(r, u)
      PROVE  Holds(q, u) \/ u = t
  BY <1>1, <1>2, <1>3, <1>6 DEF Holds
<1>7. Holds(r, t)
  BY <1>1, <1>3 DEF Holds
<1> QED
  BY <1>4, <1>5, <1>6, <1>7 DEF r

\* list_remove takes its entry and nothing else.
LEMMA RemoveExact ==
  ASSUME NEW S, NEW q \in Seq(S), NEW k \in 1 .. Len(q), Unique(q)
  PROVE  /\ Unique(RemoveAt(q, k))
         /\ \A u : Holds(RemoveAt(q, k), u) <=> Holds(q, u) /\ u # q[k]
<1> DEFINE r == RemoveAt(q, k)
<1>1. /\ Len(q) \in Nat /\ k \in Int /\ 1 <= k /\ k <= Len(q)
      /\ Len(r) = Len(q) - 1
      /\ \A i \in 1 .. Len(q) - 1 : r[i] = IF i < k THEN q[i] ELSE q[i + 1]
  BY RemoveFacts
<1> HIDE DEF r
<1>2. ASSUME NEW i \in 1 .. Len(q) - 1
      PROVE  \E m \in 1 .. Len(q) :
               r[i] = q[m] /\ m # k /\ m = (IF i < k THEN i ELSE i + 1)
  <2>1. CASE i < k
    BY <1>1, <2>1
  <2>2. CASE i >= k
    <3>1. i + 1 \in 1 .. Len(q) /\ ~ (i < k) /\ i + 1 # k
      BY <1>1, <2>2
    <3> QED
      BY <1>1, <3>1
  <2> QED
    BY <1>1, <2>1, <2>2
<1>3. Unique(r)
  <2> SUFFICES ASSUME NEW i \in 1 .. Len(q) - 1, NEW j \in 1 .. Len(q) - 1, r[i] = r[j]
               PROVE  i = j
    BY <1>1 DEF Unique
  <2>1. PICK m \in 1 .. Len(q) : r[i] = q[m] /\ m # k /\ m = (IF i < k THEN i ELSE i + 1)
    BY <1>2
  <2>2. PICK n \in 1 .. Len(q) : r[j] = q[n] /\ n # k /\ n = (IF j < k THEN j ELSE j + 1)
    BY <1>2
  <2>3. m = n
    BY <2>1, <2>2 DEF Unique
  <2> QED
    BY <2>1, <2>2, <2>3, <1>1
<1>4. ASSUME NEW u, Holds(q, u), u # q[k]
      PROVE  Holds(r, u)
  <2>1. PICK m \in 1 .. Len(q) : q[m] = u
    BY <1>4 DEF Holds
  <2>2. CASE m < k
    <3>1. m \in 1 .. Len(q) - 1 /\ r[m] = u
      BY <1>1, <2>1, <2>2
    <3> QED
      BY <3>1, <1>1 DEF Holds
  <2>3. CASE m > k
    <3>1. m - 1 \in 1 .. Len(q) - 1 /\ ~ (m - 1 < k) /\ m - 1 + 1 = m
      BY <1>1, <2>3
    <3>2. r[m - 1] = u
      BY <1>1, <2>1, <3>1
    <3> QED
      BY <3>1, <3>2, <1>1 DEF Holds
  <2> QED
    BY <1>1, <1>4, <2>1, <2>2, <2>3
<1>5. ASSUME NEW u, Holds(r, u)
      PROVE  Holds(q, u) /\ u # q[k]
  <2>1. PICK i \in 1 .. Len(q) - 1 : r[i] = u
    BY <1>1, <1>5 DEF Holds
  <2>2. PICK m \in 1 .. Len(q) : u = q[m] /\ m # k
    BY <1>2, <2>1
  <2> QED
    BY <2>2 DEF Holds, Unique
<1> QED
  BY <1>3, <1>4, <1>5 DEF r

\* Every non-empty set of naturals has a least element.
LEMMA Least ==
  ASSUME NEW T \in SUBSET Nat, T # {}
  PROVE  \E x \in T : \A y \in T : x <= y
<1> DEFINE R == {p \in Nat \X Nat : p[1] < p[2]}
<1>1. IsWellFoundedOn(R, Nat)
  BY NatLessThanWellFounded DEF OpToRel
<1>2. \A x, y \in Nat : y < x => <<y, x>> \in R
  OBVIOUS
<1> HIDE DEF R
<1>3. PICK x \in T : \A y \in T : ~ (<<y, x>> \in R)
  BY <1>1, WFMin
<1>4. \A y \in T : ~ (y < x)
  BY <1>2, <1>3
<1> QED
  BY <1>4
-----------------------------------------------------------------------------
Inv == QueueTypes /\ ListExact /\ OneHasDrive

\* ListExact in the words of the lemmas above.
LEMMA ListExactIs ==
  ListExact <=> /\ Unique(list)
                /\ \A t \in Callers : at[t] # "out" <=> Holds(list, t)
BY DEF ListExact, Unique, Holds

\* list_insert_sort stays inside the list.
LEMMA InsertPointInRange ==
  ASSUME QueueTypes, NEW s
  PROVE  InsertPoint(s) \in 1 .. Len(list) + 1
<1> DEFINE larger == {i \in 1 .. Len(list) : idx[list[i]] > s}
<1>1. Len(list) \in Nat
  BY DEF QueueTypes
<1>2. CASE larger = {}
  BY <1>1, <1>2 DEF InsertPoint
<1>3. CASE larger # {}
  <2>1. larger \in SUBSET Nat
    BY <1>1
  <2>2. \E i \in larger : \A j \in larger : i <= j
    <3> HIDE DEF larger
    <3> QED
      BY <1>3, <2>1, Least
  <2>3. InsertPoint(s) = CHOOSE i \in larger : \A j \in larger : i <= j
    BY <1>3 DEF InsertPoint
  <2>4. InsertPoint(s) \in larger
    <3> HIDE DEF larger
    <3> QED
      BY <2>2, <2>3
  <2> QED
    BY <1>1, <2>4
<1> QED
  BY <1>2, <1>3

\* The entry of a task inside device_request.
LEMMA EntryFacts ==
  ASSUME QueueTypes, ListExact, NEW t \in Callers, at[t] # "out"
  PROVE  Entry(t) \in 1 .. Len(list) /\ list[Entry(t)] = t
<1>1. \E i \in 1 .. Len(list) : list[i] = t
  BY DEF ListExact
<1> QED
  BY <1>1 DEF Entry

\* reguest_nextreq picks a neighbour, and finds one unless t is alone.
LEMMA NextEntryFacts ==
  ASSUME QueueTypes, NEW i \in 1 .. Len(list)
  PROVE  /\ Turned(i) \in {"up", "down"}
         /\ NextEntry(i) # i
         /\ NextEntry(i) \in 1 .. Len(list) <=> Len(list) # 1
<1> DEFINE n == Len(list)
           j == NextEntry(i)
<1>1. n \in Nat /\ i \in Int /\ 1 <= i /\ i <= n
  BY DEF QueueTypes
<1>2. Turned(i) \in {"up", "down"}
  BY DEF Turned, QueueTypes
<1>3. \/ j = i + 1 /\ (i # n \/ i = 1)
      \/ j = i - 1 /\ (i = n \/ i # 1)
  <2>1. CASE direct = "up" /\ i = n
    BY <2>1 DEF Turned, NextEntry
  <2>2. CASE direct = "up" /\ i # n
    BY <2>2 DEF Turned, NextEntry
  <2>3. CASE direct = "down" /\ i = 1
    BY <2>3 DEF Turned, NextEntry
  <2>4. CASE direct = "down" /\ i # 1
    BY <2>4 DEF Turned, NextEntry
  <2> QED
    BY <2>1, <2>2, <2>3, <2>4 DEF QueueTypes
<1> HIDE DEF n, j
<1>4. j # i /\ (j \in 1 .. n <=> n # 1)
  BY <1>1, <1>3
<1> QED
  BY <1>2, <1>4 DEF n, j

\* What the caller that leaves does to the places of the tasks.
LEMMA FinishFacts ==
  ASSUME Inv, NEW t \in Callers, Finish(t)
  PROVE  /\ at[t] = "serving" /\ at'[t] = "out"
         /\ list' \in Seq(Callers) /\ idx' = idx /\ direct' \in {"up", "down"}
         /\ Unique(list') /\ \A u : Holds(list', u) <=> Holds(list, u) /\ u # t
         /\ \/ /\ Len(list) = 1
               /\ at' = [at EXCEPT ![t] = "out"]
            \/ \E u \in Callers \ {t} :
                 /\ at[u] = "waiting" /\ Holds(list', u)
                 /\ at' = [at EXCEPT ![t] = "out", ![u] = "woken"]
<1> DEFINE i == Entry(t)
           j == NextEntry(i)
<1>1. QueueTypes /\ ListExact /\ OneHasDrive
  BY DEF Inv
<1>2. /\ at[t] = "serving"
      /\ direct' = Turned(i) /\ list' = RemoveAt(list, i) /\ idx' = idx
      /\ at' = IF j \in 1 .. Len(list)
                 THEN [[at EXCEPT ![t] = "out"] EXCEPT ![list[j]] = "woken"]
                 ELSE [at EXCEPT ![t] = "out"]
  BY DEF Finish
<1>3. i \in 1 .. Len(list) /\ list[i] = t
  BY <1>1, <1>2, EntryFacts
<1>4. /\ Turned(i) \in {"up", "down"} /\ j # i
      /\ j \in 1 .. Len(list) <=> Len(list) # 1
  BY <1>1, <1>3, NextEntryFacts
<1>5. list \in Seq(Callers) /\ at \in [Callers -> QueuePlaces] /\ Unique(list)
  BY <1>1, ListExactIs DEF QueueTypes
<1> HIDE DEF i, j
<1>6. list' \in Seq(Callers)
  BY <1>2, <1>3, <1>5, RemoveFacts
<1>7. Unique(list') /\ \A u : Holds(list', u) <=> Holds(list, u) /\ u # t
  BY <1>2, <1>3, <1>5, RemoveExact
<1>8. CASE Len(list) = 1
  BY <1>2, <1>3, <1>4, <1>5, <1>6, <1>7, <1>8
<1>9. CASE Len(list) # 1
  <2>1. j \in 1 .. Len(list) /\ list[j] \in Callers
    BY <1>4, <1>5, <1>9
  <2>2. list[j] # t
    BY <1>3, <1>4, <1>5, <2>1 DEF Unique
  <2>3. at[list[j]] # "out" /\ Holds(list, list[j])
    BY <1>1, <2>1 DEF ListExact, Holds
  <2>4. at[list[j]] = "waiting"
    BY <1>1, <1>2, <1>5, <2>1, <2>2, <2>3 DEF OneHasDrive, HasDrive, QueuePlaces
  <2>5. at' = [at EXCEPT ![t] = "out", ![list[j]] = "woken"]
    BY <1>2, <2>1
  <2>6. at'[t] = "out"
    BY <1>5, <2>1, <2>2, <2>5
  <2> QED
    BY <1>2, <1>4, <1>6, <1>7, <2>1, <2>2, <2>3, <2>4, <2>5, <2>6
<1> QED
  BY <1>8, <1>9

\* What a new request does.
LEMMA RequestFacts ==
  ASSUME Inv, NEW t \in Callers, NEW s \in Sectors[t], Request(t, s)
  PROVE  /\ at[t] = "out" /\ direct' = direct
         /\ list' \in Seq(Callers) /\ list' # <<>> /\ idx' \in [Callers -> Nat]
         /\ Unique(list') /\ \A u : Holds(list', u) <=> Holds(list, u) \/ u = t
         /\ at' = [at EXCEPT ![t] = IF list = <<>> THEN "serving" ELSE "waiting"]
<1>1. QueueTypes /\ ListExact
  BY DEF Inv
<1>2. /\ at[t] = "out" /\ direct' = direct
      /\ idx' = [idx EXCEPT ![t] = s]
      /\ list' = InsertAt(list, InsertPoint(s), t)
      /\ at' = [at EXCEPT ![t] = IF list = <<>> THEN "serving" ELSE "waiting"]
  BY DEF Request
<1>3. list \in Seq(Callers) /\ Unique(list) /\ ~ Holds(list, t)
  BY <1>1, <1>2, ListExactIs DEF QueueTypes
<1>4. InsertPoint(s) \in 1 .. Len(list) + 1
  BY <1>1, InsertPointInRange
<1>5. list' \in Seq(Callers) /\ Len(list') = Len(list) + 1
  BY <1>2, <1>3, <1>4, InsertFacts
<1>6. list' # <<>>
  BY <1>3, <1>5
<1>7. Unique(list') /\ \A u : Holds(list', u) <=> Holds(list, u) \/ u = t
  BY <1>2, <1>3, <1>4, InsertExact
<1>8. s \in Nat
  BY ElevatorAssumption
<1> QED
  BY <1>1, <1>2, <1>5, <1>6, <1>7, <1>8 DEF QueueTypes

\* The queue is empty at first.
LEMMA InitInv == QueueInit => Inv
<1> SUFFICES ASSUME QueueInit
             PROVE  Inv
  OBVIOUS
<1>1. QueueTypes
  BY DEF QueueInit, QueueTypes, QueuePlaces
<1>2. ListExact
  BY DEF QueueInit, ListExact
<1>3. OneHasDrive
  BY DEF QueueInit, OneHasDrive, HasDrive
<1> QED
  BY <1>1, <1>2, <1>3 DEF Inv

\* Every step of device_request keeps the list exact and the drive with one caller.
LEMMA InvStep == Inv /\ [QueueNext]_queue => Inv'
<1> SUFFICES ASSUME Inv, [QueueNext]_queue
             PROVE  Inv'
  OBVIOUS
<1>1. /\ list \in Seq(Callers) /\ idx \in [Callers -> Nat]
      /\ direct \in {"up", "down"} /\ at \in [Callers -> QueuePlaces]
      /\ Unique(list)
      /\ \A t \in Callers : at[t] # "out" <=> Holds(list, t)
  BY ListExactIs DEF Inv, QueueTypes
<1>2. ASSUME NEW t \in Callers, NEW s \in Sectors[t], Request(t, s)
      PROVE  Inv'
  <2>1. /\ at[t] = "out" /\ direct' = direct
        /\ list' \in Seq(Callers) /\ list' # <<>> /\ idx' \in [Callers -> Nat]
        /\ Unique(list')
        /\ \A u : Holds(list', u) <=> Holds(list, u) \/ u = t
        /\ at' = [at EXCEPT ![t] = IF list = <<>> THEN "serving" ELSE "waiting"]
    BY <1>2, RequestFacts
  <2>2. QueueTypes'
    BY <1>1, <2>1 DEF QueueTypes, QueuePlaces
  <2>3. \A u \in Callers : at'[u] # "out" <=> Holds(list', u)
    BY <1>1, <2>1
  <2>4. ListExact'
    BY <2>1, <2>3 DEF ListExact, Unique, Holds
  <2>5. CASE list = <<>>
    <3>1. \A u \in Callers : at[u] = "out"
      BY <1>1, <2>5 DEF Holds
    <3>2. \A u \in Callers : HasDrive(u)' <=> u = t
      BY <1>1, <2>1, <2>5, <3>1 DEF HasDrive
    <3> QED
      BY <2>2, <2>4, <3>2 DEF Inv, OneHasDrive
  <2>6. CASE list # <<>>
    <3>1. \A u \in Callers : HasDrive(u)' <=> HasDrive(u)
      BY <1>1, <2>1, <2>6 DEF HasDrive
    <3> QED
      BY <2>2, <2>4, <2>6, <3>1 DEF Inv, OneHasDrive
  <2> QED
    BY <2>5, <2>6
<1>3. ASSUME NEW t \in Callers, Serve(t)
      PROVE  Inv'
  <2>1. /\ at[t] = "woken" /\ at' = [at EXCEPT ![t] = "serving"]
        /\ list' = list /\ idx' = idx /\ direct' = direct
    BY <1>3 DEF Serve
  <2>2. QueueTypes'
    BY <1>1, <2>1 DEF QueueTypes, QueuePlaces
  <2>3. ListExact'
    BY <1>1, <2>1 DEF ListExact, Unique, Holds
  <2>4. \A u \in Callers : HasDrive(u)' <=> HasDrive(u)
    BY <1>1, <2>1 DEF HasDrive
  <2> QED
    BY <2>1, <2>2, <2>3, <2>4 DEF Inv, OneHasDrive
<1>4. ASSUME NEW t \in Callers, Finish(t)
      PROVE  Inv'
  <2>1. /\ at[t] = "serving" /\ at'[t] = "out"
        /\ list' \in Seq(Callers) /\ idx' = idx /\ direct' \in {"up", "down"}
        /\ Unique(list') /\ \A u : Holds(list', u) <=> Holds(list, u) /\ u # t
    BY <1>4, FinishFacts
  <2>2. \/ Len(list) = 1 /\ at' = [at EXCEPT ![t] = "out"]
        \/ \E u \in Callers \ {t} :
             /\ at[u] = "waiting" /\ Holds(list', u)
             /\ at' = [at EXCEPT ![t] = "out", ![u] = "woken"]
    BY <1>4, FinishFacts
  <2>3. \A u \in Callers : HasDrive(u) => u = t
    BY <2>1 DEF Inv, OneHasDrive, HasDrive
  <2>4. CASE Len(list) = 1 /\ at' = [at EXCEPT ![t] = "out"]
    <3>1. \A u : ~ Holds(list', u)
      <4>1. Holds(list, t)
        BY <1>1, <2>1
      <4>2. \A u : Holds(list, u) => u = t
        BY <4>1, <2>4 DEF Holds
      <4> QED
        BY <2>1, <4>2
    <3>2. list' = <<>>
      <4>1. CASE Len(list') = 0
        BY <2>1, <4>1
      <4>2. CASE Len(list') # 0
        <5>1. 1 \in 1 .. Len(list')
          BY <2>1, <4>2
        <5> QED
          BY <3>1, <5>1 DEF Holds
      <4> QED
        BY <4>1, <4>2
    <3>3. QueueTypes'
      BY <1>1, <2>1, <2>4 DEF QueueTypes, QueuePlaces
    <3>4. ListExact'
      BY <1>1, <2>1, <2>4 DEF ListExact, Unique, Holds
    <3>5. \A u \in Callers : ~ HasDrive(u)'
      BY <1>1, <2>3, <2>4 DEF HasDrive
    <3> QED
      BY <3>2, <3>3, <3>4, <3>5 DEF Inv, OneHasDrive
  <2>5. CASE \E u \in Callers \ {t} : /\ at[u] = "waiting" /\ Holds(list', u)
                                    /\ at' = [at EXCEPT ![t] = "out", ![u] = "woken"]
    <3>1. PICK u \in Callers \ {t} : /\ at[u] = "waiting"
                                   /\ at' = [at EXCEPT ![t] = "out", ![u] = "woken"]
      BY <2>5
    <3>2. QueueTypes'
      BY <1>1, <2>1, <3>1 DEF QueueTypes, QueuePlaces
    <3>3. \A v \in Callers : at'[v] # "out" <=> Holds(list', v)
      BY <1>1, <2>1, <3>1
    <3>4. ListExact'
      BY <2>1, <3>3 DEF ListExact, Unique, Holds
    <3>5. \A v \in Callers : HasDrive(v)' <=> v = u
      BY <1>1, <2>3, <3>1 DEF HasDrive
    <3> QED
      BY <3>2, <3>4, <3>5 DEF Inv, OneHasDrive
  <2> QED
    BY <2>2, <2>4, <2>5
<1>5. CASE UNCHANGED queue
  BY <1>5 DEF queue, Inv, QueueTypes, ListExact, OneHasDrive, HasDrive
<1> QED
  BY <1>2, <1>3, <1>4, <1>5 DEF QueueNext

\* The state components of the queue keep their types.
THEOREM TypeCorrect == QueueSpec => []QueueTypes
<1>1. Inv => QueueTypes
  BY DEF Inv
<1> QED
  BY <1>1, InitInv, InvStep, PTL DEF QueueSpec

\* request_list holds exactly the callers inside device_request, each once.
THEOREM ListIsExact == QueueSpec => []ListExact
<1>1. Inv => ListExact
  BY DEF Inv
<1> QED
  BY <1>1, InitInv, InvStep, PTL DEF QueueSpec

\* As long as there are requests exactly one caller has the drive.
THEOREM DriveHandedOn == QueueSpec => []OneHasDrive
<1>1. Inv => OneHasDrive
  BY DEF Inv
<1> QED
  BY <1>1, InitInv, InvStep, PTL DEF QueueSpec
-----------------------------------------------------------------------------
(* The order of the requests.                                              *)

\* list_insert_sort keeps the list sorted by sector.
Sorted == \A i, j \in 1 .. Len(list) : i <= j => idx[list[i]] <= idx[list[j]]

\* Where list_insert_sort puts a sector: behind what is not larger.
LEMMA InsertPointSplits ==
  ASSUME QueueTypes, Sorted, NEW s \in Nat
  PROVE  \A i \in 1 .. Len(list) :
           IF i < InsertPoint(s) THEN idx[list[i]] <= s ELSE idx[list[i]] > s
<1> DEFINE larger == {i \in 1 .. Len(list) : idx[list[i]] > s}
<1>1. Len(list) \in Nat /\ \A i \in 1 .. Len(list) : idx[list[i]] \in Nat
  BY DEF QueueTypes
<1>2. CASE larger = {}
  BY <1>1, <1>2 DEF InsertPoint
<1>3. CASE larger # {}
  <2>1. larger \in SUBSET Nat
    BY <1>1
  <2>2. \E i \in larger : \A j \in larger : i <= j
    <3> HIDE DEF larger
    <3> QED
      BY <1>3, <2>1, Least
  <2>3. InsertPoint(s) = CHOOSE i \in larger : \A j \in larger : i <= j
    BY <1>3 DEF InsertPoint
  <2>4. InsertPoint(s) \in larger /\ \A j \in larger : InsertPoint(s) <= j
    <3> HIDE DEF larger
    <3> QED
      BY <2>2, <2>3
  <2>5. PICK k \in larger : k = InsertPoint(s) /\ \A j \in larger : k <= j
    BY <2>4
  <2>6. ASSUME NEW i \in 1 .. Len(list), i < k
        PROVE  idx[list[i]] <= s
    <3>1. i \notin larger
      BY <1>1, <2>5, <2>6
    <3> QED
      BY <1>1, <3>1
  <2>7. ASSUME NEW i \in 1 .. Len(list), ~ (i < k)
        PROVE  idx[list[i]] > s
    BY <1>1, <2>5, <2>7 DEF Sorted
  <2> QED
    BY <2>5, <2>6, <2>7
<1> QED
  BY <1>2, <1>3

LEMMA SortedStep ==
  ASSUME Inv, Sorted, [QueueNext]_queue
  PROVE  Sorted'
<1>1. /\ list \in Seq(Callers) /\ idx \in [Callers -> Nat] /\ QueueTypes
      /\ \A t \in Callers : at[t] # "out" <=> Holds(list, t)
  BY ListExactIs DEF Inv, QueueTypes
<1>2. ASSUME NEW t \in Callers, NEW s \in Sectors[t], Request(t, s)
      PROVE  Sorted'
  <2> DEFINE k == InsertPoint(s)
  <2>1. /\ at[t] = "out" /\ idx' = [idx EXCEPT ![t] = s] /\ list' = InsertAt(list, k, t)
    BY <1>2 DEF Request
  <2>2. s \in Nat
    BY ElevatorAssumption
  <2>3. k \in 1 .. Len(list) + 1
    BY <1>1, InsertPointInRange
  <2>4. \A i \in 1 .. Len(list) : IF i < k THEN idx[list[i]] <= s ELSE idx[list[i]] > s
    BY <1>1, <2>2, InsertPointSplits
  <2> HIDE DEF k
  <2>5. /\ Len(list') = Len(list) + 1
        /\ \A i \in 1 .. Len(list) + 1 :
             list'[i] = IF i < k THEN list[i] ELSE IF i = k THEN t ELSE list[i - 1]
    <3>1. list \in Seq(Callers) /\ t \in Callers /\ k \in 1 .. Len(list) + 1
      BY <1>1, <2>3
    <3>2. /\ Len(InsertAt(list, k, t)) = Len(list) + 1
          /\ \A i \in 1 .. Len(list) + 1 :
               InsertAt(list, k, t)[i]
                 = IF i < k THEN list[i] ELSE IF i = k THEN t ELSE list[i - 1]
      BY <3>1, InsertFacts
    <3> QED
      BY <2>1, <3>2
  <2>6. \A i \in 1 .. Len(list) : list[i] # t /\ list[i] \in Callers
    BY <1>1, <2>1 DEF Holds
  <2>7. \A i \in 1 .. Len(list) : idx'[list[i]] = idx[list[i]] /\ idx[list[i]] \in Nat
    BY <1>1, <2>1, <2>6
  <2>8. idx'[t] = s
    BY <1>1, <2>1
  <2>9. ASSUME NEW i \in 1 .. Len(list'), NEW j \in 1 .. Len(list'), i <= j
        PROVE  idx'[list'[i]] <= idx'[list'[j]]
    <3>1. Len(list) \in Nat /\ i \in 1 .. Len(list) + 1 /\ j \in 1 .. Len(list) + 1 /\ k \in Int
      BY <1>1, <2>3, <2>5
    <3>2. CASE j < k
      <4>1. i \in 1 .. Len(list) /\ j \in 1 .. Len(list) /\ i < k
        BY <2>3, <2>9, <3>1, <3>2
      <4>2. list'[i] = list[i] /\ list'[j] = list[j]
        BY <2>5, <3>1, <3>2, <4>1
      <4> QED
        BY <2>7, <2>9, <4>1, <4>2 DEF Sorted
    <3>3. CASE j = k
      BY <2>2, <2>3, <2>4, <2>5, <2>7, <2>8, <2>9, <3>1, <3>3
    <3>4. CASE j > k /\ i < k
      BY <2>3, <2>5, <2>7, <2>9, <3>1, <3>4 DEF Sorted
    <3>5. CASE j > k /\ i = k
      BY SMTT(60), <2>2, <2>3, <2>4, <2>5, <2>7, <2>8, <3>1, <3>5
    <3>6. CASE j > k /\ i > k
      BY SMTT(60), <2>3, <2>5, <2>7, <2>9, <3>1, <3>6 DEF Sorted
    <3> QED
      BY <3>1, <3>2, <3>3, <3>4, <3>5, <3>6
  <2> QED
    BY <2>9 DEF Sorted
<1>3. ASSUME NEW t \in Callers, Serve(t)
      PROVE  Sorted'
  BY <1>3 DEF Serve, Sorted
<1>4. ASSUME NEW t \in Callers, Finish(t)
      PROVE  Sorted'
  <2>1. at[t] = "serving" /\ list' = RemoveAt(list, Entry(t)) /\ idx' = idx
    BY <1>4 DEF Finish
  <2>2. PICK k \in 1 .. Len(list) : k = Entry(t)
    BY <1>1, <2>1, EntryFacts DEF Inv
  <2>3. /\ Len(list') = Len(list) - 1
        /\ \A i \in 1 .. Len(list) - 1 : list'[i] = IF i < k THEN list[i] ELSE list[i + 1]
    BY <1>1, <2>1, <2>2, RemoveFacts
  <2>4. ASSUME NEW i \in 1 .. Len(list'), NEW j \in 1 .. Len(list'), i <= j
        PROVE  idx[list'[i]] <= idx[list'[j]]
    <3>1. Len(list) \in Nat /\ k \in Int /\ \A n \in 1 .. Len(list) : idx[list[n]] \in Nat
      BY <1>1
    <3>2. i \in 1 .. Len(list) - 1 /\ j \in 1 .. Len(list) - 1
      BY <2>3
    <3>3. \E n \in {i, i + 1} : n \in 1 .. Len(list) /\ list'[i] = list[n] /\ (n = i <=> i < k)
      BY <2>3, <3>1, <3>2
    <3>4. \E n \in {j, j + 1} : n \in 1 .. Len(list) /\ list'[j] = list[n] /\ (n = j <=> j < k)
      BY <2>3, <3>1, <3>2
    <3> QED
      BY SMTT(60), <2>4, <3>1, <3>2, <3>3, <3>4 DEF Sorted
  <2> QED
    BY <2>1, <2>4 DEF Sorted
<1>5. CASE UNCHANGED queue
  BY <1>5 DEF queue, Sorted
<1> QED
  BY <1>2, <1>3, <1>4, <1>5 DEF QueueNext

\* The drive goes to a neighbour in the list, on the side the arm comes from only
\* from the end of it.
LEMMA OrderStep ==
  ASSUME Inv, Sorted, [QueueNext]_queue
  PROVE  [InOrder]_queue
<1> SUFFICES ASSUME QueueNext, NEW t \in Callers, NEW u \in Callers, PassedOn(t, u),
                    NEW m \in 1 .. Len(list)
             PROVE  LET third == idx[list[m]]
                    IN  /\ ~ (idx[t] < third /\ third < idx[u])
                        /\ ~ (idx[u] < third /\ third < idx[t])
                        /\ direct = "up" /\ idx[u] < idx[t] => third <= idx[t]
                        /\ direct # "up" /\ idx[u] > idx[t] => third >= idx[t]
  BY DEF InOrder
<1>1. /\ list \in Seq(Callers) /\ idx \in [Callers -> Nat] /\ direct \in {"up", "down"}
      /\ at \in [Callers -> QueuePlaces] /\ QueueTypes /\ ListExact
  BY DEF Inv, QueueTypes
<1>2. at[t] = "serving" /\ at'[t] = "out" /\ at[u] = "waiting" /\ at'[u] = "woken"
  BY DEF PassedOn
<1>3. Finish(t)
  <2>1. \A v \in Callers : \A s \in Sectors[v] : ~ Request(v, s)
    BY <1>1, <1>2 DEF Request
  <2>2. \A v \in Callers : ~ Serve(v)
    BY <1>1, <1>2 DEF Serve
  <2>3. \A v \in Callers : Finish(v) => v = t
    BY <1>2 DEF Finish, Inv, OneHasDrive, HasDrive
  <2> QED
    BY <2>1, <2>2, <2>3 DEF QueueNext
<1> DEFINE i == Entry(t)
           j == NextEntry(i)
<1>4. i \in 1 .. Len(list) /\ list[i] = t
  BY <1>1, <1>2, EntryFacts
<1>5. at' = IF j \in 1 .. Len(list) THEN [[at EXCEPT ![t] = "out"] EXCEPT ![list[j]] = "woken"]
                                    ELSE [at EXCEPT ![t] = "out"]
  BY <1>3 DEF Finish
<1>6. \/ j = i + 1 /\ (direct = "up" \/ i = 1)
      \/ j = i - 1 /\ (direct # "up" \/ i = Len(list))
  BY <1>1, <1>4 DEF NextEntry, Turned
<1> HIDE DEF i, j
<1>7. j \in 1 .. Len(list) /\ list[j] = u
  BY <1>1, <1>2, <1>5
<1>8. list[m] \in Callers /\ Len(list) \in Nat
  BY <1>1
<1>9. idx[t] \in Nat /\ idx[u] \in Nat /\ idx[list[m]] \in Nat
  BY <1>1, <1>8
<1>10. (m <= i => idx[list[m]] <= idx[t]) /\ (i <= m => idx[t] <= idx[list[m]])
  BY <1>4 DEF Sorted
<1>11. (m <= j => idx[list[m]] <= idx[u]) /\ (j <= m => idx[u] <= idx[list[m]])
  BY <1>7 DEF Sorted
<1>12. (i <= j => idx[t] <= idx[u]) /\ (j <= i => idx[u] <= idx[t])
  BY <1>4, <1>7 DEF Sorted
<1>13. i \in Int /\ j \in Int /\ m \in Int /\ 1 <= m /\ m <= Len(list)
  BY <1>4, <1>7, <1>8
<1>14. CASE j = i + 1 /\ (direct = "up" \/ i = 1)
  BY <1>8, <1>9, <1>10, <1>11, <1>12, <1>13, <1>14
<1>15. CASE j = i - 1 /\ (direct # "up" \/ i = Len(list))
  BY <1>8, <1>9, <1>10, <1>11, <1>12, <1>13, <1>15
<1> QED
  BY <1>6, <1>14, <1>15

\* The arm goes on in its direction while there is a request in front of it, and
\* passes over no request on its way.
THEOREM ServedInOrder == QueueSpec => ElevatorOrder
<1>1. QueueInit => Sorted
  BY DEF QueueInit, Sorted
<1>2. Inv /\ Sorted /\ [QueueNext]_queue => Sorted'
  BY SortedStep
<1>3. Inv /\ Sorted /\ [QueueNext]_queue => [InOrder]_queue
  BY OrderStep
<1> QED
  BY <1>1, <1>2, <1>3, InitInv, InvStep, PTL DEF QueueSpec, ElevatorOrder
-----------------------------------------------------------------------------
(* The refinement of BlockDevice.                                          *)

\* Serving as a function of the places.
ServingIn(p) == IF \E t \in Callers : p[t] = "serving"
                  THEN CHOOSE t \in Callers : p[t] = "serving" ELSE Nobody

\* With one caller in the drive the choice in Serving is no choice.
LEMMA ServingUnique ==
  ASSUME NEW p, NEW t \in Callers, p[t] = "serving",
         \A u \in Callers : p[u] = "serving" => u = t
  PROVE  ServingIn(p) = t
BY DEF ServingIn

\* Every step of device_request is a step of BlockDevice or changes nothing there.
LEMMA RefinementStep ==
  ASSUME Inv, Inv', [QueueNext]_queue
  PROVE  [Abstract!Next]_(Abstract!vars)
<1>1. /\ at \in [Callers -> QueuePlaces] /\ Nobody \notin Callers
      /\ \A t, u \in Callers : HasDrive(t) /\ HasDrive(u) => t = u
  BY ElevatorAssumption DEF Inv, QueueTypes, OneHasDrive
<1>2. Serving = ServingIn(at) /\ Serving' = ServingIn(at')
  BY DEF Serving, ServingIn
<1>3. \A t, u \in Callers : at[t] \in {"woken", "serving"} /\ at[u] = "serving" => t = u
  BY <1>1 DEF HasDrive
<1>4. ASSUME NEW t \in Callers, NEW s \in Sectors[t], Request(t, s)
      PROVE  Abstract!Next
  <2>1. /\ at[t] = "out"
        /\ at' = [at EXCEPT ![t] = IF list = <<>> THEN "serving" ELSE "waiting"]
    BY <1>4, RequestFacts
  <2>2. CASE list = <<>>
    <3>1. \A u \in Callers : at[u] = "out"
      BY <2>2 DEF Inv, ListExact
    <3>2. \A u \in Callers : at'[u] = IF u = t THEN "serving" ELSE "out"
      BY <1>1, <2>1, <2>2, <3>1
    <3>3. Serving = Nobody
      BY <1>2, <3>1 DEF ServingIn
    <3>4. Serving' = t
      BY <1>2, <3>2, ServingUnique
    <3>5. Wanted = {} /\ Wanted' = {}
      BY <3>1, <3>2 DEF Wanted
    <3>6. Abstract!Start(t)
      BY <3>3, <3>4, <3>5 DEF Abstract!Start
    <3> QED
      BY <3>6 DEF Abstract!Next
  <2>3. CASE list # <<>>
    <3>1. \A u \in Callers : at'[u] = IF u = t THEN "waiting" ELSE at[u]
      BY <1>1, <2>1, <2>3
    <3>2. Wanted' = Wanted \cup {t} /\ t \notin Wanted
      BY <2>1, <3>1 DEF Wanted
    <3>3. \A u \in Callers : at'[u] = "serving" <=> at[u] = "serving"
      BY <2>1, <3>1
    <3>4. Serving' = Serving /\ Serving # t
      <4>1. CASE \E u \in Callers : at[u] = "serving"
        <5>1. PICK u \in Callers : at[u] = "serving"
          BY <4>1
        <5>2. Serving = u /\ Serving' = u
          BY <1>2, <1>3, <3>3, <5>1, ServingUnique
        <5> QED
          BY <2>1, <5>1, <5>2
      <4>2. CASE ~ \E u \in Callers : at[u] = "serving"
        BY <1>1, <1>2, <3>3, <4>2 DEF ServingIn
      <4> QED
        BY <4>1, <4>2
    <3>5. Abstract!Submit(t)
      BY <3>2, <3>4 DEF Abstract!Submit
    <3> QED
      BY <3>5 DEF Abstract!Next
  <2> QED
    BY <2>2, <2>3
<1>5. ASSUME NEW t \in Callers, Serve(t)
      PROVE  Abstract!Next
  <2>1. at[t] = "woken" /\ \A u \in Callers : at'[u] = IF u = t THEN "serving" ELSE at[u]
    BY <1>1, <1>5 DEF Serve
  <2>2. \A u \in Callers : at[u] # "serving"
    BY <1>3, <2>1
  <2>3. Serving = Nobody /\ Serving' = t
    <3>1. Serving = Nobody
      BY <1>2, <2>2 DEF ServingIn
    <3>2. Serving' = t
      BY <1>2, <2>1, <2>2, ServingUnique
    <3> QED
      BY <3>1, <3>2
  <2>4. t \in Wanted /\ Wanted' = Wanted \ {t}
    BY <2>1 DEF Wanted
  <2>5. Abstract!Start(t)
    BY <2>3, <2>4 DEF Abstract!Start
  <2> QED
    BY <2>5 DEF Abstract!Next
<1>6. ASSUME NEW t \in Callers, Finish(t)
      PROVE  Abstract!Next
  <2>1. /\ at[t] = "serving"
        /\ \/ at' = [at EXCEPT ![t] = "out"]
           \/ \E u \in Callers \ {t} : /\ at[u] = "waiting"
                                     /\ at' = [at EXCEPT ![t] = "out", ![u] = "woken"]
    BY <1>6, FinishFacts
  <2>2. \A u \in Callers : at'[u] # "serving"
    BY <1>1, <1>3, <2>1
  <2>3. Serving = t /\ Serving' = Nobody
    <3>1. Serving = t
      BY <1>2, <1>3, <2>1, ServingUnique
    <3>2. Serving' = Nobody
      BY <1>2, <2>2 DEF ServingIn
    <3> QED
      BY <3>1, <3>2
  <2>4. Wanted' = Wanted
    BY <1>1, <2>1 DEF Wanted
  <2>5. Abstract!Finish(t)
    BY <2>3, <2>4 DEF Abstract!Finish
  <2> QED
    BY <2>5 DEF Abstract!Next
<1>7. CASE UNCHANGED queue
  BY <1>7 DEF queue, Wanted, Serving, Abstract!vars
<1> QED
  BY <1>4, <1>5, <1>6, <1>7 DEF QueueNext

\* The request queue implements BlockDevice: one request at a time is with the
\* drive, each request once.
THEOREM Refinement == QueueSpec => ImplementsBlockDevice
<1>1. QueueInit => Abstract!Init
  BY DEF QueueInit, Abstract!Init, Wanted, Serving
<1>2. Inv /\ Inv' /\ [QueueNext]_queue => [Abstract!Next]_(Abstract!vars)
  BY RefinementStep
<1> QED
  BY <1>1, <1>2, InitInv, InvStep, PTL DEF QueueSpec, ImplementsBlockDevice, Abstract!Spec
=============================================================================
