------------------------- MODULE BufferCacheProofs --------------------------
(***************************************************************************)
(* Proofs about BufferCache, for any finite set of tasks, any number of    *)
(* buffers and any blocks.                                                 *)
(*                                                                         *)
(* A buffer is free when its count is 0, so everything rests on the count  *)
(* being the number of references: Counted says so of the set of the       *)
(* references, and Basic adds what the lists hold and which calls are in   *)
(* progress.  The two theorems on wake-ups and on the hash table need no   *)
(* more.  SeesLatest follows a block from its buffer to the disk and back; *)
(* SoleOne is the invariant of a block that one task uses.                 *)
(***************************************************************************)
EXTENDS BufferCache, FiniteSetTheorems, SequenceTheorems, WellFoundedInduction, TLAPS

\* Where everything is after the removal of an entry.
LEMMA RemoveFacts ==
  ASSUME NEW S, NEW q \in Seq(S), NEW k \in 1 .. Len(q)
  PROVE  /\ RemoveAt(q, k) \in Seq(S)
         /\ Len(RemoveAt(q, k)) = Len(q) - 1
         /\ \A i \in 1 .. Len(q) - 1 :
              RemoveAt(q, k)[i] = IF i < k THEN q[i] ELSE q[i + 1]
<1> DEFINE front == SubSeq(q, 1, k - 1)
           back  == SubSeq(q, k + 1, Len(q))
<1>1. Len(q) \in Nat /\ k \in Int /\ \A i \in 1 .. Len(q) : q[i] \in S
  OBVIOUS
<1>2. /\ front \in Seq(S) /\ Len(front) = k - 1
      /\ \A i \in 1 .. k - 1 : front[i] = q[i]
  <2>1. \A i \in 1 .. k - 1 : q[i] \in S
    BY <1>1
  <2>2. /\ front \in Seq(S)
        /\ Len(front) = IF 1 <= k - 1 THEN k - 1 - 1 + 1 ELSE 0
        /\ \A i \in 1 .. k - 1 - 1 + 1 : front[i] = q[1 + i - 1]
    BY <1>1, <2>1, SubSeqProperties
  <2> HIDE DEF front
  <2> QED
    BY <1>1, <2>2
<1>3. /\ back \in Seq(S) /\ Len(back) = Len(q) - k
      /\ \A i \in 1 .. Len(q) - k : back[i] = q[k + i]
  <2>1. (\A i \in k + 1 .. Len(q) : q[i] \in S) /\ k + 1 \in Int
    BY <1>1
  <2>2. /\ back \in Seq(S)
        /\ Len(back) = IF k + 1 <= Len(q) THEN Len(q) - (k + 1) + 1 ELSE 0
        /\ \A i \in 1 .. Len(q) - (k + 1) + 1 : back[i] = q[k + 1 + i - 1]
    BY <1>1, <2>1, SubSeqProperties
  <2> HIDE DEF back
  <2> QED
    BY <1>1, <2>2
<1>4. RemoveAt(q, k) = front \o back
  BY DEF RemoveAt
<1> HIDE DEF front, back
<1>5. /\ front \o back \in Seq(S)
      /\ Len(front \o back) = Len(front) + Len(back)
      /\ \A i \in 1 .. Len(front) + Len(back) : (front \o back)[i] =
           IF i <= Len(front) THEN front[i] ELSE back[i - Len(front)]
  BY <1>2, <1>3, ConcatProperties
<1>6. Len(front) + Len(back) = Len(q) - 1
  BY <1>1, <1>2, <1>3
<1>7. ASSUME NEW i \in 1 .. Len(q) - 1
      PROVE  (front \o back)[i] = IF i < k THEN q[i] ELSE q[i + 1]
  <2>1. (front \o back)[i] = IF i <= k - 1 THEN front[i] ELSE back[i - (k - 1)]
    BY <1>2, <1>5, <1>6
  <2>2. CASE i < k
    <3>1. i \in 1 .. k - 1 /\ i <= k - 1
      BY <2>2, <1>1
    <3> QED
      BY <3>1, <2>1, <2>2, <1>2
  <2>3. CASE i >= k
    <3>1. i - (k - 1) \in 1 .. Len(q) - k /\ k + (i - (k - 1)) = i + 1 /\ ~ (i <= k - 1)
      BY <2>3, <1>1
    <3>2. back[i - (k - 1)] = q[i + 1]
      BY <3>1, <1>3
    <3> QED
      BY <2>1, <2>3, <3>1, <3>2, <1>1
  <2>4. i < k \/ i >= k
    BY <1>1
  <2> QED
    BY <2>2, <2>3, <2>4, Zenon
<1> QED
  BY <1>4, <1>5, <1>6, <1>7

\* q contains nothing twice; q contains x.
Unique(q)   == \A i, j \in 1 .. Len(q) : q[i] = q[j] => i = j
Holds(q, x) == \E i \in 1 .. Len(q) : q[i] = x

\* list_remove takes its entry and nothing else.
LEMMA RemoveExact ==
  ASSUME NEW S, NEW q \in Seq(S), NEW k \in 1 .. Len(q), Unique(q)
  PROVE  /\ Unique(RemoveAt(q, k))
         /\ \A u : Holds(RemoveAt(q, k), u) <=> Holds(q, u) /\ u # q[k]
<1> DEFINE r == RemoveAt(q, k)
<1>1. /\ Len(q) \in Nat /\ k \in Int /\ 1 <= k /\ k <= Len(q)
      /\ Len(r) = Len(q) - 1
      /\ \A i \in 1 .. Len(q) - 1 : r[i] = IF i < k THEN q[i] ELSE q[i + 1]
  BY RemoveFacts
<1> HIDE DEF r
<1>2. ASSUME NEW i \in 1 .. Len(q) - 1
      PROVE  \E m \in 1 .. Len(q) :
               r[i] = q[m] /\ m # k /\ m = (IF i < k THEN i ELSE i + 1)
  <2>1. CASE i < k
    BY <1>1, <2>1
  <2>2. CASE i >= k
    <3>1. i + 1 \in 1 .. Len(q) /\ ~ (i < k) /\ i + 1 # k
      BY <1>1, <2>2
    <3> QED
      BY <1>1, <3>1
  <2> QED
    BY <1>1, <2>1, <2>2
<1>3. Unique(r)
  <2> SUFFICES ASSUME NEW i \in 1 .. Len(q) - 1, NEW j \in 1 .. Len(q) - 1, r[i] = r[j]
               PROVE  i = j
    BY <1>1 DEF Unique
  <2>1. PICK m \in 1 .. Len(q) : r[i] = q[m] /\ m # k /\ m = (IF i < k THEN i ELSE i + 1)
    BY <1>2
  <2>2. PICK n \in 1 .. Len(q) : r[j] = q[n] /\ n # k /\ n = (IF j < k THEN j ELSE j + 1)
    BY <1>2
  <2>3. m = n
    BY <2>1, <2>2 DEF Unique
  <2> QED
    BY <2>1, <2>2, <2>3, <1>1
<1>4. ASSUME NEW u, Holds(q, u), u # q[k]
      PROVE  Holds(r, u)
  <2>1. PICK m \in 1 .. Len(q) : q[m] = u
    BY <1>4 DEF Holds
  <2>2. CASE m < k
    <3>1. m \in 1 .. Len(q) - 1 /\ r[m] = u
      BY <1>1, <2>1, <2>2
    <3> QED
      BY <3>1, <1>1 DEF Holds
  <2>3. CASE m > k
    <3>1. m - 1 \in 1 .. Len(q) - 1 /\ ~ (m - 1 < k) /\ m - 1 + 1 = m
      BY <1>1, <2>3
    <3>2. r[m - 1] = u
      BY <1>1, <2>1, <3>1
    <3> QED
      BY <3>1, <3>2, <1>1 DEF Holds
  <2> QED
    BY <1>1, <1>4, <2>1, <2>2, <2>3
<1>5. ASSUME NEW u, Holds(r, u)
      PROVE  Holds(q, u) /\ u # q[k]
  <2>1. PICK i \in 1 .. Len(q) - 1 : r[i] = u
    BY <1>1, <1>5 DEF Holds
  <2>2. PICK m \in 1 .. Len(q) : u = q[m] /\ m # k
    BY <1>2, <2>1
  <2> QED
    BY <2>2 DEF Holds, Unique
<1> QED
  BY <1>3, <1>4, <1>5 DEF r

\* Every non-empty set of naturals has a least element.
LEMMA Least ==
  ASSUME NEW T \in SUBSET Nat, T # {}
  PROVE  \E x \in T : \A y \in T : x <= y
<1> DEFINE R == {p \in Nat \X Nat : p[1] < p[2]}
<1>1. IsWellFoundedOn(R, Nat)
  BY NatLessThanWellFounded DEF OpToRel
<1>2. \A x, y \in Nat : y < x => <<y, x>> \in R
  OBVIOUS
<1> HIDE DEF R
<1>3. PICK x \in T : \A y \in T : ~ (<<y, x>> \in R)
  BY <1>1, WFMin
<1>4. \A y \in T : ~ (y < x)
  BY <1>2, <1>3
<1> QED
  BY <1>4

\* list_remove of an entry that may be there.
LEMMA RemoveFirstFacts ==
  ASSUME NEW S, NEW q \in Seq(S), NEW x, Unique(q)
  PROVE  /\ RemoveFirst(q, x) \in Seq(S) /\ Unique(RemoveFirst(q, x))
         /\ Len(RemoveFirst(q, x)) <= Len(q)
         /\ Holds(q, x) => Len(RemoveFirst(q, x)) = Len(q) - 1
         /\ \A u : Holds(RemoveFirst(q, x), u) <=> Holds(q, u) /\ u # x
<1>1. Len(q) \in Nat
  OBVIOUS
<1>2. CASE ~ Holds(q, x)
  <2>1. RemoveFirst(q, x) = q
    BY <1>2 DEF RemoveFirst, Holds
  <2> QED
    BY <1>1, <1>2, <2>1 DEF Holds
<1>3. CASE Holds(q, x)
  <2> DEFINE I == {i \in 1 .. Len(q) : q[i] = x}
             k == Min(I)
  <2>1. I # {} /\ I \in SUBSET Nat
    BY <1>1, <1>3 DEF Holds
  <2>2. RemoveFirst(q, x) = RemoveAt(q, k)
    BY <1>3, <2>1 DEF RemoveFirst, SelectInSeq, Holds
  <2>3. k \in I
    <3> HIDE DEF I
    <3> QED
      BY <2>1, Least DEF Min
  <2>4. k \in 1 .. Len(q) /\ q[k] = x
    BY <2>3
  <2> HIDE DEF k
  <2>5. RemoveAt(q, k) \in Seq(S) /\ Len(RemoveAt(q, k)) = Len(q) - 1
    BY <2>4, RemoveFacts
  <2>6. Unique(RemoveAt(q, k)) /\ \A u : Holds(RemoveAt(q, k), u) <=> Holds(q, u) /\ u # q[k]
    BY <2>4, RemoveExact
  <2> QED
    BY <1>1, <2>2, <2>4, <2>5, <2>6
<1> QED
  BY <1>2, <1>3

\* list_push of something that is not there yet.
LEMMA PushFacts ==
  ASSUME NEW S, NEW q \in Seq(S), NEW x \in S, Unique(q), ~ Holds(q, x)
  PROVE  /\ <<x>> \o q \in Seq(S) /\ Unique(<<x>> \o q) /\ Len(<<x>> \o q) = Len(q) + 1
         /\ \A u : Holds(<<x>> \o q, u) <=> Holds(q, u) \/ u = x
<1> DEFINE r == <<x>> \o q
<1>1. /\ Len(q) \in Nat /\ r \in Seq(S) /\ Len(r) = Len(q) + 1 /\ r[1] = x
      /\ \A i \in 2 .. Len(q) + 1 : r[i] = q[i - 1]
  OBVIOUS
<1> HIDE DEF r
<1>2. \A i \in 2 .. Len(q) + 1 : i - 1 \in 1 .. Len(q)
  BY <1>1
<1>3. Unique(r)
  <2> SUFFICES ASSUME NEW i \in 1 .. Len(q) + 1, NEW j \in 1 .. Len(q) + 1, r[i] = r[j]
               PROVE  i = j
    BY <1>1 DEF Unique
  <2>1. CASE i = 1 /\ j # 1
    BY <1>1, <1>2, <2>1 DEF Holds
  <2>2. CASE i # 1 /\ j = 1
    BY <1>1, <1>2, <2>2 DEF Holds
  <2>3. CASE i # 1 /\ j # 1
    <3>1. i - 1 \in 1 .. Len(q) /\ j - 1 \in 1 .. Len(q) /\ q[i - 1] = q[j - 1]
      BY <1>1, <2>3
    <3>2. i - 1 = j - 1
      BY <3>1 DEF Unique
    <3> QED
      BY <3>2
  <2> QED
    BY <2>1, <2>2, <2>3
<1>4. ASSUME NEW u, Holds(q, u) PROVE Holds(r, u)
  <2>1. PICK m \in 1 .. Len(q) : q[m] = u
    BY <1>4 DEF Holds
  <2>2. m + 1 \in 2 .. Len(q) + 1 /\ m + 1 - 1 = m
    BY <1>1
  <2>3. r[m + 1] = u /\ m + 1 \in 1 .. Len(r)
    BY <1>1, <2>1, <2>2
  <2> QED
    BY <2>3 DEF Holds
<1>5. Holds(r, x)
  BY <1>1 DEF Holds
<1>6. ASSUME NEW u, Holds(r, u), u # x PROVE Holds(q, u)
  BY <1>1, <1>2, <1>6 DEF Holds
<1> QED
  BY <1>1, <1>3, <1>4, <1>5, <1>6 DEF r

\* list_popback.
LEMMA PopFacts ==
  ASSUME NEW S, NEW q \in Seq(S), Unique(q), q # <<>>
  PROVE  /\ Last(q) \in S /\ Holds(q, Last(q))
         /\ Front(q) \in Seq(S) /\ Unique(Front(q)) /\ Len(Front(q)) = Len(q) - 1
         /\ \A u : Holds(Front(q), u) <=> Holds(q, u) /\ u # Last(q)
<1> DEFINE n == Len(q)
           f == Front(q)
<1>1. n \in Nat \ {0} /\ \A i \in 1 .. n : q[i] \in S
  OBVIOUS
<1>2. Last(q) = q[n] /\ n \in 1 .. n
  BY <1>1 DEF Last
<1>3. f \in Seq(S) /\ Len(f) = n - 1 /\ \A i \in 1 .. n - 1 : f[i] = q[i]
  <2>1. n - 1 \in Int /\ \A i \in 1 .. n - 1 : q[i] \in S
    BY <1>1
  <2>2. /\ SubSeq(q, 1, n - 1) \in Seq(S)
        /\ Len(SubSeq(q, 1, n - 1)) = IF 1 <= n - 1 THEN n - 1 - 1 + 1 ELSE 0
        /\ \A i \in 1 .. n - 1 - 1 + 1 : SubSeq(q, 1, n - 1)[i] = q[1 + i - 1]
    BY <2>1, SubSeqProperties
  <2>3. f = SubSeq(q, 1, n - 1)
    BY DEF Front
  <2> HIDE DEF n, f
  <2> QED
    BY <1>1, <2>2, <2>3
<1> HIDE DEF f
<1>4. Unique(f)
  BY <1>1, <1>3 DEF Unique
<1>5. \A u : Holds(f, u) => Holds(q, u) /\ u # Last(q)
  BY <1>1, <1>2, <1>3 DEF Holds, Unique
<1>6. \A u : Holds(q, u) /\ u # Last(q) => Holds(f, u)
  BY <1>1, <1>2, <1>3 DEF Holds
<1> QED
  BY <1>1, <1>2, <1>3, <1>4, <1>5, <1>6 DEF f, Holds
-----------------------------------------------------------------------------
Types ==
  /\ made \in 0 .. N
  /\ block \in [Buffers -> Blocks \cup {None}]
  /\ count \in [Buffers -> Int]
  /\ dirty \in [Buffers -> BOOLEAN] /\ valid \in [Buffers -> BOOLEAN]
  /\ lock \in [Buffers -> Tasks \cup {None}]
  /\ hashed \in Seq(Buffers) /\ free \in Seq(Buffers) /\ waiting \in Seq(Tasks)
  /\ pc \in [Tasks -> Places]
  /\ want \in [Tasks -> Buffers \cup Blocks \cup {None}]
  /\ held \in [Tasks -> [Buffers -> Nat]]
  /\ slept \subseteq Blocks

\* A bread has counted the buffer and not yet returned it.
InBread(t, b) == pc[t] \in {"locking", "reading", "read"} /\ want[t] = b
InWrite(t) == pc[t] \in {"writing", "written", "releasing", "released"}
InWait(t)  == pc[t] \in {"waiting", "woken"}

\* The references to a buffer that count counts: <<t, i>> is the i-th one that
\* t holds, and <<t, 0>> the one of a bread in progress.
Refs(b) == {r \in Tasks \X Nat : r[2] \in 1 .. held[r[1]][b] \/ (r[2] = 0 /\ InBread(r[1], b))}

Counted == \A b \in Buffers : IsFiniteSet(Refs(b)) /\ count[b] = Cardinality(Refs(b))

\* The free list holds exactly the buffers that exist and that nobody uses.
FreeExact ==
  /\ Unique(free)
  /\ \A b : Holds(free, b) <=> b \in 1 .. made /\ count[b] = 0

Lists ==
  /\ Unique(hashed) /\ \A b : Holds(hashed, b) <=> b \in 1 .. made
  /\ FreeExact
  /\ Unique(waiting) /\ \A t : Holds(waiting, t) <=> t \in Tasks /\ pc[t] = "waiting"

Calls ==
  /\ \A b \in Buffers : b > made => count[b] = 0
  /\ \A t \in Tasks : InWrite(t) => want[t] \in Buffers /\ held[t][want[t]] > 0
  /\ \A t \in Tasks : \A b : InBread(t, b) => b \in Buffers
  /\ \A t \in Tasks : InWait(t) => made = N /\ want[t] \in slept

Basic == Types /\ Counted /\ Lists /\ Calls


\* A bread holds its buffer as a caller does, and so does a writer.
LEMMA InUse ==
  ASSUME Types, Counted, NEW t \in Tasks, NEW b \in Buffers, held[t][b] > 0 \/ InBread(t, b)
  PROVE  count[b] > 0
<1>1. CASE held[t][b] > 0
  <2>1. <<t, 1>> \in Refs(b)
    BY <1>1 DEF Refs, Types
  <2> QED
    BY <2>1, FS_EmptySet, FS_CardinalityType DEF Counted
<1>2. CASE InBread(t, b)
  <2>1. <<t, 0>> \in Refs(b)
    BY <1>2 DEF Refs
  <2> QED
    BY <2>1, FS_EmptySet, FS_CardinalityType DEF Counted
<1> QED
  BY <1>1, <1>2

\* Steps that leave a buffer's users alone.
LEMMA RefsKept ==
  ASSUME NEW b, \A u \in Tasks : held'[u][b] = held[u][b] /\ (InBread(u, b)' <=> InBread(u, b))
  PROVE  Refs(b)' = Refs(b)
BY DEF Refs

\* t is given a reference, by a bread that returns at once or begins.
LEMMA RefsGiven ==
  ASSUME Types, NEW b \in Buffers, NEW t \in Tasks,
         \A u \in Tasks \ {t} : held'[u][b] = held[u][b] /\ (InBread(u, b)' <=> InBread(u, b)),
         ~ InBread(t, b),
         \/ held'[t][b] = held[t][b] + 1 /\ ~ InBread(t, b)'
         \/ held'[t][b] = held[t][b] /\ InBread(t, b)'
  PROVE  \E x : x \notin Refs(b) /\ Refs(b)' = Refs(b) \cup {x}
<1>0. held[t][b] \in Nat
  BY DEF Types
<1>1. CASE held'[t][b] = held[t][b] + 1 /\ ~ InBread(t, b)'
  <2> DEFINE h == held[t][b]
             x == <<t, h + 1>>
  <2>1. x \notin Refs(b)
    BY <1>0 DEF Refs
  <2>2. Refs(b)' = Refs(b) \cup {x}
    <3>1. ASSUME NEW u \in Tasks, NEW i \in Nat
          PROVE  <<u, i>> \in Refs(b)' <=> <<u, i>> \in Refs(b) \/ <<u, i>> = x
      <4>1. CASE u = t
        BY <1>0, <1>1, <4>1 DEF Refs
      <4>2. CASE u # t
        BY <4>2 DEF Refs
      <4> QED
        BY <4>1, <4>2
    <3>2. Refs(b) \subseteq Tasks \X Nat /\ Refs(b)' \subseteq Tasks \X Nat /\ x \in Tasks \X Nat
      BY <1>0 DEF Refs
    <3> HIDE DEF x
    <3> QED
      BY <3>1, <3>2
  <2> QED
    BY <2>1, <2>2
<1>2. CASE held'[t][b] = held[t][b] /\ InBread(t, b)'
  <2> DEFINE x == <<t, 0>>
  <2>1. x \notin Refs(b)
    BY DEF Refs
  <2>2. Refs(b)' = Refs(b) \cup {x}
    <3>1. ASSUME NEW u \in Tasks, NEW i \in Nat
          PROVE  <<u, i>> \in Refs(b)' <=> <<u, i>> \in Refs(b) \/ <<u, i>> = x
      <4>1. CASE u = t
        BY <1>0, <1>2, <4>1 DEF Refs
      <4>2. CASE u # t
        BY <4>2 DEF Refs
      <4> QED
        BY <4>1, <4>2
    <3>2. Refs(b) \subseteq Tasks \X Nat /\ Refs(b)' \subseteq Tasks \X Nat /\ x \in Tasks \X Nat
      BY DEF Refs
    <3> HIDE DEF x
    <3> QED
      BY <3>1, <3>2
  <2> QED
    BY <2>1, <2>2
<1> QED
  BY <1>1, <1>2

\* t gives a reference back.
LEMMA RefsReturned ==
  ASSUME Types, NEW b \in Buffers, NEW t \in Tasks,
         \A u \in Tasks \ {t} : held'[u][b] = held[u][b] /\ (InBread(u, b)' <=> InBread(u, b)),
         held[t][b] > 0, held'[t][b] = held[t][b] - 1, ~ InBread(t, b), ~ InBread(t, b)'
  PROVE  \E x \in Refs(b) : Refs(b)' = Refs(b) \ {x}
<1> DEFINE h == held[t][b]
           x == <<t, h>>
<1>0. held[t][b] \in Nat
  BY DEF Types
<1>1. x \in Refs(b)
  BY <1>0 DEF Refs
<1>2. Refs(b)' = Refs(b) \ {x}
  <2>1. ASSUME NEW u \in Tasks, NEW i \in Nat
        PROVE  <<u, i>> \in Refs(b)' <=> <<u, i>> \in Refs(b) /\ <<u, i>> # x
    <3>1. CASE u = t
      BY <1>0, <3>1 DEF Refs
    <3>2. CASE u # t
      BY <3>2 DEF Refs
    <3> QED
      BY <3>1, <3>2
  <2>2. Refs(b) \subseteq Tasks \X Nat /\ Refs(b)' \subseteq Tasks \X Nat
    BY DEF Refs
  <2> HIDE DEF x
  <2> QED
    BY <2>1, <2>2
<1> QED
  BY <1>1, <1>2

\* A bread returns: its reference becomes one that t holds.
LEMMA RefsMoved ==
  ASSUME Types, NEW b \in Buffers, NEW t \in Tasks,
         \A u \in Tasks \ {t} : held'[u][b] = held[u][b] /\ (InBread(u, b)' <=> InBread(u, b)),
         held'[t][b] = held[t][b] + 1, InBread(t, b), ~ InBread(t, b)'
  PROVE  \E x \in Refs(b) : \E y : y \notin Refs(b) /\ Refs(b)' = (Refs(b) \ {x}) \cup {y}
<1> DEFINE h == held[t][b]
           x == <<t, 0>>
           y == <<t, h + 1>>
<1>0. held[t][b] \in Nat
  BY DEF Types
<1>1. x \in Refs(b) /\ y \notin Refs(b)
  BY <1>0 DEF Refs
<1>2. Refs(b)' = (Refs(b) \ {x}) \cup {y}
  <2>1. ASSUME NEW u \in Tasks, NEW i \in Nat
        PROVE  <<u, i>> \in Refs(b)' <=> (<<u, i>> \in Refs(b) /\ <<u, i>> # x) \/ <<u, i>> = y
    <3>1. CASE u = t
      BY <1>0, <3>1 DEF Refs
    <3>2. CASE u # t
      BY <3>2 DEF Refs
    <3> QED
      BY <3>1, <3>2
  <2>2. Refs(b) \subseteq Tasks \X Nat /\ Refs(b)' \subseteq Tasks \X Nat /\ y \in Tasks \X Nat
    BY <1>0 DEF Refs
  <2> HIDE DEF x, y
  <2> QED
    BY <2>1, <2>2
<1> QED
  BY <1>1, <1>2

\* What the steps above do to count.
LEMMA CountStep ==
  ASSUME Counted, NEW b \in Buffers,
         \A c \in Buffers \ {b} : Refs(c)' = Refs(c) /\ count'[c] = count[c],
         \/ Refs(b)' = Refs(b) /\ count'[b] = count[b]
         \/ count'[b] = count[b] + 1 /\ \E x : x \notin Refs(b) /\ Refs(b)' = Refs(b) \cup {x}
         \/ count'[b] = count[b] - 1 /\ \E x \in Refs(b) : Refs(b)' = Refs(b) \ {x}
         \/ /\ count'[b] = count[b]
            /\ \E x \in Refs(b) : \E y : y \notin Refs(b) /\ Refs(b)' = (Refs(b) \ {x}) \cup {y}
  PROVE  Counted'
<1>0. IsFiniteSet(Refs(b)) /\ count[b] = Cardinality(Refs(b)) /\ Cardinality(Refs(b)) \in Nat
  BY FS_CardinalityType DEF Counted
<1>1. IsFiniteSet(Refs(b)') /\ count'[b] = Cardinality(Refs(b)')
  <2>1. CASE Refs(b)' = Refs(b) /\ count'[b] = count[b]
    BY <1>0, <2>1
  <2>2. CASE count'[b] = count[b] + 1 /\ \E x : x \notin Refs(b) /\ Refs(b)' = Refs(b) \cup {x}
    BY <1>0, <2>2, FS_AddElement
  <2>3. CASE count'[b] = count[b] - 1 /\ \E x \in Refs(b) : Refs(b)' = Refs(b) \ {x}
    BY <1>0, <2>3, FS_RemoveElement
  <2>4. CASE /\ count'[b] = count[b]
             /\ \E x \in Refs(b) : \E y : y \notin Refs(b) /\ Refs(b)' = (Refs(b) \ {x}) \cup {y}
    <3>0. PICK x \in Refs(b) : \E y : y \notin Refs(b) /\ Refs(b)' = (Refs(b) \ {x}) \cup {y}
      BY <2>4
    <3>1. PICK y : y \notin Refs(b) /\ Refs(b)' = (Refs(b) \ {x}) \cup {y}
      BY <3>0
    <3>2. IsFiniteSet(Refs(b) \ {x}) /\ Cardinality(Refs(b) \ {x}) = count[b] - 1
      BY ZenonT(60), <1>0, FS_RemoveElement
    <3>3. IsFiniteSet(Refs(b)') /\ Cardinality(Refs(b)') = count[b] - 1 + 1
      BY <3>1, <3>2, FS_AddElement
    <3> QED
      BY <1>0, <2>4, <3>3
  <2> QED
    BY <2>1, <2>2, <2>3, <2>4
<1> QED
  BY <1>1 DEF Counted
-----------------------------------------------------------------------------
Fields ==
  /\ pc' \in [Tasks -> Places]
  /\ want' \in [Tasks -> Buffers \cup Blocks \cup {None}]
  /\ held' \in [Tasks -> [Buffers -> Nat]]
  /\ lock' \in [Buffers -> Tasks \cup {None}]

\* The end of a getblk that counted its reference.
LEMMA HaveFacts ==
  ASSUME Types, Counted, NEW t \in Tasks, NEW b \in Buffers, pc[t] \in {"out", "woken"}, Have(t, b),
         count' = [count EXCEPT ![b] = count[b] + 1]
  PROVE  /\ Fields /\ Counted'
         /\ pc' = [pc EXCEPT ![t] = pc'[t]] /\ pc'[t] \in {"out", "locking", "reading"}
         /\ \A u \in Tasks \ {t} : want'[u] = want[u] /\ held'[u] = held[u]
         /\ \/ valid'[b] /\ pc'[t] = "out" /\ want' = want /\ held'[t] = [held[t] EXCEPT ![b] = @ + 1]
            \/ ~ valid'[b] /\ InBread(t, b)' /\ held' = held
<1>1. CASE valid'[b]
  <2>1. pc' = [pc EXCEPT ![t] = "out"] /\ want' = want /\ lock' = lock /\ held' = [held EXCEPT ![t][b] = @ + 1]
    BY <1>1 DEF Have, Goto
  <2>2. Fields
    <3>1. [held[t] EXCEPT ![b] = @ + 1] \in [Buffers -> Nat]
      BY DEF Types
    <3>2. held' = [held EXCEPT ![t] = [held[t] EXCEPT ![b] = @ + 1]]
      BY <2>1
    <3>3. held' \in [Tasks -> [Buffers -> Nat]]
      BY <3>1, <3>2 DEF Types
    <3>4. pc' \in [Tasks -> Places]
      BY <2>1 DEF Types, Places
    <3> QED
      BY <2>1, <3>3, <3>4 DEF Fields, Types
  <2>3. \A c : ~ InBread(t, c) /\ ~ InBread(t, c)'
    BY <2>1 DEF InBread, Types
  <2>4. \A u \in Tasks : \A c : u # t => (InBread(u, c)' <=> InBread(u, c))
    BY <2>1 DEF InBread, Types
  <2>5. /\ \A u \in Tasks \ {t} : held'[u] = held[u]
        /\ held'[t] = [held[t] EXCEPT ![b] = @ + 1]
        /\ \A c \in Buffers : held'[t][c] = IF c = b THEN held[t][b] + 1 ELSE held[t][c]
    BY <2>1 DEF Types
  <2>6. \E x : x \notin Refs(b) /\ Refs(b)' = Refs(b) \cup {x}
    BY <2>3, <2>4, <2>5, RefsGiven
  <2>7. \A c \in Buffers \ {b} : Refs(c)' = Refs(c) /\ count'[c] = count[c]
    BY <2>3, <2>4, <2>5, RefsKept DEF Types
  <2>8. count'[b] = count[b] + 1
    BY DEF Types
  <2>9. Counted'
    BY <2>6, <2>7, <2>8, CountStep
  <2> QED
    BY <1>1, <2>1, <2>2, <2>5, <2>9 DEF Types
<1>2. CASE ~ valid'[b]
  <2>1. /\ want' = [want EXCEPT ![t] = b] /\ held' = held
        /\ \/ pc' = [pc EXCEPT ![t] = "locking"] /\ lock' = lock
           \/ pc' = [pc EXCEPT ![t] = "reading"] /\ lock' = [lock EXCEPT ![b] = t]
    BY <1>2 DEF Have, Goto
  <2>2. Fields
    <3>1. pc' \in [Tasks -> Places]
      BY <2>1 DEF Types, Places
    <3>2. want' \in [Tasks -> Buffers \cup Blocks \cup {None}]
      BY <2>1 DEF Types
    <3>3. lock' \in [Buffers -> Tasks \cup {None}]
      BY <2>1 DEF Types
    <3> QED
      BY <2>1, <3>1, <3>2, <3>3 DEF Fields, Types
  <2>3. InBread(t, b)' /\ \A c : ~ InBread(t, c) /\ (c # b => ~ InBread(t, c)')
    BY <2>1 DEF InBread, Types
  <2>4. \A u \in Tasks : \A c : u # t => (InBread(u, c)' <=> InBread(u, c))
    BY <2>1 DEF InBread, Types
  <2>6. \E x : x \notin Refs(b) /\ Refs(b)' = Refs(b) \cup {x}
    BY <2>1, <2>3, <2>4, RefsGiven
  <2>7. \A c \in Buffers \ {b} : Refs(c)' = Refs(c) /\ count'[c] = count[c]
    BY <2>1, <2>3, <2>4, RefsKept DEF Types
  <2>8. count'[b] = count[b] + 1
    BY DEF Types
  <2>9. Counted'
    BY <2>6, <2>7, <2>8, CountStep
  <2>10. pc' = [pc EXCEPT ![t] = pc'[t]] /\ pc'[t] \in {"locking", "reading"}
    BY <2>1 DEF Types
  <2>11. \A u \in Tasks \ {t} : want'[u] = want[u]
    BY <2>1 DEF Types
  <2> QED
    BY <1>2, <2>1, <2>2, <2>3, <2>9, <2>10, <2>11
<1> QED
  BY <1>1, <1>2

\* The lists and the calls in progress, when getblk has found a buffer: b is new,
\* or taken from the free list, or was found.
LEMMA HaveKeeps ==
  ASSUME Basic, NEW t \in Tasks, NEW b \in Buffers,
         pc[t] \in {"out", "woken"}, Have(t, b),
         made' \in Nat, made <= made', made' <= N, b <= made', made' # made => made # N,
         \A c \in Buffers : made < c /\ c <= made' => c = b,
         count' = [count EXCEPT ![b] = count[b] + 1],
         hashed' \in Seq(Buffers), Unique(hashed'), \A c : Holds(hashed', c) <=> c \in 1 .. made',
         free' \in Seq(Buffers), Unique(free'), \A c : Holds(free', c) <=> Holds(free, c) /\ c # b,
         waiting' = waiting, slept' = slept
  PROVE  Lists' /\ Calls' /\ Counted' /\ Fields
<1>1. Types /\ Counted /\ Lists /\ Calls /\ N \in Nat
  BY BufferCacheAssumption DEF Basic
<1>2. /\ Fields /\ Counted'
      /\ pc' = [pc EXCEPT ![t] = pc'[t]] /\ pc'[t] \in {"out", "locking", "reading"}
      /\ \A u \in Tasks \ {t} : want'[u] = want[u] /\ held'[u] = held[u]
      /\ \/ valid'[b] /\ pc'[t] = "out" /\ want' = want /\ held'[t] = [held[t] EXCEPT ![b] = @ + 1]
         \/ ~ valid'[b] /\ InBread(t, b)' /\ held' = held
  BY <1>1, HaveFacts
<1>3. \A u \in Tasks \ {t} : pc'[u] = pc[u]
  BY <1>1, <1>2 DEF Types
<1>4. made \in Nat /\ \A c \in Buffers : c \in Nat /\ 1 <= c /\ c <= N
  BY <1>1 DEF Types, Buffers
<1>5. /\ \A c \in Buffers : count[c] \in Int /\ count[c] >= 0
      /\ \A c \in Buffers : count'[c] = IF c = b THEN count[b] + 1 ELSE count[c]
  BY <1>1, FS_CardinalityType DEF Counted, Types
<1>6. FreeExact'
  <2>1. \A c : c \in 1 .. made' => c \in Buffers
    BY <1>1, <1>4 DEF Buffers
  <2>2. ASSUME NEW c PROVE Holds(free', c) <=> c \in 1 .. made' /\ count'[c] = 0
    <3>1. CASE c = b
      BY <1>5, <3>1
    <3>2. CASE c # b
      <4>1. Holds(free', c) <=> c \in 1 .. made /\ count[c] = 0
        BY <1>1, <3>2 DEF Lists, FreeExact
      <4>2. c \in 1 .. made' <=> c \in 1 .. made
        BY <1>4, <2>1, <3>2
      <4>3. c \in 1 .. made' => count'[c] = count[c]
        BY <1>5, <2>1, <3>2
      <4> QED
        BY <4>1, <4>2, <4>3
    <3> QED
      BY <3>1, <3>2
  <2> QED
    BY <2>2 DEF FreeExact, Holds
<1>7. \A u : Holds(waiting', u) <=> u \in Tasks /\ pc'[u] = "waiting"
  BY <1>1, <1>2, <1>3 DEF Lists
<1>8. Lists'
  BY <1>1, <1>6, <1>7 DEF Lists, Holds, Unique
<1>9. Calls'
  <2>1. \A c \in Buffers : c > made' => count'[c] = 0
    BY <1>1, <1>4, <1>5 DEF Calls
  <2>2. \A u \in Tasks : InWrite(u)' => want'[u] \in Buffers /\ held'[u][want'[u]] > 0
    BY <1>1, <1>2, <1>3 DEF Calls, InWrite
  <2>3. \A u \in Tasks : \A c : InBread(u, c)' => c \in Buffers
    BY <1>1, <1>2, <1>3 DEF Calls, InBread
  <2>4. \A u \in Tasks : InWait(u)' => made' = N /\ want'[u] \in slept'
    BY <1>1, <1>2, <1>3 DEF Calls, InWait
  <2> QED
    BY <2>1, <2>2, <2>3, <2>4 DEF Calls
<1> QED
  BY <1>2, <1>8, <1>9

\* get_free_buffer and what follows it.
LEMMA FreeBufferKeeps ==
  ASSUME Basic, NEW t \in Tasks, NEW k \in Blocks, pc[t] \in {"out", "woken"}, FreeBuffer(t, k),
         UNCHANGED <<disk, latest>>
  PROVE  Basic'
<1>1. /\ Types /\ Counted /\ Lists /\ Calls /\ N \in Nat \ {0}
      /\ made \in Nat /\ made <= N /\ count \in [Buffers -> Int]
  BY BufferCacheAssumption DEF Basic, Types
<1>2. /\ Unique(hashed) /\ Unique(free) /\ Unique(waiting)
      /\ hashed \in Seq(Buffers) /\ free \in Seq(Buffers) /\ waiting \in Seq(Tasks)
      /\ \A c : Holds(hashed, c) <=> c \in 1 .. made
      /\ \A c : Holds(free, c) <=> c \in 1 .. made /\ count[c] = 0
      /\ \A u : Holds(waiting, u) <=> u \in Tasks /\ pc[u] = "waiting"
  BY <1>1 DEF Lists, FreeExact, Types
<1>3. ASSUME made < N, made' = made + 1, dirty' = [dirty EXCEPT ![made'] = FALSE],
             valid' = [valid EXCEPT ![made'] = FALSE], hashed' = <<made'>> \o hashed, Assign(t, made', k),
             UNCHANGED <<data, free, waiting, slept>>
      PROVE  Basic'
  <2> DEFINE b == made + 1
  <2>1. b \in Buffers /\ b > made /\ b <= N /\ ~ Holds(hashed, b) /\ ~ Holds(free, b)
    BY <1>1, <1>2, <1>3 DEF Buffers
  <2>2. count[b] = 0
    BY <1>1, <2>1 DEF Calls
  <2>3. made' = b /\ hashed' = <<b>> \o hashed
    BY <1>3
  <2>4. Have(t, b) /\ block' = [block EXCEPT ![b] = k] /\ count' = [count EXCEPT ![b] = count[b] + 1]
    BY <1>3, <2>2 DEF Assign
  <2>5. \A c \in 1 .. b : c \in 1 .. made \/ c = b
    BY <1>1
  <2>5a. \A c \in Buffers : made < c /\ c <= b => c = b
    BY <1>1 DEF Buffers
  <2>5b. \A c \in 1 .. made : c \in 1 .. b
    BY <1>1
  <2>5c. b \in 1 .. b /\ b \in Nat /\ made <= b /\ b # made
    BY <1>1
  <2> HIDE DEF b
  <2>6. hashed' \in Seq(Buffers) /\ Unique(hashed') /\ \A c : Holds(hashed', c) <=> Holds(hashed, c) \/ c = b
    BY <1>2, <2>1, <2>3, PushFacts
  <2>7. \A c : Holds(hashed', c) <=> c \in 1 .. b
    BY <1>2, <2>5, <2>5b, <2>5c, <2>6
  <2>8. \A c : Holds(free', c) <=> Holds(free, c) /\ c # b
    BY <1>3, <2>1
  <2>8a. /\ free' = free /\ waiting' = waiting /\ slept' = slept /\ data' = data
         /\ made' \in Nat /\ made <= made' /\ made' <= N /\ b <= made' /\ made # N
    BY <1>1, <1>3, <2>1, <2>3, <2>5c
  <2>9. Lists' /\ Calls' /\ Counted' /\ Fields
    <3>1. free' \in Seq(Buffers) /\ Unique(free') /\ \A c \in Buffers : made < c /\ c <= made' => c = b
      BY <1>2, <2>3, <2>5a, <2>8a
    <3>2. \A c : Holds(hashed', c) <=> c \in 1 .. made'
      BY <2>3, <2>7
    <3> QED
      BY <2>1, <2>4, <2>6, <2>8, <2>8a, <3>1, <3>2, HaveKeeps
  <2>10. Types'
    <3>1. made' \in 0 .. N
      BY <2>8a
    <3>2. dirty' \in [Buffers -> BOOLEAN] /\ valid' \in [Buffers -> BOOLEAN]
      BY <1>1, <1>3, <2>3 DEF Types
    <3>3. block' \in [Buffers -> Blocks \cup {None}]
      BY <1>1, <2>4 DEF Types
    <3>3a. count' \in [Buffers -> Int]
      BY <1>1, <2>1, <2>2, <2>4
    <3> QED
      BY <1>1, <2>6, <2>8a, <2>9, <3>1, <3>2, <3>3, <3>3a DEF Types, Fields
  <2> QED
    BY <2>9, <2>10 DEF Basic
<1>4. ASSUME made = N, free # <<>>, free' = Front(free), valid' = [valid EXCEPT ![Last(free)] = FALSE],
             hashed' = <<Last(free)>> \o RemoveFirst(hashed, Last(free)), Assign(t, Last(free), k),
             UNCHANGED <<made, dirty, data, waiting, slept>>
      PROVE  Basic'
  <2> DEFINE b == Last(free)
             rest == RemoveFirst(hashed, b)
  <2>1. /\ b \in Buffers /\ Holds(free, b)
        /\ Front(free) \in Seq(Buffers) /\ Unique(Front(free))
        /\ \A c : Holds(Front(free), c) <=> Holds(free, c) /\ c # b
    BY <1>2, <1>4, PopFacts
  <2>2. count[b] = 0 /\ b \in 1 .. made /\ Holds(hashed, b)
    BY <1>2, <2>1
  <2>3. rest \in Seq(Buffers) /\ Unique(rest) /\ \A c : Holds(rest, c) <=> Holds(hashed, c) /\ c # b
    BY <1>2, RemoveFirstFacts
  <2>4. /\ Have(t, b) /\ block' = [block EXCEPT ![b] = k] /\ count' = [count EXCEPT ![b] = count[b] + 1]
        /\ hashed' = <<b>> \o rest /\ valid' = [valid EXCEPT ![b] = FALSE]
    BY <1>4, <2>2 DEF Assign
  <2> HIDE DEF b, rest
  <2>5. hashed' \in Seq(Buffers) /\ Unique(hashed') /\ \A c : Holds(hashed', c) <=> Holds(rest, c) \/ c = b
    BY <2>1, <2>3, <2>4, PushFacts
  <2>6. \A c : Holds(hashed', c) <=> c \in 1 .. made
    BY <1>2, <2>2, <2>3, <2>5
  <2>7. \A c \in Buffers : ~ (made < c /\ c <= made)
    BY <1>1 DEF Buffers
  <2>8. b <= made /\ made <= made
    BY <1>1, <2>2
  <2>9. Lists' /\ Calls' /\ Counted' /\ Fields
    BY <1>1, <1>4, <2>1, <2>4, <2>5, <2>6, <2>7, <2>8, HaveKeeps
  <2>10. Types'
    <3>1. valid' \in [Buffers -> BOOLEAN]
      BY <1>1, <2>4 DEF Types
    <3>2. block' \in [Buffers -> Blocks \cup {None}]
      BY <1>1, <2>4 DEF Types
    <3>2a. count' \in [Buffers -> Int]
      BY <1>1, <2>1, <2>2, <2>4
    <3> QED
      BY <1>1, <1>4, <2>1, <2>5, <2>9, <3>1, <3>2, <3>2a DEF Types, Fields
  <2> QED
    BY <2>9, <2>10 DEF Basic
<1>5. ASSUME made = N, waiting' = <<t>> \o waiting, slept' = slept \cup {k}, want' = [want EXCEPT ![t] = k],
             Goto(t, "waiting"), UNCHANGED <<buffers, hashed, free, held>>
      PROVE  Basic'
  <2>1. pc' = [pc EXCEPT ![t] = "waiting"] /\ pc' \in [Tasks -> Places] /\ pc'[t] = "waiting"
    BY <1>1, <1>5 DEF Goto, Types, Places
  <2>2. want' \in [Tasks -> Buffers \cup Blocks \cup {None}] /\ want'[t] = k
    BY <1>1, <1>5 DEF Types
  <2>3. \A u \in Tasks \ {t} : pc'[u] = pc[u] /\ want'[u] = want[u]
    BY <1>1, <1>5, <2>1 DEF Types
  <2>4. ~ Holds(waiting, t)
    BY <1>2
  <2>5. waiting' \in Seq(Tasks) /\ Unique(waiting') /\ \A u : Holds(waiting', u) <=> Holds(waiting, u) \/ u = t
    BY <1>2, <1>5, <2>4, PushFacts
  <2>6. Types'
    BY <1>1, <1>5, <2>1, <2>2, <2>5 DEF Types, buffers
  <2>7. \A u \in Tasks : \A c : InBread(u, c)' <=> InBread(u, c)
    BY <2>1, <2>3 DEF InBread
  <2>8. \A c \in Buffers : Refs(c)' = Refs(c)
    BY <1>5, <2>7, RefsKept
  <2>9. Counted'
    BY <1>1, <1>5, <2>8 DEF Counted, buffers
  <2>10. Lists'
    BY SMTT(30), <1>2, <1>5, <2>1, <2>3, <2>5 DEF Lists, FreeExact, buffers, Unique, Holds
  <2>11. Calls'
    BY <1>1, <1>5, <2>1, <2>2, <2>3, <2>7 DEF Calls, InWrite, InWait, buffers
  <2> QED
    BY <2>6, <2>9, <2>10, <2>11 DEF Basic
<1> QED
  BY <1>3, <1>4, <1>5 DEF FreeBuffer

\* brelse of a clean buffer.
LEMMA DropKeeps ==
  ASSUME Basic, NEW t \in Tasks, NEW b \in Buffers, pc[t] \in {"out", "released"}, held[t][b] > 0,
         Drop(t, b), UNCHANGED <<made, block, data, lock, hashed, slept, want, disk, latest>>,
         dirty' \in [Buffers -> BOOLEAN], valid' \in [Buffers -> BOOLEAN]
  PROVE  Basic'
<1>1. /\ Types /\ Counted /\ Lists /\ Calls /\ N \in Nat \ {0}
      /\ made \in Nat /\ made <= N /\ count \in [Buffers -> Int]
  BY BufferCacheAssumption DEF Basic, Types
<1>2. /\ Unique(hashed) /\ Unique(free) /\ Unique(waiting)
      /\ hashed \in Seq(Buffers) /\ free \in Seq(Buffers) /\ waiting \in Seq(Tasks)
      /\ \A c : Holds(hashed, c) <=> c \in 1 .. made
      /\ \A c : Holds(free, c) <=> c \in 1 .. made /\ count[c] = 0
      /\ \A u : Holds(waiting, u) <=> u \in Tasks /\ pc[u] = "waiting"
  BY <1>1 DEF Lists, FreeExact, Types
<1>3. /\ count' = [count EXCEPT ![b] = @ - 1]
      /\ held' = [held EXCEPT ![t][b] = @ - 1]
      /\ free' = IF count'[b] = 0 THEN <<b>> \o free ELSE free
  BY DEF Drop
<1>4. count[b] > 0 /\ count[b] \in Int
  BY <1>1, InUse
<1>5. /\ count' \in [Buffers -> Int]
      /\ \A c \in Buffers : count'[c] = IF c = b THEN count[b] - 1 ELSE count[c]
  BY <1>1, <1>3, <1>4
<1>6. b \in 1 .. made /\ \A c \in 1 .. made : c \in Buffers
  BY <1>1, <1>4 DEF Calls, Buffers
<1>7. /\ held' \in [Tasks -> [Buffers -> Nat]]
      /\ \A u \in Tasks \ {t} : held'[u] = held[u]
      /\ \A c \in Buffers : held'[t][c] = IF c = b THEN held[t][b] - 1 ELSE held[t][c]
  <2>0. held[t][b] \in Nat
    BY <1>1 DEF Types
  <2>1. [held[t] EXCEPT ![b] = @ - 1] \in [Buffers -> Nat]
    BY <1>1, <2>0 DEF Types
  <2>2. held' = [held EXCEPT ![t] = [held[t] EXCEPT ![b] = @ - 1]]
    BY <1>3
  <2> QED
    BY <1>1, <2>1, <2>2 DEF Types
<1>8. /\ waiting' \in Seq(Tasks) /\ Unique(waiting') /\ pc' \in [Tasks -> Places] /\ pc'[t] = "out"
      /\ \A u : Holds(waiting', u) <=> u \in Tasks /\ pc'[u] = "waiting"
      /\ \A u \in Tasks \ {t} : pc'[u] = pc[u] \/ (pc[u] = "waiting" /\ pc'[u] = "woken")
  <2>1. CASE count'[b] = 0 /\ waiting # <<>>
    <3> DEFINE w == Last(waiting)
    <3>1. waiting' = Front(waiting) /\ pc' = [pc EXCEPT ![t] = "out", ![w] = "woken"]
      BY <2>1 DEF Drop
    <3>2. /\ w \in Tasks /\ Holds(waiting, w)
          /\ waiting' \in Seq(Tasks) /\ Unique(waiting')
          /\ \A u : Holds(waiting', u) <=> Holds(waiting, u) /\ u # w
      BY <1>2, <2>1, <3>1, PopFacts
    <3> HIDE DEF w
    <3>3. pc[w] = "waiting" /\ w # t
      BY <1>2, <3>2
    <3>4. /\ pc' \in [Tasks -> Places]
          /\ \A u \in Tasks : pc'[u] = IF u = w THEN "woken" ELSE IF u = t THEN "out" ELSE pc[u]
      BY <1>1, <3>1, <3>2 DEF Types, Places
    <3> QED
      BY <1>2, <3>2, <3>3, <3>4
  <2>2. CASE ~ (count'[b] = 0 /\ waiting # <<>>)
    <3>1. waiting' = waiting /\ pc' = [pc EXCEPT ![t] = "out"]
      BY <2>2 DEF Drop, Goto
    <3>2. pc' \in [Tasks -> Places] /\ pc'[t] = "out" /\ \A u \in Tasks \ {t} : pc'[u] = pc[u]
      BY <1>1, <3>1 DEF Types, Places
    <3> QED
      BY <1>2, <3>1, <3>2
  <2> QED
    BY <2>1, <2>2
<1>9. free' \in Seq(Buffers) /\ Unique(free') /\ \A c : Holds(free', c) <=> c \in 1 .. made /\ count'[c] = 0
  <2>1. CASE count'[b] = 0
    <3>1. ~ Holds(free, b)
      BY <1>2, <1>4
    <3>2. free' \in Seq(Buffers) /\ Unique(free') /\ \A c : Holds(free', c) <=> Holds(free, c) \/ c = b
      BY <1>2, <1>3, <2>1, <3>1, PushFacts
    <3> QED
      BY <1>2, <1>5, <1>6, <2>1, <3>2
  <2>2. CASE count'[b] # 0
    <3>1. free' = free
      BY <1>3, <2>2
    <3> QED
      BY <1>2, <1>4, <1>5, <1>6, <2>2, <3>1
  <2> QED
    BY <2>1, <2>2
<1>10. Types'
  BY <1>1, <1>5, <1>7, <1>8, <1>9 DEF Types
<1>11. Lists'
  BY SMTT(60), <1>2, <1>8, <1>9 DEF Lists, FreeExact, Holds, Unique
<1>12. \A u \in Tasks : \A c : InBread(u, c)' <=> InBread(u, c)
  BY <1>8 DEF InBread
<1>13. Counted'
  <2>1. \A c \in Buffers \ {b} : Refs(c)' = Refs(c) /\ count'[c] = count[c]
    BY <1>5, <1>7, <1>12, RefsKept
  <2>2. ~ InBread(t, b) /\ ~ InBread(t, b)'
    BY <1>8 DEF InBread
  <2>3. \E x \in Refs(b) : Refs(b)' = Refs(b) \ {x}
    BY <1>1, <1>7, <1>12, <2>2, RefsReturned
  <2> QED
    BY <1>1, <1>5, <2>1, <2>3, CountStep
<1>14. Calls'
  <2>1. \A c \in Buffers : c > made' => count'[c] = 0
    BY <1>1, <1>4, <1>5 DEF Calls, Types
  <2>2. \A u \in Tasks : InWrite(u)' => want'[u] \in Buffers /\ held'[u][want'[u]] > 0
    BY <1>1, <1>7, <1>8 DEF Calls, InWrite
  <2>3. \A u \in Tasks : InWait(u)' => made' = N /\ want'[u] \in slept'
    BY <1>1, <1>8 DEF Calls, InWait
  <2> QED
    BY <1>1, <1>12, <2>1, <2>2, <2>3 DEF Calls
<1> QED
  BY <1>10, <1>11, <1>13, <1>14 DEF Basic

\* get_from_hash_table.
LEMMA CachedFacts ==
  ASSUME Types, NEW k, Found(k) # {}
  PROVE  Cached(k) \in Buffers /\ block[Cached(k)] = k /\ Holds(hashed, Cached(k))
<1> DEFINE i == Min(Found(k))
<1>1. Found(k) \in SUBSET Nat /\ Len(hashed) \in Nat
  BY DEF Found, Types
<1>2. i \in Found(k)
  BY <1>1, Least DEF Min
<1>3. Cached(k) = hashed[i]
  BY DEF Cached
<1> HIDE DEF i
<1>4. i \in 1 .. Len(hashed) /\ block[hashed[i]] = k
  BY <1>2 DEF Found
<1> QED
  BY <1>1, <1>3, <1>4 DEF Types, Holds

LEMMA FoundNone ==
  ASSUME Basic, NEW k, Found(k) = {}
  PROVE  \A b \in 1 .. made : block[b] # k
BY DEF Basic, Lists, Holds, Found

\* bread of a block that is cached.
LEMMA FoundKeeps ==
  ASSUME Basic, NEW t \in Tasks, NEW k \in Blocks, pc[t] = "out", Found(k) # {},
         count' = [count EXCEPT ![Cached(k)] = @ + 1], free' = RemoveFirst(free, Cached(k)),
         UNCHANGED <<made, block, dirty, valid, data, hashed, waiting, slept, disk, latest>>,
         Have(t, Cached(k))
  PROVE  Basic'
<1> DEFINE b == Cached(k)
<1>1. /\ Types /\ Lists /\ made \in Nat /\ made <= N /\ N \in Nat /\ Unique(free) /\ free \in Seq(Buffers)
      /\ Unique(hashed) /\ hashed \in Seq(Buffers) /\ \A c : Holds(hashed, c) <=> c \in 1 .. made
  BY BufferCacheAssumption DEF Basic, Types, Lists, FreeExact
<1>2. b \in Buffers /\ Holds(hashed, b)
  BY <1>1, CachedFacts
<1>3. b <= made /\ \A c \in Buffers : ~ (made < c /\ c <= made)
  BY <1>1, <1>2 DEF Buffers
<1>4. free' \in Seq(Buffers) /\ Unique(free') /\ \A c : Holds(free', c) <=> Holds(free, c) /\ c # b
  BY <1>1, RemoveFirstFacts
<1>5. count' = [count EXCEPT ![b] = count[b] + 1] /\ Have(t, b)
  OBVIOUS
<1> HIDE DEF b
<1>6. Lists' /\ Calls' /\ Counted' /\ Fields
  <2>1. /\ made' = made /\ made' \in Nat /\ made <= made' /\ made' <= N /\ b <= made'
        /\ \A c \in Buffers : made < c /\ c <= made' => c = b
    BY <1>1, <1>3
  <2>2. hashed' \in Seq(Buffers) /\ Unique(hashed') /\ \A c : Holds(hashed', c) <=> c \in 1 .. made'
    BY <1>1
  <2>3. waiting' = waiting /\ slept' = slept /\ pc[t] \in {"out", "woken"}
    OBVIOUS
  <2> QED
    BY <1>2, <1>4, <1>5, <2>1, <2>2, <2>3, HaveKeeps
<1>7. count' \in [Buffers -> Int]
  <2>1. count \in [Buffers -> Int] /\ count[b] + 1 \in Int
    BY <1>1, <1>2 DEF Types
  <2> QED
    BY <1>5, <2>1
<1>8. Types'
  BY <1>1, <1>4, <1>6, <1>7 DEF Types, Fields
<1> QED
  BY <1>6, <1>8 DEF Basic

\* Steps that change neither a list nor a count.
LEMMA CallKeeps ==
  ASSUME Basic, Types', NEW t \in Tasks, UNCHANGED <<made, count, lists>>,
         \A u \in Tasks \ {t} : pc'[u] = pc[u] /\ want'[u] = want[u] /\ held'[u] = held[u],
         ~ InWait(t), ~ InWait(t)',
         InWrite(t)' => want'[t] \in Buffers /\ held'[t][want'[t]] > 0,
         \A c : InBread(t, c)' => c \in Buffers,
         \/ held'[t] = held[t] /\ \A c : InBread(t, c)' <=> InBread(t, c)
         \/ /\ \A c : ~ InBread(t, c)'
            /\ \E b \in Buffers : InBread(t, b) /\ held'[t] = [held[t] EXCEPT ![b] = @ + 1]
  PROVE  Basic'
<1>1. Types /\ Counted /\ Lists /\ Calls
  BY DEF Basic
<1>2. \A u \in Tasks \ {t} : \A c : InBread(u, c)' <=> InBread(u, c)
  BY DEF InBread
<1>3. Counted'
  <2>1. CASE held'[t] = held[t] /\ \A c : InBread(t, c)' <=> InBread(t, c)
    <3>1. \A c \in Buffers : Refs(c)' = Refs(c)
      BY <1>2, <2>1, RefsKept
    <3> QED
      BY <1>1, <3>1 DEF Counted
  <2>2. ASSUME NEW b \in Buffers, InBread(t, b), held'[t] = [held[t] EXCEPT ![b] = @ + 1],
               \A c : ~ InBread(t, c)'
        PROVE  Counted'
    <3>1. \A c \in Buffers : held'[t][c] = IF c = b THEN held[t][b] + 1 ELSE held[t][c]
      BY <1>1, <2>2 DEF Types
    <3>2. \A c : c # b => ~ InBread(t, c)
      BY <2>2 DEF InBread
    <3>3. \A c \in Buffers \ {b} : Refs(c)' = Refs(c) /\ count'[c] = count[c]
      BY <1>2, <2>2, <3>1, <3>2, RefsKept
    <3>4. b \in Buffers /\ InBread(t, b) /\ ~ InBread(t, b)' /\ count'[b] = count[b]
      BY <2>2
    <3>4a. held'[t][b] = held[t][b] + 1
      BY <3>1, <3>4
    <3>4b. \A u \in Tasks \ {t} : held'[u][b] = held[u][b] /\ (InBread(u, b)' <=> InBread(u, b))
      BY <1>2
    <3>5. \E x \in Refs(b) : \E y : y \notin Refs(b) /\ Refs(b)' = (Refs(b) \ {x}) \cup {y}
      BY <1>1, <3>4, <3>4a, <3>4b, RefsMoved
    <3> QED
      BY <1>1, <3>3, <3>4, <3>5, CountStep
  <2> QED
    BY <2>1, <2>2
<1>4. pc[t] # "waiting" /\ pc'[t] # "waiting"
  BY DEF InWait
<1>5. Lists'
  BY <1>1, <1>4 DEF Lists, FreeExact, lists, Unique, Holds
<1>6. Calls'
  <2>1. \A u \in Tasks : InWrite(u)' => want'[u] \in Buffers /\ held'[u][want'[u]] > 0
    BY <1>1 DEF Calls, InWrite
  <2>2. \A u \in Tasks : \A c : InBread(u, c)' => c \in Buffers
    BY <1>1, <1>2 DEF Calls
  <2>3. \A u \in Tasks : InWait(u)' => made' = N /\ want'[u] \in slept'
    BY <1>1 DEF Calls, InWait, lists
  <2> QED
    BY <1>1, <2>1, <2>2, <2>3 DEF Calls
<1> QED
  BY <1>3, <1>5, <1>6 DEF Basic

LEMMA BasicInit == Init => Basic
<1> SUFFICES ASSUME Init PROVE Basic
  OBVIOUS
<1>1. Types
  BY BufferCacheAssumption DEF Init, Types, Places
<1>2. \A b \in Buffers : Refs(b) = {}
  BY DEF Init, Refs, InBread
<1>3. Counted
  BY <1>2, FS_EmptySet DEF Counted, Init
<1>4. Lists
  <2>1. \A x : ~ Holds(hashed, x) /\ ~ Holds(free, x) /\ ~ Holds(waiting, x)
    BY DEF Init, Holds
  <2>2. Unique(hashed) /\ Unique(free) /\ Unique(waiting)
    BY DEF Init, Unique
  <2>3. \A b : ~ (b \in 1 .. made) /\ \A t \in Tasks : pc[t] # "waiting"
    BY DEF Init
  <2> QED
    BY <2>1, <2>2, <2>3 DEF Lists, FreeExact
<1>5. Calls
  BY DEF Init, Calls, InWrite, InBread, InWait
<1> QED
  BY <1>1, <1>3, <1>4, <1>5 DEF Basic

LEMMA LockedKeeps == ASSUME Basic, NEW t \in Tasks, Locked(t) PROVE Basic'
<1>1. Types /\ Calls
  BY DEF Basic
<1>2. PICK b : b = want[t]
  OBVIOUS
<1>3. InBread(t, b) /\ b \in Buffers /\ pc[t] = "locking" /\ UNCHANGED <<made, count, lists, want>>
  BY <1>1, <1>2 DEF Locked, InBread, Calls
<1>4. CASE valid[b]
  <2>1. held' = [held EXCEPT ![t][b] = @ + 1] /\ pc' = [pc EXCEPT ![t] = "out"] /\ lock' = lock
    BY <1>2, <1>4 DEF Locked, Goto
  <2>2. [held[t] EXCEPT ![b] = @ + 1] \in [Buffers -> Nat]
    BY <1>1, <1>3 DEF Types
  <2>3. held' = [held EXCEPT ![t] = [held[t] EXCEPT ![b] = @ + 1]]
    BY <2>1
  <2>4. held' \in [Tasks -> [Buffers -> Nat]] /\ held'[t] = [held[t] EXCEPT ![b] = @ + 1]
    BY <1>1, <2>2, <2>3 DEF Types
  <2>5. pc' \in [Tasks -> Places] /\ pc'[t] = "out"
    BY <1>1, <2>1 DEF Types, Places
  <2>6. \A u \in Tasks \ {t} : pc'[u] = pc[u] /\ want'[u] = want[u] /\ held'[u] = held[u]
    BY <1>1, <1>3, <2>1, <2>3 DEF Types
  <2>7. Types'
    BY <1>1, <2>1, <2>4, <2>5 DEF Locked, Types, lists
  <2>8. ~ InWait(t) /\ ~ InWait(t)' /\ ~ InWrite(t)' /\ \A c : ~ InBread(t, c)'
    BY <1>3, <2>5 DEF InWait, InWrite, InBread
  <2> QED
    BY <1>3, <2>4, <2>6, <2>7, <2>8, CallKeeps
<1>5. CASE ~ valid[b]
  <2>1. lock' = [lock EXCEPT ![b] = t] /\ pc' = [pc EXCEPT ![t] = "reading"] /\ held' = held
    BY <1>2, <1>5 DEF Locked, Goto
  <2>2. pc' \in [Tasks -> Places] /\ pc'[t] = "reading" /\ lock' \in [Buffers -> Tasks \cup {None}]
    BY <1>1, <1>3, <2>1 DEF Types, Places
  <2>3. \A u \in Tasks \ {t} : pc'[u] = pc[u] /\ want'[u] = want[u] /\ held'[u] = held[u]
    BY <1>1, <1>3, <2>1 DEF Types
  <2>4. Types'
    BY <1>1, <2>1, <2>2 DEF Locked, Types, lists
  <2>5. /\ ~ InWait(t) /\ ~ InWait(t)' /\ ~ InWrite(t)' /\ held'[t] = held[t]
        /\ \A c : (InBread(t, c)' <=> InBread(t, c)) /\ (InBread(t, c)' => c \in Buffers)
    BY <1>2, <1>3, <2>1, <2>2 DEF InWait, InWrite, InBread
  <2> QED
    BY <1>3, <2>3, <2>4, <2>5, CallKeeps
<1> QED
  BY <1>4, <1>5

LEMMA DriveReadsKeeps == ASSUME Basic, NEW t \in Tasks, DriveReads(t) PROVE Basic'
<1>1. Types /\ Calls
  BY DEF Basic
<1>2. pc[t] = "reading" /\ pc' = [pc EXCEPT ![t] = "read"] /\ UNCHANGED <<made, count, lists, want, held>>
  BY DEF DriveReads, Goto
<1>3. /\ pc' \in [Tasks -> Places] /\ pc'[t] = "read"
      /\ \A u \in Tasks \ {t} : pc'[u] = pc[u] /\ want'[u] = want[u] /\ held'[u] = held[u]
  BY <1>1, <1>2 DEF Types, Places
<1>4. Types'
  BY <1>1, <1>3 DEF DriveReads, Types, lists
<1>5. /\ ~ InWait(t) /\ ~ InWait(t)' /\ ~ InWrite(t)' /\ held'[t] = held[t]
      /\ \A c : (InBread(t, c)' <=> InBread(t, c)) /\ (InBread(t, c)' => c \in Buffers)
  BY <1>1, <1>2, <1>3 DEF InWait, InWrite, InBread, Calls
<1> QED
  BY <1>2, <1>3, <1>4, <1>5, CallKeeps

LEMMA ReadDoneKeeps == ASSUME Basic, NEW t \in Tasks, ReadDone(t) PROVE Basic'
<1>1. Types /\ Calls
  BY DEF Basic
<1>2. PICK b : b = want[t]
  OBVIOUS
<1>3. InBread(t, b) /\ b \in Buffers /\ pc[t] = "read" /\ UNCHANGED <<made, count, lists, want>>
  BY <1>1, <1>2 DEF ReadDone, InBread, Calls
<1>4. /\ held' = [held EXCEPT ![t][b] = @ + 1] /\ pc' = [pc EXCEPT ![t] = "out"]
      /\ dirty' = [dirty EXCEPT ![b] = FALSE] /\ valid' = [valid EXCEPT ![b] = TRUE]
      /\ lock' = [lock EXCEPT ![b] = None]
  BY <1>2 DEF ReadDone, Goto
<1>5. [held[t] EXCEPT ![b] = @ + 1] \in [Buffers -> Nat]
  BY <1>1, <1>3 DEF Types
<1>6. held' = [held EXCEPT ![t] = [held[t] EXCEPT ![b] = @ + 1]]
  BY <1>4
<1>7. held' \in [Tasks -> [Buffers -> Nat]] /\ held'[t] = [held[t] EXCEPT ![b] = @ + 1]
  BY <1>1, <1>5, <1>6 DEF Types
<1>8. pc' \in [Tasks -> Places] /\ pc'[t] = "out"
  BY <1>1, <1>4 DEF Types, Places
<1>9. \A u \in Tasks \ {t} : pc'[u] = pc[u] /\ want'[u] = want[u] /\ held'[u] = held[u]
  BY <1>1, <1>3, <1>4, <1>6 DEF Types
<1>10. dirty' \in [Buffers -> BOOLEAN] /\ valid' \in [Buffers -> BOOLEAN] /\ lock' \in [Buffers -> Tasks \cup {None}]
  BY <1>1, <1>4 DEF Types
<1>11. Types'
  BY <1>1, <1>7, <1>8, <1>10 DEF ReadDone, Types, lists
<1>12. ~ InWait(t) /\ ~ InWait(t)' /\ ~ InWrite(t)' /\ \A c : ~ InBread(t, c)'
  BY <1>3, <1>8 DEF InWait, InWrite, InBread
<1> QED
  BY <1>3, <1>7, <1>9, <1>11, <1>12, CallKeeps

LEMMA ModifyKeeps == ASSUME Basic, NEW t \in Tasks, NEW b \in Buffers, NEW v, Modify(t, b, v) PROVE Basic'
<1>1. Types /\ Calls
  BY DEF Basic
<1>2. pc[t] = "out" /\ dirty' = [dirty EXCEPT ![b] = TRUE] /\ UNCHANGED <<made, count, lists, pc, want, held>>
  BY DEF Modify
<1>3. dirty' \in [Buffers -> BOOLEAN]
  BY <1>1, <1>2 DEF Types
<1>4. Types'
  BY <1>1, <1>3 DEF Modify, Types, lists
<1>5. /\ ~ InWait(t) /\ ~ InWait(t)' /\ ~ InWrite(t)' /\ held'[t] = held[t]
      /\ \A c : ~ InBread(t, c)' /\ ~ InBread(t, c)
  BY <1>2 DEF InWait, InWrite, InBread
<1> QED
  BY <1>2, <1>4, <1>5, CallKeeps

\* The beginning of bwrite and of a brelse that has to write.
LEMMA WriteKeeps ==
  ASSUME Basic, NEW t \in Tasks, NEW b \in Buffers, NEW p \in {"writing", "releasing"},
         pc[t] = "out", held[t][b] > 0, want' = [want EXCEPT ![t] = b], pc' = [pc EXCEPT ![t] = p],
         UNCHANGED <<buffers, lists, held>>
  PROVE  Basic'
<1>1. Types /\ Calls
  BY DEF Basic
<1>2. /\ pc' \in [Tasks -> Places] /\ pc'[t] = p /\ want'[t] = b
      /\ want' \in [Tasks -> Buffers \cup Blocks \cup {None}]
      /\ \A u \in Tasks \ {t} : pc'[u] = pc[u] /\ want'[u] = want[u]
  BY <1>1 DEF Types, Places
<1>3. Types'
  BY <1>1, <1>2 DEF Types, lists, buffers
<1>4. /\ ~ InWait(t) /\ ~ InWait(t)' /\ held'[t] = held[t] /\ held'[t][b] > 0
      /\ \A c : ~ InBread(t, c)' /\ ~ InBread(t, c)
  BY <1>2 DEF InWait, InBread
<1>5. UNCHANGED <<made, count, lists>> /\ held' = held
  BY DEF buffers
<1> QED
  BY <1>2, <1>3, <1>4, <1>5, CallKeeps

LEMMA DriveWritesKeeps == ASSUME Basic, NEW t \in Tasks, DriveWrites(t) PROVE Basic'
<1>1. Types /\ Calls
  BY DEF Basic
<1>2. PICK p \in {"written", "released"} :
        /\ InWrite(t) /\ pc' = [pc EXCEPT ![t] = p] /\ UNCHANGED <<made, count, lists, want, held>>
        /\ UNCHANGED <<block, dirty, valid, lock>>
  BY DEF DriveWrites, Goto, InWrite, buffers
<1>3. /\ pc' \in [Tasks -> Places] /\ pc'[t] = p
      /\ \A u \in Tasks \ {t} : pc'[u] = pc[u] /\ want'[u] = want[u] /\ held'[u] = held[u]
  BY <1>1, <1>2 DEF Types, Places
<1>4. Types'
  BY <1>1, <1>2, <1>3 DEF Types, lists
<1>5. /\ ~ InWait(t) /\ ~ InWait(t)' /\ held'[t] = held[t] /\ want'[t] \in Buffers /\ held'[t][want'[t]] > 0
      /\ \A c : ~ InBread(t, c)' /\ ~ InBread(t, c)
  BY <1>1, <1>2, <1>3 DEF InWait, InWrite, InBread, Calls
<1> QED
  BY <1>2, <1>3, <1>4, <1>5, CallKeeps

LEMMA WriteDoneKeeps == ASSUME Basic, NEW t \in Tasks, WriteDone(t) PROVE Basic'
<1>1. Types /\ Calls
  BY DEF Basic
<1>2. PICK b : b = want[t]
  OBVIOUS
<1>3. /\ InWrite(t) /\ b \in Buffers /\ held[t][b] > 0 /\ pc[t] \in {"written", "released"}
      /\ UNCHANGED <<made, block, data, lock, hashed, slept, want, disk, latest>>
      /\ dirty' = [dirty EXCEPT ![b] = FALSE] /\ valid' = [valid EXCEPT ![b] = TRUE]
  BY <1>1, <1>2 DEF WriteDone, InWrite, Calls
<1>4. dirty' \in [Buffers -> BOOLEAN] /\ valid' \in [Buffers -> BOOLEAN]
  BY <1>1, <1>3 DEF Types
<1>5. CASE pc[t] = "written"
  <2>1. pc' = [pc EXCEPT ![t] = "out"] /\ UNCHANGED <<count, free, waiting, held>>
    BY <1>5 DEF WriteDone, Goto
  <2>2. /\ pc' \in [Tasks -> Places] /\ pc'[t] = "out"
        /\ \A u \in Tasks \ {t} : pc'[u] = pc[u] /\ want'[u] = want[u] /\ held'[u] = held[u]
    BY <1>1, <1>3, <2>1 DEF Types, Places
  <2>3. Types'
    BY <1>1, <1>3, <1>4, <2>1, <2>2 DEF Types
  <2>4. /\ ~ InWait(t) /\ ~ InWait(t)' /\ ~ InWrite(t)' /\ held'[t] = held[t]
        /\ \A c : ~ InBread(t, c)' /\ ~ InBread(t, c)
    BY <1>5, <2>1, <2>2 DEF InWait, InWrite, InBread
  <2>5. UNCHANGED <<made, count, lists>>
    BY <1>3, <2>1 DEF lists
  <2> QED
    BY <2>2, <2>3, <2>4, <2>5, CallKeeps
<1>6. CASE pc[t] = "released"
  <2>1. Drop(t, b)
    BY <1>2, <1>6 DEF WriteDone
  <2> QED
    BY <1>3, <1>4, <1>6, <2>1, DropKeeps
<1> QED
  BY <1>3, <1>5, <1>6

LEMMA BrelseKeeps == ASSUME Basic, NEW t \in Tasks, NEW b \in Buffers, Brelse(t, b) PROVE Basic'
<1>1. Types
  BY DEF Basic
<1>2. CASE dirty[b]
  <2>1. /\ pc[t] = "out" /\ held[t][b] > 0 /\ want' = [want EXCEPT ![t] = b] /\ pc' = [pc EXCEPT ![t] = "releasing"]
        /\ UNCHANGED <<buffers, lists, held>>
    BY <1>2 DEF Brelse, Goto, buffers, lists
  <2> QED
    BY <2>1, WriteKeeps
<1>3. CASE ~ dirty[b]
  <2>1. /\ pc[t] = "out" /\ held[t][b] > 0 /\ Drop(t, b)
        /\ UNCHANGED <<made, block, data, lock, hashed, slept, want, disk, latest>> /\ UNCHANGED <<dirty, valid>>
    BY <1>3 DEF Brelse
  <2> QED
    BY <1>1, <2>1, DropKeeps DEF Types
<1> QED
  BY <1>2, <1>3

LEMMA BasicStep == Basic /\ [Next]_vars => Basic'
<1> SUFFICES ASSUME Basic, [Next]_vars PROVE Basic'
  OBVIOUS
<1>1. ASSUME NEW t \in Tasks, NEW k \in Uses[t], Bread(t, k) PROVE Basic'
  <2>1. k \in Blocks
    BY BufferCacheAssumption
  <2>2. CASE Found(k) = {}
    BY <1>1, <2>1, <2>2, FreeBufferKeeps DEF Bread
  <2>3. CASE Found(k) # {}
    BY <1>1, <2>1, <2>3, FoundKeeps DEF Bread
  <2> QED
    BY <2>2, <2>3
<1>2. ASSUME NEW t \in Tasks, WakeUp(t) PROVE Basic'
  <2>1. PICK k \in Blocks : k = want[t]
    BY <1>2 DEF WakeUp, Basic, Calls, Types, InWait
  <2> QED
    BY <1>2, <2>1, FreeBufferKeeps DEF WakeUp
<1>3. ASSUME NEW t \in Tasks, NEW b \in Buffers, Bwrite(t, b) PROVE Basic'
  BY <1>3, WriteKeeps DEF Bwrite, Goto
<1>4. CASE UNCHANGED vars
  <2>1. UNCHANGED <<made, count, lists, pc, want, held>> /\ Types'
    BY <1>4 DEF vars, buffers, lists, Basic, Types
  <2>2. \A u \in Tasks : InWait(u)' <=> InWait(u)
    BY <2>1 DEF InWait
  <2>3. \A u \in Tasks : InWrite(u)' <=> InWrite(u)
    BY <2>1 DEF InWrite
  <2>4. \A u \in Tasks : \A c : InBread(u, c)' <=> InBread(u, c)
    BY <2>1 DEF InBread
  <2>5. Counted'
    BY <2>1, <2>4, RefsKept DEF Basic, Counted
  <2>6. Lists' /\ Calls'
    BY <2>1, <2>2, <2>3, <2>4 DEF Basic, Lists, FreeExact, Calls, lists, Unique, Holds
  <2> QED
    BY <2>1, <2>5, <2>6 DEF Basic
<1> QED
  BY <1>1, <1>2, <1>3, <1>4, LockedKeeps, DriveReadsKeeps, ReadDoneKeeps, ModifyKeeps, BrelseKeeps,
     DriveWritesKeeps, WriteDoneKeeps DEF Next
-----------------------------------------------------------------------------
(* Wake-ups.                                                               *)

Woken == {t \in Tasks : pc[t] = "woken"}

LEMMA WokenFinite == IsFiniteSet(Woken) /\ Cardinality(Woken) \in Nat /\ IsFiniteSet(Woken') /\ Cardinality(Woken') \in Nat
<1>1. Woken \subseteq Tasks /\ Woken' \subseteq Tasks
  BY DEF Woken
<1> QED
  BY <1>1, BufferCacheAssumption, FS_Subset, FS_CardinalityType

LEMMA WakesIs == WakeupPerBuffer <=> (waiting # <<>> => Cardinality(Woken) >= Len(free))
BY DEF WakeupPerBuffer, Woken

\* Steps that wake nobody and free nothing.
LEMMA WakesKept ==
  ASSUME WakeupPerBuffer, Types, Types', Woken' = Woken, waiting' = waiting, Len(free') <= Len(free)
  PROVE  WakeupPerBuffer'
<1>1. Len(free) \in Nat /\ Len(free') \in Nat
  BY DEF Types
<1>2. WakeupPerBuffer' <=> (waiting' # <<>> => Cardinality(Woken') >= Len(free'))
  BY DEF WakeupPerBuffer, Woken
<1> QED
  BY <1>1, <1>2, WokenFinite, WakesIs

\* A woken task, or one that comes by, takes the buffer; or t begins to wait
\* when there is none.
LEMMA FreeBufferWakes ==
  ASSUME Basic, Basic', WakeupPerBuffer, NEW t \in Tasks, NEW k, pc[t] \in {"out", "woken"}, FreeBuffer(t, k)
  PROVE  WakeupPerBuffer'
<1>1. /\ Types /\ Types' /\ Lists /\ Calls /\ Len(free) \in Nat /\ Len(free') \in Nat
      /\ free \in Seq(Buffers) /\ Unique(free)
  BY DEF Basic, Types, Lists, FreeExact
<1>2. WakeupPerBuffer' <=> (waiting' # <<>> => Cardinality(Woken') >= Len(free'))
  BY DEF WakeupPerBuffer, Woken
<1>3. ASSUME NEW b, Have(t, b)
      PROVE  /\ pc[t] = "out" => Woken' = Woken
             /\ pc[t] = "woken" => Woken' = Woken \ {t}
  <2>1. PICK p \in {"out", "locking", "reading"} : pc' = [pc EXCEPT ![t] = p]
    BY <1>3 DEF Have, Goto
  <2> QED
    BY <1>1, <2>1 DEF Woken, Types
<1>4. CASE made < N /\ waiting' = waiting /\ free' = free /\ Assign(t, made', k)
  <2>1. pc[t] # "woken"
    BY <1>1, <1>4, BufferCacheAssumption DEF Calls, InWait, Types
  <2>2. Woken' = Woken
    BY <1>3, <1>4, <2>1 DEF Assign
  <2> QED
    BY <1>1, <1>4, <2>2, WakesKept
<1>5. CASE free # <<>> /\ waiting' = waiting /\ free' = Front(free) /\ Assign(t, Last(free), k)
  <2>1. Len(free') = Len(free) - 1
    BY <1>1, <1>5, PopFacts
  <2>2. CASE pc[t] = "out"
    <3>1. Woken' = Woken
      BY <1>3, <1>5, <2>2 DEF Assign
    <3> QED
      BY <1>1, <1>5, <2>1, <3>1, WakesKept
  <2>3. CASE pc[t] = "woken"
    <3>1. Woken' = Woken \ {t} /\ t \in Woken
      BY <1>3, <1>5, <2>3 DEF Assign, Woken
    <3>2. Cardinality(Woken') = Cardinality(Woken) - 1
      BY <3>1, WokenFinite, FS_RemoveElement
    <3> QED
      BY <1>1, <1>2, <1>5, <2>1, <3>2, WokenFinite, WakesIs
  <2> QED
    BY <2>2, <2>3
<1>6. CASE free = <<>> /\ free' = free
  <2>1. Len(free') = 0
    BY <1>6
  <2> QED
    BY <1>2, <2>1, WokenFinite
<1> QED
  BY <1>4, <1>5, <1>6 DEF FreeBuffer

\* The last user frees the buffer and wakes a task for it.
LEMMA DropWakes ==
  ASSUME Basic, Basic', WakeupPerBuffer, NEW t \in Tasks, NEW b \in Buffers,
         pc[t] \in {"out", "released"}, Drop(t, b)
  PROVE  WakeupPerBuffer'
<1>0. Types /\ Types' /\ Lists
  BY DEF Basic
<1>1. /\ Types /\ Types' /\ Lists /\ Len(free) \in Nat /\ Len(free') \in Nat /\ free \in Seq(Buffers)
      /\ waiting \in Seq(Tasks) /\ Unique(waiting) /\ \A u : Holds(waiting, u) <=> u \in Tasks /\ pc[u] = "waiting"
  <2>1. Len(free) \in Nat /\ Len(free') \in Nat /\ free \in Seq(Buffers) /\ waiting \in Seq(Tasks)
    BY SMTT(60), <1>0 DEF Types
  <2>2. Unique(waiting) /\ \A u : Holds(waiting, u) <=> u \in Tasks /\ pc[u] = "waiting"
    BY <1>0 DEF Lists
  <2> QED
    BY <1>0, <2>1, <2>2
<1>2. WakeupPerBuffer' <=> (waiting' # <<>> => Cardinality(Woken') >= Len(free'))
  BY DEF WakeupPerBuffer, Woken
<1>3. CASE count'[b] = 0 /\ waiting # <<>>
  <2>1. Len(free') = Len(free) + 1
    BY <1>1, <1>3 DEF Drop
  <2>2. PICK w : w = Last(waiting)
    OBVIOUS
  <2>3. w \in Tasks /\ pc[w] = "waiting"
    BY <1>1, <1>3, <2>2, PopFacts
  <2>4. pc' = [pc EXCEPT ![t] = "out", ![w] = "woken"]
    BY <1>3, <2>2 DEF Drop
  <2>5. Woken' = Woken \cup {w} /\ w \notin Woken
    BY <1>1, <2>3, <2>4 DEF Woken, Types
  <2>6. Cardinality(Woken') = Cardinality(Woken) + 1
    BY <2>5, WokenFinite, FS_AddElement
  <2> QED
    BY <1>1, <1>2, <1>3, <2>1, <2>6, WokenFinite, WakesIs
<1>4. CASE ~ (count'[b] = 0 /\ waiting # <<>>)
  <2>1. waiting' = waiting /\ pc' = [pc EXCEPT ![t] = "out"]
    BY <1>4 DEF Drop, Goto
  <2>2. CASE waiting = <<>>
    BY <1>2, <2>1, <2>2
  <2>3. CASE waiting # <<>>
    <3>1. free' = free
      BY <1>4, <2>3 DEF Drop
    <3>2. Woken' = Woken
      BY <1>1, <2>1 DEF Woken, Types
    <3> QED
      BY <1>1, <2>1, <3>1, <3>2, WakesKept
  <2> QED
    BY <2>2, <2>3
<1> QED
  BY <1>3, <1>4

LEMMA WakesStep == Basic /\ Basic' /\ WakeupPerBuffer /\ [Next]_vars => WakeupPerBuffer'
<1> SUFFICES ASSUME Basic, Basic', WakeupPerBuffer, [Next]_vars PROVE WakeupPerBuffer'
  OBVIOUS
<1>0. /\ Types /\ Types' /\ Len(free) \in Nat /\ Len(free') \in Nat /\ Lists /\ free \in Seq(Buffers) /\ Unique(free)
      /\ Calls
  BY DEF Basic, Types, Lists, FreeExact
<1>1. ASSUME NEW t \in Tasks, NEW p \in Places, pc' = [pc EXCEPT ![t] = p], pc[t] # "woken", p # "woken",
             waiting' = waiting, Len(free') <= Len(free)
      PROVE  WakeupPerBuffer'
  <2>1. Woken' = Woken
    BY <1>0, <1>1 DEF Woken, Types
  <2> QED
    BY <1>0, <1>1, <2>1, WakesKept
<1>2. ASSUME NEW t \in Tasks, NEW k \in Uses[t], Bread(t, k) PROVE WakeupPerBuffer'
  <2>1. CASE Found(k) = {}
    BY <1>2, <2>1, FreeBufferWakes DEF Bread
  <2>2. CASE Found(k) # {}
    <3>1. pc[t] = "out" /\ waiting' = waiting /\ free' = RemoveFirst(free, Cached(k)) /\ Have(t, Cached(k))
      BY <1>2, <2>2 DEF Bread
    <3>2. PICK p \in {"out", "locking", "reading"} : pc' = [pc EXCEPT ![t] = p]
      BY <3>1 DEF Have, Goto
    <3>3. Len(free') <= Len(free)
      BY <1>0, <3>1, RemoveFirstFacts
    <3> QED
      BY <1>1, <3>1, <3>2, <3>3 DEF Places
  <2> QED
    BY <2>1, <2>2
<1>3. ASSUME NEW t \in Tasks, WakeUp(t) PROVE WakeupPerBuffer'
  BY <1>3, FreeBufferWakes DEF WakeUp
<1>4. ASSUME NEW t \in Tasks, Locked(t) \/ DriveReads(t) \/ ReadDone(t) \/ DriveWrites(t) PROVE WakeupPerBuffer'
  <2>1. PICK p \in {"out", "reading", "read", "written", "released"} : pc' = [pc EXCEPT ![t] = p]
    BY <1>4 DEF Locked, DriveReads, ReadDone, DriveWrites, Goto
  <2>2. pc[t] # "woken" /\ waiting' = waiting /\ free' = free
    BY <1>4 DEF Locked, DriveReads, ReadDone, DriveWrites, lists
  <2>3. p \in Places /\ p # "woken" /\ Len(free') <= Len(free)
    BY <1>0, <2>2 DEF Places
  <2> QED
    BY <1>1, <2>1, <2>2, <2>3
<1>5. ASSUME NEW t \in Tasks, NEW b \in Buffers, NEW v, Modify(t, b, v) PROVE WakeupPerBuffer'
  <2>1. Woken' = Woken /\ waiting' = waiting /\ free' = free
    BY <1>5 DEF Modify, lists, Woken
  <2> QED
    BY <1>0, <2>1, WakesKept
<1>6. ASSUME NEW t \in Tasks, NEW b \in Buffers, Bwrite(t, b) PROVE WakeupPerBuffer'
  <2>1. pc[t] = "out" /\ pc' = [pc EXCEPT ![t] = "writing"] /\ waiting' = waiting /\ free' = free
    BY <1>6 DEF Bwrite, Goto, lists
  <2>2. "writing" \in Places /\ Len(free') <= Len(free)
    BY <1>0, <2>1 DEF Places
  <2> QED
    BY <1>1, <2>1, <2>2
<1>7. ASSUME NEW t \in Tasks, NEW b \in Buffers, Brelse(t, b) PROVE WakeupPerBuffer'
  <2>1. CASE dirty[b]
    BY <1>0, <1>1, <1>7, <2>1 DEF Brelse, Goto, Places
  <2>2. CASE ~ dirty[b]
    BY <1>7, <2>2, DropWakes DEF Brelse
  <2> QED
    BY <2>1, <2>2
<1>8. ASSUME NEW t \in Tasks, WriteDone(t) PROVE WakeupPerBuffer'
  <2>1. CASE pc[t] = "written"
    BY <1>0, <1>1, <1>8, <2>1 DEF WriteDone, Goto, Places
  <2>2. CASE pc[t] = "released"
    <3>1. want[t] \in Buffers /\ Drop(t, want[t])
      BY <1>0, <1>8, <2>2 DEF WriteDone, Calls, InWrite
    <3> QED
      BY <2>2, <3>1, DropWakes
  <2> QED
    BY <1>8, <2>1, <2>2 DEF WriteDone
<1>9. CASE UNCHANGED vars
  <2>1. Woken' = Woken /\ waiting' = waiting /\ free' = free
    BY <1>9 DEF vars, lists, Woken
  <2> QED
    BY <1>0, <2>1, WakesKept
<1> QED
  BY <1>2, <1>3, <1>4, <1>5, <1>6, <1>7, <1>8, <1>9 DEF Next

\* While somebody waits for a buffer, every free one has a task of its own that
\* was woken to take it: brelse loses no wake-up, whoever takes the buffer.
THEOREM NoWakeupLost == Spec => []WakeupPerBuffer
<1>1. Init => WakeupPerBuffer
  BY DEF Init, WakeupPerBuffer
<1>2. Basic /\ WakeupPerBuffer /\ [Next]_vars => Basic' /\ WakeupPerBuffer'
  BY BasicStep, WakesStep
<1> QED
  BY <1>1, <1>2, BasicInit, PTL DEF Spec
-----------------------------------------------------------------------------
(* Whose buffers they are.                                                 *)

\* A task uses buffers of its own blocks only.
Owners ==
  /\ \A t \in Tasks, b \in Buffers : held[t][b] > 0 \/ InBread(t, b) => block[b] \in Uses[t]
  /\ \A t \in Tasks : InWait(t) => want[t] \in Uses[t]

Clean == \A b \in Buffers : Holds(free, b) => dirty[b] = FALSE

Contents == data \in [Buffers -> Values] /\ disk \in [Blocks -> Values] /\ latest \in [Blocks -> Values]

Owned == Owners /\ Clean /\ Contents

\* t has been given buffer b, which nobody used, for block k.
Assigned(t, b, k) ==
  /\ count[b] = 0
  /\ b \notin 1 .. made \/ Holds(free, b)
  /\ \A c : c \in 1 .. made' <=> c \in 1 .. made \/ c = b
  /\ block' = [block EXCEPT ![b] = k] /\ data' = data /\ held' = held /\ slept' = slept
  /\ ~ valid'[b] /\ \/ dirty'[b] = FALSE
                    \/ dirty'[b] = dirty[b] /\ Holds(free, b)
  /\ \A c \in Buffers \ {b} : valid'[c] = valid[c] /\ dirty'[c] = dirty[c]
  /\ \A c : Holds(free', c) => Holds(free, c)
  /\ InBread(t, b)' /\ pc'[t] \in {"locking", "reading"}
  /\ \A u \in Tasks \ {t} : pc'[u] = pc[u] /\ want'[u] = want[u]

\* t waits for a buffer for block k.
Waits(t, k) ==
  /\ pc' = [pc EXCEPT ![t] = "waiting"] /\ want' = [want EXCEPT ![t] = k]
  /\ slept' = slept \cup {k}
  /\ UNCHANGED <<buffers, hashed, free, held>>

LEMMA FreeBufferFacts ==
  ASSUME Basic, NEW t \in Tasks, NEW k, pc[t] \in {"out", "woken"}, FreeBuffer(t, k)
  PROVE  Waits(t, k) \/ \E b \in Buffers : Assigned(t, b, k)
<1>1. /\ Types /\ Lists /\ Calls /\ Counted /\ N \in Nat /\ made \in Nat /\ made <= N
      /\ Unique(free) /\ free \in Seq(Buffers) /\ \A c : Holds(free, c) <=> c \in 1 .. made /\ count[c] = 0
  BY BufferCacheAssumption DEF Basic, Types, Lists, FreeExact
<1>2. ASSUME NEW b \in Buffers, Have(t, b), valid'[b] = FALSE
      PROVE  /\ held' = held /\ InBread(t, b)' /\ pc'[t] \in {"locking", "reading"}
             /\ \A u \in Tasks \ {t} : pc'[u] = pc[u] /\ want'[u] = want[u]
  <2>1. /\ held' = held /\ want' = [want EXCEPT ![t] = b]
        /\ \E p \in {"locking", "reading"} : pc' = [pc EXCEPT ![t] = p]
    BY <1>2 DEF Have, Goto
  <2> QED
    BY <1>1, <2>1 DEF InBread, Types
<1>3. ASSUME made < N, made' = made + 1, dirty' = [dirty EXCEPT ![made'] = FALSE],
             valid' = [valid EXCEPT ![made'] = FALSE], Assign(t, made', k),
             UNCHANGED <<data, free, waiting, slept>>
      PROVE  \E b \in Buffers : Assigned(t, b, k)
  <2>1. PICK b : b = made + 1
    OBVIOUS
  <2>2. /\ b \in Buffers /\ b > made /\ b \notin 1 .. made /\ \A c : c \in 1 .. b <=> c \in 1 .. made \/ c = b
    BY <1>1, <1>3, <2>1 DEF Buffers
  <2>3. count[b] = 0
    BY <1>1, <2>2 DEF Calls
  <2>4. /\ made' = b /\ block' = [block EXCEPT ![b] = k] /\ Have(t, b)
        /\ dirty' = [dirty EXCEPT ![b] = FALSE] /\ valid' = [valid EXCEPT ![b] = FALSE]
    BY <1>3, <2>1 DEF Assign
  <2>5. /\ valid'[b] = FALSE /\ dirty'[b] = FALSE
        /\ \A c \in Buffers \ {b} : valid'[c] = valid[c] /\ dirty'[c] = dirty[c]
    BY <1>1, <2>2, <2>4 DEF Types
  <2> QED
    BY <1>2, <1>3, <2>2, <2>3, <2>4, <2>5 DEF Assigned, Holds
<1>4. ASSUME free # <<>>, free' = Front(free), valid' = [valid EXCEPT ![Last(free)] = FALSE],
             Assign(t, Last(free), k), UNCHANGED <<made, dirty, data, waiting, slept>>
      PROVE  \E b \in Buffers : Assigned(t, b, k)
  <2>1. PICK b : b = Last(free)
    OBVIOUS
  <2>2. b \in Buffers /\ Holds(free, b) /\ \A c : Holds(Front(free), c) <=> Holds(free, c) /\ c # b
    BY <1>1, <1>4, <2>1, PopFacts
  <2>3. b \in 1 .. made /\ count[b] = 0
    BY <1>1, <2>2
  <2>4. block' = [block EXCEPT ![b] = k] /\ Have(t, b) /\ valid' = [valid EXCEPT ![b] = FALSE]
    BY <1>4, <2>1 DEF Assign
  <2>5. valid'[b] = FALSE /\ \A c \in Buffers \ {b} : valid'[c] = valid[c]
    BY <1>1, <2>2, <2>4 DEF Types
  <2>6. \A c : c \in 1 .. made' <=> c \in 1 .. made \/ c = b
    BY <1>4, <2>3
  <2>7. \A c : Holds(free', c) => Holds(free, c)
    BY <1>4, <2>2
  <2> QED
    BY <1>2, <1>4, <2>2, <2>3, <2>4, <2>5, <2>6, <2>7 DEF Assigned
<1>5. ASSUME waiting' = <<t>> \o waiting, slept' = slept \cup {k}, want' = [want EXCEPT ![t] = k],
             Goto(t, "waiting"), UNCHANGED <<buffers, hashed, free, held>>
      PROVE  Waits(t, k)
  BY <1>5 DEF Waits, Goto
<1> QED
  BY <1>3, <1>4, <1>5 DEF FreeBuffer

\* brelse of a clean buffer.
Dropped(t, b) ==
  /\ pc'[t] = "out"
  /\ \A u \in Tasks \ {t} : pc'[u] = pc[u] \/ (pc[u] = "waiting" /\ pc'[u] = "woken")
  /\ \A u \in Tasks \ {t} : held'[u] = held[u]
  /\ \A c \in Buffers : held'[t][c] = IF c = b THEN held[t][b] - 1 ELSE held[t][c]
  /\ \A c : Holds(free', c) => Holds(free, c) \/ c = b

LEMMA DropFacts ==
  ASSUME Basic, NEW t \in Tasks, NEW b \in Buffers, Drop(t, b), pc[t] \in {"out", "released"}
  PROVE  Dropped(t, b)
<1>1. /\ Types /\ Lists /\ waiting \in Seq(Tasks) /\ Unique(waiting) /\ free \in Seq(Buffers) /\ Unique(free)
      /\ \A u : Holds(waiting, u) <=> u \in Tasks /\ pc[u] = "waiting"
  <2>1. Types /\ Lists
    BY DEF Basic
  <2>2. waiting \in Seq(Tasks) /\ free \in Seq(Buffers)
    BY <2>1 DEF Types
  <2>3. Unique(waiting) /\ Unique(free) /\ \A u : Holds(waiting, u) <=> u \in Tasks /\ pc[u] = "waiting"
    BY <2>1 DEF Lists, FreeExact
  <2> QED
    BY <2>1, <2>2, <2>3
<1>2. /\ held' = [held EXCEPT ![t][b] = @ - 1]
      /\ free' = <<b>> \o free \/ free' = free
  BY DEF Drop
<1>3. /\ \A u \in Tasks \ {t} : held'[u] = held[u]
      /\ \A c \in Buffers : held'[t][c] = IF c = b THEN held[t][b] - 1 ELSE held[t][c]
  BY <1>1, <1>2 DEF Types
<1>4. pc'[t] = "out" /\ \A u \in Tasks \ {t} : pc'[u] = pc[u] \/ (pc[u] = "waiting" /\ pc'[u] = "woken")
  <2>1. CASE waiting # <<>> /\ pc' = [pc EXCEPT ![t] = "out", ![Last(waiting)] = "woken"]
    <3>1. PICK w : w = Last(waiting)
      OBVIOUS
    <3>2. w \in Tasks /\ pc[w] = "waiting"
      BY <1>1, <2>1, <3>1, PopFacts
    <3> QED
      BY <1>1, <2>1, <3>1, <3>2 DEF Types
  <2>2. CASE pc' = [pc EXCEPT ![t] = "out"]
    BY <1>1, <2>2 DEF Types
  <2> QED
    BY <2>1, <2>2 DEF Drop, Goto
<1>5. \A c : Holds(free', c) => Holds(free, c) \/ c = b
  <2>1. CASE free' = free
    BY <2>1 DEF Holds
  <2>2. CASE free' = <<b>> \o free
    <3>1. /\ Len(free) \in Nat /\ Len(free') = Len(free) + 1 /\ free'[1] = b
          /\ \A i \in 2 .. Len(free) + 1 : free'[i] = free[i - 1] /\ i - 1 \in 1 .. Len(free)
      BY <1>1, <2>2
    <3> QED
      BY <3>1 DEF Holds
  <2> QED
    BY <1>2, <2>1, <2>2
<1> QED
  BY <1>3, <1>4, <1>5 DEF Dropped

\* OneBufferPerBlock, said of the buffers.
OneBuffer == \A b, c \in 1 .. made : block[b] = block[c] => b = c \/ block[b] \in slept

LEMMA OneBufferIs == Basic => (OneBufferPerBlock <=> OneBuffer)
<1> SUFFICES ASSUME Basic PROVE OneBufferPerBlock <=> OneBuffer
  OBVIOUS
<1>1. Unique(hashed) /\ \A b : Holds(hashed, b) <=> b \in 1 .. made
  BY DEF Basic, Lists
<1>2. ASSUME OneBufferPerBlock PROVE OneBuffer
  BY <1>1, <1>2 DEF OneBufferPerBlock, OneBuffer, Holds
<1>3. ASSUME OneBuffer PROVE OneBufferPerBlock
  BY <1>1, <1>3 DEF OneBufferPerBlock, OneBuffer, Holds, Unique
<1> QED
  BY <1>2, <1>3

LEMMA OneBufferStep == Basic /\ OneBuffer /\ [Next]_vars => OneBuffer'
<1> SUFFICES ASSUME Basic, OneBuffer, [Next]_vars PROVE OneBuffer'
  OBVIOUS
<1>1. Types /\ Calls /\ \A b \in 1 .. made : b \in Buffers
  BY BufferCacheAssumption DEF Basic, Types, Buffers
<1>2. ASSUME NEW t \in Tasks, NEW k, pc[t] \in {"out", "woken"}, FreeBuffer(t, k),
             k \in slept \/ Found(k) = {}
      PROVE  OneBuffer'
  <2>1. ASSUME Waits(t, k) PROVE OneBuffer'
    BY <2>1 DEF Waits, buffers, OneBuffer
  <2>2. ASSUME NEW b \in Buffers, Assigned(t, b, k) PROVE OneBuffer'
    <3>1. block' = [block EXCEPT ![b] = k] /\ slept' = slept /\ \A c : c \in 1 .. made' <=> c \in 1 .. made \/ c = b
      BY <2>2 DEF Assigned
    <3>2. \A c \in 1 .. made : c # b /\ block[c] = k => k \in slept
      BY <1>2, FoundNone
    <3> QED
      BY ZenonT(60), <1>1, <3>1, <3>2 DEF OneBuffer, Types
  <2> QED
    BY <1>2, <2>1, <2>2, FreeBufferFacts
<1>3. ASSUME NEW t \in Tasks, NEW k \in Uses[t], Bread(t, k) PROVE OneBuffer'
  BY <1>2, <1>3 DEF Bread, OneBuffer
<1>4. ASSUME NEW t \in Tasks, WakeUp(t) PROVE OneBuffer'
  BY <1>1, <1>2, <1>4 DEF WakeUp, Calls, InWait
<1>5. ASSUME UNCHANGED <<made, block, slept>> PROVE OneBuffer'
  BY <1>5 DEF OneBuffer
<1>6. ASSUME NEW t \in Tasks, Locked(t) \/ DriveReads(t) \/ ReadDone(t) \/ DriveWrites(t) \/ WriteDone(t)
      PROVE  OneBuffer'
  BY <1>5, <1>6 DEF Locked, DriveReads, ReadDone, DriveWrites, WriteDone, lists, buffers
<1>7. ASSUME NEW t \in Tasks, NEW b \in Buffers, Bwrite(t, b) \/ Brelse(t, b) \/ \E v \in Values : Modify(t, b, v)
      PROVE  OneBuffer'
  BY <1>5, <1>7 DEF Bwrite, Brelse, Modify, lists, buffers
<1>8. CASE UNCHANGED vars
  BY <1>5, <1>8 DEF vars, lists, buffers
<1> QED
  BY <1>3, <1>4, <1>6, <1>7, <1>8 DEF Next

\* A block is in one buffer, unless a task had to wait for a buffer for it:
\* getblk does not look again after it slept.
THEOREM BlockHasOneBuffer == Spec => []OneBufferPerBlock
<1>1. Init => OneBuffer
  BY DEF Init, OneBuffer
<1>2. Basic /\ OneBuffer /\ [Next]_vars => Basic' /\ OneBuffer'
  BY BasicStep, OneBufferStep
<1>3. Basic /\ OneBuffer => OneBufferPerBlock
  BY OneBufferIs
<1> QED
  BY <1>1, <1>2, <1>3, BasicInit, PTL DEF Spec

\* The free list holds exactly the buffers that exist and that nobody uses, each
\* of them once: neither brelse nor getblk loses or doubles a buffer, and the
\* assertions on bf->rnode in brelse and on bf->count in getblk hold.
THEOREM FreeListIsExact == Spec => []FreeExact
<1>1. Basic => FreeExact
  BY DEF Basic, Lists
<1> QED
  BY <1>1, BasicInit, BasicStep, PTL DEF Spec
-----------------------------------------------------------------------------
LEMMA OwnedInit == Init => Owned
<1> SUFFICES ASSUME Init PROVE Owned
  OBVIOUS
<1>1. Owners
  BY DEF Init, Owners, InBread, InWait
<1>2. Clean
  BY DEF Init, Clean
<1>3. Contents
  BY BufferCacheAssumption DEF Init, Contents
<1> QED
  BY <1>1, <1>2, <1>3 DEF Owned

\* getblk gives a task a buffer for a block of its own.
LEMMA FreeBufferOwned ==
  ASSUME Basic, Owned, NEW t \in Tasks, NEW k \in Uses[t], pc[t] \in {"out", "woken"}, FreeBuffer(t, k),
         UNCHANGED <<disk, latest>>
  PROVE  Owned'
<1>1. Types /\ Counted /\ Owners /\ Clean /\ Contents
  BY DEF Basic, Owned
<1>2. ASSUME Waits(t, k) PROVE Owned'
  <2>1. /\ pc'[t] = "waiting" /\ want'[t] = k /\ held' = held /\ block' = block /\ dirty' = dirty
        /\ free' = free /\ data' = data /\ \A u \in Tasks \ {t} : pc'[u] = pc[u] /\ want'[u] = want[u]
    BY <1>1, <1>2 DEF Waits, Types, buffers
  <2>2. Owners'
    BY <1>1, <2>1 DEF Owners, InBread, InWait
  <2>3. Clean' /\ Contents'
    BY <1>1, <2>1 DEF Clean, Contents, Holds
  <2> QED
    BY <2>2, <2>3 DEF Owned
<1>3. ASSUME NEW b \in Buffers, Assigned(t, b, k) PROVE Owned'
  <2>1. \A u \in Tasks : ~ (held[u][b] > 0) /\ ~ InBread(u, b)
    <3>1. ~ (count[b] > 0)
      BY <1>3 DEF Assigned
    <3> QED
      BY <1>1, <3>1, InUse
  <2>2. \A u \in Tasks, c \in Buffers : held'[u][c] > 0 \/ InBread(u, c)' => block'[c] \in Uses[u]
    <3>1. \A c \in Buffers : block'[c] = IF c = b THEN k ELSE block[c]
      BY <1>1, <1>3 DEF Assigned, Types
    <3>2. held' = held /\ \A c : InBread(t, c)' => c = b
      BY <1>3 DEF Assigned, InBread
    <3>3. \A u \in Tasks \ {t} : \A c : InBread(u, c)' <=> InBread(u, c)
      BY <1>3 DEF Assigned, InBread
    <3> QED
      BY <1>1, <2>1, <3>1, <3>2, <3>3 DEF Owners
  <2>3. \A u \in Tasks : InWait(u)' => want'[u] \in Uses[u]
    BY <1>1, <1>3 DEF Assigned, Owners, InWait
  <2>4. Clean'
    BY <1>1, <1>3 DEF Assigned, Clean
  <2>5. Contents'
    BY <1>1, <1>3 DEF Assigned, Contents
  <2> QED
    BY <2>2, <2>3, <2>4, <2>5 DEF Owned, Owners
<1> QED
  BY <1>2, <1>3, FreeBufferFacts

-----------------------------------------------------------------------------
(* What the only user of a block sees.                                     *)

Sole(t, k) == k \in Uses[t] /\ \A u \in Tasks \ {t} : k \notin Uses[u]

Buffered(k) == {b \in 1 .. made : block[b] = k}

\* The buffer of t's own block k: a valid one holds the last modification, and
\* the disk does too while nothing in it has to be written.
Coherent(t, k, b) ==
  /\ valid[b] => data[b] = latest[k]
  /\ dirty[b] => valid[b]
  /\ held[t][b] > 0 => valid[b]
  /\ pc[t] \in {"reading", "read"} /\ want[t] = b => ~ valid[b]
  /\ pc[t] = "read" /\ want[t] = b => data[b] = latest[k]
  /\ pc[t] \in {"written", "released"} /\ want[t] = b => disk[k] = data[b]
  /\ ~ dirty[b] => disk[k] = latest[k]

\* No second buffer, not even after t had to wait for one; and the last
\* modification is on the disk when there is none.
SoleOne(t, k) ==
  /\ \A b, c \in Buffered(k) : b = c
  /\ InWait(t) /\ want[t] = k => Buffered(k) = {}
  /\ \A b \in Buffered(k) : Coherent(t, k, b)
  /\ Buffered(k) = {} => disk[k] = latest[k]

SoleUser == \A t \in Tasks, k \in Blocks : Sole(t, k) => SoleOne(t, k)

\* A step in which t goes on with buffer b, or is done with it.
Goes(t, b) ==
  /\ made' = made /\ block' = block /\ Contents'
  /\ b \in 1 .. made /\ block[b] \in Uses[t] /\ ~ InWait(t)'
  /\ \A u \in Tasks \ {t} : /\ pc'[u] = pc[u] \/ (pc[u] = "waiting" /\ pc'[u] = "woken")
                            /\ want'[u] = want[u] /\ held'[u] = held[u]
  /\ \A c \in Buffers \ {b} : /\ valid'[c] = valid[c] /\ dirty'[c] = dirty[c] /\ data'[c] = data[c]
                              /\ held'[t][c] = held[t][c]
  /\ pc'[t] # "out" => want'[t] = b
  /\ \A k \in Blocks : k # block[b] => disk'[k] = disk[k] /\ latest'[k] = latest[k]
  /\ \A c \in Buffers : Holds(free', c) => dirty'[c] = FALSE
  /\ \A k \in Blocks : k = block[b] /\ Sole(t, k) /\ Coherent(t, k, b) => Coherent(t, k, b)'

LEMMA GoesOwned ==
  ASSUME Basic, Owned, NEW t \in Tasks, NEW b \in Buffers, Goes(t, b)
  PROVE  Owned'
<1>1. Owners /\ \A c \in Buffers, u \in Tasks : held[u][c] > 0 \/ InBread(u, c) => block[c] \in Uses[u]
  BY DEF Owned, Owners
<1>2. \A u \in Tasks \ {t} : \A c : InBread(u, c)' => InBread(u, c)
  BY DEF InBread, Goes
<1>3. \A c \in Buffers \ {b} : ~ InBread(t, c)' /\ held'[t][c] = held[t][c]
  BY DEF InBread, Goes
<1>4. \A u \in Tasks, c \in Buffers : held'[u][c] > 0 \/ InBread(u, c)' => block'[c] \in Uses[u]
  BY <1>1, <1>2, <1>3 DEF Goes
<1>5. \A u \in Tasks : InWait(u)' => want'[u] \in Uses[u]
  BY <1>1 DEF Owners, InWait, Goes
<1>6. Clean' /\ Contents'
  BY DEF Clean, Goes
<1> QED
  BY <1>4, <1>5, <1>6 DEF Owned, Owners

LEMMA GoesSole ==
  ASSUME Basic, SoleUser, NEW t \in Tasks, NEW b \in Buffers, Goes(t, b)
  PROVE  SoleUser'
<1> SUFFICES ASSUME NEW o \in Tasks, NEW k \in Blocks, Sole(o, k)
             PROVE  SoleOne(o, k)'
  BY DEF SoleUser, Sole
<1>1. SoleOne(o, k) /\ Buffered(k)' = Buffered(k) /\ \A c \in Buffered(k) : c \in Buffers
  BY BufferCacheAssumption DEF SoleUser, Goes, Buffered, Basic, Types, Buffers
<1>2. InWait(o)' => o # t /\ InWait(o) /\ want'[o] = want[o]
  BY DEF Goes, InWait
<1>3. CASE block[b] = k
  <2>1. o = t
    BY <1>3 DEF Goes, Sole
  <2>2. b \in Buffered(k)
    BY <1>3 DEF Goes, Buffered
  <2>3. Coherent(t, k, b)'
    BY <1>1, <1>3, <2>1, <2>2 DEF Goes, SoleOne
  <2> QED
    BY <1>1, <1>2, <2>1, <2>2, <2>3 DEF SoleOne
<1>4. CASE block[b] # k
  <2>1. \A c \in Buffered(k) : c # b /\ c \in Buffers \ {b}
    BY <1>1, <1>4 DEF Buffered
  <2>2. disk'[k] = disk[k] /\ latest'[k] = latest[k]
    BY <1>4 DEF Goes
  <2>3. ASSUME NEW c \in Buffered(k) PROVE Coherent(o, k, c)'
    <3>1. Coherent(o, k, c)
      BY <1>1 DEF SoleOne
    <3>2. valid'[c] = valid[c] /\ dirty'[c] = dirty[c] /\ data'[c] = data[c] /\ held'[o][c] = held[o][c]
      BY <2>1 DEF Goes
    <3>3. ASSUME NEW p \in {"reading", "read", "written", "released"}, pc'[o] = p, want'[o] = c
          PROVE  pc[o] = p /\ want[o] = c
      BY <2>1, <3>3 DEF Goes
    <3> QED
      BY <2>2, <3>1, <3>2, <3>3 DEF Coherent
  <2> QED
    BY <1>1, <1>2, <2>2, <2>3 DEF SoleOne
<1> QED
  BY <1>3, <1>4

\* A buffer that t uses exists, is its own, and is not free.
LEMMA UsedFacts ==
  ASSUME Basic, Owned, NEW t \in Tasks, NEW b \in Buffers, held[t][b] > 0 \/ InBread(t, b)
  PROVE  b \in 1 .. made /\ block[b] \in Uses[t] /\ block[b] \in Blocks /\ ~ Holds(free, b)
<1>1. count[b] > 0 /\ made \in Nat
  BY InUse DEF Basic, Types
<1>2. b \in 1 .. made /\ ~ Holds(free, b)
  BY <1>1 DEF Basic, Calls, Lists, FreeExact, Buffers
<1> QED
  BY <1>2, BufferCacheAssumption DEF Owned, Owners

LEMMA FoundGoes ==
  ASSUME Basic, Owned, NEW t \in Tasks, NEW b \in Buffers, Holds(hashed, b), block[b] \in Uses[t],
         pc[t] = "out", Have(t, b), \A c : Holds(free', c) => Holds(free, c),
         UNCHANGED <<made, block, dirty, valid, data, disk, latest>>
  PROVE  Goes(t, b)
<1>1. /\ Types /\ Clean /\ Contents /\ b \in 1 .. made
  BY DEF Basic, Owned, Lists
<1>2. CASE valid[b]
  <2>1. pc' = [pc EXCEPT ![t] = "out"] /\ want' = want /\ held' = [held EXCEPT ![t][b] = @ + 1]
    BY <1>2 DEF Have, Goto
  <2>2. /\ pc'[t] = "out" /\ \A u \in Tasks \ {t} : pc'[u] = pc[u] /\ want'[u] = want[u] /\ held'[u] = held[u]
        /\ \A c \in Buffers \ {b} : held'[t][c] = held[t][c]
    BY <1>1, <2>1 DEF Types
  <2>3. \A k \in Blocks : Coherent(t, k, b) => Coherent(t, k, b)'
    BY <1>2, <2>2 DEF Coherent
  <2> QED
    BY <1>1, <2>2, <2>3 DEF Goes, InWait, Contents, Clean
<1>3. CASE ~ valid[b]
  <2>1. PICK p \in {"locking", "reading"} :
          pc' = [pc EXCEPT ![t] = p] /\ want' = [want EXCEPT ![t] = b] /\ held' = held
    BY <1>3 DEF Have, Goto
  <2>2. /\ pc'[t] = p /\ want'[t] = b
        /\ \A u \in Tasks \ {t} : pc'[u] = pc[u] /\ want'[u] = want[u] /\ held'[u] = held[u]
    BY <1>1, <2>1 DEF Types
  <2>3. \A k \in Blocks : Coherent(t, k, b) => Coherent(t, k, b)'
    BY <1>3, <2>1, <2>2 DEF Coherent
  <2> QED
    BY <1>1, <2>1, <2>2, <2>3 DEF Goes, InWait, Contents, Clean
<1> QED
  BY <1>2, <1>3

LEMMA LockedGoes ==
  ASSUME Basic, Owned, NEW t \in Tasks, Locked(t)
  PROVE  \E b \in Buffers : Goes(t, b)
<1>1. Types /\ Clean /\ Contents /\ Calls
  BY DEF Basic, Owned
<1>2. PICK b : b = want[t]
  OBVIOUS
<1>3. /\ InBread(t, b) /\ b \in Buffers /\ pc[t] = "locking"
      /\ UNCHANGED <<made, block, dirty, valid, data, disk, latest, want, free>>
  BY <1>1, <1>2 DEF Locked, InBread, Calls, lists
<1>4. b \in 1 .. made /\ block[b] \in Uses[t]
  BY <1>3, UsedFacts
<1>5. CASE valid[b]
  <2>1. pc' = [pc EXCEPT ![t] = "out"] /\ held' = [held EXCEPT ![t][b] = @ + 1]
    BY <1>2, <1>5 DEF Locked, Goto
  <2>2. /\ pc'[t] = "out" /\ \A u \in Tasks \ {t} : pc'[u] = pc[u] /\ want'[u] = want[u] /\ held'[u] = held[u]
        /\ \A c \in Buffers \ {b} : held'[t][c] = held[t][c]
    BY <1>1, <1>3, <2>1 DEF Types
  <2>3. \A k \in Blocks : Coherent(t, k, b) => Coherent(t, k, b)'
    BY <1>3, <1>5, <2>2 DEF Coherent
  <2> QED
    BY <1>1, <1>3, <1>4, <2>2, <2>3 DEF Goes, InWait, Contents, Clean, Holds
<1>6. CASE ~ valid[b]
  <2>1. pc' = [pc EXCEPT ![t] = "reading"] /\ held' = held
    BY <1>2, <1>6 DEF Locked, Goto
  <2>2. pc'[t] = "reading" /\ \A u \in Tasks \ {t} : pc'[u] = pc[u] /\ want'[u] = want[u] /\ held'[u] = held[u]
    BY <1>1, <1>3, <2>1 DEF Types
  <2>3. \A k \in Blocks : Coherent(t, k, b) => Coherent(t, k, b)'
    BY <1>3, <1>6, <2>1, <2>2 DEF Coherent
  <2> QED
    BY <1>1, <1>2, <1>3, <1>4, <2>1, <2>2, <2>3 DEF Goes, InWait, Contents, Clean, Holds
<1> QED
  BY <1>3, <1>5, <1>6

LEMMA DriveReadsGoes ==
  ASSUME Basic, Owned, NEW t \in Tasks, DriveReads(t)
  PROVE  \E b \in Buffers : Goes(t, b)
<1>1. Types /\ Clean /\ Contents /\ Calls
  BY DEF Basic, Owned
<1>2. PICK b : b = want[t]
  OBVIOUS
<1>3. /\ InBread(t, b) /\ b \in Buffers /\ pc[t] = "reading"
      /\ pc' = [pc EXCEPT ![t] = "read"] /\ data' = [data EXCEPT ![b] = disk[block[b]]]
      /\ UNCHANGED <<made, block, dirty, valid, disk, latest, want, held, free>>
  BY <1>1, <1>2 DEF DriveReads, InBread, Calls, lists, Goto
<1>4. b \in 1 .. made /\ block[b] \in Uses[t] /\ block[b] \in Blocks
  BY <1>3, UsedFacts
<1>5. Contents' /\ data'[b] = disk[block[b]] /\ \A c \in Buffers \ {b} : data'[c] = data[c]
  BY <1>1, <1>3, <1>4 DEF Contents
<1>6. pc'[t] = "read" /\ \A u \in Tasks \ {t} : pc'[u] = pc[u] /\ want'[u] = want[u] /\ held'[u] = held[u]
  BY <1>1, <1>3 DEF Types
<1>7. ASSUME NEW k \in Blocks, k = block[b], Coherent(t, k, b) PROVE Coherent(t, k, b)'
  <2>1. ~ valid[b] /\ ~ dirty[b] /\ disk[k] = latest[k]
    BY <1>2, <1>3, <1>7 DEF Coherent
  <2> QED
    BY <1>3, <1>5, <1>6, <1>7, <2>1 DEF Coherent
<1> QED
  BY <1>1, <1>2, <1>3, <1>4, <1>5, <1>6, <1>7 DEF Goes, InWait, Clean, Holds

LEMMA ReadDoneGoes ==
  ASSUME Basic, Owned, NEW t \in Tasks, ReadDone(t)
  PROVE  \E b \in Buffers : Goes(t, b)
<1>1. Types /\ Clean /\ Contents /\ Calls
  BY DEF Basic, Owned
<1>2. PICK b : b = want[t]
  OBVIOUS
<1>3. /\ InBread(t, b) /\ b \in Buffers /\ pc[t] = "read"
      /\ pc' = [pc EXCEPT ![t] = "out"] /\ held' = [held EXCEPT ![t][b] = @ + 1]
      /\ dirty' = [dirty EXCEPT ![b] = FALSE] /\ valid' = [valid EXCEPT ![b] = TRUE]
      /\ UNCHANGED <<made, block, data, disk, latest, want, free>>
  BY <1>1, <1>2 DEF ReadDone, InBread, Calls, lists, Goto
<1>4. b \in 1 .. made /\ block[b] \in Uses[t]
  BY <1>3, UsedFacts
<1>5. /\ valid'[b] = TRUE /\ dirty'[b] = FALSE
      /\ \A c \in Buffers \ {b} : valid'[c] = valid[c] /\ dirty'[c] = dirty[c] /\ held'[t][c] = held[t][c]
  BY <1>1, <1>3 DEF Types
<1>6. pc'[t] = "out" /\ \A u \in Tasks \ {t} : pc'[u] = pc[u] /\ want'[u] = want[u] /\ held'[u] = held[u]
  BY <1>1, <1>3 DEF Types
<1>7. ASSUME NEW k \in Blocks, Coherent(t, k, b) PROVE Coherent(t, k, b)'
  <2>1. ~ valid[b] /\ ~ dirty[b] /\ disk[k] = latest[k] /\ data[b] = latest[k]
    BY <1>2, <1>3, <1>7 DEF Coherent
  <2> QED
    BY <1>3, <1>5, <1>6, <2>1 DEF Coherent
<1>8. \A c \in Buffers : Holds(free', c) => dirty'[c] = FALSE
  BY <1>1, <1>3, <1>5 DEF Clean, Holds
<1> QED
  BY <1>1, <1>3, <1>4, <1>5, <1>6, <1>7, <1>8 DEF Goes, InWait, Contents

LEMMA ModifyGoes ==
  ASSUME Basic, Owned, NEW t \in Tasks, NEW b \in Buffers, NEW v \in Values, Modify(t, b, v)
  PROVE  Goes(t, b)
<1>1. Types /\ Clean /\ Contents
  BY DEF Basic, Owned
<1>2. /\ pc[t] = "out" /\ held[t][b] > 0
      /\ data' = [data EXCEPT ![b] = v] /\ dirty' = [dirty EXCEPT ![b] = TRUE]
      /\ latest' = [latest EXCEPT ![block[b]] = v]
      /\ UNCHANGED <<made, block, valid, disk, pc, want, held, free>>
  BY DEF Modify, lists
<1>3. b \in 1 .. made /\ block[b] \in Uses[t] /\ block[b] \in Blocks /\ ~ Holds(free, b)
  BY <1>2, UsedFacts
<1>4. /\ Contents' /\ data'[b] = v /\ latest'[block[b]] = v /\ dirty'[b] = TRUE
      /\ \A k \in Blocks : k # block[b] => latest'[k] = latest[k]
      /\ \A c \in Buffers \ {b} : data'[c] = data[c] /\ dirty'[c] = dirty[c]
  BY <1>1, <1>2, <1>3 DEF Contents, Types
<1>5. ASSUME NEW k \in Blocks, k = block[b], Coherent(t, k, b) PROVE Coherent(t, k, b)'
  BY <1>2, <1>4, <1>5 DEF Coherent
<1>6. \A c \in Buffers : Holds(free', c) => dirty'[c] = FALSE
  BY ZenonT(60), <1>1, <1>2, <1>3, <1>4 DEF Clean, Holds
<1> QED
  BY <1>2, <1>3, <1>4, <1>5, <1>6 DEF Goes, InWait

\* The beginning of bwrite and of a brelse that has to write.
LEMMA WriteGoes ==
  ASSUME Basic, Owned, NEW t \in Tasks, NEW b \in Buffers, NEW p \in {"writing", "releasing"},
         held[t][b] > 0, want' = [want EXCEPT ![t] = b], pc' = [pc EXCEPT ![t] = p],
         UNCHANGED <<made, block, dirty, valid, data, disk, latest, free, held>>
  PROVE  Goes(t, b)
<1>1. Types /\ Clean /\ Contents
  BY DEF Basic, Owned
<1>2. b \in 1 .. made /\ block[b] \in Uses[t]
  BY UsedFacts
<1>3. pc'[t] = p /\ want'[t] = b /\ \A u \in Tasks \ {t} : pc'[u] = pc[u] /\ want'[u] = want[u]
  BY <1>1 DEF Types
<1>4. \A k \in Blocks : Coherent(t, k, b) => Coherent(t, k, b)'
  BY <1>3 DEF Coherent
<1>5. \A c \in Buffers : Holds(free', c) => dirty'[c] = FALSE
  BY <1>1 DEF Clean, Holds
<1> QED
  BY <1>1, <1>2, <1>3, <1>4, <1>5 DEF Goes, InWait, Contents

LEMMA DriveWritesGoes ==
  ASSUME Basic, Owned, NEW t \in Tasks, DriveWrites(t)
  PROVE  \E b \in Buffers : Goes(t, b)
<1>1. Types /\ Clean /\ Contents /\ Calls
  BY DEF Basic, Owned
<1>2. PICK b : b = want[t]
  OBVIOUS
<1>3. PICK p \in {"written", "released"} :
        /\ InWrite(t) /\ pc' = [pc EXCEPT ![t] = p] /\ disk' = [disk EXCEPT ![block[b]] = data[b]]
        /\ UNCHANGED <<made, block, dirty, valid, data, latest, want, held, free>>
  BY <1>2 DEF DriveWrites, InWrite, Goto, buffers, lists
<1>4. b \in Buffers /\ held[t][b] > 0
  BY <1>1, <1>2, <1>3 DEF Calls
<1>5. b \in 1 .. made /\ block[b] \in Uses[t] /\ block[b] \in Blocks
  BY <1>4, UsedFacts
<1>6. Contents' /\ disk'[block[b]] = data[b] /\ \A k \in Blocks : k # block[b] => disk'[k] = disk[k]
  BY <1>1, <1>3, <1>4, <1>5 DEF Contents
<1>7. pc'[t] = p /\ \A u \in Tasks \ {t} : pc'[u] = pc[u] /\ want'[u] = want[u] /\ held'[u] = held[u]
  BY <1>1, <1>3 DEF Types
<1>8. ASSUME NEW k \in Blocks, k = block[b], Coherent(t, k, b) PROVE Coherent(t, k, b)'
  <2>1. data[b] = latest[k]
    BY <1>4, <1>8 DEF Coherent
  <2> QED
    BY <1>3, <1>6, <1>7, <1>8, <2>1 DEF Coherent
<1> QED
  BY <1>1, <1>2, <1>3, <1>4, <1>5, <1>6, <1>7, <1>8 DEF Goes, InWait, Clean, Holds

LEMMA DropGoes ==
  ASSUME Basic, Owned, NEW t \in Tasks, NEW b \in Buffers, held[t][b] > 0, pc[t] \in {"out", "released"},
         Drop(t, b), dirty'[b] = FALSE, \A c \in Buffers \ {b} : valid'[c] = valid[c] /\ dirty'[c] = dirty[c],
         UNCHANGED <<made, block, data, want, disk, latest>>,
         \A k \in Blocks : k = block[b] /\ Coherent(t, k, b) => disk[k] = latest[k] /\ data[b] = latest[k] /\ valid'[b]
  PROVE  Goes(t, b)
<1>1. Clean /\ Contents
  BY DEF Owned
<1>2. Dropped(t, b)
  BY DropFacts
<1>3. b \in 1 .. made /\ block[b] \in Uses[t]
  BY UsedFacts
<1>4. ASSUME NEW k \in Blocks, k = block[b], Coherent(t, k, b) PROVE Coherent(t, k, b)'
  BY <1>2, <1>4 DEF Coherent, Dropped
<1>5. \A c \in Buffers : Holds(free', c) => dirty'[c] = FALSE
  BY <1>1, <1>2 DEF Clean, Dropped
<1> QED
  BY <1>1, <1>2, <1>3, <1>4, <1>5 DEF Goes, Dropped, InWait, Contents

LEMMA WriteDoneGoes ==
  ASSUME Basic, Owned, NEW t \in Tasks, WriteDone(t)
  PROVE  \E b \in Buffers : Goes(t, b)
<1>1. Types /\ Clean /\ Contents /\ Calls
  BY DEF Basic, Owned
<1>2. PICK b : b = want[t]
  OBVIOUS
<1>3. /\ InWrite(t) /\ b \in Buffers /\ held[t][b] > 0 /\ pc[t] \in {"written", "released"}
      /\ UNCHANGED <<made, block, data, want, disk, latest>>
      /\ dirty' = [dirty EXCEPT ![b] = FALSE] /\ valid' = [valid EXCEPT ![b] = TRUE]
  BY <1>1, <1>2 DEF WriteDone, InWrite, Calls
<1>4. /\ valid'[b] = TRUE /\ dirty'[b] = FALSE
      /\ \A c \in Buffers \ {b} : valid'[c] = valid[c] /\ dirty'[c] = dirty[c]
  BY <1>1, <1>3 DEF Types
<1>5. \A k \in Blocks : Coherent(t, k, b) => disk[k] = latest[k] /\ data[b] = latest[k]
  BY <1>2, <1>3 DEF Coherent
<1>6. CASE pc[t] = "written"
  <2>1. pc' = [pc EXCEPT ![t] = "out"] /\ UNCHANGED <<held, free>>
    BY <1>6 DEF WriteDone, Goto
  <2>2. pc'[t] = "out" /\ \A u \in Tasks \ {t} : pc'[u] = pc[u] /\ want'[u] = want[u] /\ held'[u] = held[u]
    BY <1>1, <1>3, <2>1 DEF Types
  <2>3. b \in 1 .. made /\ block[b] \in Uses[t]
    BY <1>3, UsedFacts
  <2>4. \A k \in Blocks : Coherent(t, k, b) => Coherent(t, k, b)'
    BY <1>3, <1>4, <1>5, <2>2 DEF Coherent
  <2>5. \A c \in Buffers : Holds(free', c) => dirty'[c] = FALSE
    BY <1>1, <1>4, <2>1 DEF Clean, Holds
  <2> QED
    BY <1>1, <1>3, <1>4, <2>1, <2>2, <2>3, <2>4, <2>5 DEF Goes, InWait, Contents
<1>7. CASE pc[t] = "released"
  <2>1. Drop(t, b)
    BY <1>2, <1>7 DEF WriteDone
  <2>2. \A k \in Blocks : k = block[b] /\ Coherent(t, k, b) => disk[k] = latest[k] /\ data[b] = latest[k] /\ valid'[b]
    BY <1>4, <1>5
  <2>3. pc[t] \in {"out", "released"}
    BY <1>7
  <2>4. Goes(t, b)
    BY <1>3, <1>4, <2>1, <2>2, <2>3, DropGoes
  <2> QED
    BY <1>3, <2>4
<1> QED
  BY <1>3, <1>6, <1>7

LEMMA BrelseGoes ==
  ASSUME Basic, Owned, NEW t \in Tasks, NEW b \in Buffers, Brelse(t, b)
  PROVE  Goes(t, b)
<1>1. Types
  BY DEF Basic
<1>2. CASE dirty[b]
  <2>1. /\ held[t][b] > 0 /\ want' = [want EXCEPT ![t] = b] /\ pc' = [pc EXCEPT ![t] = "releasing"]
        /\ UNCHANGED <<made, block, dirty, valid, data, disk, latest, free, held>>
    BY <1>2 DEF Brelse, Goto
  <2> QED
    BY <2>1, WriteGoes
<1>3. CASE ~ dirty[b]
  <2>1. /\ pc[t] = "out" /\ held[t][b] > 0 /\ Drop(t, b) /\ dirty' = dirty /\ valid' = valid
        /\ UNCHANGED <<made, block, data, want, disk, latest>>
    BY <1>3 DEF Brelse
  <2>2. dirty'[b] = FALSE
    BY <1>1, <1>3, <2>1 DEF Types
  <2>3. \A k \in Blocks : Coherent(t, k, b) => disk[k] = latest[k] /\ data[b] = latest[k] /\ valid'[b]
    BY <1>3, <2>1 DEF Coherent
  <2> QED
    BY <2>1, <2>2, <2>3, DropGoes
<1> QED
  BY <1>2, <1>3

\* getblk: the block that leaves the cache is on the disk, and the new one is
\* in no other buffer.
LEMMA FreeBufferSole ==
  ASSUME Basic, Owned, SoleUser, NEW t \in Tasks, NEW k \in Uses[t], pc[t] \in {"out", "woken"}, FreeBuffer(t, k),
         Sole(t, k) => Buffered(k) = {}, UNCHANGED <<disk, latest>>
  PROVE  SoleUser'
<1>1. Types /\ Counted /\ Clean
  BY DEF Basic, Owned
<1> SUFFICES ASSUME NEW o \in Tasks, NEW m \in Blocks, Sole(o, m)
             PROVE  SoleOne(o, m)'
  BY DEF SoleUser, Sole
<1>2. SoleOne(o, m) /\ \A c \in Buffered(m) : c \in Buffers
  BY <1>1, BufferCacheAssumption DEF SoleUser, Buffered, Types, Buffers
<1>3. ASSUME Waits(t, k) PROVE SoleOne(o, m)'
  <2>1. /\ Buffered(m)' = Buffered(m) /\ UNCHANGED <<dirty, valid, data, held>>
        /\ \A u \in Tasks \ {t} : pc'[u] = pc[u] /\ want'[u] = want[u]
        /\ pc'[t] = "waiting" /\ want'[t] = k
    BY <1>1, <1>3 DEF Waits, buffers, Buffered, Types
  <2>2. InWait(o)' /\ want'[o] = m => Buffered(m) = {}
    BY <1>2, <2>1 DEF InWait, SoleOne
  <2>3. \A c \in Buffered(m) : Coherent(o, m, c)'
    <3>1. CASE o = t
      BY <1>2, <2>1, <3>1 DEF SoleOne, Coherent
    <3>2. CASE o # t
      BY <1>2, <2>1, <3>2 DEF SoleOne, Coherent
    <3> QED
      BY <3>1, <3>2
  <2> QED
    BY <1>2, <2>1, <2>2, <2>3 DEF SoleOne
<1>4. ASSUME NEW b \in Buffers, Assigned(t, b, k) PROVE SoleOne(o, m)'
  <2>1. /\ \A c \in Buffers : block'[c] = IF c = b THEN k ELSE block[c]
        /\ \A c : c \in 1 .. made' <=> c \in 1 .. made \/ c = b
    BY <1>1, <1>4 DEF Assigned, Types
  <2>2. Holds(free, b) => dirty[b] = FALSE
    BY <1>1 DEF Clean
  <2>3. CASE m = k
    <3>1. o = t /\ Buffered(k) = {} /\ disk[k] = latest[k]
      BY <1>2, <2>3 DEF Sole, SoleOne
    <3>2. Buffered(k)' = {b}
      BY SMTT(60), <2>1, <3>1, BufferCacheAssumption, <1>1 DEF Buffered, Types, Buffers
    <3>3. dirty'[b] = FALSE /\ ~ valid'[b] /\ ~ (held'[t][b] > 0)
      <4>1. ~ (count[b] > 0) /\ held' = held
        BY <1>4 DEF Assigned
      <4> QED
        BY <1>1, <1>4, <2>2, <4>1, InUse DEF Assigned
    <3>4. pc'[t] \in {"locking", "reading"} /\ ~ InWait(t)'
      BY <1>4 DEF Assigned, InWait
    <3>5. Coherent(t, k, b)'
      BY <3>1, <3>3, <3>4 DEF Coherent
    <3> QED
      BY <2>3, <3>1, <3>2, <3>4, <3>5 DEF SoleOne
  <2>4. CASE m # k
    <3>1. Buffered(m)' = Buffered(m) \ {b}
      <4>1. \A c : c \in 1 .. made' => c \in Buffers
        <5>1. made \in 0 .. N /\ N \in Nat
          BY <1>1, BufferCacheAssumption DEF Types
        <5>2. \A c \in 1 .. made : c \in Buffers
          BY <5>1 DEF Buffers
        <5> QED
          BY <2>1, <5>2
      <4>2. Buffered(m)' = {c \in 1 .. made' : block'[c] = m}
        BY DEF Buffered
      <4>3. \A c : c \in Buffered(m)' <=> c \in Buffered(m) /\ c # b
        BY <2>1, <2>4, <4>1, <4>2 DEF Buffered
      <4> QED
        BY <4>3
    <3>2. b \in Buffered(m) => disk[m] = latest[m]
      <4>1. b \in Buffered(m) => Holds(free, b)
        BY <1>4 DEF Assigned, Buffered
      <4> QED
        BY <1>2, <2>2, <4>1 DEF SoleOne, Coherent
    <3>3. Buffered(m)' = {} => disk'[m] = latest'[m]
      BY <1>2, <3>1, <3>2 DEF SoleOne
    <3>4. ASSUME NEW c \in Buffered(m), c # b PROVE Coherent(o, m, c)'
      <4>1. Coherent(o, m, c) /\ c \in Buffers
        BY <1>2 DEF SoleOne
      <4>2. valid'[c] = valid[c] /\ dirty'[c] = dirty[c] /\ data'[c] = data[c] /\ held'[o][c] = held[o][c]
        BY <1>4, <3>4, <4>1 DEF Assigned
      <4>3. CASE o = t
        <5>1. pc'[t] \in {"locking", "reading"} /\ want'[t] = b
          BY <1>4 DEF Assigned, InBread
        <5> QED
          BY <3>4, <4>1, <4>2, <4>3, <5>1 DEF Coherent
      <4>4. CASE o # t
        <5>1. pc'[o] = pc[o] /\ want'[o] = want[o]
          BY <1>4, <4>4 DEF Assigned
        <5> QED
          BY <4>1, <4>2, <5>1 DEF Coherent
      <4> QED
        BY <4>3, <4>4
    <3>5. InWait(o)' => InWait(o) /\ want'[o] = want[o]
      BY <1>4 DEF Assigned, InWait
    <3> QED
      BY <1>2, <3>1, <3>3, <3>4, <3>5 DEF SoleOne
  <2> QED
    BY <2>3, <2>4
<1> QED
  BY <1>3, <1>4, FreeBufferFacts

LEMMA SoleInit == Init => SoleUser
<1> SUFFICES ASSUME Init PROVE SoleUser
  OBVIOUS
<1>1. \A k : Buffered(k) = {}
  BY DEF Init, Buffered
<1>2. \A k \in Blocks : disk[k] = latest[k]
  BY DEF Init
<1> QED
  BY <1>1, <1>2 DEF SoleUser, SoleOne

LEMMA SoleStep == Basic /\ Owned /\ SoleUser /\ [Next]_vars => Owned' /\ SoleUser'
<1> SUFFICES ASSUME Basic, Owned, SoleUser, [Next]_vars PROVE Owned' /\ SoleUser'
  OBVIOUS
<1>0. Types /\ Lists /\ Calls /\ Owners /\ Unique(free) /\ free \in Seq(Buffers)
  BY DEF Basic, Owned, Types, Lists, FreeExact
<1>1. ASSUME NEW t \in Tasks, NEW b \in Buffers, Goes(t, b) PROVE Owned' /\ SoleUser'
  BY <1>1, GoesOwned, GoesSole
<1>2. ASSUME NEW t \in Tasks, NEW k \in Uses[t], Bread(t, k) PROVE Owned' /\ SoleUser'
  <2>1. CASE Found(k) = {}
    <3>1. Buffered(k) = {}
      BY <2>1, FoundNone DEF Buffered
    <3>2. FreeBuffer(t, k) /\ pc[t] \in {"out", "woken"} /\ UNCHANGED <<disk, latest>>
      BY <1>2, <2>1 DEF Bread
    <3> QED
      BY <3>1, <3>2, FreeBufferOwned, FreeBufferSole
  <2>2. CASE Found(k) # {}
    <3>1. PICK b : b = Cached(k)
      OBVIOUS
    <3>2. b \in Buffers /\ block[b] = k /\ Holds(hashed, b)
      BY <1>0, <2>2, <3>1, CachedFacts
    <3>3. /\ pc[t] = "out" /\ Have(t, b) /\ free' = RemoveFirst(free, b)
          /\ UNCHANGED <<made, block, dirty, valid, data, disk, latest>>
      BY <1>2, <2>2, <3>1 DEF Bread
    <3>4. \A c : Holds(free', c) => Holds(free, c)
      BY <1>0, <3>3, RemoveFirstFacts
    <3> QED
      BY <1>1, <3>2, <3>3, <3>4, FoundGoes
  <2> QED
    BY <2>1, <2>2
<1>3. ASSUME NEW t \in Tasks, WakeUp(t) PROVE Owned' /\ SoleUser'
  <2>1. PICK k : k = want[t]
    OBVIOUS
  <2>2. /\ InWait(t) /\ k \in Uses[t] /\ k \in Blocks /\ FreeBuffer(t, k) /\ pc[t] \in {"out", "woken"}
        /\ UNCHANGED <<disk, latest>>
    BY <1>0, <1>3, <2>1, BufferCacheAssumption DEF WakeUp, InWait, Owners
  <2>3. Sole(t, k) => Buffered(k) = {}
    BY <2>1, <2>2 DEF SoleUser, SoleOne
  <2> QED
    BY <2>2, <2>3, FreeBufferOwned, FreeBufferSole
<1>4. ASSUME NEW t \in Tasks, Locked(t) \/ DriveReads(t) \/ ReadDone(t) \/ DriveWrites(t) \/ WriteDone(t)
      PROVE  Owned' /\ SoleUser'
  BY <1>1, <1>4, LockedGoes, DriveReadsGoes, ReadDoneGoes, DriveWritesGoes, WriteDoneGoes
<1>5. ASSUME NEW t \in Tasks, NEW b \in Buffers, Bwrite(t, b) PROVE Owned' /\ SoleUser'
  <2>1. /\ held[t][b] > 0 /\ want' = [want EXCEPT ![t] = b] /\ pc' = [pc EXCEPT ![t] = "writing"]
        /\ UNCHANGED <<made, block, dirty, valid, data, disk, latest, free, held>>
    BY <1>5 DEF Bwrite, Goto, buffers, lists
  <2> QED
    BY <1>1, <2>1, WriteGoes
<1>6. ASSUME NEW t \in Tasks, NEW b \in Buffers, Brelse(t, b) \/ \E v \in Values : Modify(t, b, v)
      PROVE  Owned' /\ SoleUser'
  BY <1>1, <1>6, BrelseGoes, ModifyGoes
<1>7. CASE UNCHANGED vars
  <2>1. UNCHANGED <<made, block, dirty, valid, data, free, pc, want, held, disk, latest>>
    BY <1>7 DEF vars, buffers, lists
  <2>2. Owned'
    BY <2>1 DEF Owned, Owners, Clean, Contents, InBread, InWait, Holds
  <2>3. SoleUser'
    <3>1. \A k : Buffered(k)' = Buffered(k)
      BY <2>1 DEF Buffered
    <3>2. \A o, k, c : Coherent(o, k, c)' <=> Coherent(o, k, c)
      BY <2>1 DEF Coherent
    <3>3. \A o, k : SoleOne(o, k)' <=> SoleOne(o, k)
      BY <2>1, <3>1, <3>2 DEF SoleOne, InWait
    <3> QED
      BY <3>3 DEF SoleUser, Sole
  <2> QED
    BY <2>2, <2>3
<1> QED
  BY <1>2, <1>3, <1>4, <1>5, <1>6, <1>7 DEF Next

\* The only user of a block always sees its last modification, through any
\* number of releases, evictions and reads back, whatever the other tasks do
\* with the other blocks.
THEOREM LastModificationSeen == Spec => []SeesLatest
<1>1. Basic /\ Owned /\ SoleUser => SeesLatest
  <2> SUFFICES ASSUME Basic, Owned, SoleUser, NEW t \in Tasks, NEW b \in Buffers,
                      held[t][b] > 0, \A u \in Tasks \ {t} : block[b] \notin Uses[u]
               PROVE  data[b] = latest[block[b]]
    BY DEF SeesLatest
  <2>1. b \in 1 .. made /\ block[b] \in Uses[t] /\ block[b] \in Blocks
    BY UsedFacts
  <2>2. b \in Buffered(block[b]) /\ SoleOne(t, block[b])
    BY <2>1 DEF SoleUser, Sole, Buffered
  <2> QED
    BY <2>2 DEF SoleOne, Coherent
<1>2. Basic /\ Owned /\ SoleUser /\ [Next]_vars => Basic' /\ Owned' /\ SoleUser'
  BY BasicStep, SoleStep
<1> QED
  BY <1>1, <1>2, BasicInit, OwnedInit, SoleInit, PTL DEF Spec
=============================================================================
