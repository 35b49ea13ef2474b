--------------------------- MODULE StreamsProofs ---------------------------
(***************************************************************************)
(* Proofs about pipes and input lines, for any length of the ring buffer   *)
(* and any number of tasks and bytes.                                      *)
(*                                                                         *)
(* First what the operations of the ring do to the sequence of bytes in    *)
(* it, then the two ends of a pipe, then the readers of a line.            *)
(***************************************************************************)
EXTENDS Streams, SequenceTheorems, TLAPS

\* Positions and numbers of bytes are less than a turn apart.
LEMMA Turns ==
  /\ \A x \in Int : x % Length \in Positions
  /\ \A x \in Int : 0 <= x /\ x < Length => x % Length = x
  /\ \A x \in Int : Length <= x /\ x < 2 * Length => x % Length = x - Length
  /\ \A x \in Int : 0 - Length <= x /\ x < 0 => x % Length = x + Length
BY FifoAssumption DEF Positions

Fifos == [cells : [Positions -> Int], head : Positions, tail : Positions]

\* Min of two numbers.
LEMMA MinOfTwo ==
  ASSUME NEW a \in Int, NEW b \in Int
  PROVE  Min({a, b}) = IF a <= b THEN a ELSE b
<1>1. \E x \in {a, b} : \A y \in {a, b} : x <= y
  OBVIOUS
<1>2. Min({a, b}) \in {a, b} /\ \A y \in {a, b} : Min({a, b}) <= y
  BY <1>1 DEF Min
<1> QED
  BY <1>2

LEMMA FifoEnds ==
  ASSUME NEW f \in Fifos
  PROVE  /\ f.head \in Int /\ f.tail \in Int /\ 0 <= f.head /\ f.head < Length
         /\ 0 <= f.tail /\ f.tail < Length /\ Length \in Int
BY FifoAssumption DEF Fifos, Positions

LEMMA CountFacts ==
  ASSUME NEW f \in Fifos
  PROVE  /\ FifoCount(f) \in Int /\ 0 <= FifoCount(f) /\ FifoCount(f) < Length
         /\ FifoCount(f) = IF f.head >= f.tail THEN f.head - f.tail ELSE f.head - f.tail + Length
         /\ FifoRoom(f) = Length - 1 - FifoCount(f)
BY FifoEnds, Turns DEF FifoCount, FifoRoom, Positions

\* Getting n bytes.
LEMMA DropFacts ==
  ASSUME NEW f \in Fifos, NEW n \in Int, 0 <= n, n <= FifoCount(f)
  PROVE  /\ FifoDrop(f, n) \in Fifos
         /\ FifoCount(FifoDrop(f, n)) = FifoCount(f) - n
         /\ FifoDrop(f, n).cells = f.cells /\ FifoDrop(f, n).head = f.head
         /\ FifoDrop(f, n).tail = (f.tail + n) % Length
<1> DEFINE g == FifoDrop(f, n)
<1>1. /\ f.head \in Int /\ f.tail \in Int /\ 0 <= f.head /\ f.head < Length
      /\ 0 <= f.tail /\ f.tail < Length /\ Length \in Int
  BY FifoEnds
<1>2. g \in Fifos /\ g.cells = f.cells /\ g.head = f.head /\ g.tail = (f.tail + n) % Length
  <2>1. (f.tail + n) % Length \in Positions
    BY <1>1, Turns
  <2> QED
    BY <2>1 DEF FifoDrop, Fifos
<1> HIDE DEF g
<1>3. FifoCount(g) = FifoCount(f) - n
  <2>1. /\ FifoCount(f) = IF f.head >= f.tail THEN f.head - f.tail ELSE f.head - f.tail + Length
        /\ FifoCount(g) = IF g.head >= g.tail THEN g.head - g.tail ELSE g.head - g.tail + Length
        /\ FifoCount(f) < Length
    BY <1>2, CountFacts
  <2>2. f.tail + n \in Int /\ 0 <= f.tail + n /\ f.tail + n < 2 * Length
    BY <1>1, <2>1
  <2>3. (f.tail + n) % Length = IF f.tail + n < Length THEN f.tail + n ELSE f.tail + n - Length
    BY <1>1, <2>2, Turns
  <2> QED
    BY <1>1, <1>2, <2>1, <2>3
<1> QED
  BY <1>2, <1>3 DEF g

\* The ends of the ring after n more bytes.
LEMMA PutEnds ==
  ASSUME NEW f \in Fifos, NEW n \in Int, 0 <= n, n < Length, NEW lost \in Int, NEW g \in Fifos,
         lost = IF n > FifoRoom(f) THEN n - FifoRoom(f) ELSE 0,
         g.head = (f.head + n) % Length, g.tail = (f.tail + lost) % Length
  PROVE  /\ FifoCount(g) = IF n <= FifoRoom(f) THEN FifoCount(f) + n ELSE Length - 1
         /\ g.tail = IF n <= FifoRoom(f) THEN f.tail ELSE (f.tail + n - FifoRoom(f)) % Length
<1>1. /\ f.head \in Int /\ f.tail \in Int /\ 0 <= f.head /\ f.head < Length
      /\ 0 <= f.tail /\ f.tail < Length /\ Length \in Int
  BY FifoEnds
<1>2. /\ FifoCount(f) = IF f.head >= f.tail THEN f.head - f.tail ELSE f.head - f.tail + Length
      /\ FifoCount(g) = IF g.head >= g.tail THEN g.head - g.tail ELSE g.head - g.tail + Length
      /\ FifoRoom(f) = Length - 1 - FifoCount(f) /\ FifoCount(f) \in Int
      /\ 0 <= FifoCount(f) /\ FifoCount(f) < Length
  BY CountFacts
<1>3. f.head + n \in Int /\ 0 <= f.head + n /\ f.head + n < 2 * Length
  BY <1>1
<1>4. g.head = IF f.head + n < Length THEN f.head + n ELSE f.head + n - Length
  BY SMTT(60), <1>1, <1>3, Turns
<1>5. f.tail + lost \in Int /\ 0 <= f.tail + lost /\ f.tail + lost < 2 * Length
  BY <1>1, <1>2
<1>6. g.tail = IF f.tail + lost < Length THEN f.tail + lost ELSE f.tail + lost - Length
  BY <1>1, <1>5, Turns
<1>7. CASE n <= FifoRoom(f)
  <2>1. lost = 0
    BY <1>1, <1>2, <1>7
  <2>2. g.tail = f.tail
    BY <1>1, <1>6, <2>1
  <2>3. FifoCount(g) = FifoCount(f) + n
    BY <1>1, <1>2, <1>4, <1>7, <2>2
  <2> QED
    BY <1>7, <2>2, <2>3
<1>8. CASE n > FifoRoom(f)
  <2>1. lost = n - FifoRoom(f) /\ ~ (n <= FifoRoom(f))
    BY <1>1, <1>2, <1>8
  <2>2. f.tail + lost = f.tail + n - FifoRoom(f)
    BY <1>1, <1>2, <2>1
  <2>3. FifoCount(g) = Length - 1
    BY <1>1, <1>2, <1>4, <1>6, <1>8, <2>1
  <2> QED
    BY <2>1, <2>2, <2>3
<1> QED
  BY <1>1, <1>2, <1>7, <1>8

\* Putting the bytes, when there is room for them, or one byte into a full fifo.
LEMMA PutFacts ==
  ASSUME NEW f \in Fifos, NEW bytes \in Seq(Int), Len(bytes) < Length
  PROVE  /\ FifoPutAll(f, bytes) \in Fifos
         /\ FifoCount(FifoPutAll(f, bytes)) =
              IF Len(bytes) <= FifoRoom(f) THEN FifoCount(f) + Len(bytes) ELSE Length - 1
         /\ FifoPutAll(f, bytes).head = (f.head + Len(bytes)) % Length
         /\ FifoPutAll(f, bytes).tail =
              IF Len(bytes) <= FifoRoom(f) THEN f.tail ELSE (f.tail + Len(bytes) - FifoRoom(f)) % Length
         /\ \A p \in Positions : FifoPutAll(f, bytes).cells[p] =
              IF (p - f.head) % Length < Len(bytes) THEN bytes[((p - f.head) % Length) + 1] ELSE f.cells[p]
<1> DEFINE n == Len(bytes)
           lost == IF n > FifoRoom(f) THEN n - FifoRoom(f) ELSE 0
           d == FifoDrop(f, lost)
           c == [p \in Positions |-> IF (p - f.head) % Length < n THEN bytes[((p - f.head) % Length) + 1]
                                     ELSE f.cells[p]]
           g == [d EXCEPT !.cells = c, !.head = (f.head + n) % Length]
<1>0. f.head \in Int /\ f.tail \in Int /\ 0 <= f.head /\ f.head < Length /\ 0 <= f.tail /\ f.tail < Length
      /\ Length \in Int /\ n \in Int /\ 0 <= n /\ n < Length
  BY FifoAssumption DEF Fifos, Positions
<1>1. g = FifoPutAll(f, bytes)
  BY DEF FifoPutAll
<1>n. \A i \in 1 .. n : bytes[i] \in Int
  OBVIOUS
<1> HIDE DEF n
<1>2. c \in [Positions -> Int]
  <2>1. ASSUME NEW p \in Positions, (p - f.head) % Length < n
        PROVE  bytes[((p - f.head) % Length) + 1] \in Int
    <3>1. p - f.head \in Int
      BY <1>0, FifoAssumption DEF Positions
    <3>2. (p - f.head) % Length \in Positions
      BY <3>1, Turns
    <3>3. ((p - f.head) % Length) + 1 \in 1 .. n
      BY SMTT(60), <2>1, <3>2, <1>0 DEF Positions
    <3> QED
      BY <3>3, <1>n
  <2>2. \A p \in Positions : f.cells[p] \in Int
    BY DEF Fifos
  <2> QED
    BY <2>1, <2>2
<1>3. 0 <= lost /\ lost <= FifoCount(f) /\ lost \in Int
  BY <1>0, CountFacts
<1> HIDE DEF lost
<1>4. d \in Fifos /\ d.tail = (f.tail + lost) % Length
  BY <1>3, DropFacts
<1> HIDE DEF c, d
<1>5. /\ g \in Fifos /\ g.cells = c /\ g.tail = (f.tail + lost) % Length
      /\ g.head = (f.head + n) % Length
  <2>1. (f.head + n) % Length \in Positions
    BY <1>0, Turns
  <2> QED
    BY <1>2, <1>4, <2>1 DEF Fifos
<1> HIDE DEF g
<1>6. lost = IF n > FifoRoom(f) THEN n - FifoRoom(f) ELSE 0
  BY DEF lost
<1>7. /\ FifoCount(g) = IF n <= FifoRoom(f) THEN FifoCount(f) + n ELSE Length - 1
      /\ g.tail = IF n <= FifoRoom(f) THEN f.tail ELSE (f.tail + n - FifoRoom(f)) % Length
  BY <1>0, <1>3, <1>5, <1>6, PutEnds
<1>8. \A p \in Positions : g.cells[p] =
              IF (p - f.head) % Length < n THEN bytes[((p - f.head) % Length) + 1] ELSE f.cells[p]
  BY <1>5 DEF c
<1> QED
  BY <1>1, <1>5, <1>7, <1>8 DEF n

-----------------------------------------------------------------------------
\* The i-th byte from the tail, and its distance from the head.
Place(f, i) == (f.tail + i - 1) % Length

LEMMA Places ==
  ASSUME NEW f \in Fifos, NEW i \in Int, 1 <= i, i <= Length
  PROVE  /\ Place(f, i) \in Positions
         /\ (Place(f, i) - f.head) % Length =
              IF i <= FifoCount(f) THEN Length - FifoCount(f) + i - 1 ELSE i - 1 - FifoCount(f)
<1>1. /\ f.head \in Int /\ f.tail \in Int /\ 0 <= f.head /\ f.head < Length
      /\ 0 <= f.tail /\ f.tail < Length /\ Length \in Int
  BY FifoEnds
<1>2. /\ FifoCount(f) \in Int /\ 0 <= FifoCount(f) /\ FifoCount(f) < Length
      /\ FifoCount(f) = IF f.head >= f.tail THEN f.head - f.tail ELSE f.head - f.tail + Length
  BY CountFacts
<1> DEFINE p == Place(f, i)
           x == f.tail + i - 1
<1>3. x \in Int /\ 0 <= x /\ x < 2 * Length
  BY <1>1
<1>4. p = IF x < Length THEN x ELSE x - Length
  BY <1>1, <1>3, Turns DEF Place
<1>5. p \in Int /\ 0 <= p /\ p < Length /\ p \in Positions
  BY <1>1, <1>3, Turns DEF Place, Positions
<1>6. p - f.head \in Int /\ 0 - Length <= p - f.head /\ p - f.head < Length
  BY <1>1, <1>5
<1> HIDE DEF p
<1>7. (p - f.head) % Length = IF p - f.head < 0 THEN p - f.head + Length ELSE p - f.head
  BY <1>1, <1>6, Turns
<1>8. (p - f.head) % Length = IF i <= FifoCount(f) THEN Length - FifoCount(f) + i - 1 ELSE i - 1 - FifoCount(f)
  BY <1>1, <1>2, <1>4, <1>5, <1>7
<1> QED
  BY <1>5, <1>8 DEF p

\* A function on 1 .. n is a sequence of length n.
LEMMA IsSequence ==
  ASSUME NEW n \in Nat, NEW s \in [1 .. n -> Int]
  PROVE  s \in Seq(Int) /\ Len(s) = n
<1>1. s \in Seq(Int)
  BY SeqDef
<1>2. DOMAIN s = 1 .. Len(s) /\ DOMAIN s = 1 .. n /\ Len(s) \in Nat
  BY <1>1, LenProperties
<1> QED
  BY <1>1, <1>2

LEMMA FirstFacts ==
  ASSUME NEW f \in Fifos, NEW n \in Nat, n < Length
  PROVE  /\ FifoFirst(f, n) \in Seq(Int) /\ Len(FifoFirst(f, n)) = n
         /\ \A i \in 1 .. n : FifoFirst(f, n)[i] = f.cells[Place(f, i)]
<1>1. \A i \in 1 .. n : Place(f, i) \in Positions
  BY Places, FifoEnds
<1>2. \A p \in Positions : f.cells[p] \in Int
  BY DEF Fifos
<1>3. FifoFirst(f, n) \in [1 .. n -> Int] /\ \A i \in 1 .. n : FifoFirst(f, n)[i] = f.cells[Place(f, i)]
  BY <1>1, <1>2 DEF FifoFirst, Place
<1> QED
  BY <1>3, IsSequence

\* Getting n bytes takes them off the front.
LEMMA DropContents ==
  ASSUME NEW f \in Fifos, NEW n \in Nat, n <= FifoCount(f)
  PROVE  /\ FifoFirst(f, n) = SubSeq(FifoContents(f), 1, n)
         /\ FifoContents(FifoDrop(f, n)) = SubSeq(FifoContents(f), n + 1, Len(FifoContents(f)))
<1> DEFINE c == FifoContents(f)
           k == FifoCount(f)
           g == FifoDrop(f, n)
           d == FifoContents(g)
           a == SubSeq(c, 1, n)
           b == SubSeq(c, n + 1, k)
<1>1. k \in Nat /\ k < Length /\ n <= k /\ Length \in Int
  BY CountFacts, FifoAssumption
<1>2. c \in Seq(Int) /\ Len(c) = k /\ \A i \in 1 .. k : c[i] = f.cells[Place(f, i)]
  BY <1>1, FirstFacts DEF FifoContents
<1>3. /\ g \in Fifos /\ FifoCount(g) = k - n /\ g.cells = f.cells /\ g.tail = (f.tail + n) % Length
  BY DropFacts
<1>4. d \in Seq(Int) /\ Len(d) = k - n /\ \A i \in 1 .. k - n : d[i] = f.cells[Place(g, i)]
  <2>1. k - n \in Nat /\ k - n < Length
    <3> HIDE DEF k
    <3> QED
      BY <1>1
  <2> QED
    BY <1>3, <2>1, FirstFacts DEF FifoContents
<1>5. ASSUME NEW i \in 1 .. k - n PROVE Place(g, i) = Place(f, n + i)
  <2>1. /\ f.tail \in Int /\ 0 <= f.tail /\ f.tail < Length /\ Length \in Int
        /\ i \in Int /\ 1 <= i /\ i + n <= k /\ k < Length
    <3> HIDE DEF k
    <3> QED
      BY <1>1, <1>5, FifoEnds
  <2> HIDE DEF k, g
  <2>2. g.tail = IF f.tail + n < Length THEN f.tail + n ELSE f.tail + n - Length
    <3>1. f.tail + n \in Int /\ 0 <= f.tail + n /\ f.tail + n < 2 * Length
      BY <1>1, <2>1
    <3> QED
      BY <1>3, <2>1, <3>1, Turns
  <2>3. CASE f.tail + n < Length
    <3>1. g.tail + i - 1 = f.tail + (n + i) - 1
      BY <2>1, <2>2, <2>3
    <3> QED
      BY <3>1 DEF Place
  <2>4. CASE f.tail + n >= Length
    <3>1. g.tail + i - 1 = f.tail + (n + i) - 1 - Length
      BY <2>1, <2>2, <2>4
    <3> DEFINE x == f.tail + (n + i) - 1
    <3>2. x \in Int /\ Length <= x /\ x < 2 * Length
      BY <1>1, <2>1, <2>4
    <3> HIDE DEF x
    <3>3. x % Length = x - Length /\ (x - Length) % Length = x - Length
      BY SMTT(60), <2>1, <3>2, Turns
    <3>4. Place(f, n + i) = x % Length
      BY DEF Place, x
    <3>5. g.tail + i - 1 = x - Length
      BY <2>1, <3>1 DEF x
    <3>6. Place(g, i) = (x - Length) % Length
      BY <3>5 DEF Place
    <3> QED
      BY <3>3, <3>4, <3>6
  <2> QED
    BY <2>1, <2>3, <2>4
<1> HIDE DEF c, g, d, k
<1>6. a \in Seq(Int) /\ Len(a) = n /\ \A i \in 1 .. n : a[i] = c[i]
  <2>1. \A i \in 1 .. n : c[i] \in Int
    BY <1>1, <1>2, LenProperties
  <2>2. a \in Seq(Int) /\ Len(a) = (IF 1 <= n THEN n - 1 + 1 ELSE 0) /\ \A i \in 1 .. n - 1 + 1 : a[i] = c[1 + i - 1]
    BY <2>1, SubSeqProperties
  <2> HIDE DEF a
  <2> QED
    BY <2>2
<1>7. b \in Seq(Int) /\ Len(b) = k - n /\ \A i \in 1 .. k - n : b[i] = c[n + i]
  <2>1. \A i \in n + 1 .. k : c[i] \in Int
    BY <1>1, <1>2, LenProperties
  <2>2. /\ b \in Seq(Int) /\ Len(b) = (IF n + 1 <= k THEN k - (n + 1) + 1 ELSE 0)
        /\ \A i \in 1 .. k - (n + 1) + 1 : b[i] = c[n + 1 + i - 1]
    BY <1>1, <2>1, SubSeqProperties
  <2> HIDE DEF b
  <2> QED
    BY <1>1, <2>2
<1> HIDE DEF a, b
<1>8. FifoFirst(f, n) = a
  <2>1. /\ FifoFirst(f, n) \in Seq(Int) /\ Len(FifoFirst(f, n)) = n
        /\ \A i \in 1 .. n : FifoFirst(f, n)[i] = f.cells[Place(f, i)]
    BY SMTT(60), <1>1, FifoEnds, FirstFacts
  <2>2. \A i \in 1 .. n : a[i] = f.cells[Place(f, i)]
    BY <1>1, <1>2, <1>6
  <2> QED
    BY <1>6, <2>1, <2>2, SeqEqual
<1>9. d = b
  <2>1. \A i \in 1 .. k - n : n + i \in 1 .. k
    BY <1>1
  <2>2. \A i \in 1 .. k - n : d[i] = b[i]
    BY <1>2, <1>4, <1>5, <1>7, <2>1
  <2> QED
    BY <1>4, <1>7, <2>2, SeqEqual
<1> QED
  BY <1>2, <1>8, <1>9 DEF a, b, c, d, g, k

\* Putting bytes that fit adds them at the end.
LEMMA PutContents ==
  ASSUME NEW f \in Fifos, NEW bytes \in Seq(Int), Len(bytes) <= FifoRoom(f)
  PROVE  FifoContents(FifoPutAll(f, bytes)) = FifoContents(f) \o bytes
<1> DEFINE n == Len(bytes)
           k == FifoCount(f)
           c == FifoContents(f)
           g == FifoPutAll(f, bytes)
           d == FifoContents(g)
<1>1. /\ k \in Nat /\ n \in Nat /\ Length \in Int /\ n <= Length - 1 - k /\ n <= FifoRoom(f)
      /\ n < Length
  <2>1. k \in Int /\ 0 <= k /\ FifoRoom(f) = Length - 1 - k /\ Length \in Int
    BY CountFacts, FifoAssumption
  <2>2. n \in Nat /\ n <= FifoRoom(f)
    OBVIOUS
  <2> HIDE DEF k, n
  <2> QED
    BY <2>1, <2>2
<1>2. c \in Seq(Int) /\ Len(c) = k /\ \A i \in 1 .. k : c[i] = f.cells[Place(f, i)]
  <2>1. k < Length
    <3> HIDE DEF k, n
    <3> QED
      BY <1>1
  <2> QED
    BY <1>1, <2>1, FirstFacts DEF FifoContents
<1>3. /\ g \in Fifos /\ FifoCount(g) = k + n /\ g.tail = f.tail
      /\ \A p \in Positions : g.cells[p] =
           IF (p - f.head) % Length < n THEN bytes[((p - f.head) % Length) + 1] ELSE f.cells[p]
  BY <1>1, PutFacts
<1>b. bytes \in Seq(Int) /\ Len(bytes) = n
  OBVIOUS
<1> HIDE DEF k, n
<1>4. k + n \in Nat /\ k + n < Length
  BY <1>1
<1>5. d \in Seq(Int) /\ Len(d) = k + n /\ \A i \in 1 .. k + n : d[i] = g.cells[Place(f, i)]
  <2>1. \A i \in 1 .. k + n : Place(g, i) = Place(f, i)
    BY <1>3 DEF Place
  <2> HIDE DEF g
  <2>2. d \in Seq(Int) /\ Len(d) = k + n /\ \A i \in 1 .. k + n : d[i] = g.cells[Place(g, i)]
    BY <1>3, <1>4, FirstFacts DEF FifoContents
  <2> HIDE DEF d
  <2> QED
    BY <2>1, <2>2
<1>6. /\ c \o bytes \in Seq(Int) /\ Len(c \o bytes) = k + n
      /\ \A i \in 1 .. k + n : (c \o bytes)[i] = IF i <= k THEN c[i] ELSE bytes[i - k]
  <2> HIDE DEF c
  <2> QED
    BY <1>2, <1>b, ConcatProperties
<1> HIDE DEF c, g, d
<1>7. ASSUME NEW i \in 1 .. k + n PROVE d[i] = (c \o bytes)[i]
  <2> DEFINE p == Place(f, i)
  <2>1. p \in Positions /\ (p - f.head) % Length = IF i <= k THEN Length - k + i - 1 ELSE i - 1 - k
    <3>1. i \in Int /\ 1 <= i /\ i <= Length
      BY <1>1, <1>4
    <3> QED
      BY <3>1, Places DEF k
  <2>2. d[i] = g.cells[p]
    BY <1>5
  <2> HIDE DEF p
  <2>3. CASE i <= k
    <3>1. (p - f.head) % Length = Length - k + i - 1
      BY <2>1, <2>3
    <3>2. ~ (Length - k + i - 1 < n) /\ i \in 1 .. k
      BY <1>1, <2>3
    <3>3. g.cells[p] = f.cells[p]
      BY <1>3, <2>1, <3>1, <3>2
    <3> QED
      BY <1>2, <1>6, <2>2, <2>3, <3>2, <3>3 DEF p
  <2>4. CASE i > k
    <3>1. (p - f.head) % Length = i - 1 - k /\ ~ (i <= k)
      BY <1>1, <2>1, <2>4
    <3>2. i - 1 - k < n /\ (i - 1 - k) + 1 = i - k
      BY <1>1, <2>4
    <3>3. g.cells[p] = bytes[i - k]
      BY <1>3, <2>1, <3>1, <3>2
    <3>4. (c \o bytes)[i] = bytes[i - k]
      BY <1>6, <3>1
    <3> QED
      BY <2>2, <3>3, <3>4
  <2>5. i <= k \/ i > k
    BY <1>1
  <2> QED
    BY <2>3, <2>4, <2>5, Zenon
<1> QED
  BY <1>5, <1>6, <1>7, SeqEqual DEF c, d, g

\* FifoPutAll is fifo_put of each byte in turn.
LEMMA FifoEqual ==
  ASSUME NEW f \in Fifos, NEW g \in Fifos, f.head = g.head, f.tail = g.tail,
         \A p \in Positions : f.cells[p] = g.cells[p]
  PROVE  f = g
<1>1. f.cells = g.cells
  BY DEF Fifos
<1> QED
  BY <1>1 DEF Fifos

LEMMA PutNone ==
  ASSUME NEW f \in Fifos
  PROVE  FifoPutAll(f, <<>>) = f
<1> DEFINE g == FifoPutAll(f, <<>>)
<1>1. Len(<<>>) = 0 /\ <<>> \in Seq(Int)
  OBVIOUS
<1>2. /\ f.head \in Int /\ f.tail \in Int /\ 0 <= f.head /\ f.head < Length
      /\ 0 <= f.tail /\ f.tail < Length /\ Length \in Int
  BY FifoEnds
<1>3. 0 <= FifoRoom(f) /\ 0 < Length
  BY <1>2, CountFacts
<1>4. f.head + 0 = f.head /\ f.head % Length = f.head
  BY <1>2, Turns
<1>5. \A p \in Positions : ~ ((p - f.head) % Length < 0)
  <2> TAKE p \in Positions
  <2>1. p - f.head \in Int
    BY <1>2 DEF Positions
  <2> QED
    BY <2>1, Turns, <1>2 DEF Positions
<1>6. /\ g \in Fifos /\ g.head = (f.head + 0) % Length
      /\ g.tail = IF 0 <= FifoRoom(f) THEN f.tail ELSE (f.tail + 0 - FifoRoom(f)) % Length
      /\ \A p \in Positions : g.cells[p] =
           IF (p - f.head) % Length < 0 THEN <<>>[((p - f.head) % Length) + 1] ELSE f.cells[p]
  BY <1>1, <1>3, PutFacts
<1> HIDE DEF g
<1>7. g.head = f.head /\ g.tail = f.tail /\ \A p \in Positions : g.cells[p] = f.cells[p]
  BY <1>3, <1>4, <1>5, <1>6
<1> QED
  BY <1>6, <1>7, FifoEqual DEF g

LEMMA PutOneFacts ==
  ASSUME NEW f \in Fifos, NEW b \in Int
  PROVE  /\ FifoPut(f, b) \in Fifos
         /\ FifoPut(f, b).head = (f.head + 1) % Length
         /\ FifoPut(f, b).tail = IF FifoRoom(f) = 0 THEN (f.tail + 1) % Length ELSE f.tail
         /\ \A p \in Positions : FifoPut(f, b).cells[p] = IF p = f.head THEN b ELSE f.cells[p]
<1> DEFINE g == IF FifoNext(f.head) = f.tail THEN FifoDrop(f, 1) ELSE f
<1>1. /\ f.head \in Int /\ f.tail \in Int /\ 0 <= f.head /\ f.head < Length
      /\ 0 <= f.tail /\ f.tail < Length /\ Length \in Int /\ Length >= 2
  BY FifoEnds, FifoAssumption
<1>2. /\ FifoCount(f) = IF f.head >= f.tail THEN f.head - f.tail ELSE f.head - f.tail + Length
      /\ FifoRoom(f) = Length - 1 - FifoCount(f) /\ FifoCount(f) \in Int
  BY CountFacts
<1>3. (f.head + 1) % Length = IF f.head + 1 < Length THEN f.head + 1 ELSE f.head + 1 - Length
  <2>1. f.head + 1 \in Int /\ 0 <= f.head + 1 /\ f.head + 1 < 2 * Length
    BY <1>1
  <2> QED
    BY <1>1, <2>1, Turns
<1>4. FifoNext(f.head) = f.tail <=> FifoRoom(f) = 0
  BY <1>1, <1>2, <1>3 DEF FifoNext
<1>5. /\ g \in Fifos /\ g.head = f.head /\ g.cells = f.cells
      /\ g.tail = IF FifoRoom(f) = 0 THEN (f.tail + 1) % Length ELSE f.tail
  <2>1. CASE FifoRoom(f) = 0
    <3>1. 1 <= FifoCount(f)
      BY <1>1, <1>2, <2>1
    <3> QED
      BY <1>4, <2>1, <3>1, DropFacts
  <2>2. CASE FifoRoom(f) # 0
    BY <1>4, <2>2
  <2> QED
    BY <2>1, <2>2
<1>6. FifoPut(f, b) = [g EXCEPT !.cells[g.head] = b, !.head = FifoNext(g.head)]
  BY DEF FifoPut
<1> HIDE DEF g
<1>7. FifoNext(g.head) \in Positions /\ FifoNext(g.head) = (f.head + 1) % Length
  BY <1>1, <1>5, Turns DEF FifoNext
<1>8. FifoPut(f, b) = [g EXCEPT !.cells = [f.cells EXCEPT ![f.head] = b], !.head = (f.head + 1) % Length]
  BY <1>5, <1>6, <1>7 DEF Fifos
<1>9. f.cells \in [Positions -> Int] /\ [f.cells EXCEPT ![f.head] = b] \in [Positions -> Int]
  BY DEF Fifos
<1> QED
  BY ZenonT(60), <1>5, <1>7, <1>8, <1>9 DEF Fifos

LEMMA NextTurn ==
  ASSUME NEW x \in Int, 0 <= x, x + 1 < 2 * Length
  PROVE  ((x % Length) + 1) % Length = (x + 1) % Length
<1>0. Length \in Int /\ Length >= 2
  BY FifoAssumption
<1>1. x % Length = IF x < Length THEN x ELSE x - Length
  BY <1>0, Turns
<1>2. CASE x < Length
  BY <1>1, <1>2
<1>3. CASE x >= Length
  <2>1. (x % Length) + 1 = x + 1 - Length
    BY <1>0, <1>1, <1>3
  <2>2. x + 1 \in Int /\ x + 1 - Length \in Int /\ 0 <= x + 1 - Length /\ x + 1 - Length < Length
    BY <1>0, <1>3
  <2>3. (x + 1) % Length = x + 1 - Length
    BY <1>0, <1>3, Turns
  <2>4. (x + 1 - Length) % Length = x + 1 - Length
    BY <2>2, Turns
  <2> QED
    BY <2>1, <2>3, <2>4
<1> QED
  BY <1>0, <1>2, <1>3

LEMMA HeadPlace ==
  ASSUME NEW f \in Fifos, NEW p \in Positions, NEW n \in Nat, n < Length
  PROVE  /\ p = (f.head + n) % Length <=> (p - f.head) % Length = n
         /\ (p - f.head) % Length \in Int /\ 0 <= (p - f.head) % Length
<1>1. /\ f.head \in Int /\ 0 <= f.head /\ f.head < Length /\ Length \in Int
      /\ p \in Int /\ 0 <= p /\ p < Length
  BY FifoEnds DEF Positions
<1>2. p - f.head \in Int /\ 0 - Length <= p - f.head /\ p - f.head < Length
  BY <1>1
<1>3. (p - f.head) % Length = IF p - f.head < 0 THEN p - f.head + Length ELSE p - f.head
  BY SMTT(60), <1>1, <1>2, Turns
<1>4. f.head + n \in Int /\ 0 <= f.head + n /\ f.head + n < 2 * Length
  BY <1>1
<1>5. (f.head + n) % Length = IF f.head + n < Length THEN f.head + n ELSE f.head + n - Length
  BY <1>1, <1>4, Turns
<1> DEFINE m == (p - f.head) % Length
           q == (f.head + n) % Length
<1>6. /\ m = IF p - f.head < 0 THEN p - f.head + Length ELSE p - f.head
      /\ q = IF f.head + n < Length THEN f.head + n ELSE f.head + n - Length
  BY <1>3, <1>5
<1> HIDE DEF m, q
<1>7. m \in Int /\ 0 <= m /\ (p = q <=> m = n)
  BY <1>1, <1>6
<1> QED
  BY <1>7 DEF m, q

LEMMA PutMore ==
  ASSUME NEW f \in Fifos, NEW bytes \in Seq(Int), NEW b \in Int, Len(bytes) + 1 < Length
  PROVE  FifoPutAll(f, Append(bytes, b)) = FifoPut(FifoPutAll(f, bytes), b)
<1> DEFINE n == Len(bytes)
           more == Append(bytes, b)
           g == FifoPutAll(f, bytes)
           h == FifoPut(g, b)
           e == FifoPutAll(f, more)
<1>1. n \in Nat /\ n + 1 < Length /\ n < Length /\ Length \in Int
  BY FifoAssumption
<1>2. more \in Seq(Int) /\ Len(more) = n + 1 /\ more[n + 1] = b /\ \A i \in 1 .. n : more[i] = bytes[i]
  BY AppendProperties
<1>3. /\ g \in Fifos /\ g.head = (f.head + n) % Length
      /\ FifoCount(g) = IF n <= FifoRoom(f) THEN FifoCount(f) + n ELSE Length - 1
      /\ g.tail = IF n <= FifoRoom(f) THEN f.tail ELSE (f.tail + n - FifoRoom(f)) % Length
      /\ \A p \in Positions : g.cells[p] =
           IF (p - f.head) % Length < n THEN bytes[((p - f.head) % Length) + 1] ELSE f.cells[p]
  BY <1>1, PutFacts
<1> HIDE DEF more, g, n
<1>4. /\ e \in Fifos /\ e.head = (f.head + (n + 1)) % Length
      /\ e.tail = IF n + 1 <= FifoRoom(f) THEN f.tail ELSE (f.tail + (n + 1) - FifoRoom(f)) % Length
      /\ \A p \in Positions : e.cells[p] =
           IF (p - f.head) % Length < n + 1 THEN more[((p - f.head) % Length) + 1] ELSE f.cells[p]
  BY <1>1, <1>2, PutFacts
<1>5. /\ h \in Fifos /\ h.head = (g.head + 1) % Length
      /\ h.tail = IF FifoRoom(g) = 0 THEN (g.tail + 1) % Length ELSE g.tail
      /\ \A p \in Positions : h.cells[p] = IF p = g.head THEN b ELSE g.cells[p]
  BY <1>3, PutOneFacts
<1> HIDE DEF h, e
<1>f. /\ f.head \in Int /\ f.tail \in Int /\ 0 <= f.head /\ f.head < Length
      /\ 0 <= f.tail /\ f.tail < Length
      /\ FifoRoom(f) \in Int /\ 0 <= FifoRoom(f) /\ FifoRoom(f) < Length
      /\ FifoCount(f) = Length - 1 - FifoRoom(f)
      /\ FifoRoom(g) = Length - 1 - FifoCount(g)
  BY SMTT(30), <1>1, <1>3, FifoEnds, CountFacts
<1>6. e.head = h.head
  <2> DEFINE x == f.head + n
  <2>1. x \in Int /\ 0 <= x /\ x + 1 < 2 * Length /\ f.head + (n + 1) = x + 1
    BY SMTT(60), <1>1, <1>f
  <2>2. h.head = ((x % Length) + 1) % Length /\ e.head = (x + 1) % Length
    BY <1>3, <1>4, <1>5, <2>1
  <2> HIDE DEF x
  <2> QED
    BY <2>1, <2>2, NextTurn
<1>7. e.tail = h.tail
  <2>1. CASE n + 1 <= FifoRoom(f)
    <3>1. FifoRoom(g) # 0 /\ n <= FifoRoom(f)
      BY <1>1, <1>3, <1>f, <2>1
    <3> QED
      BY <1>3, <1>4, <1>5, <2>1, <3>1
  <2>2. CASE n = FifoRoom(f)
    <3>1. FifoRoom(g) = 0 /\ n <= FifoRoom(f) /\ ~ (n + 1 <= FifoRoom(f))
      BY <1>1, <1>3, <1>f, <2>2
    <3>2. f.tail + (n + 1) - FifoRoom(f) = f.tail + 1
      BY <1>1, <1>f, <2>2
    <3> QED
      BY <1>3, <1>4, <1>5, <3>1, <3>2
  <2>3. CASE n > FifoRoom(f)
    <3>1. FifoRoom(g) = 0 /\ ~ (n <= FifoRoom(f)) /\ ~ (n + 1 <= FifoRoom(f))
      BY <1>1, <1>3, <1>f, <2>3
    <3> DEFINE x == f.tail + n - FifoRoom(f)
    <3>2. x \in Int /\ 0 <= x /\ x + 1 < 2 * Length /\ f.tail + (n + 1) - FifoRoom(f) = x + 1
      BY SMTT(30), <1>1, <1>f, <2>3
    <3>3. h.tail = ((x % Length) + 1) % Length /\ e.tail = (x + 1) % Length
      BY <1>3, <1>4, <1>5, <3>1, <3>2
    <3> HIDE DEF x
    <3> QED
      BY <3>2, <3>3, NextTurn
  <2> QED
    BY <1>1, <1>f, <2>1, <2>2, <2>3
<1>8. ASSUME NEW p \in Positions PROVE e.cells[p] = h.cells[p]
  <2> DEFINE m == (p - f.head) % Length
  <2>6. /\ e.cells[p] = IF m < n + 1 THEN more[m + 1] ELSE f.cells[p]
        /\ g.cells[p] = IF m < n THEN bytes[m + 1] ELSE f.cells[p]
        /\ h.cells[p] = IF p = g.head THEN b ELSE g.cells[p]
    BY <1>3, <1>4, <1>5
  <2>7. (p = g.head <=> m = n) /\ m \in Int /\ 0 <= m
    BY <1>1, <1>3, HeadPlace
  <2> HIDE DEF m
  <2>8. CASE m = n
    <3>1. m < n + 1 /\ m + 1 = n + 1
      BY <1>1, <2>8
    <3> QED
      BY <1>2, <2>6, <2>7, <2>8, <3>1
  <2>9. CASE m < n
    <3>1. m < n + 1 /\ m + 1 \in 1 .. n /\ m # n
      BY <1>1, <2>7, <2>9
    <3> QED
      BY <1>2, <2>6, <2>7, <2>9, <3>1
  <2>10. CASE m > n
    <3>1. ~ (m < n + 1) /\ ~ (m < n) /\ m # n
      BY <1>1, <2>7, <2>10
    <3> QED
      BY <2>6, <2>7, <3>1
  <2>11. m = n \/ m < n \/ m > n
    BY <1>1, <2>7
  <2> QED
    BY <2>8, <2>9, <2>10, <2>11, Zenon
<1> QED
  BY <1>4, <1>5, <1>6, <1>7, <1>8, FifoEqual DEF e, h, g, more
-----------------------------------------------------------------------------
PipeTypes ==
  /\ fifo \in Fifos
  /\ rxwaiter \in Readers \cup {None} /\ txwaiter \in Writers \cup {None}
  /\ pc \in [Tasks -> {"out", "asleep", "woken"}]
  /\ left \in [Tasks -> 0 .. MaxCount]
  /\ sent \in Nat /\ got \in Seq(Int)

\* A call that sleeps has bytes to go, and a waiter does sleep.
PipeInv ==
  /\ PipeTypes /\ SleepsForAReason
  /\ rxwaiter # None => pc[rxwaiter] = "asleep"
  /\ txwaiter # None => pc[txwaiter] = "asleep"
  /\ \A t \in Tasks : pc[t] # "out" => left[t] >= 1

LEMMA PipeStart == Init => PipeInv
<1> SUFFICES ASSUME Init PROVE PipeInv
  OBVIOUS
<1>1. fifo \in Fifos
  BY FifoAssumption DEF Init, FifoInit, Fifos, Positions
<1> QED
  BY <1>1, PipeAssumption DEF Init, PipeInv, PipeTypes, SleepsForAReason, Tasks

\* How many bytes a step of pipe_read gets.
LEMMA ReadNumbers ==
  ASSUME PipeTypes, NEW count \in 1 .. MaxCount
  PROVE  /\ Min({count, FifoCount(fifo)}) \in Nat
         /\ Min({count, FifoCount(fifo)}) <= FifoCount(fifo) /\ Min({count, FifoCount(fifo)}) <= count
         /\ Min({count, FifoCount(fifo)}) # count => Min({count, FifoCount(fifo)}) = FifoCount(fifo)
         /\ Min({count, FifoCount(fifo)}) = 0 => FifoCount(fifo) = 0
<1>1. FifoCount(fifo) \in Nat
  BY CountFacts DEF PipeTypes
<1>2. count \in Nat /\ count >= 1
  BY PipeAssumption
<1> QED
  BY <1>1, <1>2, MinOfTwo

LEMMA ReadKeeps ==
  ASSUME PipeInv, NEW t \in Readers, pc[t] \in {"out", "woken"}, NEW count \in 1 .. MaxCount, Read(t, count)
  PROVE  PipeInv'
<1> DEFINE n == Min({count, FifoCount(fifo)})
           rest == count - n
<1>1. /\ n \in Nat /\ n <= FifoCount(fifo) /\ n <= count /\ count \in Nat /\ count <= MaxCount /\ MaxCount \in Nat
      /\ n # count => n = FifoCount(fifo)
      /\ n = 0 => FifoCount(fifo) = 0
  BY ReadNumbers, PipeAssumption DEF PipeInv
<1>2. CASE Panic
  BY <1>2 DEF Panic, PipeInv, PipeTypes, SleepsForAReason
<1>3. CASE /\ ~ (rest > 0 /\ rxwaiter # None)
           /\ fifo' = FifoDrop(fifo, n)
           /\ got' = got \o FifoFirst(fifo, n)
           /\ rxwaiter' = IF rest > 0 THEN t ELSE rxwaiter
           /\ txwaiter' = IF n > 0 THEN None ELSE txwaiter
           /\ Step(t, n, rest, txwaiter)
           /\ UNCHANGED sent
  <2> HIDE DEF n
  <2>1. /\ rest \in 0 .. MaxCount /\ (rest = 0 \/ rest >= 1)
        /\ rest # 0 => n = FifoCount(fifo)
    BY <1>1
  <2> HIDE DEF rest
  <2>2. fifo' \in Fifos /\ FifoCount(fifo') = FifoCount(fifo) - n
    BY <1>1, <1>3, DropFacts DEF PipeInv, PipeTypes
  <2>3. FifoFirst(fifo, n) \in Seq(Int)
    <3>1. FifoCount(fifo) < Length /\ FifoCount(fifo) \in Int /\ Length \in Int
      BY CountFacts, FifoAssumption DEF PipeInv, PipeTypes
    <3>2. n < Length
      BY <1>1, <3>1
    <3> QED
      BY <1>1, <3>2, FirstFacts DEF PipeInv, PipeTypes
  <2>4. got' \in Seq(Int)
    BY <1>3, <2>3, ConcatProperties DEF PipeInv, PipeTypes
  <2>5. /\ left' = [left EXCEPT ![t] = rest]
        /\ \A u \in Tasks : pc'[u] = IF u = t THEN IF rest = 0 THEN "out" ELSE "asleep"
                                   ELSE IF u = txwaiter /\ n > 0 THEN "woken" ELSE pc[u]
        /\ pc' \in [Tasks -> {"out", "asleep", "woken"}]
    BY <1>3 DEF Step, PipeInv, PipeTypes
  <2>6. PipeTypes'
    BY <1>3, <2>1, <2>2, <2>4, <2>5 DEF PipeInv, PipeTypes
  <2>7. ASSUME NEW u \in Tasks, pc'[u] # "out" PROVE left'[u] >= 1
    <3>1. CASE u = t
      BY <2>1, <2>5, <2>7, <3>1 DEF PipeInv, PipeTypes
    <3>2. CASE u # t
      <4>1. left'[u] = left[u]
        BY <2>5, <3>2 DEF PipeInv, PipeTypes
      <4>2. pc[u] # "out"
        BY <2>5, <2>7, <3>2, PipeAssumption DEF PipeInv, Tasks
      <4> QED
        BY <4>1, <4>2 DEF PipeInv
    <3> QED
      BY <3>1, <3>2
  <2>8. ASSUME NEW r \in Readers, pc'[r] = "asleep" PROVE rxwaiter' = r /\ FifoCount(fifo') = 0
    <3>1. CASE r = t
      <4>1. rest # 0
        BY <2>5, <2>8, <3>1 DEF Tasks
      <4>2. rest > 0 /\ n = FifoCount(fifo)
        BY <2>1, <4>1
      <4> QED
        BY <1>1, <1>3, <2>2, <3>1, <4>2
    <3>2. CASE r # t
      <4>1. pc[r] = "asleep" /\ rxwaiter = r /\ FifoCount(fifo) = 0
        BY <2>5, <2>8, <3>2 DEF PipeInv, SleepsForAReason, Tasks
      <4>2. ~ (rest > 0) /\ n = 0
        BY <1>1, <1>3, <4>1, PipeAssumption DEF Tasks
      <4> QED
        BY <1>3, <2>2, <4>1, <4>2
    <3> QED
      BY <3>1, <3>2
  <2>9. ASSUME NEW w \in Writers, pc'[w] = "asleep" PROVE txwaiter' = w /\ FifoRoom(fifo') = 0
    <3>1. w # t /\ w \in Tasks
      BY PipeAssumption DEF Tasks
    <3>2. pc[w] = "asleep" /\ ~ (w = txwaiter /\ n > 0)
      BY <2>5, <2>9, <3>1
    <3>3. txwaiter = w /\ FifoRoom(fifo) = 0
      BY <3>2 DEF PipeInv, SleepsForAReason
    <3>4. n = 0 /\ ~ (n > 0)
      BY <1>1, <3>2, <3>3
    <3> QED
      BY <1>1, <1>3, <2>2, <3>3, <3>4, CountFacts DEF PipeInv, PipeTypes, FifoRoom
  <2>10. rxwaiter' # None => pc'[rxwaiter'] = "asleep"
    <3>1. CASE rest > 0
      BY <1>3, <2>1, <2>5, <3>1 DEF Tasks
    <3>2. CASE ~ (rest > 0)
      BY <1>3, <2>5, <3>2, PipeAssumption DEF PipeInv, PipeTypes, Tasks
    <3> QED
      BY <3>1, <3>2
  <2>11. txwaiter' # None => pc'[txwaiter'] = "asleep"
    BY <1>3, <2>5, PipeAssumption DEF PipeInv, PipeTypes, Tasks
  <2> QED
    BY <2>6, <2>7, <2>8, <2>9, <2>10, <2>11 DEF PipeInv, SleepsForAReason
<1> QED
  BY <1>2, <1>3 DEF Read

\* How many bytes a step of pipe_write puts.
WriteNr(t, count) ==
  IF pc[t] = "woken" /\ FifoRoom(fifo) = 0 THEN 1 ELSE Min({count, FifoRoom(fifo)})

LEMMA WriteNumbers ==
  ASSUME PipeTypes, NEW t \in Writers, NEW count \in 1 .. MaxCount
  PROVE  /\ WriteNr(t, count) \in Nat /\ WriteNr(t, count) <= count /\ WriteNr(t, count) < Length
         /\ WriteNr(t, count) # count => WriteNr(t, count) >= FifoRoom(fifo)
         /\ WriteNr(t, count) = 0 => FifoRoom(fifo) = 0
         /\ WriteNr(t, count) > FifoRoom(fifo) => pc[t] = "woken" /\ FifoRoom(fifo) = 0
         /\ FifoRoom(fifo) \in Nat /\ FifoRoom(fifo) < Length
<1>1. FifoRoom(fifo) \in Nat /\ FifoRoom(fifo) < Length /\ Length \in Nat /\ Length >= 2
  BY CountFacts, FifoAssumption DEF PipeTypes
<1>2. count \in Nat /\ count >= 1
  BY PipeAssumption
<1>3. Min({count, FifoRoom(fifo)}) = IF count <= FifoRoom(fifo) THEN count ELSE FifoRoom(fifo)
  BY <1>1, <1>2, MinOfTwo
<1> QED
  BY <1>1, <1>2, <1>3 DEF WriteNr

\* The bytes of a step, numbered on.
LEMMA BytesFacts ==
  ASSUME NEW n \in Nat, NEW k \in Nat
  PROVE  [i \in 1 .. n |-> k + i] \in Seq(Int) /\ Len([i \in 1 .. n |-> k + i]) = n
<1>1. [i \in 1 .. n |-> k + i] \in [1 .. n -> Int]
  OBVIOUS
<1> QED
  BY <1>1, IsSequence

LEMMA WriteKeeps ==
  ASSUME PipeInv, NEW t \in Writers, pc[t] \in {"out", "woken"}, NEW count \in 1 .. MaxCount, Write(t, count)
  PROVE  PipeInv'
<1> DEFINE n == WriteNr(t, count)
           rest == count - n
           bytes == [i \in 1 .. n |-> sent + i]
<1>1. /\ n \in Nat /\ n <= count /\ n < Length /\ count \in Nat /\ count <= MaxCount /\ MaxCount \in Nat
      /\ n # count => n >= FifoRoom(fifo)
      /\ n = 0 => FifoRoom(fifo) = 0
      /\ FifoRoom(fifo) \in Nat /\ FifoRoom(fifo) < Length /\ Length \in Nat /\ Length >= 2
  BY WriteNumbers, PipeAssumption, FifoAssumption DEF PipeInv
<1>2. CASE Panic
  BY <1>2 DEF Panic, PipeInv, PipeTypes, SleepsForAReason
<1>3. CASE /\ ~ (rest > 0 /\ txwaiter # None)
           /\ fifo' = FifoPutAll(fifo, bytes)
           /\ sent' = sent + n
           /\ txwaiter' = IF rest > 0 THEN t ELSE txwaiter
           /\ rxwaiter' = IF n > 0 THEN None ELSE rxwaiter
           /\ Step(t, n, rest, rxwaiter)
           /\ UNCHANGED got
  <2> HIDE DEF n
  <2>1. /\ rest \in 0 .. MaxCount /\ (rest = 0 \/ rest >= 1)
        /\ rest # 0 => n >= FifoRoom(fifo)
    BY <1>1
  <2> HIDE DEF rest
  <2>b. bytes \in Seq(Int) /\ Len(bytes) = n
    BY <1>1, BytesFacts DEF PipeInv, PipeTypes
  <2> HIDE DEF bytes
  <2>2. /\ fifo' \in Fifos
        /\ FifoCount(fifo') = IF n <= FifoRoom(fifo) THEN FifoCount(fifo) + n ELSE Length - 1
    BY <1>1, <1>3, <2>b, PutFacts DEF PipeInv, PipeTypes
  <2>c. /\ FifoRoom(fifo') = Length - 1 - FifoCount(fifo') /\ FifoRoom(fifo) = Length - 1 - FifoCount(fifo)
        /\ FifoCount(fifo) \in Int
    BY <2>2, CountFacts DEF PipeInv, PipeTypes
  <2>5. /\ left' = [left EXCEPT ![t] = rest]
        /\ \A u \in Tasks : pc'[u] = IF u = t THEN IF rest = 0 THEN "out" ELSE "asleep"
                                   ELSE IF u = rxwaiter /\ n > 0 THEN "woken" ELSE pc[u]
        /\ pc' \in [Tasks -> {"out", "asleep", "woken"}]
    BY <1>3 DEF Step, PipeInv, PipeTypes
  <2>6. PipeTypes'
    <3>1. sent' \in Nat
      BY <1>1, <1>3 DEF PipeInv, PipeTypes
    <3> QED
      BY <1>3, <2>1, <2>2, <2>5, <3>1 DEF PipeInv, PipeTypes
  <2>7. ASSUME NEW u \in Tasks, pc'[u] # "out" PROVE left'[u] >= 1
    <3>1. CASE u = t
      BY <2>1, <2>5, <2>7, <3>1 DEF PipeInv, PipeTypes
    <3>2. CASE u # t
      <4>1. left'[u] = left[u]
        BY <2>5, <3>2 DEF PipeInv, PipeTypes
      <4>2. pc[u] # "out"
        BY <2>5, <2>7, <3>2, PipeAssumption DEF PipeInv, Tasks
      <4> QED
        BY <4>1, <4>2 DEF PipeInv
    <3> QED
      BY <3>1, <3>2
  <2>8. ASSUME NEW w \in Writers, pc'[w] = "asleep" PROVE txwaiter' = w /\ FifoRoom(fifo') = 0
    <3>1. CASE w = t
      <4>1. rest # 0
        BY <2>5, <2>8, <3>1 DEF Tasks
      <4>2. rest > 0 /\ n >= FifoRoom(fifo)
        BY <2>1, <4>1
      <4>3. FifoCount(fifo') = Length - 1
        BY <1>1, <2>2, <2>c, <4>2
      <4> QED
        BY <1>1, <1>3, <2>c, <3>1, <4>2, <4>3
    <3>2. CASE w # t
      <4>1. pc[w] = "asleep" /\ txwaiter = w /\ FifoRoom(fifo) = 0
        BY <2>5, <2>8, <3>2 DEF PipeInv, SleepsForAReason, Tasks
      <4>2. ~ (rest > 0)
        BY <1>3, <4>1, PipeAssumption DEF Tasks
      <4>3. FifoCount(fifo') = Length - 1
        BY <1>1, <2>2, <2>c, <4>1
      <4> QED
        BY <1>1, <1>3, <2>c, <4>1, <4>2, <4>3
    <3> QED
      BY <3>1, <3>2
  <2>9. ASSUME NEW r \in Readers, pc'[r] = "asleep" PROVE rxwaiter' = r /\ FifoCount(fifo') = 0
    <3>1. r # t /\ r \in Tasks
      BY PipeAssumption DEF Tasks
    <3>2. pc[r] = "asleep" /\ ~ (r = rxwaiter /\ n > 0)
      BY <2>5, <2>9, <3>1
    <3>3. rxwaiter = r /\ FifoCount(fifo) = 0
      BY <3>2 DEF PipeInv, SleepsForAReason
    <3>4. n = 0 /\ ~ (n > 0)
      BY <1>1, <3>2, <3>3
    <3>5. FALSE
      BY <1>1, <2>c, <3>3, <3>4
    <3> QED
      BY <3>5
  <2>10. txwaiter' # None => pc'[txwaiter'] = "asleep"
    <3>1. CASE rest > 0
      BY <1>3, <2>1, <2>5, <3>1 DEF Tasks
    <3>2. CASE ~ (rest > 0)
      BY <1>3, <2>5, <3>2, PipeAssumption DEF PipeInv, PipeTypes, Tasks
    <3> QED
      BY <3>1, <3>2
  <2>11. rxwaiter' # None => pc'[rxwaiter'] = "asleep"
    BY <1>3, <2>5, PipeAssumption DEF PipeInv, PipeTypes, Tasks
  <2> QED
    BY <2>6, <2>7, <2>8, <2>9, <2>10, <2>11 DEF PipeInv, SleepsForAReason
<1> QED
  BY <1>2, <1>3 DEF Write, WriteNr

LEMMA PipeStep ==
  ASSUME PipeInv, [Next]_vars
  PROVE  PipeInv'
<1>1. ASSUME NEW t \in Tasks, pc[t] = "woken" PROVE left[t] \in 1 .. MaxCount
  BY <1>1, PipeAssumption DEF PipeInv, PipeTypes
<1>2. ASSUME NEW r \in Readers, ReadCall(r) \/ ReadResume(r) PROVE PipeInv'
  BY <1>1, <1>2, ReadKeeps DEF ReadCall, ReadResume, Tasks
<1>3. ASSUME NEW w \in Writers, WriteCall(w) \/ WriteResume(w) PROVE PipeInv'
  BY <1>1, <1>3, WriteKeeps DEF WriteCall, WriteResume, Tasks
<1>4. CASE UNCHANGED vars
  BY <1>4 DEF vars, PipeInv, PipeTypes, SleepsForAReason
<1> QED
  BY <1>2, <1>3, <1>4 DEF Next

\* A task that sleeps on a pipe has a reason to, and whoever removes the reason
\* wakes it, with any number of readers and writers.
THEOREM PipeSleepers == System => []SleepsForAReason
<1>1. StreamInit => PipeInv
  BY PipeStart DEF StreamInit
<1>2. PipeInv /\ [StreamNext]_<<vars, part, line, con>> => PipeInv'
  <2>1. [StreamNext]_<<vars, part, line, con>> => [Next]_vars
    BY DEF StreamNext, vars
  <2> QED
    BY <2>1, PipeStep
<1>3. PipeInv => SleepsForAReason
  BY DEF PipeInv
<1> QED
  BY <1>1, <1>2, <1>3, PTL DEF System

\* With one writer, a writer that was woken finds room: fifo_put drops nothing.
RoomForWoken == \A w \in Writers : pc[w] = "woken" => FifoRoom(fifo) > 0

LEMMA PanicStays ==
  ASSUME PipeInv, RoomForWoken, Panic
  PROVE  RoomForWoken' /\ UNCHANGED <<FifoContents(fifo), sent, got>>
BY DEF Panic, RoomForWoken

LEMMA ReadIsReceive ==
  ASSUME PipeInv, RoomForWoken, NEW t \in Readers, pc[t] \in {"out", "woken"},
         NEW count \in 1 .. MaxCount, Read(t, count)
  PROVE  /\ RoomForWoken'
         /\ [Abstract!Next]_(Abstract!vars)
<1> DEFINE n == Min({count, FifoCount(fifo)})
           rest == count - n
           c == FifoContents(fifo)
<1>1. /\ n \in Nat /\ n <= FifoCount(fifo) /\ n <= count /\ count \in Nat /\ count <= MaxCount /\ MaxCount \in Nat
  BY ReadNumbers, PipeAssumption DEF PipeInv
<1>2. CASE Panic
  BY <1>2, PanicStays DEF Abstract!vars
<1>3. CASE /\ fifo' = FifoDrop(fifo, n)
           /\ got' = got \o FifoFirst(fifo, n)
           /\ Step(t, n, rest, txwaiter)
           /\ UNCHANGED sent
  <2> HIDE DEF n, rest
  <2>1. /\ fifo' \in Fifos /\ FifoCount(fifo') = FifoCount(fifo) - n
        /\ FifoCount(fifo) \in Int /\ Length \in Int
        /\ FifoRoom(fifo) = Length - 1 - FifoCount(fifo) /\ FifoRoom(fifo') = Length - 1 - FifoCount(fifo')
    BY <1>1, <1>3, DropFacts, CountFacts, FifoAssumption DEF PipeInv, PipeTypes
  <2>2. RoomForWoken'
    <3> SUFFICES ASSUME NEW w \in Writers, pc'[w] = "woken" PROVE FifoRoom(fifo') > 0
      BY DEF RoomForWoken
    <3>1. w # t /\ w \in Tasks
      BY PipeAssumption DEF Tasks
    <3>2. pc[w] = "woken" \/ n > 0
      BY <1>3, <3>1 DEF Step
    <3>3. FifoRoom(fifo) >= 0
      BY <2>1, CountFacts DEF PipeInv, PipeTypes
    <3> QED
      BY <1>1, <2>1, <3>2, <3>3 DEF RoomForWoken
  <2>3. c \in Seq(Int) /\ Len(c) = FifoCount(fifo)
    <3>1. FifoCount(fifo) \in Nat /\ FifoCount(fifo) < Length
      BY CountFacts DEF PipeInv, PipeTypes
    <3> QED
      BY <3>1, FirstFacts DEF FifoContents, PipeInv, PipeTypes
  <2>4. /\ got' = got \o SubSeq(c, 1, n)
        /\ FifoContents(fifo)' = SubSeq(c, n + 1, Len(c))
    BY <1>1, <1>3, DropContents DEF PipeInv, PipeTypes
  <2>5. CASE n = 0
    <3>1. SubSeq(c, 1, 0) = <<>> /\ SubSeq(c, 1, Len(c)) = c
      BY <2>3, SubSeqEmpty, SubSeqFull
    <3>2. got' = got
      BY <2>4, <2>5, <3>1, ConcatEmptySeq DEF PipeInv, PipeTypes
    <3>3. FifoContents(fifo)' = c
      BY <2>4, <2>5, <3>1
    <3> QED
      BY <1>3, <2>2, <3>2, <3>3 DEF Abstract!vars
  <2>6. CASE n # 0
    <3>1. n \in 1 .. Total + MaxCount /\ n <= Len(c)
      BY <1>1, <2>3, <2>6, PipeAssumption
    <3>2. Abstract!Receive(n)
      BY <1>3, <2>4, <3>1 DEF Abstract!Receive
    <3> QED
      BY <2>2, <3>1, <3>2 DEF Abstract!Next
  <2> QED
    BY <2>5, <2>6
<1> QED
  BY <1>2, <1>3 DEF Read

LEMMA WriteIsSend ==
  ASSUME \A v, w \in Writers : v = w,
         PipeInv, RoomForWoken, NEW t \in Writers, pc[t] \in {"out", "woken"},
         NEW count \in 1 .. MaxCount, Write(t, count)
  PROVE  /\ RoomForWoken'
         /\ [Abstract!Next]_(Abstract!vars)
<1> DEFINE n == WriteNr(t, count)
           rest == count - n
           bytes == [i \in 1 .. n |-> sent + i]
           c == FifoContents(fifo)
<1>1. /\ n \in Nat /\ n <= count /\ n <= FifoRoom(fifo) /\ count \in Nat /\ count <= MaxCount /\ MaxCount \in Nat
      /\ FifoRoom(fifo) \in Nat
  <2>1. /\ n \in Nat /\ n <= count /\ (n > FifoRoom(fifo) => pc[t] = "woken" /\ FifoRoom(fifo) = 0)
        /\ FifoRoom(fifo) \in Nat
    BY WriteNumbers DEF PipeInv
  <2>2. ~ (pc[t] = "woken" /\ FifoRoom(fifo) = 0)
    BY DEF RoomForWoken
  <2> HIDE DEF n
  <2> QED
    BY <2>1, <2>2, PipeAssumption
<1>2. CASE Panic
  BY <1>2, PanicStays DEF Abstract!vars
<1>3. CASE /\ fifo' = FifoPutAll(fifo, bytes)
           /\ sent' = sent + n
           /\ Step(t, n, rest, rxwaiter)
           /\ UNCHANGED got
  <2> HIDE DEF n
  <2>1. bytes \in Seq(Int) /\ Len(bytes) = n
    BY <1>1, BytesFacts DEF PipeInv, PipeTypes
  <2>2. RoomForWoken'
    BY <1>3 DEF RoomForWoken, Step, Tasks
  <2>3. c \in Seq(Int) /\ Len(c) = FifoCount(fifo)
    <3>1. FifoCount(fifo) \in Nat /\ FifoCount(fifo) < Length
      BY CountFacts DEF PipeInv, PipeTypes
    <3> QED
      BY <3>1, FirstFacts DEF FifoContents, PipeInv, PipeTypes
  <2>4. FifoContents(fifo)' = c \o bytes
    <3> HIDE DEF bytes
    <3> QED
      BY <1>1, <1>3, <2>1, PutContents DEF PipeInv, PipeTypes
  <2>5. CASE n = 0
    <3>1. bytes = <<>>
      <4> HIDE DEF bytes
      <4> QED
        BY <2>1, <2>5, EmptySeq
    <3>2. FifoContents(fifo)' = c /\ sent' = sent
      BY SMTT(60), <1>3, <2>3, <2>4, <2>5, <3>1, ConcatEmptySeq DEF PipeInv, PipeTypes
    <3> QED
      BY <1>3, <2>2, <3>2 DEF Abstract!vars
  <2>6. CASE n # 0
    <3>1. n \in 1 .. Total + MaxCount
      BY <1>1, <2>6, PipeAssumption
    <3>2. Len(c) + n <= Length - 1
      BY <1>1, <2>3, CountFacts, FifoAssumption DEF PipeInv, PipeTypes
    <3>3. Abstract!Send(n)
      BY <1>3, <2>4, <3>2 DEF Abstract!Send
    <3> QED
      BY <2>2, <3>1, <3>3 DEF Abstract!Next
  <2> QED
    BY <2>5, <2>6
<1> QED
  BY <1>2, <1>3 DEF Write, WriteNr

\* A pipe with one writer implements the channel: what the readers get is what
\* was written, in order and each byte once.
THEOREM PipeIsChannel ==
  ASSUME \A v, w \in Writers : v = w
  PROVE  System => ImplementsChannel
<1>1. StreamInit => PipeInv /\ RoomForWoken /\ Abstract!Init
  <2> SUFFICES ASSUME StreamInit PROVE PipeInv /\ RoomForWoken /\ Abstract!Init
    OBVIOUS
  <2>1. PipeInv
    BY PipeStart DEF StreamInit
  <2>2. RoomForWoken /\ sent = 0 /\ got = <<>>
    BY DEF StreamInit, Init, RoomForWoken, Tasks
  <2>3. FifoCount(fifo) = 0
    <3>1. fifo.head = 0 /\ fifo.tail = 0
      BY DEF StreamInit, Init, FifoInit
    <3> QED
      BY <2>1, <3>1, CountFacts DEF PipeInv, PipeTypes
  <2>4. FifoContents(fifo) = <<>>
    <3>1. 0 \in Nat /\ 0 < Length
      BY FifoAssumption
    <3>2. FifoFirst(fifo, 0) \in Seq(Int) /\ Len(FifoFirst(fifo, 0)) = 0
      BY <2>1, <3>1, FirstFacts DEF PipeInv, PipeTypes
    <3>3. FifoContents(fifo) \in Seq(Int) /\ Len(FifoContents(fifo)) = 0
      BY <2>3, <3>2 DEF FifoContents
    <3> QED
      BY <3>3, EmptySeq
  <2> QED
    BY <2>1, <2>2, <2>4 DEF Abstract!Init
<1>2. PipeInv /\ RoomForWoken /\ [StreamNext]_<<vars, part, line, con>> =>
        PipeInv' /\ RoomForWoken' /\ [Abstract!Next]_(Abstract!vars)
  <2> SUFFICES ASSUME PipeInv, RoomForWoken, [StreamNext]_<<vars, part, line, con>>
               PROVE  PipeInv' /\ RoomForWoken' /\ [Abstract!Next]_(Abstract!vars)
    OBVIOUS
  <2>1. [Next]_vars
    BY DEF StreamNext, vars
  <2>2. ASSUME NEW t \in Tasks, pc[t] = "woken" PROVE left[t] \in 1 .. MaxCount
    BY <2>2, PipeAssumption DEF PipeInv, PipeTypes
  <2>3. ASSUME NEW r \in Readers, ReadCall(r) \/ ReadResume(r)
        PROVE  RoomForWoken' /\ [Abstract!Next]_(Abstract!vars)
    BY <2>2, <2>3, ReadIsReceive DEF ReadCall, ReadResume, Tasks
  <2>4. ASSUME NEW w \in Writers, WriteCall(w) \/ WriteResume(w)
        PROVE  RoomForWoken' /\ [Abstract!Next]_(Abstract!vars)
    BY <2>2, <2>4, WriteIsSend DEF WriteCall, WriteResume, Tasks
  <2>5. ASSUME UNCHANGED vars PROVE RoomForWoken' /\ [Abstract!Next]_(Abstract!vars)
    BY <2>5 DEF vars, RoomForWoken, Abstract!vars
  <2>6. RoomForWoken' /\ [Abstract!Next]_(Abstract!vars)
    BY <2>1, <2>3, <2>4, <2>5 DEF Next
  <2>7. PipeInv'
    BY <2>1, PipeStep
  <2> QED
    BY <2>6, <2>7
<1> QED
  BY <1>1, <1>2, PTL DEF System, ImplementsChannel, Abstract!Spec

\* With one reader, a reader that was woken finds a byte.
ByteForWoken == \A r \in Readers : pc[r] = "woken" => FifoCount(fifo) > 0

LEMMA PipeAsserts ==
  ASSUME \A v, w \in Writers : v = w, \A q, r \in Readers : q = r,
         PipeInv, ByteForWoken, panicked = FALSE, [Next]_vars
  PROVE  ByteForWoken' /\ panicked' = FALSE
<1>1. ASSUME NEW t \in Tasks, pc[t] = "woken" PROVE left[t] \in 1 .. MaxCount
  BY <1>1, PipeAssumption DEF PipeInv, PipeTypes
<1>2. ASSUME NEW t \in Readers, pc[t] \in {"out", "woken"}, NEW count \in 1 .. MaxCount, Read(t, count)
      PROVE  ByteForWoken' /\ panicked' = FALSE
  <2> DEFINE n == Min({count, FifoCount(fifo)})
             rest == count - n
  <2>1. rxwaiter = None
    BY <1>2 DEF PipeInv, PipeTypes
  <2>2. ~ (pc[t] = "woken" /\ n = 0)
    <3>1. n = 0 => FifoCount(fifo) = 0
      BY ReadNumbers DEF PipeInv
    <3>2. pc[t] = "woken" => FifoCount(fifo) # 0
      BY DEF ByteForWoken
    <3> QED
      BY <3>1, <3>2
  <2>3. Step(t, n, rest, txwaiter)
    BY <1>2, <2>1, <2>2 DEF Read
  <2> HIDE DEF n, rest
  <2> QED
    BY <2>3 DEF Step, ByteForWoken, Tasks
<1>3. ASSUME NEW t \in Writers, pc[t] \in {"out", "woken"}, NEW count \in 1 .. MaxCount, Write(t, count)
      PROVE  ByteForWoken' /\ panicked' = FALSE
  <2> DEFINE n == WriteNr(t, count)
             rest == count - n
             bytes == [i \in 1 .. n |-> sent + i]
  <2>1. txwaiter = None
    BY <1>3 DEF PipeInv, PipeTypes
  <2>2. Step(t, n, rest, rxwaiter) /\ fifo' = FifoPutAll(fifo, bytes)
    BY <1>3, <2>1 DEF Write, WriteNr
  <2>3. /\ n \in Nat /\ n < Length /\ Length \in Nat /\ Length >= 2
        /\ FifoCount(fifo) \in Int /\ 0 <= FifoCount(fifo)
    BY WriteNumbers, CountFacts, FifoAssumption DEF PipeInv, PipeTypes
  <2> HIDE DEF n, rest
  <2>4. bytes \in Seq(Int) /\ Len(bytes) = n
    BY <2>3, BytesFacts DEF PipeInv, PipeTypes
  <2> HIDE DEF bytes
  <2>5. FifoCount(fifo') = IF n <= FifoRoom(fifo) THEN FifoCount(fifo) + n ELSE Length - 1
    BY <2>2, <2>3, <2>4, PutFacts DEF PipeInv, PipeTypes
  <2>6. n > 0 \/ FifoCount(fifo) > 0 => FifoCount(fifo') > 0
    BY <2>3, <2>5
  <2>7. ASSUME NEW r \in Readers, pc'[r] = "woken" PROVE FifoCount(fifo') > 0
    <3>1. r # t /\ r \in Tasks
      BY PipeAssumption DEF Tasks
    <3>2. pc[r] = "woken" \/ n > 0
      BY <2>2, <2>7, <3>1 DEF Step
    <3> QED
      BY <2>6, <3>2 DEF ByteForWoken
  <2> QED
    BY <2>2, <2>7 DEF Step, ByteForWoken
<1>4. ASSUME NEW r \in Readers, ReadCall(r) \/ ReadResume(r) PROVE ByteForWoken' /\ panicked' = FALSE
  BY <1>1, <1>2, <1>4 DEF ReadCall, ReadResume, Tasks
<1>5. ASSUME NEW w \in Writers, WriteCall(w) \/ WriteResume(w) PROVE ByteForWoken' /\ panicked' = FALSE
  BY <1>1, <1>3, <1>5 DEF WriteCall, WriteResume, Tasks
<1>6. CASE UNCHANGED vars
  BY <1>6 DEF vars, ByteForWoken
<1> QED
  BY <1>4, <1>5, <1>6 DEF Next

NoAssertFails == panicked = FALSE

\* No assertion of pipe_read, pipe_write or fifo_get fails while there are one
\* reader and one writer.
THEOREM PipeNeverPanics ==
  ASSUME \A v, w \in Writers : v = w, \A q, r \in Readers : q = r
  PROVE  System => []NoAssertFails
<1> DEFINE I == PipeInv /\ ByteForWoken /\ NoAssertFails
<1>1. StreamInit => I
  BY PipeStart DEF StreamInit, Init, ByteForWoken, Tasks, NoAssertFails
<1>2. I /\ [StreamNext]_<<vars, part, line, con>> => I'
  <2> SUFFICES ASSUME PipeInv, ByteForWoken, NoAssertFails, [StreamNext]_<<vars, part, line, con>>
               PROVE  PipeInv' /\ ByteForWoken' /\ NoAssertFails'
    OBVIOUS
  <2>1. [Next]_vars
    BY DEF StreamNext, vars
  <2>2. PipeInv'
    BY <2>1, PipeStep
  <2>3. ByteForWoken' /\ NoAssertFails'
    BY <2>1, PipeAsserts DEF NoAssertFails
  <2> QED
    BY <2>2, <2>3
<1>3. I => NoAssertFails
  OBVIOUS
<1> QED
  BY <1>1, <1>2, <1>3, PTL DEF System
-----------------------------------------------------------------------------
LineCalls == [pc : {"user", "lock", "read", "asleep"}, left : Nat]
LineStates ==
  [kind : {"keyboard", "serial"}, fifo : Fifos, lock : LineTasks \cup {0}, waiter : LineTasks \cup {0},
   call : [LineTasks -> LineCalls], typed : Nat, ext : BOOLEAN, ctrl : SUBSET BOOLEAN, halt : BOOLEAN]

\* Only the holder of the lock sleeps, and the waiter does sleep.
Sleepers(s) ==
  /\ \A t \in LineTasks : s.call[t].pc \in {"read", "asleep"} => s.lock = t
  /\ \A t \in LineTasks : s.call[t].pc = "asleep" => s.waiter = t /\ FifoCount(s.fifo) = 0
  /\ s.waiter # 0 => s.call[s.waiter].pc = "asleep"

LineInv == line \in LineStates /\ line.halt = FALSE /\ Sleepers(line)

LEMMA LineStart == StreamInit => LineInv
<1> SUFFICES ASSUME StreamInit PROVE LineInv
  OBVIOUS
<1>1. FifoInit(0) \in Fifos
  BY FifoAssumption DEF FifoInit, Fifos, Positions
<1>2. PICK kind \in {"keyboard", "serial"} :
        line = [kind |-> kind, fifo |-> FifoInit(0), lock |-> 0, waiter |-> 0,
                call |-> [t \in LineTasks |-> [pc |-> "user", left |-> 0]], typed |-> 0,
                ext |-> FALSE, ctrl |-> {}, halt |-> FALSE]
  BY DEF StreamInit, TermInit
<1>3. line \in LineStates
  BY <1>1, <1>2 DEF LineStates, LineCalls
<1>4. Sleepers(line) /\ line.halt = FALSE
  BY <1>2 DEF Sleepers
<1> QED
  BY <1>3, <1>4 DEF LineInv

\* The handler puts a character and wakes the waiter: then nobody sleeps.
LEMMA PutCharKeeps ==
  ASSUME NEW s \in LineStates, Sleepers(s)
  PROVE  PutChar(s) \in LineStates /\ Sleepers(PutChar(s)) /\ PutChar(s).halt = s.halt
<1> DEFINE call == IF s.waiter = 0 THEN s.call ELSE [s.call EXCEPT ![s.waiter].pc = "read"]
           f == FifoPut(s.fifo, s.typed)
           k == (s.typed + 1) % Numbers
           u == PutChar(s)
<1>1. f \in Fifos
  BY PutOneFacts DEF LineStates
<1>2. k \in Nat
  BY LineAssumption DEF LineStates
<1>3. /\ call \in [LineTasks -> LineCalls]
      /\ \A t \in LineTasks : call[t].pc = IF t = s.waiter THEN "read" ELSE s.call[t].pc
  BY LineAssumption DEF LineStates, LineCalls
<1>4. u = [s EXCEPT !.fifo = f, !.typed = k, !.waiter = 0, !.call = call]
  BY DEF PutChar
<1> HIDE DEF call, f, k, u
<1>5. u \in LineStates /\ u.halt = s.halt /\ u.lock = s.lock /\ u.waiter = 0 /\ u.call = call
  BY <1>1, <1>2, <1>3, <1>4 DEF LineStates
<1>6. ASSUME NEW t \in LineTasks
      PROVE  call[t].pc # "asleep" /\ (call[t].pc = "read" => s.lock = t)
  <2>1. CASE t = s.waiter
    <3>1. call[t].pc = "read"
      BY <1>3, <2>1
    <3>2. t # 0
      BY LineAssumption
    <3>3. s.call[t].pc = "asleep"
      BY <2>1, <3>2 DEF Sleepers
    <3> QED
      BY <3>1, <3>3 DEF Sleepers
  <2>2. CASE t # s.waiter
    <3>1. call[t].pc = s.call[t].pc
      BY <1>3, <2>2
    <3> QED
      BY <2>2, <3>1 DEF Sleepers
  <2> QED
    BY <2>1, <2>2
<1>7. Sleepers(u)
  BY <1>5, <1>6 DEF Sleepers
<1> QED
  BY <1>5, <1>7 DEF u

\* A reader that holds the lock takes what is there, and sleeps for the rest.
LEMMA ReadLineKeeps ==
  ASSUME NEW s \in LineStates, NEW t \in LineTasks, NEW n \in Nat, s.lock = t, s.waiter = 0, s.halt = FALSE,
         \A u \in LineTasks \ {t} : s.call[u].pc \notin {"read", "asleep"}
  PROVE  ReadLine(s, t, n) \in LineStates /\ Sleepers(ReadLine(s, t, n)) /\ ReadLine(s, t, n).halt = FALSE
<1> DEFINE k == IF FifoCount(s.fifo) < n THEN FifoCount(s.fifo) ELSE n
           f == FifoDrop(s.fifo, k)
           r == ReadLine(s, t, n)
<1>0. FifoCount(s.fifo) \in Nat /\ s.fifo \in Fifos
  BY CountFacts DEF LineStates
<1>1. k \in Nat /\ k <= FifoCount(s.fifo) /\ k <= n
  BY <1>0
<1>2. f \in Fifos /\ FifoCount(f) = FifoCount(s.fifo) - k
  BY <1>0, <1>1, DropFacts
<1>3. CASE k = n
  <2> DEFINE c == [pc |-> "user", left |-> 0]
  <2>1. c \in LineCalls /\ c.pc = "user"
    BY DEF LineCalls
  <2>2. r = [s EXCEPT !.fifo = f, !.lock = 0, !.call[t] = c]
    BY <1>3 DEF ReadLine
  <2> HIDE DEF c, f, k, r
  <2>3. /\ r \in LineStates /\ r.halt = FALSE /\ r.waiter = 0
        /\ \A u \in LineTasks : r.call[u] = IF u = t THEN c ELSE s.call[u]
    BY <1>2, <2>1, <2>2 DEF LineStates
  <2>4. Sleepers(r)
    BY <2>1, <2>3 DEF Sleepers
  <2> QED
    BY <2>3, <2>4 DEF r
<1>4. CASE k # n
  <2> DEFINE c == [pc |-> "asleep", left |-> n - k]
  <2>1. c \in LineCalls /\ c.pc = "asleep" /\ FifoCount(f) = 0
    BY <1>0, <1>1, <1>2, <1>4 DEF LineCalls
  <2>2. r = [s EXCEPT !.fifo = f, !.waiter = t, !.call[t] = c]
    BY <1>4 DEF ReadLine
  <2> HIDE DEF c, f, k, r
  <2>3. /\ r \in LineStates /\ r.halt = FALSE /\ r.waiter = t /\ r.lock = t /\ r.fifo = f
        /\ \A u \in LineTasks : r.call[u] = IF u = t THEN c ELSE s.call[u]
    BY <1>2, <2>1, <2>2 DEF LineStates
  <2>4. Sleepers(r)
    BY <2>1, <2>3 DEF Sleepers
  <2> QED
    BY <2>3, <2>4 DEF r
<1> QED
  BY <1>3, <1>4

LEMMA LineStep == LineInv /\ [TermNext]_line => LineInv'
<1> SUFFICES ASSUME LineInv, [TermNext]_line PROVE LineInv'
  OBVIOUS
<1>0. line \in LineStates /\ line.halt = FALSE /\ Sleepers(line)
  BY DEF LineInv
<1>1. ASSUME NEW s \in LineStates, s.halt = FALSE, Sleepers(s), LineDo(s) PROVE LineInv'
  BY <1>1 DEF LineDo, LineInv, Sleepers
<1>2. ASSUME NEW key \in {"c", "l", "ctrl", "caps", "E0"}, NEW break \in BOOLEAN, Scan(key, break)
      PROVE  LineInv'
  <2> DEFINE s == [line EXCEPT !.ext = FALSE]
             d == IF break THEN line.ctrl \ {line.ext} ELSE line.ctrl \cup {line.ext}
  <2>1. s \in LineStates /\ s.halt = FALSE /\ Sleepers(s)
    BY <1>0 DEF LineStates, Sleepers
  <2>2. CASE key = "E0"
    <3>1. LineDo([line EXCEPT !.ext = TRUE])
      BY <1>2, <2>2 DEF Scan
    <3>2. [line EXCEPT !.ext = TRUE] \in LineStates /\ Sleepers([line EXCEPT !.ext = TRUE])
      BY <1>0 DEF LineStates, Sleepers
    <3> QED
      BY <1>0, <1>1, <3>1, <3>2 DEF LineStates
  <2>3. CASE key = "ctrl"
    <3>1. LineDo([s EXCEPT !.ctrl = d])
      BY <1>0, <1>2, <2>3 DEF Scan, LineStates
    <3>2. d \in SUBSET BOOLEAN
      BY <1>0 DEF LineStates
    <3> HIDE DEF s, d
    <3>3. [s EXCEPT !.ctrl = d] \in LineStates /\ Sleepers([s EXCEPT !.ctrl = d])
      BY <2>1, <3>2 DEF LineStates, Sleepers
    <3> QED
      BY <1>1, <2>1, <3>1, <3>3 DEF LineStates
  <2>4. CASE key # "E0" /\ key # "ctrl"
    <3>1. LineDo(s) \/ LineDo(PutChar(s))
      BY <1>2, <2>4 DEF Scan
    <3> HIDE DEF s
    <3> QED
      BY <1>1, <2>1, <3>1, PutCharKeeps
  <2> QED
    BY <2>2, <2>3, <2>4
<1>3. CASE Received
  BY <1>0, <1>1, <1>3, PutCharKeeps DEF Received
<1>4. ASSUME NEW t \in LineTasks, LineEnter(t) PROVE LineInv'
  <2> DEFINE s == [line EXCEPT !.lock = t]
             n == line.call[t].left
  <2>1. s \in LineStates /\ s.halt = FALSE /\ s.lock = t /\ s.call = line.call /\ s.waiter = line.waiter
    BY <1>0 DEF LineStates
  <2>2. line.lock = 0 /\ LineDo(ReadLine(s, t, n))
    BY <1>4 DEF LineEnter
  <2>3. n \in Nat
    BY <1>0 DEF LineStates, LineCalls
  <2>4. \A u \in LineTasks : line.call[u].pc \notin {"read", "asleep"}
    BY <1>0, <2>2, LineAssumption DEF Sleepers
  <2>5. line.waiter = 0
    BY <1>0, <2>4 DEF Sleepers, LineStates
  <2> HIDE DEF s, n
  <2>6. ReadLine(s, t, n) \in LineStates /\ Sleepers(ReadLine(s, t, n)) /\ ReadLine(s, t, n).halt = FALSE
    BY <2>1, <2>3, <2>4, <2>5, ReadLineKeeps
  <2> QED
    BY <1>1, <2>2, <2>6
<1>5. ASSUME NEW t \in LineTasks, LineResume(t) PROVE LineInv'
  <2> DEFINE n == line.call[t].left
  <2>1. line.call[t].pc = "read" /\ LineDo(ReadLine(line, t, n))
    BY <1>5 DEF LineResume
  <2>2. n \in Nat
    BY <1>0 DEF LineStates, LineCalls
  <2>3. line.lock = t
    BY <1>0, <2>1 DEF Sleepers
  <2>4. \A u \in LineTasks \ {t} : line.call[u].pc \notin {"read", "asleep"}
    BY <1>0, <2>3 DEF Sleepers
  <2>5. line.waiter = 0
    BY <1>0, <2>1, <2>4 DEF Sleepers, LineStates
  <2> HIDE DEF n
  <2>6. /\ ReadLine(line, t, n) \in LineStates /\ Sleepers(ReadLine(line, t, n))
        /\ ReadLine(line, t, n).halt = FALSE
    BY <1>0, <2>2, <2>3, <2>4, <2>5, ReadLineKeeps
  <2> QED
    BY <1>1, <2>1, <2>6
<1>6. ASSUME NEW t \in LineTasks, NEW n \in 1 .. MaxRead, LineCall(t, n) PROVE LineInv'
  <2> DEFINE c == [pc |-> "lock", left |-> n]
             s == [line EXCEPT !.call[t] = c]
  <2>1. line.call[t].pc = "user" /\ LineDo(s)
    BY <1>6 DEF LineCall
  <2>2. c \in LineCalls /\ c.pc = "lock"
    BY LineAssumption DEF LineCalls
  <2> HIDE DEF c
  <2>3. /\ s \in LineStates /\ s.halt = FALSE /\ s.lock = line.lock /\ s.waiter = line.waiter /\ s.fifo = line.fifo
        /\ \A u \in LineTasks : s.call[u] = IF u = t THEN c ELSE line.call[u]
    BY <1>0, <2>2 DEF LineStates
  <2> HIDE DEF s
  <2>4. Sleepers(s)
    <3>1. line.waiter # t \/ line.waiter = 0
      BY <1>0, <2>1 DEF Sleepers
    <3> QED
      BY <1>0, <2>2, <2>3, <3>1 DEF Sleepers, LineStates
  <2> QED
    BY <1>1, <2>1, <2>3, <2>4
<1>7. CASE UNCHANGED line
  BY <1>7 DEF LineInv, Sleepers
<1> QED
  BY <1>2, <1>3, <1>4, <1>5, <1>6, <1>7 DEF TermNext

\* A reader of the keyboard or of a serial line sleeps only while nothing is
\* there, with the lock and as the one waiter that the next interrupt wakes,
\* and serial_read never trips over another reader, for any number of readers,
\* any length of the ring and any counts.
THEOREM ReadersSleepForKeys == System => []SleepsForKeys
<1>1. LineInv => SleepsForKeys
  BY DEF LineInv, Sleepers, SleepsForKeys
<1>2. LineInv /\ [StreamNext]_<<vars, part, line, con>> => LineInv'
  <2>1. [StreamNext]_<<vars, part, line, con>> => [TermNext]_line
    BY DEF StreamNext
  <2> QED
    BY <2>1, LineStep
<1> QED
  BY <1>1, <1>2, LineStart, PTL DEF System
=============================================================================
