-------------------------------- MODULE Fifo --------------------------------
(***************************************************************************)
(* The ring buffer of src/lib/fifo.c, which pipes, the keyboard and the    *)
(* serial lines share.  One cell always stays free, so that head = tail    *)
(* means empty.  A fifo is a record [cells, head, tail]; putting into a    *)
(* full one drops the oldest byte.                                         *)
(***************************************************************************)
EXTENDS Integers, SequencesExt

CONSTANT Length   \* fifo->length

ASSUME FifoAssumption == Length \in Nat \ {0, 1}

Positions == 0 .. Length - 1

\* fifo_next
FifoNext(pos) == (pos + 1) % Length

FifoInit(byte) == [cells |-> [p \in Positions |-> byte], head |-> 0, tail |-> 0]

\* How many bytes can be got before fifo_empty, and put before fifo_full.
FifoCount(f) == (f.head - f.tail) % Length

BugFifoRoomAll(f) == Length - FifoCount(f)

FifoRoom(f) == Length - 1 - FifoCount(f)

\* fifo_get n times: the bytes it returns, and what is left.
FifoFirst(f, n) == [i \in 1 .. n |-> f.cells[(f.tail + i - 1) % Length]]
FifoDrop(f, n)  == [f EXCEPT !.tail = (@ + n) % Length]

\* fifo_put
FifoPut(f, byte) ==
  LET g == IF FifoNext(f.head) = f.tail THEN FifoDrop(f, 1) ELSE f
  IN  [g EXCEPT !.cells[g.head] = byte, !.head = FifoNext(g.head)]

\* fifo_put of fewer than Length bytes, one after the other.
FifoPutAll(f, bytes) ==
  LET n    == Len(bytes)
      lost == IF n > FifoRoom(f) THEN n - FifoRoom(f) ELSE 0
  IN  [FifoDrop(f, lost) EXCEPT
         !.cells = [p \in Positions |-> IF (p - f.head) % Length < n THEN bytes[((p - f.head) % Length) + 1]
                                         ELSE f.cells[p]],
         !.head = (f.head + n) % Length]

\* What is in it, oldest first.
FifoContents(f) == FifoFirst(f, FifoCount(f))
=============================================================================
