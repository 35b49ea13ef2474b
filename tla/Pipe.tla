-------------------------------- MODULE Pipe --------------------------------
(***************************************************************************)
(* A pipe: pipe_read and pipe_write of src/fs/pipe.c on the fifo in its    *)
(* inode.  The kernel is not preempted, so a call runs in one step until   *)
(* it returns or sleeps on rxwaiter or txwaiter; a sleeper that was woken  *)
(* goes on with fifo_get or fifo_put without looking at the fifo again.    *)
(*                                                                         *)
(* Bytes are numbered in the order they are written; got, what all reads   *)
(* returned, is a history variable.  At most Total bytes are written.      *)
(***************************************************************************)
EXTENDS Fifo, FiniteSetsExt

CONSTANTS
  Readers, Writers,  \* tasks with a file for the end of the pipe
  MaxCount,          \* the largest count of one call
  Total,             \* bound: bytes written
  None

ASSUME PipeAssumption ==
  /\ MaxCount \in Nat \ {0} /\ Total \in Nat
  /\ Readers \cap Writers = {} /\ None \notin Readers \cup Writers

Tasks == Readers \cup Writers

VARIABLES
  fifo,      \* (fifo_t *)inode->desc
  rxwaiter, txwaiter,
  pc,        \* "out" of the call, "asleep" in task_block, or "woken"
  left,      \* count - nr of each call
  sent, got,
  panicked   \* an assertion failed

vars == <<fifo, rxwaiter, txwaiter, pc, left, sent, got, panicked>>
-----------------------------------------------------------------------------
Panic == panicked' = TRUE /\ UNCHANGED <<fifo, rxwaiter, txwaiter, pc, left, sent, got>>

\* The call of t has n bytes done and rest to do: it returns or sleeps, and has
\* woken w if it got anywhere.
Step(t, n, rest, w) ==
  /\ left' = [left EXCEPT ![t] = rest]
  /\ pc' = [u \in Tasks |-> IF u = t THEN IF rest = 0 THEN "out" ELSE "asleep"
                            ELSE IF u = w /\ n > 0 THEN "woken"
                            ELSE pc[u]]
  /\ UNCHANGED panicked

BugReadNoWake(t, count) ==
  LET n    == Min({count, FifoCount(fifo)})
      rest == count - n
  IN  /\ fifo' = FifoDrop(fifo, n)
      /\ got' = got \o FifoFirst(fifo, n)
      /\ rxwaiter' = IF rest > 0 THEN t ELSE rxwaiter
      /\ txwaiter' = IF n > 0 THEN None ELSE txwaiter
      /\ Step(t, n, rest, None)
      /\ UNCHANGED sent

\* pipe_read with count bytes to go.
Read(t, count) ==
  LET n    == Min({count, FifoCount(fifo)})
      rest == count - n
  IN  IF \/ pc[t] = "woken" /\ n = 0             \* fifo_get: assert(!fifo_empty)
         \/ rest > 0 /\ rxwaiter # None          \* assert(inode->rxwaiter == NULL)
        THEN Panic
        ELSE /\ fifo' = FifoDrop(fifo, n)
             /\ got' = got \o FifoFirst(fifo, n)
             /\ rxwaiter' = IF rest > 0 THEN t ELSE rxwaiter
             /\ txwaiter' = IF n > 0 THEN None ELSE txwaiter
             /\ Step(t, n, rest, txwaiter)
             /\ UNCHANGED sent

BugWriteNoWake(t, count) ==
  LET n == Min({count, FifoRoom(fifo)})
  IN  /\ fifo' = FifoPutAll(fifo, [i \in 1 .. n |-> sent + i])
      /\ sent' = sent + n
      /\ txwaiter' = IF n < count THEN t ELSE txwaiter
      /\ Step(t, n, count - n, None)
      /\ UNCHANGED <<rxwaiter, got>>

\* pipe_write with count bytes to go; its first fifo_put after a sleep is blind.
Write(t, count) ==
  LET n    == IF pc[t] = "woken" /\ FifoRoom(fifo) = 0 THEN 1
              ELSE Min({count, FifoRoom(fifo)})
      rest == count - n
  IN  IF rest > 0 /\ txwaiter # None             \* assert(inode->txwaiter == NULL)
        THEN Panic
        ELSE /\ fifo' = FifoPutAll(fifo, [i \in 1 .. n |-> sent + i])
             /\ sent' = sent + n
             /\ txwaiter' = IF rest > 0 THEN t ELSE txwaiter
             /\ rxwaiter' = IF n > 0 THEN None ELSE rxwaiter
             /\ Step(t, n, rest, rxwaiter)
             /\ UNCHANGED got

ReadCall(t) ==
  ~ panicked /\ pc[t] = "out" /\ \E count \in 1 .. MaxCount : Read(t, count)

ReadResume(t) ==
  ~ panicked /\ pc[t] = "woken" /\ Read(t, left[t])

WriteCall(t) ==
  /\ ~ panicked /\ pc[t] = "out" /\ sent < Total
  /\ \E count \in 1 .. MaxCount : Write(t, count)

WriteResume(t) ==
  ~ panicked /\ pc[t] = "woken" /\ Write(t, left[t])

Init ==
  /\ fifo = FifoInit(0)
  /\ rxwaiter = None /\ txwaiter = None
  /\ pc = [t \in Tasks |-> "out"]
  /\ left = [t \in Tasks |-> 0]
  /\ sent = 0 /\ got = <<>>
  /\ panicked = FALSE

Next ==
  \/ \E r \in Readers : ReadCall(r) \/ ReadResume(r)
  \/ \E w \in Writers : WriteCall(w) \/ WriteResume(w)

Spec == Init /\ [][Next]_vars

\* A woken task runs eventually, and the readers keep reading.
PipeFair ==
  /\ \A r \in Readers : WF_vars(ReadCall(r)) /\ WF_vars(ReadResume(r))
  /\ \A w \in Writers : WF_vars(WriteResume(w))
-----------------------------------------------------------------------------
MaxSent == Total + MaxCount * Cardinality(Writers)

TypeOK ==
  /\ fifo \in [cells : [Positions -> 0 .. MaxSent], head : Positions, tail : Positions]
  /\ rxwaiter \in Readers \cup {None} /\ txwaiter \in Writers \cup {None}
  /\ pc \in [Tasks -> {"out", "asleep", "woken"}]
  /\ left \in [Tasks -> 0 .. MaxCount]
  /\ sent \in 0 .. MaxSent /\ Len(got) <= sent
  /\ panicked \in BOOLEAN

\* The pipe implements a bounded first-in first-out channel: no byte is lost,
\* repeated or overtaken, across any number of sleeps and wake-ups and of turns
\* round the ring.
Abstract == INSTANCE Channel WITH
  Capacity <- Length - 1, Total <- Total + MaxCount, queue <- FifoContents(fifo)
ImplementsChannel == Abstract!Spec

\* A task sleeps only for a reason, and is then the one that will be woken: the
\* reader on an empty fifo, the writer on a full one.  So neither misses a
\* wake-up, and they never sleep on each other.
SleepsForAReason ==
  /\ \A r \in Readers : pc[r] = "asleep" => rxwaiter = r /\ FifoCount(fifo) = 0
  /\ \A w \in Writers : pc[w] = "asleep" => txwaiter = w /\ FifoRoom(fifo) = 0

\* Whatever is written is read eventually, while the readers keep reading: again
\* and again nothing is left.
Delivered == []<>(Len(got) = sent)
=============================================================================
