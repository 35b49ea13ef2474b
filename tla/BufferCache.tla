---------------------------- MODULE BufferCache -----------------------------
(***************************************************************************)
(* The buffer cache: src/kernel/buffer.c.  bread finds or makes the buffer *)
(* of a block and fills it from the disk, brelse writes a modified buffer  *)
(* back and frees it after its last user, and a buffer nobody uses serves  *)
(* another block, the least recently freed one first.                      *)
(*                                                                         *)
(* The kernel is not preempted, so tasks interleave only where they sleep: *)
(* for a free buffer on wait_list, for the lock of a buffer, and in        *)
(* device_request, where the drive moves the data at some moment between   *)
(* the call and its return.  The hash chains are one sequence, newest      *)
(* first, in which a block is found as it would be in its chain.  The lock *)
(* is the one of Lock.                                                     *)
(***************************************************************************)
EXTENDS Integers, SequencesExt, FiniteSetsExt

CONSTANTS
  Tasks,
  N,          \* how many buffers fit between buffer_start and buffer_data
  Blocks,
  Uses,       \* the blocks each task reads and modifies
  Values,     \* what a block may contain, 0 at first
  MaxHeld,    \* bound: references a task holds
  None

ASSUME BufferCacheAssumption ==
  /\ IsFiniteSet(Tasks)
  /\ N \in Nat \ {0} /\ MaxHeld \in Nat \ {0}
  /\ Uses \in [Tasks -> SUBSET Blocks]
  /\ 0 \in Values
  /\ None \notin Tasks \cup Blocks

Buffers == 1 .. N

VARIABLES
  made,                           \* buffer_count: buffers 1 .. made exist
  block, count, dirty, valid, data, lock,     \* the fields of each buffer_t
  hashed,                         \* buffers in the hash table, newest first
  free,                           \* free_list, most recently freed first
  waiting,                        \* wait_list, most recent first
  pc,                             \* where each task is
  want,                           \* the block or the buffer its call is about
  held,                           \* the references each task has been given
  disk,
  latest,                         \* history: the last modification of each block
  slept                           \* history: blocks for whose buffer a task had to wait

buffers == <<made, block, count, dirty, valid, data, lock>>
lists   == <<hashed, free, waiting, slept>>
vars    == <<buffers, lists, pc, want, held, disk, latest>>

Places == {"out",
           "waiting", "woken",            \* for a free buffer in get_free_buffer
           "locking",                     \* in lock_acquire of bread
           "reading", "read",             \* in its device_request, before and
                                          \*   after the drive moved the data
           "writing", "written",          \* the same in bwrite
           "releasing", "released"}       \* the same in bwrite called by brelse

Goto(t, place) == pc' = [pc EXCEPT ![t] = place]
-----------------------------------------------------------------------------
BugFoundBusy(k) == {i \in 1 .. Len(hashed) : block[hashed[i]] = k /\ count[hashed[i]] > 0}

\* get_from_hash_table
Found(k) == {i \in 1 .. Len(hashed) : block[hashed[i]] = k}
Cached(k) == hashed[Min(Found(k))]

\* bread has a buffer: it returns a valid one at once and locks another one.
Have(t, b) ==
  IF valid'[b]
    THEN Goto(t, "out") /\ held' = [held EXCEPT ![t][b] = @ + 1] /\ UNCHANGED <<want, lock>>
    ELSE /\ want' = [want EXCEPT ![t] = b]
         /\ IF lock[b] = None THEN lock' = [lock EXCEPT ![b] = t] /\ Goto(t, "reading")
                              ELSE Goto(t, "locking") /\ UNCHANGED lock
         /\ UNCHANGED held

\* The end of getblk: buffer b now stands for block k.
Assign(t, b, k) ==
  /\ block' = [block EXCEPT ![b] = k]
  /\ count' = [count EXCEPT ![b] = 1]
  /\ Have(t, b)

\* get_free_buffer and the rest of bread for block k, which was not cached when
\* getblk looked.
FreeBuffer(t, k) ==
  \/ /\ made < N                                             \* get_new_buffer
     /\ made' = made + 1
     /\ dirty' = [dirty EXCEPT ![made'] = FALSE]
     /\ valid' = [valid EXCEPT ![made'] = FALSE]
     /\ hashed' = <<made'>> \o hashed
     /\ Assign(t, made', k)
     /\ UNCHANGED <<data, free, waiting, slept>>
  \/ /\ made = N /\ free # <<>>                              \* list_popback
     /\ LET b == Last(free)
        IN  /\ free' = Front(free)
            /\ valid' = [valid EXCEPT ![b] = FALSE]
            /\ hashed' = <<b>> \o RemoveFirst(hashed, b)
            /\ Assign(t, b, k)
     /\ UNCHANGED <<made, dirty, data, waiting, slept>>
  \/ /\ made = N /\ free = <<>>                              \* task_block
     /\ waiting' = <<t>> \o waiting
     /\ slept' = slept \cup {k}
     /\ want' = [want EXCEPT ![t] = k]
     /\ Goto(t, "waiting")
     /\ UNCHANGED <<buffers, hashed, free, held>>

References(t) == MapThenSumSet(LAMBDA b : held[t][b], Buffers)

\* bread(dev, k)
Bread(t, k) ==
  /\ pc[t] = "out" /\ References(t) < MaxHeld
  /\ IF Found(k) = {}
       THEN FreeBuffer(t, k)
       ELSE /\ count' = [count EXCEPT ![Cached(k)] = @ + 1]
            /\ free' = RemoveFirst(free, Cached(k))
            /\ UNCHANGED <<made, block, dirty, valid, data, hashed, waiting, slept>>
            /\ Have(t, Cached(k))
  /\ UNCHANGED <<disk, latest>>

\* task_block on wait_list returned: get_free_buffer goes round its loop.
WakeUp(t) ==
  /\ pc[t] = "woken"
  /\ FreeBuffer(t, want[t])
  /\ UNCHANGED <<disk, latest>>

\* lock_acquire returned to bread.
Locked(t) ==
  /\ pc[t] = "locking" /\ lock[want[t]] = None
  /\ IF valid[want[t]]
       THEN /\ held' = [held EXCEPT ![t][want[t]] = @ + 1]
            /\ Goto(t, "out")
            /\ UNCHANGED lock
       ELSE /\ lock' = [lock EXCEPT ![want[t]] = t]
            /\ Goto(t, "reading")
            /\ UNCHANGED held
  /\ UNCHANGED <<made, block, count, dirty, valid, data, lists, want, disk, latest>>

\* The drive reads the block into the buffer.
DriveReads(t) ==
  /\ pc[t] = "reading"
  /\ data' = [data EXCEPT ![want[t]] = disk[block[want[t]]]]
  /\ Goto(t, "read")
  /\ UNCHANGED <<made, block, count, dirty, valid, lock, lists, want, held, disk, latest>>

\* The rest of bread after its device_request.
ReadDone(t) ==
  /\ pc[t] = "read"
  /\ dirty' = [dirty EXCEPT ![want[t]] = FALSE]
  /\ valid' = [valid EXCEPT ![want[t]] = TRUE]
  /\ lock' = [lock EXCEPT ![want[t]] = None]
  /\ held' = [held EXCEPT ![t][want[t]] = @ + 1]
  /\ Goto(t, "out")
  /\ UNCHANGED <<made, block, count, data, lists, want, disk, latest>>

\* A holder changes the contents and sets bf->dirty.
Modify(t, b, v) ==
  /\ pc[t] = "out" /\ held[t][b] > 0
  /\ data' = [data EXCEPT ![b] = v]
  /\ dirty' = [dirty EXCEPT ![b] = TRUE]
  /\ latest' = [latest EXCEPT ![block[b]] = v]
  /\ UNCHANGED <<made, block, count, valid, lock, lists, pc, want, held, disk>>

\* bwrite(b)
Bwrite(t, b) ==
  /\ pc[t] = "out" /\ held[t][b] > 0 /\ dirty[b]
  /\ want' = [want EXCEPT ![t] = b]
  /\ Goto(t, "writing")
  /\ UNCHANGED <<buffers, lists, held, disk, latest>>

BugDropNoWake(t, b) ==
  /\ count' = [count EXCEPT ![b] = @ - 1]
  /\ held' = [held EXCEPT ![t][b] = @ - 1]
  /\ free' = IF count'[b] = 0 THEN <<b>> \o free ELSE free
  /\ Goto(t, "out")
  /\ UNCHANGED waiting

\* brelse once the buffer is clean: its last user frees it and wakes a waiter.
Drop(t, b) ==
  /\ count' = [count EXCEPT ![b] = @ - 1]
  /\ held' = [held EXCEPT ![t][b] = @ - 1]
  /\ free' = IF count'[b] = 0 THEN <<b>> \o free ELSE free
  /\ IF count'[b] = 0 /\ waiting # <<>>
       THEN /\ waiting' = Front(waiting)
            /\ pc' = [pc EXCEPT ![t] = "out", ![Last(waiting)] = "woken"]
       ELSE Goto(t, "out") /\ UNCHANGED waiting

BugBrelseNoWrite(t, b) ==
  /\ pc[t] = "out" /\ held[t][b] > 0
  /\ Drop(t, b)
  /\ UNCHANGED <<made, block, dirty, valid, data, lock, hashed, slept, want, disk, latest>>

\* brelse(b)
Brelse(t, b) ==
  /\ pc[t] = "out" /\ held[t][b] > 0
  /\ IF dirty[b]
       THEN /\ want' = [want EXCEPT ![t] = b]
            /\ Goto(t, "releasing")
            /\ UNCHANGED <<count, free, waiting, held>>
       ELSE Drop(t, b) /\ UNCHANGED want
  /\ UNCHANGED <<made, block, dirty, valid, data, lock, hashed, slept, disk, latest>>

\* The drive writes the buffer to the disk.
DriveWrites(t) ==
  /\ pc[t] \in {"writing", "releasing"}
  /\ disk' = [disk EXCEPT ![block[want[t]]] = data[want[t]]]
  /\ Goto(t, IF pc[t] = "writing" THEN "written" ELSE "released")
  /\ UNCHANGED <<buffers, lists, want, held, latest>>

\* The rest of bwrite after its device_request, and of the brelse that called it.
WriteDone(t) ==
  /\ pc[t] \in {"written", "released"}
  /\ dirty' = [dirty EXCEPT ![want[t]] = FALSE]
  /\ valid' = [valid EXCEPT ![want[t]] = TRUE]
  /\ IF pc[t] = "written" THEN Goto(t, "out") /\ UNCHANGED <<count, free, waiting, held>>
                          ELSE Drop(t, want[t])
  /\ UNCHANGED <<made, block, data, lock, hashed, slept, want, disk, latest>>

Init ==
  /\ made = 0
  /\ block = [b \in Buffers |-> None]
  /\ count = [b \in Buffers |-> 0]
  /\ dirty = [b \in Buffers |-> FALSE] /\ valid = [b \in Buffers |-> FALSE]
  /\ data = [b \in Buffers |-> 0]
  /\ lock = [b \in Buffers |-> None]
  /\ hashed = <<>> /\ free = <<>> /\ waiting = <<>>
  /\ pc = [t \in Tasks |-> "out"]
  /\ want = [t \in Tasks |-> None]
  /\ held = [t \in Tasks |-> [b \in Buffers |-> 0]]
  /\ disk = [k \in Blocks |-> 0] /\ latest = disk /\ slept = {}

Next ==
  \E t \in Tasks :
    \/ \E k \in Uses[t] : Bread(t, k)
    \/ WakeUp(t) \/ Locked(t) \/ DriveReads(t) \/ ReadDone(t)
    \/ \E b \in Buffers : Bwrite(t, b) \/ Brelse(t, b) \/ \E v \in Values : Modify(t, b, v)
    \/ DriveWrites(t) \/ WriteDone(t)

Spec == Init /\ [][Next]_vars
-----------------------------------------------------------------------------
TypeOK ==
  /\ made \in 0 .. N
  /\ block \in [Buffers -> Blocks \cup {None}]
  /\ count \in [Buffers -> Nat]
  /\ dirty \in [Buffers -> BOOLEAN] /\ valid \in [Buffers -> BOOLEAN]
  /\ data \in [Buffers -> Values]
  /\ lock \in [Buffers -> Tasks \cup {None}]
  /\ hashed \in Seq(Buffers) /\ free \in Seq(Buffers) /\ waiting \in Seq(Tasks)
  /\ pc \in [Tasks -> Places]
  /\ want \in [Tasks -> Buffers \cup Blocks \cup {None}]
  /\ held \in [Tasks -> [Buffers -> 0 .. MaxHeld]]
  /\ disk \in [Blocks -> Values] /\ latest \in [Blocks -> Values]
  /\ slept \subseteq Blocks

\* While somebody waits for a buffer, every free one has a task of its own
\* that was woken to take it: no wake-up is lost, even when the buffer it was
\* for is taken by a third task first.
WakeupPerBuffer ==
  waiting # <<>> => Cardinality({t \in Tasks : pc[t] = "woken"}) >= Len(free)

\* A block is in one buffer, unless a task had to wait for a buffer for it:
\* getblk does not look again after it slept.
OneBufferPerBlock ==
  \A i, j \in 1 .. Len(hashed) :
    block[hashed[i]] = block[hashed[j]] => i = j \/ block[hashed[i]] \in slept

\* The only user of a block always sees its last modification, through any
\* number of releases, evictions and reads back.  (With several users the
\* dirty mark of a buffer can be lost while it is written.)
SeesLatest ==
  \A t \in Tasks, b \in Buffers :
    held[t][b] > 0 /\ (\A u \in Tasks \ {t} : block[b] \notin Uses[u])
      => data[b] = latest[block[b]]
=============================================================================
