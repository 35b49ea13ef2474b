----------------------------- MODULE InodeTable -----------------------------
(***************************************************************************)
(* iget and iput of src/fs/inode.c while they wait for a disk: FileTree    *)
(* makes each of them one step, as on a RAM disk.  iget enters the inode   *)
(* into the table and into the list of its super block before bread gets   *)
(* the descriptor, and iput waits for bwrite before it gives up its count, *)
(* so that other tasks come in between.                                    *)
(***************************************************************************)
EXTENDS Integers, FiniteSets

CONSTANTS
  Users,    \* tasks
  Nrs,      \* inode numbers
  Places,   \* slots of inode_table
  NoPlace   \* a null pointer

VARIABLES
  nr,       \* inode->nr of each slot, 0 when it is free (dev = EOF)
  count,    \* inode->count
  filled,   \* slots whose desc is set
  pc, held  \* what each task does, and the slot it uses

Goto(t, where, i) == pc' = [pc EXCEPT ![t] = where] /\ held' = [held EXCEPT ![t] = i]

BugTakeLate(t, n, i) ==
  /\ count' = [count EXCEPT ![i] = 1]
  /\ UNCHANGED <<nr, filled>>
  /\ Goto(t, "reading", i)

\* iget of an inode that is not in memory: slot i is published, and bread
\* waits, or finds the block in the cache.
Take(t, n, i) ==
  /\ nr' = [nr EXCEPT ![i] = n]
  /\ count' = [count EXCEPT ![i] = @ + 1]
  /\ \/ filled' = filled \ {i} /\ Goto(t, "reading", i)
     \/ filled' = filled \cup {i} /\ Goto(t, "using", i)

\* iget.
Get(t, n) ==
  /\ pc[t] = "idle"
  /\ \/ \E i \in Places : /\ nr[i] = n
                          /\ count' = [count EXCEPT ![i] = @ + 1]
                          /\ Goto(t, "using", i) /\ UNCHANGED <<nr, filled>>
     \/ /\ \A i \in Places : nr[i] # n
        /\ \E i \in Places : nr[i] = 0 /\ Take(t, n, i)

\* bread has returned: desc points into the buffer.
Filled(t) ==
  /\ pc[t] = "reading"
  /\ filled' = filled \cup {held[t]}
  /\ Goto(t, "using", held[t]) /\ UNCHANGED <<nr, count>>

\* The rest of iput after the write.  A slot that is freed keeps its desc.
Drop(t) ==
  /\ count' = [count EXCEPT ![held[t]] = @ - 1]
  /\ nr' = IF count[held[t]] = 1 THEN [nr EXCEPT ![held[t]] = 0] ELSE nr
  /\ Goto(t, "idle", NoPlace) /\ UNCHANGED filled

\* iput: a dirty buffer is written first, which waits.
Put(t) ==
  /\ pc[t] = "using"
  /\ \/ Drop(t)
     \/ Goto(t, "writing", held[t]) /\ UNCHANGED <<nr, count, filled>>
Written(t) == pc[t] = "writing" /\ Drop(t)

TableInit ==
  /\ nr = [i \in Places |-> 0] /\ count = [i \in Places |-> 0] /\ filled = {}
  /\ pc = [t \in Users |-> "idle"] /\ held = [t \in Users |-> NoPlace]
TableNext == \E t \in Users :
  (\E n \in Nrs : Get(t, n)) \/ Filled(t) \/ Put(t) \/ Written(t)

\* Two tasks that look for one inode share a slot, also while it is being
\* read, and the slot stays theirs until the last of them has put it.
OneSlotPerInode ==
  /\ \A i, j \in Places : nr[i] # 0 /\ nr[i] = nr[j] => i = j
  /\ \A i \in Places : /\ count[i] = Cardinality({t \in Users : held[t] = i})
                       /\ (count[i] > 0) <=> (nr[i] # 0)
=============================================================================
