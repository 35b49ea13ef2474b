-------------------------- MODULE FileSystemProofs --------------------------
(***************************************************************************)
(* Proofs about the file system.                                           *)
(*                                                                         *)
(* The inode table while tasks wait for a disk, for any numbers of tasks,  *)
(* inodes and slots.                                                       *)
(***************************************************************************)
EXTENDS FileSystem, FiniteSetTheorems, TLAPS

TableTypes ==
  /\ nr \in [Places -> Nrs \cup {0}]
  /\ count \in [Places -> Nat]
  /\ pc \in [Users -> {"idle", "reading", "using", "writing"}]
  /\ held \in [Users -> Places \cup {NoPlace}]
  /\ \A t \in Users : pc[t] = "idle" <=> held[t] = NoPlace

\* The tasks that hold slot i.
Holders(i) == {t \in Users : held[t] = i}

TableInv == TableTypes /\ OneSlotPerInode

LEMMA HoldersFinite ==
  ASSUME NEW i PROVE IsFiniteSet(Holders(i)) /\ Cardinality(Holders(i)) \in Nat
BY InodeTableAssumption, FS_Subset, FS_CardinalityType DEF Holders

\* A task that takes hold of slot i, or lets it go, is one holder more or less
\* of that slot and changes no other.
LEMMA HolderMore ==
  ASSUME TableTypes, NEW t \in Users, held[t] = NoPlace, NEW i \in Places,
         held' = [held EXCEPT ![t] = i]
  PROVE  \A j \in Places : Cardinality(Holders(j)') =
           IF j = i THEN Cardinality(Holders(j)) + 1 ELSE Cardinality(Holders(j))
<1>1. t \notin Holders(i)
  BY InodeTableAssumption DEF Holders
<1>2. Holders(i)' = Holders(i) \cup {t}
  BY DEF Holders, TableTypes
<1>3. \A j \in Places \ {i} : Holders(j)' = Holders(j)
  BY InodeTableAssumption DEF Holders, TableTypes
<1>4. Cardinality(Holders(i) \cup {t}) = Cardinality(Holders(i)) + 1
  BY <1>1, HoldersFinite, FS_AddElement
<1> QED
  BY <1>2, <1>3, <1>4

LEMMA HolderLess ==
  ASSUME TableTypes, NEW t \in Users, held[t] \in Places,
         held' = [held EXCEPT ![t] = NoPlace]
  PROVE  \A j \in Places : Cardinality(Holders(j)') =
           IF j = held[t] THEN Cardinality(Holders(j)) - 1 ELSE Cardinality(Holders(j))
<1>1. t \in Holders(held[t])
  BY DEF Holders
<1>2. \A j \in Places : Holders(j)' = IF j = held[t] THEN Holders(j) \ {t} ELSE Holders(j)
  BY InodeTableAssumption DEF Holders, TableTypes
<1>3. Cardinality(Holders(held[t]) \ {t}) = Cardinality(Holders(held[t])) - 1
  BY <1>1, HoldersFinite, FS_RemoveElement
<1> QED
  BY <1>2, <1>3

\* The two names of one operator.
LEMMA SameCardinality == \A S : I!Cardinality(S) = Cardinality(S)
BY DEF Cardinality, I!Cardinality

\* The invariant in terms of Holders.
LEMMA SlotFacts ==
  TableInv <=> /\ TableTypes
               /\ \A i, j \in Places : nr[i] # 0 /\ nr[i] = nr[j] => i = j
               /\ \A i \in Places : /\ count[i] = Cardinality(Holders(i))
                                    /\ (count[i] > 0) <=> (nr[i] # 0)
BY SameCardinality DEF TableInv, OneSlotPerInode, I!OneSlotPerInode, Holders

LEMMA SlotFactsNext ==
  TableInv' <=> /\ TableTypes'
                /\ \A i, j \in Places : nr'[i] # 0 /\ nr'[i] = nr'[j] => i = j
                /\ \A i \in Places : /\ count'[i] = Cardinality(Holders(i)')
                                     /\ (count'[i] > 0) <=> (nr'[i] # 0)
BY SameCardinality DEF TableInv, OneSlotPerInode, I!OneSlotPerInode, Holders

LEMMA TableStart == I!TableInit => TableInv
<1> SUFFICES ASSUME I!TableInit PROVE TableInv
  OBVIOUS
<1>1. TableTypes
  BY InodeTableAssumption DEF I!TableInit, TableTypes
<1>2. \A i \in Places : Holders(i) = {}
  BY InodeTableAssumption DEF Holders, I!TableInit
<1>3. \A i \in Places : count[i] = Cardinality(Holders(i)) /\ nr[i] = 0 /\ count[i] = 0
  BY <1>2, FS_EmptySet DEF I!TableInit
<1> QED
  BY <1>1, <1>3, SlotFacts

\* A slot that is held counts its holders, so it is not a free one.
LEMMA HeldIsCounted ==
  ASSUME TableInv, NEW t \in Users, held[t] \in Places
  PROVE  count[held[t]] > 0 /\ nr[held[t]] # 0
<1>1. t \in Holders(held[t])
  BY DEF Holders
<1>2. Cardinality(Holders(held[t])) > 0
  BY <1>1, HoldersFinite, FS_EmptySet
<1> QED
  BY <1>2, SlotFacts

LEMMA TableStep == TableInv /\ [I!TableNext]_inodes => TableInv'
<1> SUFFICES ASSUME TableInv, [I!TableNext]_inodes PROVE TableInv'
  OBVIOUS
<1> USE InodeTableAssumption
<1>1. ASSUME NEW t \in Users, NEW n \in Nrs, I!Get(t, n) PROVE TableInv'
  <2>1. pc[t] = "idle" /\ held[t] = NoPlace
    BY <1>1, SlotFacts DEF I!Get, TableTypes
  <2>2. ASSUME NEW i \in Places, nr[i] = n, count' = [count EXCEPT ![i] = @ + 1],
               I!Goto(t, "using", i), UNCHANGED <<nr, filled>>
        PROVE  TableInv'
    <3>1. TableTypes'
      BY <2>2, SlotFacts DEF TableTypes, I!Goto
    <3>2. \A j \in Places : Cardinality(Holders(j)') =
             IF j = i THEN Cardinality(Holders(j)) + 1 ELSE Cardinality(Holders(j))
      BY <2>1, <2>2, HolderMore, SlotFacts DEF I!Goto
    <3> QED
      BY <2>2, <3>1, <3>2, SlotFacts, SlotFactsNext, HoldersFinite DEF TableTypes
  <2>3. ASSUME NEW i \in Places, nr[i] = 0, \A j \in Places : nr[j] # n, I!Take(t, n, i)
        PROVE  TableInv'
    <3>1. TableTypes'
      BY <2>3, SlotFacts DEF TableTypes, I!Take, I!Goto
    <3>2. \A j \in Places : Cardinality(Holders(j)') =
             IF j = i THEN Cardinality(Holders(j)) + 1 ELSE Cardinality(Holders(j))
      BY <2>1, <2>3, HolderMore, SlotFacts DEF I!Take, I!Goto
    <3>3. /\ nr' = [nr EXCEPT ![i] = n] /\ count' = [count EXCEPT ![i] = @ + 1] /\ n # 0
      BY <2>3 DEF I!Take
    <3> QED
      BY <2>3, <3>1, <3>2, <3>3, SlotFacts, SlotFactsNext, HoldersFinite DEF TableTypes
  <2> QED
    BY <1>1, <2>2, <2>3 DEF I!Get
<1>2. ASSUME NEW t \in Users, held' = held, UNCHANGED <<nr, count>>, pc[t] # "idle",
             \E where \in {"using", "writing"} : pc' = [pc EXCEPT ![t] = where]
      PROVE  TableInv'
  BY <1>2, SlotFacts, SlotFactsNext DEF TableTypes, Holders
<1>3. ASSUME NEW t \in Users, I!Filled(t) PROVE TableInv'
  <2>1. held' = held
    BY <1>3, SlotFacts DEF I!Filled, I!Goto, TableTypes
  <2> QED
    BY <1>2, <1>3, <2>1 DEF I!Filled, I!Goto
<1>4. ASSUME NEW t \in Users, pc[t] # "idle", I!Drop(t) PROVE TableInv'
  <2>1. held[t] \in Places /\ held' = [held EXCEPT ![t] = NoPlace]
    BY <1>4, SlotFacts DEF TableTypes, I!Drop, I!Goto
  <2>2. count[held[t]] > 0 /\ nr[held[t]] # 0
    BY <2>1, HeldIsCounted
  <2>3. TableTypes'
    BY <1>4, <2>1, <2>2, SlotFacts DEF TableTypes, I!Drop, I!Goto
  <2>4. \A j \in Places : Cardinality(Holders(j)') =
           IF j = held[t] THEN Cardinality(Holders(j)) - 1 ELSE Cardinality(Holders(j))
    BY <2>1, HolderLess, SlotFacts
  <2> QED
    BY <1>4, <2>1, <2>2, <2>3, <2>4, SlotFacts, SlotFactsNext, HoldersFinite DEF TableTypes, I!Drop
<1>5. ASSUME NEW t \in Users, I!Put(t) PROVE TableInv'
  <2>1. CASE I!Drop(t)
    BY <1>4, <1>5, <2>1 DEF I!Put
  <2>2. CASE I!Goto(t, "writing", held[t]) /\ UNCHANGED <<nr, count, filled>>
    <3>1. held' = held
      BY <2>2, SlotFacts DEF I!Goto, TableTypes
    <3> QED
      BY <1>2, <1>5, <2>2, <3>1 DEF I!Put, I!Goto
  <2> QED
    BY <1>5, <2>1, <2>2 DEF I!Put
<1>6. ASSUME NEW t \in Users, I!Written(t) PROVE TableInv'
  BY <1>4, <1>6 DEF I!Written
<1>7. CASE UNCHANGED inodes
  BY <1>7, SlotFacts, SlotFactsNext DEF inodes, TableTypes, Holders
<1> QED
  BY <1>1, <1>3, <1>5, <1>6, <1>7 DEF I!TableNext

\* inode.c: for any numbers of tasks, inodes and slots, tasks that look for one
\* inode share one slot, also while it is being read or written, and it is free
\* exactly when nobody holds it.
THEOREM InodeHasOneSlot == Spec => []OneSlotPerInode
<1>1. Init => TableInv
  BY TableStart DEF Init
<1>2. [Next]_<<treevars, blocks, inodes>> => [I!TableNext]_inodes
  BY DEF Next
<1>3. TableInv => OneSlotPerInode
  BY DEF TableInv
<1> QED
  BY <1>1, <1>2, <1>3, TableStep, PTL DEF Spec
=============================================================================
