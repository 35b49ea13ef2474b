----------------------------- MODULE FileBlocks -----------------------------
(***************************************************************************)
(* The blocks behind files: balloc, bfree and bmap of src/fs/bmap.c,       *)
(* inode_read, inode_write and inode_truncate of inode.c, and the file     *)
(* offsets of file.c, on one device with one open file for each inode.     *)
(* A call is one step, as in FileTree.  Sizes are scaled: a block holds    *)
(* Width characters, or as many indexes.  Characters are numbers, so that  *)
(* a block that holds text can be mistaken for one that holds indexes.     *)
(***************************************************************************)
EXTENDS Integers, FiniteSetsExt, SequencesExt

CONSTANTS
  Inodes,    \* files, numbers
  Width,     \* BLOCK_SIZE and BLOCK_INDEXES
  Direct,    \* DIRECT_BLOCK
  BlockBits, \* BLOCK_BITS, blocks for which a block of the bitmap has bits
  Maps,      \* blocks of the bitmap: sb->desc->zmap_blocks
  FirstData, \* sb->desc->first_datazone
  Zones,     \* sb->desc->zones
  Lengths,   \* how much a call reads or writes
  MaxSize,   \* bound: no file grows longer
  Char(_, _), \* what is written at each place of each file
  Misuse     \* allowed: "hole" leaves a gap in a file, "index" goes on after
             \* an index block was made of a block that holds old data

Blocks == FirstData .. Zones - 1
Offset == FirstData - 1          \* the block of the first bit of the bitmap
Zone   == 0 .. Direct + 1

VARIABLES
  dev,   \* [zone, size: of each inode; data: of each block; map: the bits set;
         \*  stale: history, an index block began with old data; halt]
  pos,   \* file->offset
  want   \* history: the text of each file

Halt(s, why) == [s EXCEPT !.halt = why]
-----------------------------------------------------------------------------
\* balloc: the first bit that is clear in the blocks of the bitmap.
Balloc(s) ==
  LET clear == (Offset .. Offset + Maps * BlockBits - 1) \ s.map
  IN IF clear = {} THEN [s |-> Halt(s, "balloc"), nr |-> 0]
     ELSE [s |-> [s EXCEPT !.map = @ \cup {Min(clear)}], nr |-> Min(clear)]

BugBfreeForgets(s, nr) == IF nr = FirstData THEN s ELSE [s EXCEPT !.map = @ \ {nr}]

\* bfree: the bitmap block is found from nr, its first bit is that of a later
\* block than nr suggests.
Bfree(s, nr) ==
  LET i == Min({k \in 0 .. Maps : nr <= BlockBits * (k + 1) \/ k = Maps})
  IN IF s.halt # "" THEN s
     ELSE IF nr >= Zones \/ i = Maps THEN Halt(s, "bfree")
     ELSE IF nr < i * BlockBits + Offset THEN Halt(s, "bitmap_test")
     ELSE IF nr \notin s.map THEN Halt(s, "bfree bit")
     ELSE [s EXCEPT !.map = @ \ {nr}]

\* The indexes that lead to a block of a file: in the inode, then in blocks.
Route(block) ==
  LET b1 == block - Direct
      b2 == b1 - Width
  IN IF block < Direct THEN <<block>>
     ELSE IF b1 < Width THEN <<Direct, b1>>
     ELSE <<Direct + 1, b2 \div Width, b2 % Width>>

\* Array nr of an inode f: its zones for nr = 0, else block nr.
Array(s, f, nr) == IF nr = 0 THEN s.zone[f] ELSE s.data[nr]
SetArray(s, f, nr, x, value) ==
  IF nr = 0 THEN [s EXCEPT !.zone[f][x] = value] ELSE [s EXCEPT !.data[nr][x] = value]

\* One turn of the loop of bmap: at.nr is the array, then what it holds at x.
Descend(f, create, depth, at, x) ==
  LET held  == Array(at.s, f, at.nr)[x]
      a     == Balloc(at.s)
      stale == at.level < depth /\ \E y \in DOMAIN a.s.data[a.nr] : a.s.data[a.nr][y] # 0
  IN IF at.end THEN at
     ELSE IF held # 0
       THEN [s |-> IF held \in Blocks THEN at.s ELSE Halt(at.s, "device_request"),
             nr |-> held, level |-> at.level + 1, end |-> held \notin Blocks]
     ELSE IF ~ create \/ a.nr = 0 THEN [at EXCEPT !.s = IF create THEN a.s ELSE @, !.nr = 0, !.end = TRUE]
     ELSE [s |-> [SetArray(a.s, f, at.nr, x, a.nr) EXCEPT !.stale = @ \/ stale],
           nr |-> a.nr, level |-> at.level + 1, end |-> FALSE]

\* bmap: [s, nr], nr = 0 when there is no such block.
Bmap(s, f, block, create) ==
  LET route == Route(block)
      r == FoldLeft(LAMBDA at, x : Descend(f, create, Len(route), at, x),
                    [s |-> s, nr |-> 0, level |-> 1, end |-> FALSE], route)
  IN [s |-> r.s, nr |-> IF r.end THEN 0 ELSE r.nr]

\* inode_write, character by character: the loop fills block after block.
WriteChar(f, s, o) ==
  LET b == Bmap(s, f, o \div Width, TRUE)
  IN IF s.halt # "" THEN s
     ELSE IF b.nr = 0 THEN (IF b.s.halt = "" THEN Halt(b.s, "inode_write") ELSE b.s)
     ELSE [b.s EXCEPT !.data[b.nr][o % Width] = Char(f, o),
                      !.size[f] = IF o + 1 > @ THEN o + 1 ELSE @]

\* inode_read of the characters from o on: [s, text].
ReadChar(f, at, o) ==
  LET b == Bmap(at.s, f, o \div Width, FALSE)
  IN IF at.s.halt # "" THEN at
     ELSE IF b.nr = 0 THEN [at EXCEPT !.s = Halt(b.s, "inode_read")]
     ELSE [at EXCEPT !.text = Append(@, b.s.data[b.nr][o % Width])]
Range0(from, n) == [k \in 1 .. n |-> from + k - 1]
ReadText(s, f, from, n) ==
  FoldLeft(LAMBDA at, o : ReadChar(f, at, o), [s |-> s, text |-> << >>], Range0(from, n))

\* The blocks inode_bfree frees below an index, in its order.
Nonzero(s, f, nr, xs) == SelectSeq([k \in 1 .. Len(xs) |-> Array(s, f, nr)[xs[k]]], LAMBDA b : b # 0)
All   == Range0(0, Width)
Below(s, f, nr) == Append(Nonzero(s, f, nr, All), nr)
Below2(s, f, nr) ==
  Append(FlattenSeq([k \in 1 .. Len(Nonzero(s, f, nr, All)) |-> Below(s, f, Nonzero(s, f, nr, All)[k])]), nr)
Owned(s, f) ==
     Nonzero(s, f, 0, Range0(0, Direct))
  \o (IF s.zone[f][Direct] = 0 THEN << >> ELSE Below(s, f, s.zone[f][Direct]))
  \o (IF s.zone[f][Direct + 1] = 0 THEN << >> ELSE Below2(s, f, s.zone[f][Direct + 1]))

BugTruncateKeepsIndex(s, f) ==
  LET t == FoldLeft(Bfree, s, Owned(s, f))
  IN IF t.halt # "" THEN t
     ELSE [t EXCEPT !.zone[f] = [x \in Zone |-> IF x = Direct THEN @[x] ELSE 0], !.size[f] = 0]

\* inode_truncate.
Truncate(s, f) ==
  LET t == FoldLeft(Bfree, s, Owned(s, f))
  IN IF t.halt # "" THEN t
     ELSE [t EXCEPT !.zone[f] = [x \in Zone |-> 0], !.size[f] = 0]
-----------------------------------------------------------------------------
\* bound: what follows an index block with old data is looked at on request.
Going == dev.halt = "" /\ ("index" \in Misuse \/ ~ dev.stale)

\* sys_write at the file's offset.
Write(f, n) ==
  LET t == FoldLeft(LAMBDA s, o : WriteChar(f, s, o), dev, Range0(pos[f], n))
      old == want[f]
      long == IF pos[f] + n > Len(old) THEN pos[f] + n ELSE Len(old)
  IN /\ Going /\ pos[f] + n <= MaxSize
     /\ dev' = t
     /\ pos' = [pos EXCEPT ![f] = @ + n]
     /\ want' = [want EXCEPT ![f] = [k \in 1 .. long |->
                   IF k > pos[f] THEN Char(f, k - 1) ELSE IF k <= Len(old) THEN old[k] ELSE 0]]

\* sys_read; at the end of the file it returns EOF.
Read(f, n) ==
  LET left == dev.size[f] - pos[f]
      r    == ReadText(dev, f, pos[f], IF n < left THEN n ELSE left)
  IN /\ Going /\ left > 0
     /\ dev' = r.s
     /\ pos' = [pos EXCEPT ![f] = @ + Len(r.text)]
     /\ UNCHANGED want

\* sys_lseek.
Seek(f, o) ==
  /\ Going
  /\ "hole" \in Misuse \/ o <= dev.size[f]
  /\ pos' = [pos EXCEPT ![f] = o]
  /\ UNCHANGED <<dev, want>>

\* sys_open with O_TRUNC, or sys_unlink and a new file with the same inode.
Reopen(f) ==
  /\ Going
  /\ dev' = Truncate(dev, f)
  /\ pos' = [pos EXCEPT ![f] = 0]
  /\ want' = [want EXCEPT ![f] = << >>]

BlocksInit ==
  /\ dev = [zone |-> [f \in Inodes |-> [x \in Zone |-> 0]],
            size |-> [f \in Inodes |-> 0],
            data |-> [b \in Blocks |-> [x \in 0 .. Width - 1 |-> 0]],
            map  |-> {Offset} \cup (Zones .. Offset + Maps * BlockBits - 1),
            stale |-> FALSE, halt |-> ""]
  /\ pos = [f \in Inodes |-> 0]
  /\ want = [f \in Inodes |-> << >>]

BlocksNext == \E f \in Inodes :
  \/ \E n \in Lengths : Write(f, n) \/ Read(f, n)
  \/ \E o \in 0 .. MaxSize : Seek(f, o)
  \/ Reopen(f)
-----------------------------------------------------------------------------
\* Every file reads as what was written to it, whatever is written to the
\* others: no two files share a block and none is lost on the way to it; until
\* bmap makes an index block of one that held data, which nobody clears.
FilesIndependent ==
  dev.halt = "" /\ ~ dev.stale => \A f \in Inodes : ReadText(dev, f, 0, dev.size[f]).text = want[f]

\* The bits set in the bitmap are those of the blocks in files, each in one
\* place: truncation and writing neither lose a block nor use one twice, until
\* an index block begins with old data.
BlocksOwnedOnce ==
  dev.halt = "" /\ ~ dev.stale =>
    LET owned == FlattenSeq([k \in 1 .. Cardinality(Inodes) |-> Owned(dev, SetToSeq(Inodes)[k])])
    IN /\ Cardinality(ToSet(owned)) = Len(owned)
       /\ dev.map = ToSet(owned) \cup {Offset} \cup (Zones .. Offset + Maps * BlockBits - 1)

=============================================================================
