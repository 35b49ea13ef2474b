------------------------------- MODULE Inodes -------------------------------
(***************************************************************************)
(* Super blocks, inodes and directory entries: src/fs/super.c, inode.c and *)
(* the parts of bmap.c that number inodes.  The operators work on a record *)
(*   disk    what each device holds: inode bitmap and inode descriptors    *)
(*   table   inode_table, the inodes in memory                             *)
(*   supers  super_table                                                   *)
(*   halt    the assertion or panic that has stopped the kernel, or ""     *)
(* and return the next one.  An operator that yields an inode returns      *)
(* [s, i]; i = 0 is NULL, also when the kernel has stopped.  The blocks    *)
(* behind a file are the subject of FileBlocks: a directory is its         *)
(* sequence of entries here.                                               *)
(***************************************************************************)
EXTENDS Integers, FiniteSetsExt, SequencesExt

CONSTANTS
  Devs,      \* the block devices, numbers from 1
  LastNr,    \* sb->desc->inodes of each device: the last inode number
  InodeNr,   \* INODE_NR, slots of inode_table
  SuperNr    \* SUPER_NR, slots of super_table

Numbers == 1 .. Max({LastNr[d] : d \in Devs})
Slots == 1 .. InodeNr
Root  == 1                 \* get_root_inode
Pipe  == Max(Devs) + 1     \* the device -2 of a pipe's inode

Blank  == [type |-> "none", links |-> 0, perm |-> {}, dev |-> 0, entries |-> << >>]
NoDisk == [formatted |-> FALSE, imap |-> {}, desc |-> [n \in Numbers |-> Blank]]
Free   == [dev |-> 0, nr |-> 0, count |-> 0, mount |-> 0, list |-> 0]
FreeSuper == [dev |-> 0, count |-> 0, iroot |-> 0, imount |-> 0]

Entry(name, nr) == [name |-> name, nr |-> nr]
Halt(s, why) == [s EXCEPT !.halt = why]
Null(s) == [s |-> s, i |-> 0]
Then(result, Rest(_)) == Rest(result)   \* one step after another

\* get_super and get_free_super: the first slot, or 0.
FirstOf(set) == IF set = {} THEN 0 ELSE Min(set)
Super(s, d)  == FirstOf({k \in 1 .. SuperNr : s.supers[k].dev = d})

Desc(s, i) == s.disk[s.table[i].dev].desc[s.table[i].nr]
SetDesc(s, i, desc) == [s EXCEPT !.disk[s.table[i].dev].desc[s.table[i].nr] = desc]
IsDir(s, i) == Desc(s, i).type = "dir"
IsBlk(s, i) == Desc(s, i).type = "blk"
Hold(s, i)  == [s EXCEPT !.table[i].count = @ + 1]
-----------------------------------------------------------------------------
\* iput and put_pipe_inode: the last reference frees the slot.  Its mount
\* field keeps its value; nr is not looked at again.
Iput(s, i) ==
  IF i = 0 THEN s
  ELSE IF s.table[i].count = 1
    THEN IF i = Root THEN Halt(s, "put_free_inode")
         ELSE [s EXCEPT !.table[i] = [Free EXCEPT !.mount = s.table[i].mount]]
    ELSE [s EXCEPT !.table[i].count = @ - 1]

\* fit_inode: the root of the device mounted on inode i instead of i.
Fit(s, i) ==
  LET k    == Super(s, s.table[i].mount)
      down == s.supers[k].iroot
  IN IF s.table[i].mount = 0 THEN [s |-> s, i |-> i]
     ELSE IF k = 0 \/ down = 0 THEN Null(Halt(s, "fit_inode"))
     ELSE [s |-> Hold(Iput(s, i), down), i |-> down]

\* iget: find_inode searches the list of the super block by number alone.
Iget(s, d, nr) ==
  LET k     == Super(s, d)
      found == {i \in Slots : s.table[i].list = k /\ s.table[i].nr = nr}
      free  == FirstOf({i \in Slots : s.table[i].dev = 0})
  IN IF k = 0 \/ nr \notin 1 .. LastNr[d] THEN Null(Halt(s, "iget"))
     ELSE IF found # {} THEN Fit(Hold(s, Min(found)), Min(found))
     ELSE IF free = 0 THEN Null(Halt(s, "no more inode"))
     ELSE [s |-> [s EXCEPT !.table[free] = [@ EXCEPT !.dev = d, !.nr = nr,
                                              !.count = @ + 1, !.list = k]],
           i |-> free]

\* ialloc: the first free bit; bit 0 is not used and the number of the last
\* inode fails the assertion.
Ialloc(s, d) ==
  LET bits == (1 .. LastNr[d]) \ s.disk[d].imap
  IN IF bits = {} \/ Min(bits) = LastNr[d]
       THEN [s |-> Halt(s, "ialloc"), nr |-> 0]
       ELSE [s |-> [s EXCEPT !.disk[d].imap = @ \cup {Min(bits)}], nr |-> Min(bits)]

\* ifree.  What the descriptor keeps is overwritten before it is read again.
Ifree(s, d, nr) ==
  IF nr \in s.disk[d].imap
    THEN [s EXCEPT !.disk[d].imap = @ \ {nr}, !.disk[d].desc[nr] = Blank]
                           ELSE Halt(s, "ifree")

\* new_inode, with what its callers write into the descriptor afterwards.
NewInode(s, d, nr, desc) ==
  Then(Iget(s, d, nr), LAMBDA g :
    IF g.i = 0 THEN g ELSE [s |-> SetDesc(g.s, g.i, desc), i |-> g.i])

\* get_pipe_inode.
PipeInode(s) ==
  LET free == FirstOf({i \in Slots : s.table[i].dev = 0})
  IN IF free = 0 THEN Null(Halt(s, "no more inode"))
     ELSE [s |-> [s EXCEPT !.table[free] = [@ EXCEPT !.dev = Pipe, !.count = 2]], i |-> free]
-----------------------------------------------------------------------------
\* put_super: the inodes are put.  iroot and imount keep their values; only
\* that of imount is read before it is set again.
PutSuper(s, k) ==
  IF k = 0 THEN s
  ELSE LET u == [s EXCEPT !.supers[k].count = @ - 1]
       IN IF u.supers[k].count # 0 THEN u
          ELSE Iput(Iput([u EXCEPT !.supers[k].dev = 0, !.supers[k].iroot = 0], u.supers[k].imount),
                    u.supers[k].iroot)

\* read_super.
ReadSuper(s, d) ==
  LET k    == Super(s, d)
      free == Super(s, 0)
  IN IF k # 0 THEN [s |-> [s EXCEPT !.supers[k].count = @ + 1], k |-> k]
     ELSE IF free = 0 THEN [s |-> Halt(s, "no more super block"), k |-> 0]
     ELSE IF ~ s.disk[d].formatted THEN [s |-> Halt(s, "magic"), k |-> 0]
     ELSE [s |-> [s EXCEPT !.supers[free] = [@ EXCEPT !.dev = d, !.count = 1]], k |-> free]

RootDir == [Blank EXCEPT !.type = "dir", !.links = 2, !.perm = {"r", "w", "x"},
                         !.entries = <<Entry(".", 1), Entry("..", 1)>>]

\* devmkfs: an empty file system on d, through a super block of its own.
DevMkfs(s, d) ==
  LET k == Super(s, 0)
      u == [s EXCEPT !.supers[k] = [@ EXCEPT !.dev = d, !.count = 1],
                     !.disk[d] = [@ EXCEPT !.formatted = TRUE, !.imap = {1}]]
  IN IF k = 0 THEN Halt(s, "no more super block")
     ELSE Then(NewInode(u, d, 1, RootDir), LAMBDA n :
            IF n.i = 0 THEN n.s ELSE PutSuper([n.s EXCEPT !.supers[k].iroot = n.i], k))

\* The rest of sys_mount once its arguments are found: d on directory i.
Attach(s, d, i) ==
  Then(ReadSuper(s, d), LAMBDA r :
    IF r.k = 0 THEN r.s
    ELSE Then(Iget(r.s, d, 1), LAMBDA g :
           IF g.i = 0 THEN g.s
           ELSE [g.s EXCEPT !.supers[r.k] = [@ EXCEPT !.iroot = g.i, !.imount = i],
                            !.table[i].mount = d]))

BugDetachKeepsMount(s, k) ==
  LET u == Iput([s EXCEPT !.supers[k].iroot = 0], s.supers[k].iroot)
  IN Iput([u EXCEPT !.supers[k].imount = 0], u.supers[k].imount)

\* The rest of sys_umount once super block k is found idle.
Detach(s, k) ==
  LET u == Iput([s EXCEPT !.supers[k].iroot = 0], s.supers[k].iroot)
      m == u.supers[k].imount
  IN Iput([u EXCEPT !.supers[k].imount = 0, !.table[m].mount = 0], m)

\* mount_root: the root is mounted on itself.
MountRoot(s, d) ==
  Then(ReadSuper(s, d), LAMBDA r :
    Then(Iget(r.s, d, 1), LAMBDA g :
      Then(Iget(g.s, d, 1), LAMBDA h :
        [h.s EXCEPT !.supers[r.k] = [@ EXCEPT !.iroot = g.i, !.imount = h.i],
                    !.table[g.i].mount = d])))
=============================================================================
