----------------------------- MODULE FileSystem -----------------------------
(***************************************************************************)
(* The file system, for TLC: the calls of tasks (FileTree), the blocks     *)
(* behind files (FileBlocks) and the inode table while a disk is slow      *)
(* (InodeTable).  The three share no state: a behaviour makes the calls of *)
(* one scope, which names groups of FileTree's calls, or "blocks", or      *)
(* "table".                                                                *)
(***************************************************************************)
EXTENDS FileTree

CONSTANTS
  Inodes, Width, Direct, BlockBits, Maps, FirstData, Zones, Lengths, MaxSize,
  Users, Nrs, Places, NoPlace

\* inode numbers begin with 1; a null pointer is no slot of inode_table.
ASSUME InodeTableAssumption ==
  IsFiniteSet(Users) /\ Nrs \subseteq Nat \ {0} /\ NoPlace \notin Places

VARIABLES dev, pos, want, nr, count, filled, pc, held

Char(f, o) == 3 + ((o + f) % 4)
B == INSTANCE FileBlocks
I == INSTANCE InodeTable

blocks == <<dev, pos, want>>
inodes == <<nr, count, filled, pc, held>>

Init == TreeInit /\ B!BlocksInit /\ I!TableInit
Next ==
  \/ TreeNext /\ UNCHANGED <<blocks, inodes>>
  \/ "blocks" \in scope /\ B!BlocksNext /\ UNCHANGED <<treevars, inodes>>
  \/ "table" \in scope /\ I!TableNext /\ UNCHANGED <<treevars, blocks>>
Spec == Init /\ [][Next]_<<treevars, blocks, inodes>>

Md == Path(TRUE, <<"dev", "md">>)
MCPaths == {Md, Path(TRUE, <<"dev">>), Path(TRUE, << >>), Path(TRUE, <<"a">>), Path(FALSE, <<"..">>)}
MCNewPaths == {Path(TRUE, <<"a">>), Path(TRUE, <<"a", "b">>), Path(FALSE, <<"b">>)}
MCWants == {{"r"}, {"r", "w"}}
MCLastNr == <<5, 4, 3>>
MCScopes == {{"files", "dups"}, {"dups", "tasks"}, {"files", "tasks"},
             {"files", "tree"}, {"tree", "dirs", "roots"},
             {"tree", "dirs", "mounts"}, {"dirs", "roots", "tasks"}, {"blocks"}, {"table"}}

\* Every file reads as what was written to it: see FileBlocks.
FilesIndependent == B!FilesIndependent
\* Truncation and writing neither lose a block nor use one twice.
BlocksOwnedOnce == B!BlocksOwnedOnce
\* Tasks that look for one inode share one slot: see InodeTable.
OneSlotPerInode == I!OneSlotPerInode
=============================================================================
