------------------------------- MODULE Names --------------------------------
(***************************************************************************)
(* Path names: src/fs/namei.c on the file systems of module Inodes.  A     *)
(* path is a sequence of names, absolute or relative to a directory; every *)
(* lookup returns [s, i], with the reference it holds on inode i.          *)
(***************************************************************************)
EXTENDS Inodes

\* permission, for the owner of every file: all user tasks have one uid.
Permission(s, i, mask) == Desc(s, i).links # 0 /\ mask \subseteq Desc(s, i).perm

Used(desc, name) == {k \in DOMAIN desc.entries :
                       desc.entries[k].name = name /\ desc.entries[k].nr # 0}

\* find_entry: [s, i, nr], where i is the directory searched, another one
\* when ".." leaves a mounted device; nr = 0 when there is no such entry.
FindEntry(s, i, name) ==
  LET k    == Super(s, s.table[i].dev)
      up   == name = ".." /\ s.table[i].nr = 1
      over == s.supers[k].imount
      u    == IF up THEN Iput(Hold(s, over), i) ELSE s
      dir  == IF up THEN over ELSE i
      hits == Used(Desc(u, dir), name)
  IN [s |-> u, i |-> dir,
      nr |-> IF hits = {} THEN 0 ELSE Desc(u, dir).entries[Min(hits)].nr]

\* add_entry: the first free entry, or a new one at the end.
AddEntry(s, i, name, nr) ==
  LET desc == Desc(s, i)
      free == {k \in DOMAIN desc.entries : desc.entries[k].nr = 0}
  IN SetDesc(s, i, [desc EXCEPT !.entries =
       IF free = {} THEN Append(@, Entry(name, nr)) ELSE [@ EXCEPT ![Min(free)] = Entry(name, nr)]])

\* entry->nr = 0, after which the name counts for nothing.
DropEntry(s, i, name) ==
  SetDesc(s, i, [Desc(s, i) EXCEPT !.entries[Min(Used(Desc(s, i), name))] = Entry("", 0)])

AddLinks(s, i, n) == SetDesc(s, i, [Desc(s, i) EXCEPT !.links = @ + n])

\* inode_truncate; the blocks are in FileBlocks.
Truncate(s, i) ==
  IF Desc(s, i).type \in {"file", "dir"}
    THEN SetDesc(s, i, [Desc(s, i) EXCEPT !.entries = << >>]) ELSE s

\* One turn of the loop of named.
WalkInto(at, name) ==
  IF at.i = 0 THEN at
  ELSE Then(FindEntry(at.s, at.i, name), LAMBDA e :
    IF e.nr = 0 THEN Null(Iput(e.s, e.i))
    ELSE Then(Iget(Iput(e.s, e.i), e.s.table[e.i].dev, e.nr), LAMBDA g :
      IF g.i = 0 THEN g
      ELSE IF IsDir(g.s, g.i) /\ Permission(g.s, g.i, {"x"}) THEN g
      ELSE Null(Iput(g.s, g.i))))

\* named: the directory that holds the last name of a path.
Named(s, from, names) ==
  FoldLeft(WalkInto, [s |-> Hold(s, from), i |-> from],
           IF names = << >> THEN names ELSE Front(names))

\* named and find_entry, the beginning of most calls: [s, i, nr].
Seek(s, from, names) ==
  Then(Named(s, from, names), LAMBDA d :
    IF d.i = 0 \/ names = << >> THEN [s |-> d.s, i |-> d.i, nr |-> 0]
    ELSE FindEntry(d.s, d.i, Last(names)))

\* iget of the entry that was found.
Fetch(e) == Iget(e.s, e.s.table[e.i].dev, e.nr)

\* namei: the inode a path names.
Namei(s, from, names) ==
  Then(Seek(s, from, names), LAMBDA e :
    IF e.i = 0 \/ names = << >> THEN [s |-> e.s, i |-> e.i]
    ELSE IF e.nr = 0 THEN Null(Iput(e.s, e.i))
    ELSE Then(Fetch(e), LAMBDA g :
           IF g.i = 0 THEN g ELSE [s |-> Iput(g.s, e.i), i |-> g.i]))
-----------------------------------------------------------------------------
\* add_entry, ialloc and new_inode: a new inode under name in directory i.
Create(s, i, name, desc) ==
  Then(Ialloc(s, s.table[i].dev), LAMBDA a :
    IF a.nr = 0 THEN Null(a.s)
    ELSE NewInode(AddEntry(a.s, i, name, a.nr), s.table[i].dev, a.nr, desc))

\* What a call leaves behind when it stops at e with nothing done, or when
\* it is done with inodes i and j.
GiveUp(e) == Iput(e.s, e.i)
Done(s, i, j) == Iput(Iput(s, i), j)

CanAdd(e, names) ==
  e.i # 0 /\ names # << >> /\ e.nr = 0 /\ Permission(e.s, e.i, {"w"})
CanDrop(e, names) ==
  e.i # 0 /\ names # << >> /\ e.nr # 0 /\ Permission(e.s, e.i, {"w"})

\* The descriptor of a new directory in directory i.
NewDir(s, i) ==
  [RootDir EXCEPT !.entries[1].nr = Min(Numbers \ s.disk[s.table[i].dev].imap),
                  !.entries[2].nr = s.table[i].nr]

\* sys_mkdir.
Mkdir(s, from, names) ==
  Then(Seek(s, from, names), LAMBDA e :
    IF ~ CanAdd(e, names) THEN GiveUp(e)
    ELSE Then(Create(e.s, e.i, Last(names), NewDir(e.s, e.i)), LAMBDA n :
           IF n.i = 0 THEN n.s ELSE Done(AddLinks(n.s, e.i, 1), n.i, e.i)))

\* sys_mknod.
Mknod(s, from, names, desc) ==
  Then(Seek(s, from, names), LAMBDA e :
    IF ~ CanAdd(e, names) THEN GiveUp(e)
    ELSE Then(Create(e.s, e.i, Last(names), desc), LAMBDA n :
           IF n.i = 0 THEN n.s ELSE Done(n.s, n.i, e.i)))

\* is_empty.
IsEmpty(desc) == Cardinality({k \in DOMAIN desc.entries : desc.entries[k].nr # 0}) = 2

BugRemoveKeepsLink(s, g, i) ==
  LET e == s.table[g]
      u == Ifree(Truncate(s, g), e.dev, e.nr)
  IN SetDesc(u, g, [Desc(u, g) EXCEPT !.links = 0])

\* Directory g, in directory i, is removed: it loses its blocks, its number
\* and its links, and i the link of "..".
RemoveInode(s, g, i) ==
  LET e == s.table[g]
      u == Ifree(Truncate(s, g), e.dev, e.nr)
  IN AddLinks(SetDesc(u, g, [Desc(u, g) EXCEPT !.links = 0]), i, 0-1)

\* sys_rmdir.  The restricted-deletion bit never bites with one uid.
Rmdir(s, from, names) ==
  Then(Seek(s, from, names), LAMBDA e :
    IF ~ CanDrop(e, names) THEN GiveUp(e)
    ELSE Then(Fetch(e), LAMBDA g :
      IF g.i = 0 THEN g.s
      ELSE IF \/ g.i = e.i
              \/ ~ IsDir(g.s, g.i)
              \/ g.s.table[g.i].dev # g.s.table[e.i].dev
              \/ g.s.table[g.i].count > 1
              \/ ~ IsEmpty(Desc(g.s, g.i))
        THEN Done(g.s, g.i, e.i)
      ELSE Done([DropEntry(RemoveInode(g.s, g.i, e.i), e.i, Last(names)) EXCEPT !.table[g.i].nr = 0],
                g.i, e.i)))

\* sys_link: the inode that old names gets a second name, from2 and new.
Link(s, from, old, from2, new) ==
  Then(Namei(s, from, old), LAMBDA o :
    IF o.i = 0 THEN o.s
    ELSE IF IsDir(o.s, o.i) THEN Iput(o.s, o.i)
    ELSE Then(Named(o.s, from2, new), LAMBDA d :
      IF \/ d.i = 0 \/ new = << >>
         \/ d.s.table[d.i].dev # d.s.table[o.i].dev
         \/ ~ Permission(d.s, d.i, {"w"})
        THEN Done(d.s, o.i, d.i)
      ELSE Then(FindEntry(d.s, d.i, Last(new)), LAMBDA e :
        IF e.nr # 0 THEN Done(e.s, o.i, e.i)
        ELSE Done(AddLinks(AddEntry(e.s, e.i, Last(new), e.s.table[o.i].nr), o.i, 1), o.i, e.i))))

BugUnlinkFrees(s, from, names) ==
  Then(Seek(s, from, names), LAMBDA e :
    IF ~ CanDrop(e, names) THEN GiveUp(e)
    ELSE Then(Fetch(e), LAMBDA g :
      IF g.i = 0 THEN g.s
      ELSE IF IsDir(g.s, g.i) THEN Done(g.s, g.i, e.i)
      ELSE Done(Ifree(AddLinks(DropEntry(g.s, e.i, Last(names)), g.i, 0-1),
                      g.s.table[g.i].dev, g.s.table[g.i].nr), g.i, e.i)))

\* sys_unlink: the last name frees the inode, open or not.
Unlink(s, from, names) ==
  Then(Seek(s, from, names), LAMBDA e :
    IF ~ CanDrop(e, names) THEN GiveUp(e)
    ELSE Then(Fetch(e), LAMBDA g :
      IF g.i = 0 THEN g.s
      ELSE IF IsDir(g.s, g.i) THEN Done(g.s, g.i, e.i)
      ELSE Then(AddLinks(DropEntry(g.s, e.i, Last(names)), g.i, 0-1), LAMBDA u :
        Done(IF Desc(u, g.i).links # 0 THEN u
             ELSE Ifree(Truncate(u, g.i), u.table[g.i].dev, u.table[g.i].nr), g.i, e.i))))

\* The inode inode_open finds or, if it is not there, makes.
FindOrMake(e, names) ==
  IF e.nr # 0 THEN Fetch(e)
  ELSE Create(e.s, e.i, Last(names),
              [Blank EXCEPT !.type = "file", !.links = 1, !.perm = {"r", "w"}])

\* inode_open: [s, i].  Truncation asks for writing as well as reading.
InodeOpen(s, from, names, want, create, trunc) ==
  LET acc == IF trunc /\ want = {"r"} THEN {"r", "w"} ELSE want
  IN Then(Seek(s, from, names), LAMBDA e :
    IF e.i = 0 \/ names = << >> THEN [s |-> e.s, i |-> e.i]
    ELSE IF e.nr = 0 /\ ~ (create /\ CanAdd(e, names)) THEN Null(GiveUp(e))
    ELSE Then(FindOrMake(e, names), LAMBDA n :
      IF n.i = 0 THEN n
      ELSE IF ~ Permission(n.s, n.i, acc) \/ (IsDir(n.s, n.i) /\ acc # {"r"})
        THEN Null(Done(n.s, e.i, n.i))
      ELSE [s |-> Iput(IF trunc THEN Truncate(n.s, n.i) ELSE n.s, e.i), i |-> n.i]))

BugAbspathAppends(text, path) ==
  LET Step(sofar, name) ==
        IF name = "." THEN sofar
        ELSE IF name = ".." THEN IF sofar = << >> THEN sofar ELSE Front(sofar)
        ELSE Append(sofar, name)
  IN FoldLeft(Step, text, path.names)

\* abspath: the text of the working directory after a chdir.
Abspath(text, path) ==
  LET Step(sofar, name) ==
        IF name = "." THEN sofar
        ELSE IF name = ".." THEN IF sofar = << >> THEN sofar ELSE Front(sofar)
        ELSE Append(sofar, name)
  IN FoldLeft(Step, IF path.abs THEN << >> ELSE text, path.names)
=============================================================================
