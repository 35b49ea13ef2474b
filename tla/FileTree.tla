------------------------------ MODULE FileTree ------------------------------
(***************************************************************************)
(* The file system calls of tasks: src/fs/file.c, stat.c, dev.c, the calls *)
(* of namei.c and super.c, sys_pipe, and what task_fork and task_exit do   *)
(* to files and directories.                                               *)
(*                                                                         *)
(* On a RAM disk no call sleeps, and the kernel is not preempted, so that  *)
(* a call is one step.  (What can happen while a call waits for a disk is  *)
(* the subject of InodeTable and BufferCache.)  The devices are those of a *)
(* booted system: the root, a RAM disk on /dev, and the rest, which /dev   *)
(* names.                                                                  *)
(***************************************************************************)
EXTENDS Names

CONSTANTS
  Tasks,    \* the first of them is there from the start
  First,
  Paths,    \* the paths of calls: [abs, names]
  NewPaths, \* those of calls that make or remove an entry
  Wants,    \* the access modes of open
  FileNr,   \* FILE_NR, entries of file_table: 0 is the standard file
  Scopes,   \* bound: the groups of calls that one behaviour makes
  Misuse    \* the misuses of mounting that are allowed: {} or {"mount"}

Fds   == 0 .. FileNr - 1      \* TASK_FILE_NR descriptors of a task
Files == 0 .. FileNr - 1
NoFile == [count |-> 0, inode |-> 0]
Path(abs, names) == [abs |-> abs, names |-> names]

VARIABLES
  fs,        \* disk, table, supers, halt: see Inodes
  alive,     \* the tasks there are
  pwd, root, \* task->ipwd and task->iroot
  text,      \* task->pwd, the name of the working directory
  fds,       \* task->files: indexes into file_table, or -1
  files,     \* file_table
  jailed,    \* history: tasks that have called chroot, and their children
  scope      \* the groups of calls this behaviour makes

taskvars == <<alive, pwd, root, text, fds, jailed>>
treevars == <<fs, taskvars, files, scope>>

\* Where task t starts to look for a path.
Start(t, p) == IF p.abs THEN root[t] ELSE pwd[t]
Running(t)  == fs.halt = "" /\ t \in alive
-----------------------------------------------------------------------------
\* get_file and task_get_fd: the first free file and descriptor after the
\* standard ones, or -1.
GetFile(table) ==
  LET free == {f \in Files \ {0} : table[f].count = 0}
  IN IF free = {} THEN -1 ELSE Min(free)
GetFd(own) ==
  LET free == {d \in Fds \ {0} : own[d] = -1} IN IF free = {} THEN -1 ELSE Min(free)

\* sys_open and, with create and trunc, sys_create.
Open(t, p, want, create, trunc) ==
  LET d == GetFd(fds[t])
      f == GetFile(files)
  IN /\ Running(t)
     /\ \E o \in {InodeOpen(fs, Start(t, p), p.names, want, create, trunc)} :
        IF o.i # 0 /\ d # -1 /\ f # -1
          THEN /\ fs' = o.s
               /\ fds' = [fds EXCEPT ![t][d] = f]
               /\ files' = [files EXCEPT ![f] = [count |-> 1, inode |-> o.i]]
          ELSE /\ fs' = IF o.i = 0 THEN o.s ELSE Halt(o.s, "files")
               /\ UNCHANGED <<fds, files>>
     /\ UNCHANGED <<alive, pwd, root, text, jailed>>

\* put_file on the file f of a table, [s, files].
PutFile(at, f) ==
  IF at.files[f].count = 1
    THEN [s |-> Iput(at.s, at.files[f].inode), files |-> [at.files EXCEPT ![f] = NoFile]]
    ELSE [at EXCEPT !.files[f].count = @ - 1]

\* sys_close.
Close(t, d) ==
  LET c == PutFile([s |-> fs, files |-> files], fds[t][d])
  IN /\ Running(t) /\ fds[t][d] # -1
     /\ fs' = c.s /\ files' = c.files
     /\ fds' = [fds EXCEPT ![t][d] = -1]
     /\ UNCHANGED <<alive, pwd, root, text, jailed>>

\* sys_dup, without new, and sys_dup2, which closes new first: dupfd.
Dup(t, d, new, two) ==
  LET open  == two /\ fds[t][new] # -1
      c     == IF open THEN PutFile([s |-> fs, files |-> files], fds[t][new])
               ELSE [s |-> fs, files |-> files]
      own   == IF open THEN [fds[t] EXCEPT ![new] = -1] ELSE fds[t]
      free  == {x \in Fds : x >= new /\ own[x] = -1}
  IN /\ Running(t) /\ fds[t][d] # -1
     /\ fs' = c.s
     /\ IF own[d] = -1 \/ free = {}
          THEN fds' = [fds EXCEPT ![t] = own] /\ files' = c.files
          ELSE /\ fds' = [fds EXCEPT ![t] = [own EXCEPT ![Min(free)] = own[d]]]
               /\ files' = [c.files EXCEPT ![own[d]].count = @ + 1]
     /\ UNCHANGED <<alive, pwd, root, text, jailed>>

\* sys_pipe: two files on one inode.
MakePipe(t) ==
  LET n  == PipeInode(fs)
      f1 == GetFile(files)
      d1 == GetFd(fds[t])
      f2 == GetFile([files EXCEPT ![f1].count = 1])
      d2 == GetFd([fds[t] EXCEPT ![d1] = f1])
  IN /\ Running(t)
     /\ IF n.i # 0 /\ f1 # -1 /\ d1 # -1 /\ f2 # -1 /\ d2 # -1
          THEN /\ fs' = n.s
               /\ fds' = [fds EXCEPT ![t] = [@ EXCEPT ![d1] = f1, ![d2] = f2]]
               /\ files' = [files EXCEPT ![f1] = [count |-> 1, inode |-> n.i],
                                         ![f2] = [count |-> 1, inode |-> n.i]]
          ELSE /\ fs' = IF n.i = 0 THEN n.s ELSE Halt(n.s, "files")
               /\ UNCHANGED <<fds, files>>
     /\ UNCHANGED <<alive, pwd, root, text, jailed>>

\* sys_stat: namei and iput.
Stat(t, p) ==
  /\ Running(t)
  /\ \E n \in {Namei(fs, Start(t, p), p.names)} : fs' = Iput(n.s, n.i)
  /\ UNCHANGED <<taskvars, files>>
-----------------------------------------------------------------------------
\* The calls that change the tree.
MakeDir(t, p) ==
  Running(t) /\ fs' = Mkdir(fs, Start(t, p), p.names) /\ UNCHANGED <<taskvars, files>>
RemoveDir(t, p) ==
  Running(t) /\ fs' = Rmdir(fs, Start(t, p), p.names) /\ UNCHANGED <<taskvars, files>>
LinkFile(t, p, q) ==
  /\ Running(t) /\ fs' = Link(fs, Start(t, p), p.names, Start(t, q), q.names)
  /\ UNCHANGED <<taskvars, files>>
UnlinkFile(t, p) ==
  Running(t) /\ fs' = Unlink(fs, Start(t, p), p.names) /\ UNCHANGED <<taskvars, files>>

BugChdirLeaks(t, p) ==
  /\ Running(t)
  /\ \E n \in {Namei(fs, Start(t, p), p.names)} :
       IF n.i = 0 \/ ~ IsDir(n.s, n.i) \/ n.i = pwd[t]
         THEN fs' = n.s /\ UNCHANGED <<pwd, text>>
         ELSE /\ fs' = Iput(n.s, pwd[t])
              /\ pwd' = [pwd EXCEPT ![t] = n.i]
              /\ text' = [text EXCEPT ![t] = Abspath(@, p)]
  /\ UNCHANGED <<alive, root, fds, jailed, files>>

\* sys_chdir and sys_chroot.
Chdir(t, p) ==
  /\ Running(t)
  /\ \E n \in {Namei(fs, Start(t, p), p.names)} :
       IF n.i = 0 \/ ~ IsDir(n.s, n.i) \/ n.i = pwd[t]
         THEN fs' = Iput(n.s, n.i) /\ UNCHANGED <<pwd, text>>
         ELSE /\ fs' = Iput(n.s, pwd[t])
              /\ pwd' = [pwd EXCEPT ![t] = n.i]
              /\ text' = [text EXCEPT ![t] = Abspath(@, p)]
  /\ UNCHANGED <<alive, root, fds, jailed, files>>
Chroot(t, p) ==
  /\ Running(t)
  /\ \E n \in {Namei(fs, Start(t, p), p.names)} :
       IF n.i = 0 \/ ~ IsDir(n.s, n.i) \/ n.i = root[t]
         THEN fs' = Iput(n.s, n.i) /\ UNCHANGED <<root, jailed>>
         ELSE /\ fs' = Iput(n.s, root[t])
              /\ root' = [root EXCEPT ![t] = n.i]
              /\ jailed' = jailed \cup {t}
  /\ UNCHANGED <<alive, pwd, text, fds, files>>
-----------------------------------------------------------------------------
\* sys_mount of the device node p on directory q.  A device that holds no
\* file system stops the kernel, and a second mount of one loses the first.
Mount(t, p, q) ==
  /\ Running(t)
  /\ \E v \in {Namei(fs, Start(t, p), p.names)} :
       IF v.i = 0 \/ ~ IsBlk(v.s, v.i) THEN fs' = Iput(v.s, v.i)
       ELSE \E n \in {Namei(v.s, Start(t, q), q.names)}, d \in {Desc(v.s, v.i).dev} :
         IF n.i = 0 THEN fs' = Iput(n.s, v.i)
         ELSE IF ~ IsDir(n.s, n.i) \/ n.s.table[n.i].count # 1 \/ n.s.table[n.i].mount # 0
           THEN fs' = Done(n.s, n.i, v.i)
         ELSE /\ "mount" \in Misuse \/ (v.s.disk[d].formatted /\ Super(v.s, d) = 0)
              /\ fs' = Iput(Attach(n.s, d, n.i), v.i)
  /\ UNCHANGED <<taskvars, files>>

Inside(s, k) == {i \in Slots : s.table[i].list = k}

\* The rest of sys_umount for the device of super block k, found through
\* inode i.  When the device is busy the call fails, and yet puts the super
\* block and its inodes.
UmountSuper(s, k, i) ==
  IF k = 0 THEN Halt(s, "sys_umount")
  ELSE Iput(PutSuper(IF s.supers[k].imount = 0 \/ Cardinality(Inside(s, k)) > 1
                       THEN s ELSE Detach(s, k), k), i)

Idle(s, k) == /\ k # 0
              /\ Inside(s, k) = {s.supers[k].iroot}
              /\ fs.table[s.supers[k].iroot].count = 1

\* sys_umount of a device node or of the root of what it holds.
Umount(t, p) ==
  /\ Running(t)
  /\ \E v \in {Namei(fs, Start(t, p), p.names)} :
       IF \/ v.i = 0
          \/ ~ IsBlk(v.s, v.i) /\ v.s.table[v.i].nr # 1
          \/ v.i = v.s.supers[Super(v.s, Min(Devs))].imount
         THEN fs' = Iput(v.s, v.i)
       ELSE \E k \in {Super(v.s, IF IsBlk(v.s, v.i) THEN Desc(v.s, v.i).dev
                                                  ELSE v.s.table[v.i].dev)} :
            /\ "mount" \in Misuse \/ Idle(v.s, k)
            /\ fs' = UmountSuper(v.s, k, v.i)
  /\ UNCHANGED <<taskvars, files>>

\* sys_mkfs.
Format(t, p) ==
  /\ Running(t)
  /\ \E v \in {Namei(fs, Start(t, p), p.names)} :
       IF v.i = 0 \/ ~ IsBlk(v.s, v.i) THEN fs' = Iput(v.s, v.i)
       ELSE \E d \in {Desc(v.s, v.i).dev} :
            /\ "mount" \in Misuse \/ Super(v.s, d) = 0
            /\ fs' = Iput(DevMkfs(v.s, d), v.i)
  /\ UNCHANGED <<taskvars, files>>
-----------------------------------------------------------------------------
\* The counts of task_fork: every file the parent has open.
Share(own, table) ==
  [f \in Files |-> [table[f] EXCEPT !.count = @ + Cardinality({d \in Fds : own[d] = f})]]

Fork(t, c) ==
  /\ Running(t) /\ c \notin alive
  /\ alive' = alive \cup {c}
  /\ fs' = Hold(Hold(fs, pwd[t]), root[t])
  /\ pwd' = [pwd EXCEPT ![c] = pwd[t]]
  /\ root' = [root EXCEPT ![c] = root[t]]
  /\ text' = [text EXCEPT ![c] = text[t]]
  /\ fds' = [fds EXCEPT ![c] = fds[t]]
  /\ files' = Share(fds[t], files)
  /\ jailed' = IF t \in jailed THEN jailed \cup {c} ELSE jailed \ {c}

\* The part of task_exit that puts directories and closes files.  The first
\* task never exits.
Exit(t) ==
  LET d == Iput(Iput(fs, pwd[t]), root[t])
      c == FoldFunction(LAMBDA f, at : IF f = -1 THEN at ELSE PutFile(at, f),
                        [s |-> d, files |-> files], fds[t])
  IN /\ Running(t) /\ t # First
     /\ alive' = alive \ {t}
     /\ fs' = c.s /\ files' = c.files
     /\ fds' = [fds EXCEPT ![t] = [x \in Fds |-> -1]]
     /\ pwd' = [pwd EXCEPT ![t] = Root] /\ root' = [root EXCEPT ![t] = Root]
     /\ text' = [text EXCEPT ![t] = << >>] /\ jailed' = jailed \ {t}
-----------------------------------------------------------------------------
\* dev_init after super_init: /dev on the second device, with a node for
\* every later one and the terminal, which is the standard file too.
Node(type, d) == [Blank EXCEPT !.type = type, !.links = 1, !.perm = {"r", "w"}, !.dev = d]
Formatted ==
  [disk |-> [d \in Devs |-> IF d = 1
               THEN [NoDisk EXCEPT !.formatted = TRUE, !.imap = {1}, !.desc[1] = RootDir]
               ELSE NoDisk],
   table |-> [i \in Slots |-> Free],
   supers |-> [k \in 1 .. SuperNr |-> FreeSuper], halt |-> ""]

\* dev_init's own way to mount the device on /dev.
MountDev(s) ==
  Then(ReadSuper(s, 2), LAMBDA r : Then(Iget(r.s, 2, 1), LAMBDA g :
    Then(Namei(g.s, Root, <<"dev">>), LAMBDA n :
      [n.s EXCEPT !.supers[r.k] = [@ EXCEPT !.iroot = g.i, !.imount = n.i],
                  !.table[n.i].mount = 2])))

Booted ==
  LET up  == Hold(Hold(MountRoot(Formatted, 1), Root), Root)
      dev == MountDev(DevMkfs(Mkdir(up, Root, <<"dev">>), 2))
      tty == Mknod(dev, Root, <<"dev", "tty">>, Node("chr", 0))
  IN FoldSet(LAMBDA d, s : Mknod(s, Root, <<"dev", "md">>, Node("blk", d)), tty, Devs \ {1, 2})

TreeInit ==
  /\ \E stdin \in {Namei(Booted, Root, <<"dev", "tty">>)} :
       /\ fs = stdin.s
       /\ files = [f \in Files |-> IF f = 0
                     THEN [count |-> 1, inode |-> stdin.i] ELSE NoFile]
  /\ alive = {First}
  /\ pwd = [t \in Tasks |-> Root] /\ root = pwd
  /\ text = [t \in Tasks |-> << >>]
  /\ fds = [t \in Tasks |-> [d \in Fds |-> IF d = 0 /\ t = First THEN 0 ELSE -1]]
  /\ jailed = {}
  /\ scope \in Scopes

FileCalls(t) ==
  \/ \E p \in Paths, want \in Wants, trunc \in BOOLEAN : Open(t, p, want, FALSE, trunc)
  \/ \E d \in Fds : Close(t, d)
DupCalls(t) ==
  \/ \E d \in Fds, new \in Fds : Dup(t, d, new, TRUE)
  \/ \E d \in Fds : Dup(t, d, 0, FALSE)
  \/ MakePipe(t)
TreeCalls(t) ==
  \/ \E p \in NewPaths, want \in Wants, trunc \in BOOLEAN : Open(t, p, want, TRUE, trunc)
  \/ \E p \in NewPaths : MakeDir(t, p) \/ RemoveDir(t, p) \/ UnlinkFile(t, p)
  \/ \E p, q \in NewPaths : LinkFile(t, p, q)
DirCalls(t)  == \E p \in Paths : Chdir(t, p) \/ Stat(t, p)
RootCalls(t) == \E p \in Paths : Chroot(t, p)
MountCalls(t) ==
  \/ \E p, q \in Paths : Mount(t, p, q)
  \/ \E p \in Paths : Umount(t, p) \/ Format(t, p)
TaskCalls(t) == Exit(t) \/ \E c \in Tasks : Fork(t, c)

TreeNext ==
  /\ UNCHANGED scope
  /\ \E t \in Tasks :
       \/ "files"  \in scope /\ FileCalls(t)
       \/ "dups"   \in scope /\ DupCalls(t)
       \/ "tree"   \in scope /\ TreeCalls(t)
       \/ "dirs"   \in scope /\ DirCalls(t)
       \/ "roots"  \in scope /\ RootCalls(t)
       \/ "mounts" \in scope /\ MountCalls(t)
       \/ "tasks"  \in scope /\ TaskCalls(t)
-----------------------------------------------------------------------------
\* The references to inode i that tasks, files and mounted devices hold.
References(i) ==
    Cardinality({t \in alive : pwd[t] = i}) + Cardinality({t \in alive : root[t] = i})
  + Cardinality({f \in Files : files[f].count > 0 /\ files[f].inode = i})
  + Cardinality({k \in 1 .. SuperNr : fs.supers[k].dev # 0 /\ fs.supers[k].iroot = i})
  + Cardinality({k \in 1 .. SuperNr : fs.supers[k].dev # 0 /\ fs.supers[k].imount = i})

\* Between calls the count of every inode in memory is the number of
\* references to it, and that of every file the number of descriptors: no
\* call of namei.c, super.c or file.c puts an inode twice or forgets one.
CountsExact ==
  fs.halt = "" =>
    /\ \A i \in Slots : fs.table[i].count = References(i)
    /\ \A f \in Files : files[f].count =
         Cardinality({x \in alive \X Fds : fds[x[1]][x[2]] = f})

Naming(d, n) == {x \in (fs.disk[d].imap \cap Numbers) \X (1 .. 8) :
                   /\ fs.disk[d].desc[x[1]].type = "dir"
                   /\ x[2] \in DOMAIN fs.disk[d].desc[x[1]].entries
                   /\ fs.disk[d].desc[x[1]].entries[x[2]].nr = n}

\* The link count of every allocated inode is the number of entries, "." and
\* ".." included, that name it, and an entry names an allocated inode:
\* mkdir, rmdir, link, unlink and open (with their clean-up) agree.
LinksExact ==
  fs.halt = "" => \A d \in Devs, n \in Numbers :
    IF n \in fs.disk[d].imap
      THEN fs.disk[d].desc[n].links = Cardinality(Naming(d, n))
      ELSE Naming(d, n) = {}

\* Every inode in memory is that of a mounted device and of its number, there
\* is one for each, and the device mounted on a directory is mounted there.
MountsConsistent ==
  fs.halt = "" => \A i \in Slots :
    LET e == fs.table[i] IN
    e.dev \in Devs =>
      /\ e.list # 0 /\ fs.supers[e.list].dev = e.dev /\ fs.supers[e.list].iroot # 0
      /\ \A j \in Slots \ {i} : <<fs.table[j].dev, fs.table[j].nr>> # <<e.dev, e.nr>>
      /\ e.mount # 0 => /\ Super(fs, e.mount) # 0
                        /\ fs.supers[Super(fs, e.mount)].imount = i

\* The text sys_getcwd returns leads to the working directory, unless the
\* task has changed its root.
CwdNamed ==
  fs.halt = "" => \A t \in alive \ jailed : Namei(fs, Root, text[t]).i = pwd[t]

\* What stops the kernel is a table or a device that is full, never an
\* assertion of the file system.
OnlyFullStops ==
  fs.halt \in {"", "ialloc", "files", "no more inode", "no more super block"}
=============================================================================
