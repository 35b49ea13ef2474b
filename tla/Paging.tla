------------------------------- MODULE Paging -------------------------------
(***************************************************************************)
(* User memory: page directories, page tables and page frames with their   *)
(* counts, in src/kernel/memory.c, and what task_fork, task_exit and       *)
(* sys_execve do to them.  After a fork parent and child share page tables *)
(* and frames; a write that faults copies them (copy_on_write).            *)
(*                                                                         *)
(* The kernel writes through a page entry that is read-only: CR0.WP is     *)
(* never set.  A store by the kernel therefore faults on an absent page    *)
(* only.  Every action is a call, or an access of user code, of one task;  *)
(* the kernel is not preempted.                                            *)
(***************************************************************************)
EXTENDS Integers, FiniteSetsExt

CONSTANTS
  Procs,     \* tasks, numbers from 1; 1 is there from the start
  Dirs,      \* entries of a page directory, numbers from 0
  PerTable,  \* entries of a page table
  MmapAddr,  \* the page of USER_MMAP_ADDR
  StackAddr, \* the page of USER_STACK_BOTTOM
  Program,   \* pages of the text of a program: [text, end]
  Plans,     \* bound: the sets of pages that one behaviour stores into
  Reckless   \* which of these is allowed: "tables", a page appears in or goes
             \* from a table that is shared; "kernel", the kernel stores into a
             \* frame that is shared; "shared", a MAP_SHARED page is written
             \* through a directory entry that a fork has made read-only

LastPage  == Cardinality(Dirs) * PerTable - 1
Pages     == 0 .. LastPage
Slots     == 0 .. PerTable - 1
DirOf(p)  == p \div PerTable
SlotOf(p) == p % PerTable

\* A frame is set apart for a page, or for a page table, of which there is one
\* at most for each task.
Frames   == [for : {"page"}, nr : Pages, copy : Procs] \cup [for : {"table"}, nr : Dirs, copy : Procs]
NoFrame  == [for |-> "none", nr |-> 0, copy |-> 0]
NoEntry  == [frame |-> NoFrame, write |-> FALSE, shared |-> FALSE, readonly |-> FALSE]
NoTable  == [x \in Slots |-> NoEntry]
NoDir    == [d \in Dirs |-> [table |-> NoFrame, write |-> FALSE]]

VARIABLES
  m,      \* [count, data, table: of each frame; dir: of each task; halt]
  brk,    \* task->brk of each task, a page; -1 when there is no such task
  area,   \* task->vmap, the pages mapped
  want,   \* history: what each task has stored in its private pages
  plan    \* one of Plans

mvars == <<m, brk, area, want, plan>>
Live  == {t \in Procs : brk[t] # -1}
Fails(s, why) == IF s.halt = "" THEN [s EXCEPT !.halt = why] ELSE s
-----------------------------------------------------------------------------
\* get_page: a free frame for a page, or for a page table.  Which one makes no
\* difference; the panic when there is none is left out.
FreeFrame(s, for, nr) == CHOOSE f \in Frames : f.for = for /\ f.nr = nr /\ s.count[f] = 0
Get(s, frames) == [s EXCEPT !.count = [f \in Frames |-> IF f \in frames THEN 1 ELSE @[f]]]

\* put_page of some frames.  A frame that is free holds nothing that is looked at.
Put(s, frames) ==
  IF \E f \in frames : s.count[f] = 0 THEN Fails(s, "put_page")
  ELSE LET freed == {f \in frames : s.count[f] = 1}
       IN [s EXCEPT !.count = [f \in Frames |-> IF f \in frames THEN @[f] - 1 ELSE @[f]],
                    !.data  = [f \in Frames |-> IF f \in freed THEN 0 ELSE @[f]],
                    !.table = [f \in Frames |-> IF f \in freed THEN NoTable ELSE @[f]]]

TableOf(s, t, p) == s.dir[t][DirOf(p)].table
EntryOf(s, t, p) == IF TableOf(s, t, p) = NoFrame THEN NoEntry ELSE s.table[TableOf(s, t, p)][SlotOf(p)]
Present(s, t, p) == EntryOf(s, t, p).frame # NoFrame
CanWrite(s, t, p) == Present(s, t, p) /\ EntryOf(s, t, p).write /\ s.dir[t][DirOf(p)].write
TableShared(s, t, p) == TableOf(s, t, p) # NoFrame /\ s.count[TableOf(s, t, p)] > 1

\* The page tables of task t, and the frames of some of its pages.
TablesOf(s, t) == {s.dir[t][d].table : d \in Dirs} \ {NoFrame}
FramesOf(s, t, pages) == {EntryOf(s, t, p).frame : p \in pages} \ {NoFrame}

\* Entries of task t, a function of the page, in its tables, whoever shares them.
SetEntries(s, t, entries) ==
  [s EXCEPT !.table = [f \in Frames |-> [x \in Slots |->
     LET pages == {p \in DOMAIN entries : TableOf(s, t, p) = f /\ SlotOf(p) = x}
     IN IF pages = {} THEN @[f][x] ELSE entries[CHOOSE p \in pages : TRUE]]]]
SetEntry(s, t, p, e) == SetEntries(s, t, [q \in {p} |-> e])

\* get_entry with create, for some pages: a page table where there is none.
GetEntries(s, t, pages) ==
  LET new == {d \in Dirs : s.dir[t][d].table = NoFrame /\ \E p \in pages : DirOf(p) = d}
  IN [Get(s, {FreeFrame(s, "table", d) : d \in new}) EXCEPT
        !.dir[t] = [d \in Dirs |-> IF d \in new THEN [table |-> FreeFrame(s, "table", d), write |-> TRUE]
                                   ELSE @[d]]]

\* link_page, and unlink_page, of some pages.
LinkPages(s, t, pages) ==
  LET u   == GetEntries(s, t, pages)
      new == {p \in pages : ~ Present(u, t, p)}
  IN SetEntries(Get(u, {FreeFrame(u, "page", p) : p \in new}), t,
                [p \in new |-> [NoEntry EXCEPT !.frame = FreeFrame(u, "page", p), !.write = TRUE]])
UnlinkPages(s, t, pages) ==
  LET had == {p \in pages : Present(s, t, p)}
  IN Put(SetEntries(s, t, [p \in had |-> NoEntry]), FramesOf(s, t, had))

BugCowKeepsTable(s, t, p) ==
  [s EXCEPT !.dir[t][DirOf(p)].write = TRUE]

\* copy_on_write, first of the page table and then of the page.
CowTable(s, t, p) ==
  LET d == s.dir[t][DirOf(p)]
      f == FreeFrame(s, "table", DirOf(p))
  IN IF d.write THEN s
     ELSE IF s.count[d.table] = 1 THEN [s EXCEPT !.dir[t][DirOf(p)].write = TRUE]
     ELSE [Get(s, {f}) EXCEPT !.table[f] = s.table[d.table], !.count[d.table] = @ - 1,
                              !.dir[t][DirOf(p)] = [table |-> f, write |-> TRUE]]

BugCowKeepsCount(s, t, p) ==
  LET e == EntryOf(s, t, p)
      f == FreeFrame(s, "page", p)
  IN IF e.write THEN s
     ELSE IF s.count[e.frame] = 1 THEN SetEntry(s, t, p, [e EXCEPT !.write = TRUE])
     ELSE SetEntry([Get(s, {f}) EXCEPT !.data[f] = s.data[e.frame]],
                   t, p, [e EXCEPT !.frame = f, !.write = TRUE])

CowPage(s, t, p) ==
  LET e == EntryOf(s, t, p)
      f == FreeFrame(s, "page", p)
  IN IF e.write THEN s
     ELSE IF s.count[e.frame] = 1 THEN SetEntry(s, t, p, [e EXCEPT !.write = TRUE])
     ELSE SetEntry([Get(s, {f}) EXCEPT !.data[f] = s.data[e.frame], !.count[e.frame] = @ - 1],
                   t, p, [e EXCEPT !.frame = f, !.write = TRUE])

\* page_fault of task t at page p.
PageFault(s, t, p) ==
  IF Present(s, t, p)
    THEN IF EntryOf(s, t, p).shared \/ EntryOf(s, t, p).readonly THEN Fails(s, "page_fault")
         ELSE CowPage(CowTable(s, t, p), t, p)
    ELSE IF p < brk[t] \/ p >= StackAddr THEN LinkPages(s, t, {p})
    ELSE Fails(s, "page fault!!!")

\* sys_brk: the heap shrinks or grows to page b.  Growth that free_pages does not
\* allow is refused with -1 and changes nothing: a step that stutters.
SysBrk(s, t, b) == UnlinkPages(s, t, {p \in Pages : b <= p /\ p < brk[t]})

\* copy_pde: what the parent has becomes read-only, and everything counts once
\* more; the child's directory is a copy.
Protect(e) == IF e.frame = NoFrame \/ e.shared THEN e ELSE [e EXCEPT !.write = FALSE]
CopyPde(s, t, c) ==
  LET dir == [d \in Dirs |-> [s.dir[t][d] EXCEPT !.write = FALSE]]
      had == TablesOf(s, t) \cup FramesOf(s, t, Pages)
  IN [SetEntries(s, t, [p \in Pages |-> Protect(EntryOf(s, t, p))]) EXCEPT
        !.count = [f \in Frames |-> IF f \in had THEN @[f] + 1 ELSE @[f]],
        !.dir[t] = dir, !.dir[c] = dir]

\* free_pde.
FreePde(s, t) == [Put(s, TablesOf(s, t) \cup FramesOf(s, t, Pages)) EXCEPT !.dir[t] = NoDir]
-----------------------------------------------------------------------------
\* What user code, and the kernel for it, may do to page p without Reckless:
\* change an entry of its table, and store into it for a call.
TablesFree(t, p) == "tables" \in Reckless \/ ~ TableShared(m, t, p)
FrameFree(t, p) ==
  IF Present(m, t, p)
    THEN "kernel" \in Reckless \/ CanWrite(m, t, p) \/ m.count[EntryOf(m, t, p).frame] = 1
    ELSE TablesFree(t, p)
Faultable(t, p) ==
  IF Present(m, t, p) THEN EntryOf(m, t, p).shared => "shared" \in Reckless ELSE TablesFree(t, p)
Touched(t, p) == m.halt = "" /\ (Present(m, t, p) \/ p < brk[t] \/ p >= StackAddr)
Stores(s, t, pages) == \* what shared pages hold is not followed
  [s EXCEPT !.data = [f \in Frames |->
     IF \E p \in pages : EntryOf(s, t, p).frame = f /\ ~ EntryOf(s, t, p).shared THEN t ELSE @[f]]]
Wants(t, p, v)  == want' = [want EXCEPT ![t][p] = v]
Stored(t, p)    == Wants(t, p, IF EntryOf(m, t, p).shared THEN 0 ELSE t)

\* User code stores into page p; when it faults it stores again, unless the
\* page is read-only, where page_fault stops the kernel.
Store(t, p) ==
  /\ Touched(t, p)
  /\ IF CanWrite(m, t, p)
       THEN m' = Stores(m, t, {p}) /\ Stored(t, p)
       ELSE /\ Faultable(t, p)
            /\ m' = PageFault(m, t, p)
            /\ Wants(t, p, IF Present(m, t, p) THEN want[t][p] ELSE 0)
  /\ UNCHANGED <<brk, area>>

\* A call (read, waitpid...) stores into page p for task t: a fault only when
\* the page is absent.
KernelStore(t, p) ==
  /\ Touched(t, p) /\ FrameFree(t, p)
  /\ m' = Stores(IF Present(m, t, p) THEN m ELSE PageFault(m, t, p), t, {p})
  /\ Stored(t, p)
  /\ UNCHANGED <<brk, area>>

\* brk, above the program.
Brk(t, b) ==
  /\ m.halt = ""
  /\ \A p \in Pages : b <= p /\ p < brk[t] /\ Present(m, t, p) => TablesFree(t, p)
  /\ m' = SysBrk(m, t, b)
  /\ brk' = [brk EXCEPT ![t] = b]
  /\ want' = [want EXCEPT ![t] = [p \in Pages |-> IF b <= p /\ p < brk[t] THEN 0 ELSE @[p]]]
  /\ UNCHANGED area

\* mmap of one page, and munmap.
Mmap(t, p, shared, write) ==
  /\ m.halt = "" /\ p \notin area[t] /\ TablesFree(t, p)
  /\ LET s == LinkPages(m, t, {p})
     IN m' = SetEntry(s, t, p, [EntryOf(s, t, p) EXCEPT !.write = write, !.readonly = ~ write, !.shared = shared])
  /\ area' = [area EXCEPT ![t] = @ \cup {p}]
  /\ Wants(t, p, 0) /\ UNCHANGED brk
Munmap(t, p) ==
  /\ m.halt = "" /\ p \in area[t] /\ TablesFree(t, p)
  /\ m' = UnlinkPages(m, t, {p})
  /\ area' = [area EXCEPT ![t] = @ \ {p}]
  /\ Wants(t, p, 0) /\ UNCHANGED brk

\* task_fork.
Fork(t, c) ==
  /\ m.halt = "" /\ brk[c] = -1
  /\ m' = CopyPde(m, t, c)
  /\ brk' = [brk EXCEPT ![c] = brk[t]]
  /\ area' = [area EXCEPT ![c] = area[t]]
  /\ want' = [want EXCEPT ![c] = want[t]]

\* task_exit; the first task stays.
Exit(t) ==
  /\ m.halt = "" /\ t # 1
  /\ m' = FreePde(m, t)
  /\ brk' = [brk EXCEPT ![t] = -1]
  /\ area' = [area EXCEPT ![t] = {}]
  /\ want' = [want EXCEPT ![t] = [p \in Pages |-> 0]]

\* sys_execve: the arguments are stored on the stack, the old program goes,
\* the new one is linked and loaded, and its text made read-only.
Load(s, t) ==
  LET u == LinkPages(s, t, 0 .. Program.end - 1)
  IN SetEntries(Stores(u, t, 0 .. Program.end - 1), t,
                [p \in 0 .. Program.text - 1 |-> [EntryOf(u, t, p) EXCEPT !.write = FALSE, !.readonly = TRUE]])
Exec(t) ==
  LET s == Stores(IF Present(m, t, LastPage) THEN m ELSE PageFault(m, t, LastPage), t, {LastPage})
  IN /\ m.halt = ""
     /\ FrameFree(t, LastPage)
     /\ \A p \in Pages : p < brk[t] \/ p < Program.end => TablesFree(t, p)
     /\ m' = Load(SysBrk(s, t, 0), t)
     /\ brk' = [brk EXCEPT ![t] = Program.end]
     /\ want' = [want EXCEPT ![t] = [p \in Pages |-> IF p < Program.end \/ p = LastPage THEN t
                                                    ELSE IF p < brk[t] THEN 0 ELSE @[p]]]
     /\ UNCHANGED area

PagingInit ==
  /\ m = [count |-> [f \in Frames |-> 0], data |-> [f \in Frames |-> 0],
          table |-> [f \in Frames |-> NoTable], dir |-> [t \in Procs |-> NoDir], halt |-> ""]
  /\ brk = [t \in Procs |-> IF t = 1 THEN 0 ELSE -1]
  /\ area = [t \in Procs |-> {}]
  /\ want = [t \in Procs |-> [p \in Pages |-> 0]]
  /\ plan \in Plans

PagingNext ==
  /\ \E t \in Live :
       \/ \E p \in plan : Store(t, p) \/ KernelStore(t, p)
       \/ \E b \in {Program.end} \cup {x \in Program.end + 1 .. MmapAddr : x - 1 \in plan} : Brk(t, b)
       \/ \E p \in plan \cap (MmapAddr .. StackAddr - 1) :
            \/ Munmap(t, p)
            \/ Mmap(t, p, FALSE, TRUE) \/ Mmap(t, p, FALSE, FALSE) \/ Mmap(t, p, TRUE, TRUE)
       \/ \E c \in Procs : Fork(t, c)
       \/ Exit(t)
       \/ {0, LastPage} \subseteq plan /\ Exec(t)
  /\ UNCHANGED plan
-----------------------------------------------------------------------------
\* memory.c:197 and 526: a frame counts the tasks that reach it, through
\* whatever table, and a page table the directories it is in.
FramesCounted ==
  m.halt = "" => \A f \in Frames :
    m.count[f] = Quantify(Live \X Pages, LAMBDA x : EntryOf(m, x[1], x[2]).frame = f)
               + Quantify(Live \X Dirs, LAMBDA x : m.dir[x[1]][x[2]].table = f)

\* Every task finds in its private pages what it stored there, or inherited:
\* no store of another task reaches them, before or after copy_on_write.
MemoryPrivate ==
  m.halt = "" => \A t \in Live, p \in Pages :
    Present(m, t, p) /\ ~ EntryOf(m, t, p).shared => m.data[EntryOf(m, t, p).frame] = want[t][p]

=============================================================================
