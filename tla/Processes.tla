------------------------------ MODULE Processes -----------------------------
(***************************************************************************)
(* What the kernel keeps for tasks, for TLC: the task table (ProcessTable),*)
(* user memory (Paging), the kernel heap (Heap) and the floating-point     *)
(* unit (Fpu).  They share no state that their properties tell apart: a    *)
(* behaviour makes the calls of one part.                                  *)
(***************************************************************************)
EXTENDS Fpu, Sequences, FiniteSets

CONSTANTS
  TaskNr, Signals, Handled, MaxFrames, Calls, Files, Careless,
  Procs, Dirs, PerTable, MmapAddr, StackAddr, Program, Plans, Reckless,
  KPages, TotalBlock, BufCount, Large,
  Parts    \* the parts that are run

ASSUME ProcAssumption ==
  /\ TaskNr \in Nat \ {0}
  /\ Signals \subseteq Nat \ {0} /\ {1, 9, 14, 17} \subseteq Signals
  /\ Files \in Nat

ASSUME HeapAssumption ==
  /\ KPages \subseteq Nat \ {0} /\ IsFiniteSet(KPages) /\ Large \subseteq Nat \ {0}
  /\ TotalBlock \in Seq(Nat \ {0})

\* Directories and tables are numbered from 0.  The areas of mmap begin above the
\* program and its heap and end at the stack, which ends with the last page.
ASSUME MemoryAssumption ==
  /\ Procs \subseteq Nat \ {0} /\ IsFiniteSet(Procs) /\ 1 \in Procs
  /\ IsFiniteSet(Dirs) /\ Dirs = 0 .. Cardinality(Dirs) - 1 /\ PerTable \in Nat \ {0}
  /\ StackAddr \in 0 .. Cardinality(Dirs) * PerTable - 1 /\ MmapAddr \in 0 .. StackAddr
  /\ Program \in [text : Nat, end : Nat] /\ Program.text <= Program.end /\ Program.end <= MmapAddr
  /\ \A p \in Plans : p \subseteq 0 .. Cardinality(Dirs) * PerTable - 1

VARIABLES part, procs, calls, m, brk, vmap, wrote, plan, kmap, arenas, desc, live

P == INSTANCE ProcessTable
M == INSTANCE Paging WITH area <- vmap, want <- wrote
H == INSTANCE Heap

pvars == <<procs, calls>>
mvars == <<m, brk, vmap, wrote, plan>>
hvars == <<kmap, arenas, desc, live>>

Boot ==
  /\ part \in Parts
  /\ Init /\ P!ProcInit /\ M!PagingInit /\ H!HeapInit
  /\ part # "fpu" => running = CHOOSE t \in Started : TRUE
  /\ part # "tasks" => calls = CHOOSE c \in Calls : TRUE
  /\ part # "memory" => plan = CHOOSE p \in Plans : TRUE
Run ==
  /\ UNCHANGED part
  /\ \/ part = "tasks"  /\ P!ProcNext   /\ UNCHANGED <<vars, mvars, hvars>>
     \/ part = "memory" /\ M!PagingNext /\ UNCHANGED <<vars, pvars, hvars>>
     \/ part = "heap"   /\ H!HeapNext   /\ UNCHANGED <<vars, pvars, mvars>>
     \/ part = "fpu"    /\ Next         /\ UNCHANGED <<pvars, mvars, hvars>>
System == Boot /\ [][Run]_<<part, vars, pvars, mvars, hvars>>

AllParts == {"tasks", "memory", "heap", "fpu"}
MCCalls == {[groups |-> {"signals", "handlers", "alarms"}, tasks |-> 2],
            [groups |-> {"signals", "alarms"}, tasks |-> 3],
            [groups |-> {"signals", "sleep"}, tasks |-> 4],
            [groups |-> {"groups"}, tasks |-> 3]}
MCProgram == [text |-> 1, end |-> 1]
MCTotalBlock == <<2, 1>>

\* The parent of every task is there: see ProcessTable.
ParentsLive == P!ParentsLive
\* Nobody waits for a child that has exited: see ProcessTable.
WaitsForAReason == P!WaitsForAReason
\* No parent is missed and no timer put twice: see ProcessTable.
StopsKnown == P!StopsKnown
\* task.c:550, "the current process is not blocked, and is executing": a task
\* exits once.  See ProcessTable.
ExitsOnce == P!ExitsOnce
\* The alarm of a task is a running timer of its own: see ProcessTable.
AlarmsOwned == P!AlarmsOwned
\* Frames count the tasks that reach them: see Paging.
FramesCounted == M!FramesCounted
\* No store of another task reaches a private page: see Paging.
MemoryPrivate == M!MemoryPrivate
\* Blocks of the kernel heap are disjoint and counted: see Heap.
HeapSound == H!HeapSound
=============================================================================
