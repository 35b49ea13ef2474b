--------------------------- MODULE ProcessesProofs ---------------------------
(***************************************************************************)
(* Proofs about what the kernel keeps for tasks, for any numbers of tasks  *)
(* and signals.                                                            *)
(*                                                                         *)
(* NothingLeaks: Owners says whose the contents of the floating-point unit *)
(* and of the save areas are, for every task but the haunted ones.         *)
(*                                                                         *)
(* ParentsStay, WaitersHaveReason, AlarmsAreOwned: Good is the invariant of*)
(* the table between two calls.  It is kept by every piece a call is made  *)
(* of, up to TaskSignal and the exit that may be in it; only inside        *)
(* task_exit it does not hold, and Exited says what one as a whole does.   *)
(* The parents form a tree (Tree: somebody older has a lower rank): without*)
(* it a task could be its own parent once its father has handed it on.     *)
(*                                                                         *)
(* HeapStaysSound: Heaped counts the free blocks of each page, so that one *)
(* all of whose blocks are free has none in use.  kmalloc and kfree are    *)
(* made of pieces that keep it: cutting a page, taking a block, putting one*)
(* back, giving a page back, and taking and giving back a run of pages.    *)
(*                                                                         *)
(* FramesStayCounted, MemoryStaysPrivate: Sound is the invariant of tables *)
(* and frames.  A frame may be used for one page, or one table, only, so   *)
(* that who holds it is a set of tasks, and its count the size of the set; *)
(* OneTask says that a count may follow what one task takes or gives up.   *)
(* Private adds that an entry which may be written is the only one of its  *)
(* frame: it is what makes a store of one task not reach another's pages.  *)
(***************************************************************************)
EXTENDS Processes, Sequences, FiniteSetTheorems, WellFoundedInduction, TLAPS

\* Who may have left what, among the tasks that are not haunted: the unit holds
\* what its last user left or inherited, as long as that task has not been reaped,
\* a save area what is its owner's, and a task that does not trap is the last user.
Owners ==
  /\ last \in (alive \cup zombie) \ haunted => regs[1] \in {last, None}
  /\ ~ ts => last = running
  /\ \A t \in (alive \cup zombie) \ haunted : area[t] # None => area[t][1] \in {t, None}

\* The invariant holds when the kernel has booted.
LEMMA FpuInit == Boot => TypeOK /\ Owners
<1> SUFFICES ASSUME Boot PROVE TypeOK /\ Owners
  OBVIOUS
<1> QED
  BY FpuAssumption DEF Boot, Init, TypeOK, Owners, Environments, Fninit

\* What a child inherits from its parent is as good as its own.
LEMMA InheritedFacts ==
  ASSUME NEW p \in Pcbs, NEW c \in Pcbs, NEW e \in Environments \cup {None}
  PROVE  /\ Inherited(e, p, c) \in Environments \cup {None}
         /\ e \in Environments => Inherited(e, p, c) \in Environments
         /\ e # None => /\ e[1] = p => Inherited(e, p, c)[1] = c
                        /\ e[1] = None => Inherited(e, p, c)[1] = None
         /\ e = None => Inherited(e, p, c) = None
<1>1. CASE e # None /\ e[1] = p
  <2>1. e \in Pcbs \X Values
    BY <1>1, FpuAssumption DEF Environments
  <2>2. Inherited(e, p, c) = <<c, e[2]>> /\ <<c, e[2]>> \in Pcbs \X Values
    BY <1>1, <2>1 DEF Inherited
  <2> QED
    BY <1>1, <2>2, FpuAssumption DEF Environments
<1>2. CASE ~ (e # None /\ e[1] = p)
  <2>1. Inherited(e, p, c) = e
    BY <1>2 DEF Inherited
  <2> QED
    BY <1>2, <2>1
<1> QED
  BY <1>1, <1>2

\* What a dead task leaves behind is its own no longer.
LEMMA DisownedFacts ==
  ASSUME NEW z \in Pcbs, NEW e \in Environments
  PROVE  Disowned(e, z) \in Environments /\ (e[1] # z => Disowned(e, z) = e)
<1>1. CASE e # None /\ e[1] = z
  <2>1. e \in Pcbs \X Values
    BY <1>1, FpuAssumption DEF Environments
  <2>2. Disowned(e, z) = <<Dead, e[2]>> /\ <<Dead, e[2]>> \in {Dead} \X Values
    BY <1>1, <2>1 DEF Disowned
  <2> QED
    BY <1>1, <2>2 DEF Environments
<1>2. CASE ~ (e # None /\ e[1] = z)
  BY <1>2 DEF Disowned
<1> QED
  BY <1>1, <1>2

\* The unit, the areas and the PCBs keep their types.
LEMMA FpuType == TypeOK /\ [Next]_vars => TypeOK'
<1> SUFFICES ASSUME TypeOK, [Next]_vars PROVE TypeOK'
  OBVIOUS
<1> USE FpuAssumption DEF TypeOK, Environments
<1>1. CASE Trap
  <2>1. CASE last = running
    BY <1>1, <2>1 DEF Trap, tasks
  <2>2. CASE last # running /\ Saves /\ area[last] = None
    BY <1>1, <2>2 DEF Trap, tasks
  <2>3. CASE last # running /\ Saves /\ area[last] # None
    <3> DEFINE saved == [area EXCEPT ![last] = regs]
    <3>1. Fninit \in Environments /\ Junk \in Environments
      BY DEF Fninit, Junk
    <3>2. last \in Pcbs /\ running \in Pcbs /\ Load(running) \in Environments
      BY <2>3, <3>1 DEF Saves, Load
    <3>3. /\ saved \in [Pcbs -> Environments \cup {None}]
          /\ [saved EXCEPT ![running] = Junk] \in [Pcbs -> Environments \cup {None}]
      BY <3>1, <3>2
    <3>4. area' \in [Pcbs -> Environments \cup {None}]
      <4>1. area' = saved \/ area' = [saved EXCEPT ![running] = Junk]
        BY <1>1, <2>3 DEF Trap
      <4> QED
        BY <3>3, <4>1
    <3>5. /\ regs' = Load(running) /\ last' = running /\ enabled' \subseteq Pcbs
          /\ ts' = FALSE /\ UNCHANGED <<alive, zombie, running, panicked, want, haunted>>
      BY <1>1, <2>3, <3>2 DEF Trap, tasks
    <3> QED
      BY <3>2, <3>4, <3>5
  <2>4. CASE last # running /\ ~ Saves
    BY ZenonT(60), <1>1, <2>4 DEF Trap, Load, Fninit, Junk, tasks
  <2> QED
    BY <2>1, <2>2, <2>3, <2>4
<1>2. ASSUME NEW v \in Values, Compute(<<running, v>>) PROVE TypeOK'
  BY <1>2 DEF Compute, tasks
<1>3. ASSUME NEW t \in Pcbs, Switch(t) PROVE TypeOK'
  BY <1>3 DEF Switch
<1>4. ASSUME NEW t \in Pcbs, Fork(t) PROVE TypeOK'
  <2>1. Inherited(area[running], running, t) \in Environments \cup {None}
    BY InheritedFacts
  <2>2. Inherited(want[running], running, t) \in Environments
    BY InheritedFacts
  <2> QED
    BY <1>4, <2>1, <2>2 DEF Fork
<1>5. ASSUME NEW t \in Pcbs, Exit(t) PROVE TypeOK'
  BY <1>5 DEF Exit
<1>6. ASSUME NEW t \in Pcbs, Reap(t) PROVE TypeOK'
  <2>1. Disowned(regs, t) \in Environments
    BY DisownedFacts
  <2>2. Fninit \in Environments /\ Junk \in Environments
    BY DEF Fninit, Junk
  <2> QED
    BY <1>6, <2>1, <2>2 DEF Reap
<1>7. CASE UNCHANGED vars
  BY <1>7 DEF vars, tasks
<1> QED
  BY <1>1, <1>2, <1>3, <1>4, <1>5, <1>6, <1>7 DEF Next

\* No trap, switch, fork, exit or reaping breaks Owners.
LEMMA FpuStep == TypeOK /\ Owners /\ [Next]_vars => Owners'
<1> SUFFICES ASSUME TypeOK, Owners, [Next]_vars PROVE Owners'
  OBVIOUS
<1> USE FpuAssumption DEF TypeOK, Owners, Environments
<1>1. CASE Trap
  <2>1. CASE last = running
    BY <1>1, <2>1 DEF Trap, tasks
  <2>2. CASE last # running /\ Saves /\ area[last] = None
    BY <1>1, <2>2 DEF Trap, tasks
  <2>3. CASE last # running /\ Saves /\ area[last] # None
    BY <1>1, <2>3 DEF Trap, Saves, Load, Fninit, Junk, tasks
  <2>4. CASE last # running /\ ~ Saves
    BY <1>1, <2>4 DEF Trap, Load, Fninit, Junk, tasks
  <2> QED
    BY <2>1, <2>2, <2>3, <2>4
<1>2. ASSUME NEW v \in Values, Compute(<<running, v>>) PROVE Owners'
  BY <1>2 DEF Compute, tasks
<1>3. ASSUME NEW t \in Pcbs, Switch(t) PROVE Owners'
  BY <1>3 DEF Switch
<1>4. ASSUME NEW t \in Pcbs, Fork(t) PROVE Owners'
  <2>1. /\ area' = [area EXCEPT ![t] = Inherited(area[running], running, t)]
        /\ alive' = alive \cup {t} /\ t \notin alive \cup zombie
        /\ haunted' = IF last = t \/ running \in haunted THEN haunted \cup {t} ELSE haunted \ {t}
        /\ UNCHANGED <<zombie, running, ts, regs, last>>
    BY <1>4 DEF Fork
  <2>2. ASSUME t \notin haunted', area'[t] # None PROVE area'[t][1] \in {t, None}
    <3>1. running \notin haunted /\ area'[t] = Inherited(area[running], running, t)
      BY <2>1, <2>2
    <3>2. area[running] \in Environments \cup {None} /\ running \in alive
      OBVIOUS
    <3>3. area[running] # None
      BY <2>2, <3>1, <3>2, InheritedFacts
    <3>4. area[running][1] \in {running, None}
      BY <3>1, <3>2, <3>3
    <3> QED
      BY <3>1, <3>2, <3>3, <3>4, InheritedFacts
  <2> QED
    BY <2>1, <2>2
<1>5. ASSUME NEW t \in Pcbs, Exit(t) PROVE Owners'
  BY <1>5 DEF Exit
<1>6. ASSUME NEW t \in Pcbs, Reap(t) PROVE Owners'
  <2>1. /\ t \in zombie /\ zombie' = zombie \ {t} /\ regs' = Disowned(regs, t)
        /\ \A x \in Pcbs \ {t} : area'[x] = area[x]
        /\ UNCHANGED <<alive, running, ts, last, haunted>>
    BY <1>6 DEF Reap
  <2>2. regs[1] # t => regs' = regs
    BY <2>1, DisownedFacts
  <2>3. last' \in (alive' \cup zombie') \ haunted' => last # t /\ last \in alive \cup zombie
    BY <2>1
  <2> QED
    BY <2>1, <2>2, <2>3
<1>7. CASE UNCHANGED vars
  BY <1>7 DEF vars, tasks
<1> QED
  BY <1>1, <1>2, <1>3, <1>4, <1>5, <1>6, <1>7 DEF Next

\* fpu.c: for any number of tasks, however they are forked, exit and are reaped, no
\* task computes with what another one left in the floating-point unit, unless it was
\* made in the page of the last user, or descends from such a task.
THEOREM NothingLeaks == System => []NoLeak
<1>1. [Run]_<<part, vars, pvars, mvars, hvars>> => [Next]_vars
  BY DEF Run
<1>2. TypeOK /\ Owners => NoLeak
  BY FpuAssumption DEF TypeOK, Owners, NoLeak
<1> QED
  BY <1>1, <1>2, FpuInit, FpuType, FpuStep, PTL DEF System
-----------------------------------------------------------------------------
(* The task table. *)

Actions == [handler : {"dfl", "ign", "fun"}, once : BOOLEAN, nomask : BOOLEAN]
Task == [state : {"ready", "waiting", "sleeping", "died"}, pc : {"user", "return", "waitpid"},
         ppid : P!Pids \cup {0}, sid : P!Pids \cup {0}, pgid : P!Pids \cup {0}, waitpid : Int,
         signal : SUBSET Signals, blocked : SUBSET P!All, act : [Signals -> Actions],
         frames : Seq(SUBSET P!All), alarm : Nat]
Halts == {"", "No more tasks", "task_exit"}
IsTable(s) == /\ s = [task |-> s.task, timers |-> s.timers, halt |-> s.halt]
              /\ s.task \in [P!Pids -> Task \cup {P!NoTask}] /\ s.halt \in Halts

Runs(s) == s.halt = ""
Live(s, t) == s.task[t].state \notin {"none", "died"}

\* What task_exit leaves as it is in the slot of a task.
Same(r, q) == /\ r.state = q.state /\ r.pc = q.pc /\ r.ppid = q.ppid /\ r.sid = q.sid
              /\ r.waitpid = q.waitpid /\ r.alarm = q.alarm /\ r.act = q.act
              /\ r.blocked = q.blocked

\* The signals the kernel sends itself are among those of the model.
LEMMA SignalFacts == P!SIGHUP \in Signals /\ P!SIGCHLD \in Signals /\ P!SIGALRM \in Signals /\ P!SIGKILL \in Signals
BY ProcAssumption DEF P!SIGHUP, P!SIGCHLD, P!SIGALRM, P!SIGKILL

\* Slots are numbered from 1; 0 is no task, or idle.
LEMMA PidFacts == P!Pids \subseteq Nat \ {0} /\ 1 \in P!Pids
BY ProcAssumption DEF P!Pids

\* A slot of task_table is free or holds a task.
LEMMA SlotFacts ==
  ASSUME NEW s, IsTable(s), NEW t \in P!Pids
  PROVE  /\ s.task[t] \in Task \cup {P!NoTask}
         /\ P!Exists(s, t) <=> s.task[t] \in Task
         /\ ~ P!Exists(s, t) <=> s.task[t] = P!NoTask
         /\ ~ P!Exists(s, t) <=> s.task[t].state = "none"
         /\ Live(s, t) => P!Exists(s, t)
BY DEF IsTable, Task, P!NoTask, P!Exists, Live

\* A failing assertion or panic leaves the table as it is.
LEMMA StopFacts ==
  ASSUME NEW s, IsTable(s), NEW why \in Halts \ {""}
  PROVE  IsTable(P!Stop(s, why)) /\ ~ Runs(P!Stop(s, why)) /\ P!Stop(s, why).task = s.task
         /\ (Runs(s) => P!Stop(s, why).halt = why)
BY DEF P!Stop, IsTable, Runs, Halts

\* task_kill_session changes signals only, and not those of t or of init.
LEMMA SessionFacts ==
  ASSUME NEW s, IsTable(s), NEW t \in P!Pids \ {1}, s.task[1].sid # t
  PROVE  LET k == P!KillSession(s, t)
         IN /\ IsTable(k) /\ k.timers = s.timers /\ k.halt = s.halt
            /\ k.task[t] = s.task[t] /\ k.task[1] = s.task[1]
            /\ \A x \in P!Pids : Same(k.task[x], s.task[x])
<1> DEFINE k == P!KillSession(s, t)
<1> USE PidFacts, SignalFacts
<1>1. CASE s.task[t].sid # t
  BY <1>1 DEF P!KillSession, Same
<1>2. CASE s.task[t].sid = t
  <2> DEFINE hit(x) == x # t /\ P!Exists(s, x) /\ s.task[x].sid = t
             new(x) == IF hit(x) THEN [s.task[x] EXCEPT !.signal = s.task[x].signal \cup {P!SIGHUP}]
                                 ELSE s.task[x]
  <2>1. k = [s EXCEPT !.task = [x \in P!Pids |-> new(x)]]
    BY <1>2 DEF P!KillSession
  <2>2. ASSUME NEW x \in P!Pids PROVE new(x) \in Task \cup {P!NoTask} /\ Same(new(x), s.task[x])
    <3>1. CASE hit(x)
      <4>1. s.task[x] \in Task
        BY <3>1, SlotFacts
      <4> DEFINE r == [s.task[x] EXCEPT !.signal = s.task[x].signal \cup {P!SIGHUP}]
      <4>2. r \in Task /\ Same(r, s.task[x])
        BY <4>1 DEF Task, Same
      <4>3. new(x) = r
        BY <3>1
      <4> QED
        BY <4>2, <4>3
    <3>2. CASE ~ hit(x)
      BY <3>2, SlotFacts DEF Same
    <3> QED
      BY <3>1, <3>2
  <2>3. new(t) = s.task[t] /\ new(1) = s.task[1]
    OBVIOUS
  <2> HIDE DEF new
  <2> QED
    BY <2>1, <2>2, <2>3 DEF IsTable
<1> QED
  BY <1>1, <1>2

\* task_tell_fater changes signals only.
LEMMA FatherFacts ==
  ASSUME NEW s, IsTable(s), NEW t \in P!Pids, P!Exists(s, t),
         LET p == s.task[t].ppid IN p # 0 => P!Exists(s, p) /\ p # t
  PROVE  LET u == P!TellFather(s, t)
         IN /\ IsTable(u) /\ u.timers = s.timers /\ u.halt = s.halt
            /\ u.task[t] = s.task[t]
            /\ \A x \in P!Pids : Same(u.task[x], s.task[x])
            /\ P!Exists(s, 1) => u.task[1].signal \subseteq s.task[1].signal \cup {P!SIGCHLD}
<1> DEFINE u == P!TellFather(s, t)
           p == s.task[t].ppid
<1> USE PidFacts, SignalFacts
<1>0. p \in P!Pids \cup {0}
  BY SlotFacts DEF Task
<1>1. CASE p = 0
  BY <1>1 DEF P!TellFather, Same
<1>2. CASE p # 0
  <2> DEFINE r == [s.task[p] EXCEPT !.signal = s.task[p].signal \cup {P!SIGCHLD}]
  <2>1. u = [s EXCEPT !.task[p] = r] /\ P!Exists(s, p) /\ p # t /\ p \in P!Pids
    BY <1>0, <1>2 DEF P!TellFather
  <2>2. s.task[p] \in Task
    BY SMTT(60), <2>1, SlotFacts
  <2>3. r \in Task /\ Same(r, s.task[p]) /\ r.signal = s.task[p].signal \cup {P!SIGCHLD}
    BY <2>2 DEF Task, Same
  <2>4. \A x \in P!Pids : Same(s.task[x], s.task[x])
    BY DEF Same
  <2> HIDE DEF r, p
  <2> QED
    BY <2>1, <2>3, <2>4 DEF IsTable
<1> QED
  BY <1>1, <1>2

\* What task_create and task_to_user_mode make is a task.
LEMMA FirstTaskType == P!FirstTask \in Task
<1>1. [x \in Signals |-> P!Default] \in [Signals -> Actions] /\ << >> \in Seq(SUBSET P!All)
  BY DEF P!Default, Actions
<1> QED
  BY <1>1, PidFacts DEF P!FirstTask, Task

\* The slot of a task that has exited.
LEMMA ZombieFacts ==
  ASSUME NEW r \in Task
  PROVE  LET z == P!Zombie(r)
         IN /\ z \in Task /\ z.state = "died" /\ z.ppid = r.ppid /\ z.sid = r.sid /\ z.alarm = 0
            /\ z.signal = {} /\ z.waitpid = 0
<1>1. P!FirstTask \in Task
  BY FirstTaskType
<1>2. P!FirstTask.alarm = 0 /\ P!FirstTask.signal = {} /\ P!FirstTask.waitpid = 0
  BY DEF P!FirstTask
<1> QED
  BY <1>1, <1>2 DEF P!Zombie, Task

\* The children of t are those of its parent, and nothing else differs.
HandedOn(s, t, r) ==
  /\ IsTable(r) /\ r.timers = s.timers /\ r.halt = s.halt
  /\ \A x \in P!Pids :
       /\ r.task[x].state = s.task[x].state /\ r.task[x].alarm = s.task[x].alarm
       /\ r.task[x].sid = s.task[x].sid /\ r.task[x].waitpid = s.task[x].waitpid
       /\ r.task[x].pc = s.task[x].pc /\ r.task[x].signal = s.task[x].signal
       /\ r.task[x].act = s.task[x].act /\ r.task[x].blocked = s.task[x].blocked
       /\ r.task[x].ppid = IF x # 1 /\ P!Exists(s, x) /\ s.task[x].ppid = t
                             THEN s.task[t].ppid ELSE s.task[x].ppid

\* The children of t, but not init, become children of its parent.
LEMMA ReparentFacts ==
  ASSUME NEW s, IsTable(s), NEW t \in P!Pids, P!Exists(s, t)
  PROVE  HandedOn(s, t, P!Reparent(s, t))
<1> DEFINE hit(x) == x >= 2 /\ P!Exists(s, x) /\ s.task[x].ppid = t
           new(x) == IF hit(x) THEN [s.task[x] EXCEPT !.ppid = s.task[t].ppid] ELSE s.task[x]
<1>1. P!Reparent(s, t) = [s EXCEPT !.task = [x \in P!Pids |-> new(x)]]
  BY DEF P!Reparent
<1>2. ASSUME NEW x \in P!Pids
      PROVE  /\ new(x) \in Task \cup {P!NoTask}
             /\ new(x).state = s.task[x].state /\ new(x).alarm = s.task[x].alarm
             /\ new(x).sid = s.task[x].sid /\ new(x).waitpid = s.task[x].waitpid
             /\ new(x).pc = s.task[x].pc /\ new(x).signal = s.task[x].signal
             /\ new(x).act = s.task[x].act /\ new(x).blocked = s.task[x].blocked
             /\ new(x).ppid = IF x # 1 /\ P!Exists(s, x) /\ s.task[x].ppid = t
                                THEN s.task[t].ppid ELSE s.task[x].ppid
  <2>1. x \in Nat \ {0} /\ (x >= 2 <=> x # 1)
    BY PidFacts
  <2>2. CASE hit(x)
    <3>1. s.task[x] \in Task /\ s.task[t].ppid \in P!Pids \cup {0}
      BY <2>2, SlotFacts DEF Task
    <3> DEFINE r == [s.task[x] EXCEPT !.ppid = s.task[t].ppid]
    <3>2. /\ r \in Task
          /\ r.state = s.task[x].state /\ r.alarm = s.task[x].alarm
          /\ r.sid = s.task[x].sid /\ r.waitpid = s.task[x].waitpid
          /\ r.pc = s.task[x].pc /\ r.signal = s.task[x].signal
          /\ r.act = s.task[x].act /\ r.blocked = s.task[x].blocked
          /\ r.ppid = s.task[t].ppid
      BY <3>1 DEF Task
    <3>3. new(x) = r
      BY <2>2
    <3> QED
      BY <2>1, <2>2, <3>2, <3>3
  <2>3. CASE ~ hit(x)
    BY <2>1, <2>3, SlotFacts
  <2> QED
    BY <2>2, <2>3
<1> HIDE DEF new
<1> QED
  BY <1>1, <1>2 DEF IsTable, HandedOn

\* The parent of t, if it waits for t, is ready, and nothing else differs.
ParentWoken(s, t, e) ==
  /\ IsTable(e) /\ e.timers = s.timers /\ e.halt = s.halt
  /\ \A x \in P!Pids :
       /\ e.task[x].ppid = s.task[x].ppid /\ e.task[x].alarm = s.task[x].alarm
       /\ e.task[x].sid = s.task[x].sid /\ e.task[x].waitpid = s.task[x].waitpid
       /\ e.task[x].pc = s.task[x].pc /\ e.task[x].signal = s.task[x].signal
       /\ e.task[x].act = s.task[x].act /\ e.task[x].blocked = s.task[x].blocked
       /\ e.task[x].state =
            IF /\ x = s.task[t].ppid /\ s.task[x].state = "waiting"
               /\ s.task[x].waitpid \in {P!Any, t}
              THEN "ready" ELSE s.task[x].state

LEMMA WakeFacts ==
  ASSUME NEW s, IsTable(s), NEW t \in P!Pids, P!Exists(s, t)
  PROVE  ParentWoken(s, t, P!WakeParent(s, t))
<1> DEFINE p == s.task[t].ppid
<1>1. p \in P!Pids \cup {0} /\ 0 \notin P!Pids
  BY SMTT(60), SlotFacts, PidFacts DEF Task
<1>2. CASE p # 0 /\ s.task[p].state = "waiting" /\ s.task[p].waitpid \in {P!Any, t}
  <2>1. p \in P!Pids /\ s.task[p] \in Task
    BY <1>1, <1>2, SlotFacts DEF P!Exists
  <2> DEFINE r == [s.task[p] EXCEPT !.state = "ready"]
  <2>2. /\ r \in Task
        /\ r.ppid = s.task[p].ppid /\ r.alarm = s.task[p].alarm
        /\ r.sid = s.task[p].sid /\ r.waitpid = s.task[p].waitpid
        /\ r.pc = s.task[p].pc /\ r.signal = s.task[p].signal
        /\ r.act = s.task[p].act /\ r.blocked = s.task[p].blocked
        /\ r.state = "ready"
    BY <2>1 DEF Task
  <2>3. P!WakeParent(s, t) = [s EXCEPT !.task[p] = r]
    BY <1>2 DEF P!WakeParent, P!Unblock
  <2> HIDE DEF r
  <2> QED
    BY <1>2, <2>1, <2>2, <2>3 DEF IsTable, ParentWoken
<1>3. CASE ~ (p # 0 /\ s.task[p].state = "waiting" /\ s.task[p].waitpid \in {P!Any, t})
  <2>1. P!WakeParent(s, t) = s
    BY <1>3 DEF P!WakeParent
  <2> QED
    BY <1>1, <1>3, <2>1 DEF ParentWoken
<1> QED
  BY <1>2, <1>3

\* A record of the task table with two fields replaced.
LEMMA TwoFields ==
  ASSUME NEW s, IsTable(s), NEW a, NEW b
  PROVE  [s EXCEPT !.timers = a, !.task = b] = [task |-> b, timers |-> a, halt |-> s.halt]
<1>1. PICK x, y, z : s = [task |-> x, timers |-> y, halt |-> z]
  BY DEF IsTable
<1>2. s.halt = z /\ DOMAIN s = {"task", "timers", "halt"}
  BY <1>1
<1>3. [[task |-> x, timers |-> y, halt |-> z] EXCEPT !.timers = a, !.task = b]
        = [task |-> b, timers |-> a, halt |-> z]
  <2> DEFINE R == [task |-> x, timers |-> y, halt |-> z]
             R1 == [R EXCEPT !.timers = a]
             Q1 == [task |-> x, timers |-> a, halt |-> z]
  <2>1. R1 = Q1
    OBVIOUS
  <2>2. [R EXCEPT !.timers = a, !.task = b] = [R1 EXCEPT !.task = b]
    OBVIOUS
  <2>3. [Q1 EXCEPT !.task = b] = [task |-> b, timers |-> a, halt |-> z]
    OBVIOUS
  <2> HIDE DEF R1, Q1
  <2> QED
    BY <2>1, <2>2, <2>3
<1> QED
  BY <1>1, <1>2, <1>3

\* What task_exit may rely on when task t enters it.
MayExit(s, t) ==
  /\ IsTable(s) /\ Runs(s) /\ t # 1 /\ s.task[t].state = "ready"
  /\ P!Exists(s, 1) /\ s.task[1].sid # t
  /\ s.task[t].ppid # 0 => P!Exists(s, s.task[t].ppid) /\ s.task[t].ppid # t

\* The effect of task_exit when it comes to its end.
Exited(s, t, e) ==
  /\ e.timers = {tm \in s.timers : tm.task # t}
  /\ e.task[t].state = "died" /\ e.task[t].ppid = s.task[t].ppid
  /\ e.task[1].signal \subseteq s.task[1].signal \cup {P!SIGCHLD}
  /\ e.task[1].sid = s.task[1].sid
  /\ \A x \in P!Pids \ {t} :
       /\ e.task[x].alarm = s.task[x].alarm /\ e.task[x].waitpid = s.task[x].waitpid
       /\ e.task[x].pc = s.task[x].pc /\ e.task[x].act = s.task[x].act
       /\ e.task[x].blocked = s.task[x].blocked
       /\ e.task[x].ppid = IF x # 1 /\ P!Exists(s, x) /\ s.task[x].ppid = t
                             THEN s.task[t].ppid ELSE s.task[x].ppid
       /\ e.task[x].state = IF /\ x = s.task[t].ppid /\ s.task[x].state = "waiting"
                               /\ s.task[x].waitpid \in {P!Any, t}
                              THEN "ready" ELSE s.task[x].state

\* What task_exit as a whole does to the table, or which assertion stops it.
LEMMA ExitFacts ==
  ASSUME NEW s, NEW t \in P!Pids, MayExit(s, t)
  PROVE  LET e == P!TaskExit(s, t)
         IN /\ IsTable(e)
            /\ \/ Runs(e) /\ Exited(s, t, e)
               \/ /\ e.halt = "task_exit"
                  /\ \E sig \in s.task[t].signal \ s.task[t].blocked : P!Fatal(s, t, sig)
<1> USE PidFacts
<1>0. IsTable(s) /\ Runs(s) /\ t \in P!Pids \ {1} /\ s.task[t] \in Task /\ s.task[t].state = "ready"
  BY SlotFacts DEF MayExit, P!Exists
<1> DEFINE dead == [s.task[t] EXCEPT !.state = "died"]
           d == [s EXCEPT !.task[t] = dead]
<1>1. dead \in Task /\ dead.state = "died" /\ dead.ppid = s.task[t].ppid /\ dead.act = s.task[t].act
      /\ dead.signal = s.task[t].signal /\ dead.blocked = s.task[t].blocked
  BY <1>0 DEF Task
<1> HIDE DEF dead
<1>2. /\ IsTable(d) /\ d.timers = s.timers /\ d.halt = s.halt /\ d.task[t] = dead
      /\ \A x \in P!Pids \ {t} : d.task[x] = s.task[x]
  BY <1>0, <1>1 DEF IsTable
<1> HIDE DEF d
<1> DEFINE k == P!KillSession(d, t)
           u == P!TellFather(k, t)
<1>3. /\ IsTable(k) /\ k.timers = d.timers /\ k.halt = d.halt
      /\ k.task[t] = dead /\ k.task[1] = s.task[1]
      /\ \A x \in P!Pids : Same(k.task[x], d.task[x])
  <2>1. d.task[1].sid # t
    BY <1>0, <1>2 DEF MayExit
  <2> QED
    BY <1>0, <1>2, <2>1, SessionFacts
<1> HIDE DEF k
<1>4. \A x \in P!Pids : P!Exists(k, x) <=> P!Exists(s, x)
  BY <1>0, <1>1, <1>2, <1>3 DEF P!Exists, Same
<1>5. /\ IsTable(u) /\ u.timers = s.timers /\ u.halt = s.halt /\ u.task[t] = dead
      /\ \A x \in P!Pids : Same(u.task[x], d.task[x])
      /\ u.task[1].signal \subseteq s.task[1].signal \cup {P!SIGCHLD}
  <2>1. P!Exists(k, t) /\ P!Exists(k, 1) /\ k.task[t].ppid = s.task[t].ppid
    BY <1>0, <1>1, <1>3, <1>4 DEF MayExit, P!Exists
  <2>2. k.task[t].ppid # 0 => P!Exists(k, k.task[t].ppid) /\ k.task[t].ppid # t
    <3>1. s.task[t].ppid \in P!Pids \cup {0}
      BY <1>0 DEF Task
    <3> QED
      BY <1>4, <2>1, <3>1 DEF MayExit
  <2>3. /\ IsTable(u) /\ u.timers = k.timers /\ u.halt = k.halt /\ u.task[t] = k.task[t]
        /\ \A x \in P!Pids : Same(u.task[x], k.task[x])
        /\ u.task[1].signal \subseteq k.task[1].signal \cup {P!SIGCHLD}
    BY <1>0, <1>3, <2>1, <2>2, FatherFacts
  <2> QED
    BY <1>2, <1>3, <2>3 DEF Same
<1> HIDE DEF u
<1>6. P!TaskExit(s, t) =
        IF \E sig \in P!Delivered(u, t) : P!Fatal(u, t, sig) THEN P!Stop(u, "task_exit")
        ELSE P!WakeParent(P!Reparent([u EXCEPT !.timers = {tm \in u.timers : tm.task # t},
                                               !.task[t] = P!Zombie(u.task[t])], t), t)
  <2>1. d = [s EXCEPT !.task[t].state = "died"]
    BY DEF d, dead
  <2> QED
    BY <1>0, <2>1 DEF P!TaskExit, P!Bind, u, k
<1>7. CASE \E sig \in P!Delivered(u, t) : P!Fatal(u, t, sig)
  <2>1. P!Delivered(u, t) \subseteq s.task[t].signal \ s.task[t].blocked
        /\ \A sig : P!Fatal(u, t, sig) <=> P!Fatal(s, t, sig)
    BY <1>1, <1>5 DEF P!Delivered, P!Pending, P!Fatal
  <2>2. "task_exit" \in Halts \ {""}
    BY DEF Halts
  <2>3. IsTable(P!Stop(u, "task_exit")) /\ P!Stop(u, "task_exit").halt = "task_exit"
    BY ZenonT(60), <1>0, <1>5, <2>2, StopFacts DEF Runs
  <2> QED
    BY <1>6, <1>7, <2>1, <2>3
<1>8. CASE ~ \E sig \in P!Delivered(u, t) : P!Fatal(u, t, sig)
  <2> DEFINE husk == P!Zombie(dead)
             keep == {tm \in u.timers : tm.task # t}
             z == [u EXCEPT !.timers = keep, !.task[t] = husk]
             r == P!Reparent(z, t)
             e == P!WakeParent(r, t)
  <2>1. husk \in Task /\ husk.state = "died" /\ husk.ppid = s.task[t].ppid
    BY <1>1, ZombieFacts
  <2>3. P!TaskExit(s, t) = e
    BY <1>5, <1>6, <1>8
  <2> HIDE DEF husk, keep
  <2>2. /\ IsTable(z) /\ z.timers = {tm \in s.timers : tm.task # t} /\ z.halt = s.halt
        /\ z.task[t] = husk /\ \A x \in P!Pids \ {t} : z.task[x] = u.task[x]
    <3> DEFINE tasks1 == [u.task EXCEPT ![t] = husk]
    <3>0. /\ tasks1 \in [P!Pids -> Task \cup {P!NoTask}]
          /\ tasks1[t] = husk /\ \A x \in P!Pids \ {t} : tasks1[x] = u.task[x]
      BY <1>5, <2>1 DEF IsTable
    <3>3. z = [u EXCEPT !.timers = keep, !.task = tasks1]
      BY <1>5 DEF IsTable
    <3> HIDE DEF tasks1
    <3>4. z = [task |-> tasks1, timers |-> keep, halt |-> u.halt]
      BY <1>5, <3>3, TwoFields
    <3>1. /\ IsTable(z) /\ z.timers = keep /\ z.halt = u.halt
          /\ z.task[t] = husk /\ \A x \in P!Pids \ {t} : z.task[x] = u.task[x]
      BY <1>5, <3>0, <3>4 DEF IsTable
    <3>2. keep = {tm \in s.timers : tm.task # t}
      BY <1>5 DEF keep
    <3> QED
      BY <1>5, <3>1, <3>2
  <2> HIDE DEF z
  <2>4. P!Exists(z, t)
    BY <2>1, <2>2 DEF P!Exists
  <2>5. /\ IsTable(r) /\ r.timers = z.timers /\ r.halt = z.halt
        /\ \A x \in P!Pids :
                 /\ r.task[x].state = z.task[x].state /\ r.task[x].alarm = z.task[x].alarm
                 /\ r.task[x].sid = z.task[x].sid /\ r.task[x].waitpid = z.task[x].waitpid
                 /\ r.task[x].pc = z.task[x].pc /\ r.task[x].signal = z.task[x].signal
                 /\ r.task[x].act = z.task[x].act /\ r.task[x].blocked = z.task[x].blocked
                 /\ r.task[x].ppid = IF x # 1 /\ P!Exists(z, x) /\ z.task[x].ppid = t
                                       THEN z.task[t].ppid ELSE z.task[x].ppid
    <3>1. HandedOn(z, t, r)
      BY <2>2, <2>4, ReparentFacts
    <3> QED
      BY <3>1 DEF HandedOn
  <2>6. P!Exists(r, t)
    BY <2>4, <2>5 DEF P!Exists
  <2> HIDE DEF r
  <2>7. /\ IsTable(e) /\ e.timers = r.timers /\ e.halt = r.halt
        /\ \A x \in P!Pids :
                 /\ e.task[x].ppid = r.task[x].ppid /\ e.task[x].alarm = r.task[x].alarm
                 /\ e.task[x].sid = r.task[x].sid /\ e.task[x].waitpid = r.task[x].waitpid
                 /\ e.task[x].pc = r.task[x].pc /\ e.task[x].signal = r.task[x].signal
                 /\ e.task[x].act = r.task[x].act /\ e.task[x].blocked = r.task[x].blocked
                 /\ e.task[x].state =
                      IF /\ x = r.task[t].ppid /\ r.task[x].state = "waiting"
                         /\ r.task[x].waitpid \in {P!Any, t}
                        THEN "ready" ELSE r.task[x].state
    <3>1. ParentWoken(r, t, e)
      BY <2>5, <2>6, WakeFacts
    <3> QED
      BY <3>1 DEF ParentWoken
  <2> HIDE DEF e
  <2>8. s.task[t].ppid # t /\ \A x \in P!Pids : P!Exists(z, x) <=> P!Exists(s, x)
    <3>1. s.task[t].ppid # t
      BY <1>0 DEF MayExit
    <3>2. P!Exists(s, t)
      BY <1>0 DEF P!Exists
    <3> QED
      BY <3>1, <3>2, <2>4, <2>2, <1>5, <1>2 DEF P!Exists, Same
  <2>9. ASSUME NEW x \in P!Pids \ {t}
        PROVE  /\ z.task[x].alarm = s.task[x].alarm /\ z.task[x].waitpid = s.task[x].waitpid
               /\ z.task[x].pc = s.task[x].pc /\ z.task[x].act = s.task[x].act
               /\ z.task[x].blocked = s.task[x].blocked /\ z.task[x].ppid = s.task[x].ppid
               /\ z.task[x].state = s.task[x].state /\ z.task[x].sid = s.task[x].sid
    BY SMTT(60), <1>2, <1>5, <2>2 DEF Same
  <2>10. r.task[t].ppid = s.task[t].ppid /\ e.task[t].ppid = s.task[t].ppid
    BY <2>1, <2>2, <2>5, <2>7, <2>8
  <2>11. e.task[t].state = "died"
    BY <2>1, <2>2, <2>5, <2>7, <2>8, <2>10
  <2>12. e.task[1].signal \subseteq s.task[1].signal \cup {P!SIGCHLD} /\ e.task[1].sid = s.task[1].sid
    BY <1>0, <1>5, <2>2, <2>5, <2>7, <2>9
  <2>13. ASSUME NEW x \in P!Pids \ {t}
         PROVE  /\ e.task[x].alarm = s.task[x].alarm /\ e.task[x].waitpid = s.task[x].waitpid
                /\ e.task[x].pc = s.task[x].pc /\ e.task[x].act = s.task[x].act
                /\ e.task[x].blocked = s.task[x].blocked
                /\ e.task[x].ppid = IF x # 1 /\ P!Exists(s, x) /\ s.task[x].ppid = t
                                      THEN s.task[t].ppid ELSE s.task[x].ppid
                /\ e.task[x].state = IF /\ x = s.task[t].ppid /\ s.task[x].state = "waiting"
                                        /\ s.task[x].waitpid \in {P!Any, t}
                                       THEN "ready" ELSE s.task[x].state
    <3>1. z.task[t].ppid = s.task[t].ppid
      BY <2>1, <2>2
    <3> QED
      BY <3>1, <2>5, <2>7, <2>8, <2>9, <2>10
  <2>14. Runs(e) /\ e.timers = {tm \in s.timers : tm.task # t}
    BY ZenonT(60), <1>0, <2>2, <2>5, <2>7 DEF Runs
  <2> QED
    BY <2>3, <2>7, <2>10, <2>11, <2>12, <2>13, <2>14 DEF Exited
<1> QED
  BY <1>7, <1>8


\* What is always true of the task table.
First(s) == /\ Live(s, 1) /\ s.task[1].ppid = 0 /\ s.task[1].sid \in {0, 1}
            /\ s.task[1].signal \subseteq {P!SIGCHLD}
Parents(s) == \A t \in P!Pids : P!Exists(s, t) /\ s.task[t].ppid # 0 => Live(s, s.task[t].ppid)
Older(s, r) == \A t \in P!Pids :
  P!Exists(s, t) /\ s.task[t].ppid # 0 => r[s.task[t].ppid] < r[t]
Tree(s) == \E r \in [P!Pids -> Nat] : Older(s, r)
Mine(s, t) == {x \in P!Pids \ {1} : /\ P!Exists(s, x) /\ s.task[x].ppid = t
                                    /\ s.task[t].waitpid \in {P!Any, x}}
Waiting(s) == \A t \in P!Pids : s.task[t].state = "waiting" =>
  Mine(s, t) # {} /\ \A x \in Mine(s, t) : s.task[x].state # "died"
Family(s) == First(s) /\ Parents(s) /\ Tree(s) /\ Waiting(s)

Timer == [id : Nat \ {0}, task : P!Pids]
Alarms(s) ==
  /\ s.timers \subseteq Timer
  /\ \A t \in P!Pids : Live(s, t) =>
       s.task[t].alarm = 0 \/ [id |-> s.task[t].alarm, task |-> t] \in s.timers
  /\ \A tm \in s.timers : Live(s, tm.task) /\ s.task[tm.task].alarm = tm.id
  /\ \A tm, n \in s.timers : tm.id = n.id => tm = n

Good(s) == IsTable(s) /\ (Runs(s) => Family(s) /\ Alarms(s))

\* A change that leaves the family as it is, and puts nobody to wait.
Mild(s, e) ==
  /\ IsTable(s) /\ IsTable(e) /\ e.halt = s.halt
  /\ \A x \in P!Pids : /\ P!Exists(e, x) <=> P!Exists(s, x)
                       /\ Live(e, x) <=> Live(s, x)
                       /\ e.task[x].ppid = s.task[x].ppid
                       /\ e.task[x].state = "waiting" =>
                            s.task[x].state = "waiting" /\ e.task[x].waitpid = s.task[x].waitpid
  /\ e.task[1].signal \subseteq {P!SIGCHLD} /\ e.task[1].sid \in {0, 1}

SameAlarms(s, e) == e.timers = s.timers /\ \A x \in P!Pids : e.task[x].alarm = s.task[x].alarm

\* A parent is a slot of the table, or none.
LEMMA ParentRange ==
  ASSUME NEW s, IsTable(s), NEW t \in P!Pids, P!Exists(s, t)
  PROVE  s.task[t].ppid \in P!Pids \cup {0} /\ 0 \notin P!Pids
BY SlotFacts, PidFacts DEF Task

\* A mild change keeps the family.
LEMMA MildFamily ==
  ASSUME NEW s, NEW e, Mild(s, e), Family(s)
  PROVE  Family(e)
<1>1. First(e)
  BY PidFacts DEF Family, First, Mild
<1>2. Parents(e)
  BY ParentRange DEF Family, Parents, Mild
<1>3. Tree(e)
  BY DEF Family, Tree, Older, Mild
<1>4. Waiting(e)
  <2> SUFFICES ASSUME NEW t \in P!Pids, e.task[t].state = "waiting"
               PROVE  Mine(e, t) # {} /\ \A x \in Mine(e, t) : e.task[x].state # "died"
    BY DEF Waiting
  <2>1. s.task[t].state = "waiting" /\ e.task[t].waitpid = s.task[t].waitpid
    BY DEF Mild
  <2>2. Mine(e, t) = Mine(s, t)
    BY <2>1 DEF Mine, Mild
  <2>3. \A x \in Mine(s, t) : Live(s, x)
    BY <2>1 DEF Family, Waiting, Live, Mine, P!Exists
  <2>4. \A x \in Mine(s, t) : Live(e, x)
    BY <2>3 DEF Mild, Mine
  <2> QED
    BY <2>1, <2>2, <2>4 DEF Family, Waiting, Live
<1> QED
  BY <1>1, <1>2, <1>3, <1>4 DEF Family

\* A mild change of no alarm and no timer keeps the alarms.
LEMMA SameAlarmsKept ==
  ASSUME NEW s, NEW e, Mild(s, e), SameAlarms(s, e), Alarms(s)
  PROVE  Alarms(e)
BY DEF Alarms, Mild, SameAlarms, Timer

\* A mild change of no alarm and no timer keeps the invariant.
LEMMA MildKeeps ==
  ASSUME NEW s, NEW e, Mild(s, e), SameAlarms(s, e), Good(s)
  PROVE  Good(e)
BY MildFamily, SameAlarmsKept DEF Good, Mild, Runs

\* A running task, but not init, may enter task_exit.
LEMMA ExitAllowed ==
  ASSUME NEW s, NEW t \in P!Pids \ {1}, Good(s), Runs(s), s.task[t].state = "ready"
  PROVE  MayExit(s, t)
<1>1. IsTable(s) /\ First(s) /\ Parents(s) /\ P!Exists(s, t) /\ P!Exists(s, 1)
  BY SlotFacts, PidFacts DEF Good, Family, First, Live, P!Exists
<1>2. PICK r \in [P!Pids -> Nat] : Older(s, r)
  BY DEF Good, Family, Tree
<1>3. ASSUME s.task[t].ppid # 0 PROVE P!Exists(s, s.task[t].ppid) /\ s.task[t].ppid # t
  <2>1. s.task[t].ppid \in P!Pids /\ Live(s, s.task[t].ppid)
    BY <1>1, <1>3, ParentRange DEF Parents
  <2>2. r[s.task[t].ppid] < r[t]
    BY <1>1, <1>2, <1>3 DEF Older
  <2>3. r[t] \in Nat
    BY <1>2
  <2> QED
    BY <2>1, <2>2, <2>3 DEF Live, P!Exists
<1>4. s.task[1].sid # t
  BY <1>1, PidFacts DEF First
<1> QED
  BY <1>1, <1>3, <1>4 DEF MayExit

\* task_exit: children get a parent that lives and is older than they are, and a
\* parent that waits for the task, or gets a dead child from it, is woken.
LEMMA ExitKeeps ==
  ASSUME NEW s, NEW t \in P!Pids \ {1}, Good(s), Runs(s), s.task[t].state = "ready"
  PROVE  Good(P!TaskExit(s, t))
<1> DEFINE e == P!TaskExit(s, t)
<1>0. MayExit(s, t) /\ IsTable(s) /\ P!Exists(s, t) /\ Family(s) /\ 1 \in P!Pids /\ t \in P!Pids
  BY ExitAllowed, PidFacts DEF Good, P!Exists
<1>1. IsTable(e) /\ (Runs(e) => Exited(s, t, e))
  BY <1>0, ExitFacts DEF Runs
<1> HIDE DEF e
<1> SUFFICES ASSUME Runs(e) PROVE Family(e) /\ Alarms(e)
  BY <1>1 DEF Good, e
<1>2. Exited(s, t, e)
  BY <1>1
<1> DEFINE p == s.task[t].ppid
<1>3. p # t /\ p \in P!Pids \cup {0} /\ 0 \notin P!Pids /\ (p # 0 => Live(s, p))
  BY <1>0, ParentRange DEF MayExit, Family, Parents, P!Exists
<1>4. ASSUME NEW x \in P!Pids
      PROVE  /\ P!Exists(e, x) <=> P!Exists(s, x)
             /\ x # t => (Live(e, x) <=> Live(s, x))
             /\ x # t => (e.task[x].state = "died" <=> s.task[x].state = "died")
  BY <1>0, <1>2 DEF Exited, Live, P!Exists
<1>5. First(e)
  <2>1. Live(e, 1) /\ e.task[1].ppid = 0
    BY <1>0, <1>2, <1>4 DEF Exited, Family, First
  <2> QED
    BY <1>0, <1>2, <2>1 DEF Exited, Family, First
<1>6. ASSUME NEW x \in P!Pids
      PROVE  e.task[x].ppid = IF x # t /\ x # 1 /\ P!Exists(s, x) /\ s.task[x].ppid = t
                                THEN p ELSE s.task[x].ppid
  BY <1>2 DEF Exited
<1>7. Parents(e)
  <2> SUFFICES ASSUME NEW x \in P!Pids, P!Exists(e, x), e.task[x].ppid # 0
               PROVE  Live(e, e.task[x].ppid)
    BY DEF Parents
  <2>1. P!Exists(s, x)
    BY <1>4
  <2>2. CASE x # t /\ x # 1 /\ s.task[x].ppid = t
    BY <1>3, <1>4, <1>6, <2>1, <2>2
  <2>3. CASE x = t
    BY <1>3, <1>4, <1>6, <2>3
  <2>4. CASE x = 1
    BY <1>0, <1>6, <2>4 DEF Family, First
  <2>5. CASE x # t /\ s.task[x].ppid # t
    <3>1. e.task[x].ppid = s.task[x].ppid
      BY <1>6, <2>5
    <3>2. Live(s, s.task[x].ppid) /\ s.task[x].ppid \in P!Pids
      BY <1>0, <2>1, <3>1, ParentRange DEF MayExit, Family, Parents
    <3> QED
      BY <1>4, <2>5, <3>1, <3>2
  <2> QED
    BY <2>2, <2>3, <2>4, <2>5
<1>8. Tree(e)
  <2>1. PICK r \in [P!Pids -> Nat] : Older(s, r)
    BY <1>0 DEF Family, Tree
  <2>2. ASSUME NEW x \in P!Pids, P!Exists(e, x), e.task[x].ppid # 0
        PROVE  r[e.task[x].ppid] < r[x]
    <3>1. P!Exists(s, x) /\ r[x] \in Nat /\ r[t] \in Nat
      BY <1>4, <2>1, <2>2
    <3>2. CASE x # t /\ x # 1 /\ s.task[x].ppid = t
      <4>1. e.task[x].ppid = p /\ p # 0 /\ p \in P!Pids
        BY <1>3, <1>6, <2>2, <3>1, <3>2
      <4>2. r[p] < r[t] /\ r[t] < r[x]
        <5>1. t # 0 /\ s.task[x].ppid # 0
          BY <3>2, PidFacts
        <5> QED
          BY <1>0, <2>1, <3>1, <3>2, <4>1, <5>1 DEF Older
      <4>3. r[p] \in Nat
        BY <2>1, <4>1
      <4> QED
        BY <3>1, <4>1, <4>2, <4>3
    <3>3. CASE ~ (x # t /\ x # 1 /\ s.task[x].ppid = t)
      <4>1. e.task[x].ppid = s.task[x].ppid
        BY <1>6, <3>3
      <4> QED
        BY <2>1, <2>2, <3>1, <4>1 DEF Older
    <3> QED
      BY <3>2, <3>3
  <2> QED
    BY <2>1, <2>2 DEF Tree, Older
<1>9. Waiting(e)
  <2> SUFFICES ASSUME NEW w \in P!Pids, e.task[w].state = "waiting"
               PROVE  Mine(e, w) # {} /\ \A x \in Mine(e, w) : e.task[x].state # "died"
    BY DEF Waiting
  <2>1. /\ w # t /\ s.task[w].state = "waiting" /\ e.task[w].waitpid = s.task[w].waitpid
        /\ ~ (w = p /\ s.task[w].waitpid \in {P!Any, t})
    BY <1>2 DEF Exited
  <2>2. Mine(s, w) # {} /\ \A x \in Mine(s, w) : s.task[x].state # "died"
    BY <1>0, <2>1 DEF Family, Waiting
  <2>3. t \notin Mine(s, w)
    BY <2>1 DEF Mine
  <2>4. Mine(s, w) \subseteq Mine(e, w)
    BY <1>4, <1>6, <2>1, <2>3 DEF Mine
  <2>5. Mine(e, w) \subseteq Mine(s, w)
    <3> SUFFICES ASSUME NEW x \in Mine(e, w) PROVE x \in Mine(s, w)
      OBVIOUS
    <3>1. x \in P!Pids \ {1} /\ P!Exists(s, x) /\ e.task[x].ppid = w /\ s.task[w].waitpid \in {P!Any, x}
      BY <1>4, <2>1 DEF Mine
    <3>2. CASE x # t /\ s.task[x].ppid = t
      <4>1. w = p
        BY <1>6, <3>1, <3>2
      <4>2. s.task[w].waitpid = x /\ x # P!Any
        BY <2>1, <3>1, <4>1
      <4>3. PICK y \in Mine(s, w) : TRUE
        BY <2>2
      <4>4. y = x
        BY <4>2, <4>3 DEF Mine
      <4> QED
        BY <4>3, <4>4
    <3>3. CASE ~ (x # t /\ s.task[x].ppid = t)
      BY <1>6, <3>1, <3>3 DEF Mine
    <3> QED
      BY <3>2, <3>3
  <2>6. \A x \in Mine(e, w) : e.task[x].state # "died"
    BY <1>4, <2>2, <2>3, <2>5 DEF Mine
  <2> QED
    BY <2>2, <2>4, <2>6
<1>10. ASSUME Alarms(s) PROVE Alarms(e)
  <2>1. e.timers = {tm \in s.timers : tm.task # t} /\ \A x \in P!Pids \ {t} : e.task[x].alarm = s.task[x].alarm
    BY <1>2 DEF Exited
  <2>2. ~ Live(e, t)
    BY <1>2 DEF Exited, Live
  <2>3. e.timers \subseteq Timer /\ \A tm, n \in e.timers : tm.id = n.id => tm = n
    BY <1>10, <2>1 DEF Alarms
  <2>4. ASSUME NEW x \in P!Pids, Live(e, x)
        PROVE  e.task[x].alarm = 0 \/ [id |-> e.task[x].alarm, task |-> x] \in e.timers
    <3>1. x # t /\ Live(s, x) /\ e.task[x].alarm = s.task[x].alarm
      BY <1>4, <2>1, <2>2, <2>4
    <3> DEFINE tm == [id |-> s.task[x].alarm, task |-> x]
    <3>2. s.task[x].alarm = 0 \/ tm \in s.timers
      BY <1>10, <3>1 DEF Alarms
    <3>3. tm.task = x
      OBVIOUS
    <3> HIDE DEF tm
    <3>4. tm \in s.timers => tm \in e.timers
      BY <2>1, <3>1, <3>3
    <3> QED
      BY <3>1, <3>2, <3>4 DEF tm
  <2>5. ASSUME NEW tm \in e.timers PROVE Live(e, tm.task) /\ e.task[tm.task].alarm = tm.id
    <3>1. tm \in s.timers /\ tm.task # t /\ tm.task \in P!Pids
      BY <2>1, <2>3 DEF Timer
    <3> QED
      BY <1>4, <1>10, <2>1, <3>1 DEF Alarms
  <2> QED
    BY <2>3, <2>4, <2>5 DEF Alarms
<1> QED
  BY <1>0, <1>5, <1>7, <1>8, <1>9, <1>10 DEF Family, Good

\* Every non-empty set of naturals has a least element.
LEMMA MinFacts ==
  ASSUME NEW T \in SUBSET Nat, T # {}
  PROVE  P!Min(T) \in T /\ \A y \in T : P!Min(T) <= y
<1> DEFINE R == {p \in Nat \X Nat : p[1] < p[2]}
<1>1. IsWellFoundedOn(R, Nat)
  BY NatLessThanWellFounded DEF OpToRel
<1>2. \A x, y \in Nat : y < x => <<y, x>> \in R
  OBVIOUS
<1> HIDE DEF R
<1>3. PICK x \in T : \A y \in T : ~ (<<y, x>> \in R)
  BY <1>1, WFMin
<1>4. \A y \in T : ~ (y < x)
  BY <1>2, <1>3
<1>5. \A y \in T : x <= y
  BY <1>4
<1> QED
  BY <1>3, <1>5 DEF P!Min

\* One slot replaced.
LEMMA OneSlot ==
  ASSUME NEW s, IsTable(s), NEW t \in P!Pids, NEW r \in Task \cup {P!NoTask}
  PROVE  LET e == [s EXCEPT !.task[t] = r]
         IN /\ IsTable(e) /\ e.timers = s.timers /\ e.halt = s.halt /\ e.task[t] = r
            /\ \A x \in P!Pids \ {t} : e.task[x] = s.task[x]
BY DEF IsTable

\* A slot replaced by one that has only left its wait, or changed what
\* the family does not depend on.
LEMMA SlotKeeps ==
  ASSUME NEW s, Good(s), Runs(s), NEW t \in P!Pids, P!Exists(s, t), NEW r \in Task,
         r.state = "died" <=> s.task[t].state = "died",
         r.state # "waiting" \/ (r.state = s.task[t].state /\ r.waitpid = s.task[t].waitpid),
         r.ppid = s.task[t].ppid, r.alarm = s.task[t].alarm,
         t = 1 => r.signal \subseteq {P!SIGCHLD} /\ r.sid \in {0, 1}
  PROVE  LET e == [s EXCEPT !.task[t] = r]
         IN Good(e) /\ Runs(e) /\ e.task[t] = r /\ \A x \in P!Pids \ {t} : e.task[x] = s.task[x]
<1> DEFINE e == [s EXCEPT !.task[t] = r]
<1>1. IsTable(s) /\ First(s) /\ 1 \in P!Pids
  BY PidFacts DEF Good, Family
<1>2. /\ IsTable(e) /\ e.timers = s.timers /\ e.halt = s.halt /\ e.task[t] = r
      /\ \A x \in P!Pids \ {t} : e.task[x] = s.task[x]
  BY <1>1, OneSlot
<1>3. r.state # "none"
  BY DEF Task
<1> HIDE DEF e
<1>4. Mild(s, e)
  BY <1>1, <1>2, <1>3 DEF Mild, First, Live, P!Exists
<1>5. SameAlarms(s, e)
  BY <1>2 DEF SameAlarms
<1>6. Good(e) /\ Runs(e)
  BY <1>2, <1>4, <1>5, MildKeeps DEF Runs
<1> QED
  BY <1>2, <1>6 DEF e

\* task_signal: nothing, a handler, or task_exit.
LEMMA SignalKeeps ==
  ASSUME NEW s, NEW t \in P!Pids, Good(s), Runs(s), s.task[t].state = "ready"
  PROVE  Good(P!TaskSignal(s, t))
<1>1. CASE P!Pending(s, t) = {}
  BY <1>1 DEF P!TaskSignal
<1>2. CASE P!Pending(s, t) # {}
  <2> DEFINE sig == P!Min(P!Pending(s, t))
             r   == [s.task[t] EXCEPT !.signal = s.task[t].signal \ {sig}]
             u   == [s EXCEPT !.task[t] = r]
             act == s.task[t].act[sig]
  <2>1. IsTable(s) /\ P!Exists(s, t) /\ s.task[t] \in Task /\ First(s)
    BY SlotFacts DEF Good, Family, P!Exists
  <2>2. sig \in s.task[t].signal /\ sig \in Signals
    <3>1. P!Pending(s, t) \subseteq Signals /\ P!Pending(s, t) \subseteq s.task[t].signal
      BY <2>1 DEF P!Pending, Task
    <3>2. P!Pending(s, t) \in SUBSET Nat
      BY <3>1, ProcAssumption
    <3>3. sig \in P!Pending(s, t)
      BY <1>2, <3>2, MinFacts
    <3> QED
      BY <3>1, <3>3
  <2> HIDE DEF sig
  <2>3. /\ r \in Task /\ r.state = "ready" /\ r.ppid = s.task[t].ppid /\ r.alarm = s.task[t].alarm
        /\ r.signal \subseteq s.task[t].signal /\ r.sid = s.task[t].sid
        /\ r.act = s.task[t].act /\ r.blocked = s.task[t].blocked /\ r.frames = s.task[t].frames
    BY <2>1 DEF Task
  <2>4. act \in Actions
    BY <2>1, <2>2 DEF Task
  <2>5. Good(u) /\ Runs(u) /\ u.task[t] = r
    <3>1. t = 1 => r.signal \subseteq {P!SIGCHLD} /\ r.sid \in {0, 1}
      BY <2>1, <2>3 DEF First
    <3> HIDE DEF r
    <3> QED
      BY <2>1, <2>3, <3>1, SlotKeeps
  <2>6. P!TaskSignal(s, t) =
          IF act.handler = "ign" \/ (act.handler = "dfl" /\ sig = P!SIGCHLD) THEN u
          ELSE IF act.handler = "dfl" THEN P!TaskExit(u, t)
          ELSE [u EXCEPT !.task[t].frames = Append(u.task[t].frames,
                                                   IF act.nomask THEN u.task[t].blocked ELSE P!All),
                         !.task[t].act[sig].handler = IF act.once THEN "dfl" ELSE u.task[t].act[sig].handler]
    <3> DEFINE v == [s EXCEPT !.task[t].signal = s.task[t].signal \ {sig}]
    <3>1. P!TaskSignal(s, t) =
          IF act.handler = "ign" \/ (act.handler = "dfl" /\ sig = P!SIGCHLD) THEN v
          ELSE IF act.handler = "dfl" THEN P!TaskExit(v, t)
          ELSE [v EXCEPT !.task[t].frames = Append(v.task[t].frames,
                                                   IF act.nomask THEN v.task[t].blocked ELSE P!All),
                         !.task[t].act[sig].handler = IF act.once THEN "dfl" ELSE v.task[t].act[sig].handler]
      BY <1>2 DEF P!TaskSignal, P!Bind, Runs, sig
    <3>2. u = v
      BY SMTT(60)
    <3> HIDE DEF u, v
    <3> QED
      BY SMTT(60), <3>1, <3>2
  <2>7. CASE act.handler = "ign" \/ (act.handler = "dfl" /\ sig = P!SIGCHLD)
    BY <2>5, <2>6, <2>7
  <2>8. CASE act.handler = "dfl" /\ sig # P!SIGCHLD
    <3>1. t # 1
      BY <2>1, <2>2, <2>8 DEF First
    <3>2. Good(P!TaskExit(u, t))
      BY <2>3, <2>5, <3>1, ExitKeeps
    <3> QED
      BY <2>6, <2>8, <3>2
  <2>9. CASE act.handler = "fun"
    <3> DEFINE mask == IF act.nomask THEN r.blocked ELSE P!All
               h == IF act.once THEN "dfl" ELSE act.handler
               acts == [r.act EXCEPT ![sig] = [r.act[sig] EXCEPT !.handler = h]]
               q == [r EXCEPT !.frames = Append(r.frames, mask), !.act = acts]
               e == [u EXCEPT !.task[t] = q]
    <3>1. mask \in SUBSET P!All /\ r.frames \in Seq(SUBSET P!All) /\ r.act \in [Signals -> Actions]
      BY <2>3, <2>4 DEF Task
    <3>2. Append(r.frames, mask) \in Seq(SUBSET P!All)
      BY <3>1
    <3>3. acts \in [Signals -> Actions]
      <4>1. [r.act[sig] EXCEPT !.handler = h] \in Actions
        BY <2>2, <2>4, <3>1 DEF Actions
      <4> QED
        BY <3>1, <4>1
    <3> HIDE DEF acts, mask
    <3>4. q \in Task /\ q.state = r.state /\ q.ppid = r.ppid /\ q.alarm = r.alarm
          /\ q.signal = r.signal /\ q.sid = r.sid
      BY <2>3, <3>2, <3>3 DEF Task
    <3> HIDE DEF q
    <3>5. t = 1 => q.signal \subseteq {P!SIGCHLD} /\ q.sid \in {0, 1}
      BY <2>1, <2>3, <3>4 DEF First
    <3>6. P!Exists(u, t)
      BY <2>3, <2>5 DEF P!Exists
    <3>7. Good(e)
      BY ZenonT(60), <2>3, <2>5, <3>4, <3>5, <3>6, SlotKeeps
    <3>8. P!TaskSignal(s, t) = e
      <4> DEFINE f == [r EXCEPT !.frames = Append(r.frames, mask)]
      <4>1. P!TaskSignal(s, t) =
              [u EXCEPT !.task[t].frames = Append(u.task[t].frames,
                                                   IF act.nomask THEN u.task[t].blocked ELSE P!All),
                        !.task[t].act[sig].handler = IF act.once THEN "dfl" ELSE u.task[t].act[sig].handler]
        BY <2>6, <2>9
      <4>2. /\ u.task[t].frames = r.frames /\ u.task[t].blocked = r.blocked
            /\ u.task[t].act[sig].handler = act.handler
        BY <2>3, <2>5
      <4>3. IsTable(u) /\ u.task[t] = r /\ r \in Task
        BY <2>3, <2>5 DEF Good
      <4> HIDE DEF u, r, act, h
      <4>4. P!TaskSignal(s, t) =
              [u EXCEPT !.task[t].frames = Append(r.frames, mask), !.task[t].act[sig].handler = h]
        BY <4>1, <4>2 DEF mask, h
      <4> DEFINE u1 == [u EXCEPT !.task[t] = f]
                 q1 == [f EXCEPT !.act = acts]
      <4>5. u1 = [u EXCEPT !.task[t].frames = Append(r.frames, mask)]
        BY <4>3 DEF IsTable
      <4>6. u1.task[t] = f /\ f.act = r.act
        BY <4>3 DEF IsTable, Task
      <4>7. [u EXCEPT !.task[t].frames = Append(r.frames, mask), !.task[t].act[sig].handler = h]
              = [u1 EXCEPT !.task[t].act[sig].handler = h]
        BY <4>5
      <4>8. [u1 EXCEPT !.task[t].act[sig].handler = h] = [u1 EXCEPT !.task[t] = q1]
        <5> HIDE DEF u1, f
        <5> QED
          BY <4>6 DEF acts
      <4>9. [u1 EXCEPT !.task[t] = q1] = [u EXCEPT !.task[t] = q1]
        <5> HIDE DEF q1, f
        <5> QED
          BY <4>3 DEF IsTable
      <4>10. q1 = q
        BY DEF q
      <4> QED
        BY <4>4, <4>7, <4>8, <4>9, <4>10
    <3> QED
      BY <3>7, <3>8
  <2> QED
    BY <2>4, <2>7, <2>8, <2>9 DEF Actions
<1> QED
  BY <1>1, <1>2

\* A task in the kernel goes back to user mode: interrupt_exit.
LEMMA ReturnKeeps ==
  ASSUME NEW s, NEW t \in P!Pids, Good(s), s.task[t].state = "ready"
  PROVE  Good(P!Return(s, t))
<1> DEFINE a == [s.task[t] EXCEPT !.pc = "user"]
           q == [a EXCEPT !.waitpid = 0]
           v == [s EXCEPT !.task[t] = q]
<1>1. IsTable(s) /\ P!Exists(s, t) /\ s.task[t] \in Task
  BY SlotFacts DEF Good, P!Exists
<1>2. q \in Task /\ q.state = "ready" /\ q.ppid = s.task[t].ppid /\ q.alarm = s.task[t].alarm
      /\ q.signal = s.task[t].signal /\ q.sid = s.task[t].sid
  <2>1. a \in Task /\ a.state = "ready" /\ a.ppid = s.task[t].ppid /\ a.alarm = s.task[t].alarm
        /\ a.signal = s.task[t].signal /\ a.sid = s.task[t].sid
    BY <1>1 DEF Task
  <2> HIDE DEF a
  <2>2. ASSUME NEW l \in Int
        PROVE  LET b == [a EXCEPT !.waitpid = l]
               IN /\ b \in Task /\ b.state = a.state /\ b.ppid = a.ppid /\ b.alarm = a.alarm
                  /\ b.signal = a.signal /\ b.sid = a.sid
    BY <2>1 DEF Task
  <2>3. 0 \in Int
    OBVIOUS
  <2> QED
    BY <2>1, <2>2, <2>3
<1>3. P!Return(s, t) = P!TaskSignal(v, t)
  <2> DEFINE s1 == [s EXCEPT !.task[t] = a]
  <2>1. s1 = [s EXCEPT !.task[t].pc = "user"]
    BY <1>1 DEF IsTable
  <2>2. s1.task[t] = a
    BY <1>1 DEF IsTable
  <2>3. [s EXCEPT !.task[t].pc = "user", !.task[t].waitpid = 0] = [s1 EXCEPT !.task[t].waitpid = 0]
    BY <2>1
  <2>4. [s1 EXCEPT !.task[t].waitpid = 0] = [s1 EXCEPT !.task[t] = q]
    <3> HIDE DEF s1, a
    <3> QED
      BY <2>2
  <2>5. [s1 EXCEPT !.task[t] = q] = v
    <3> HIDE DEF q, a
    <3> QED
      BY <1>1 DEF IsTable
  <2> QED
    BY <2>3, <2>4, <2>5 DEF P!Return
<1> HIDE DEF q
<1>4. IsTable(v) /\ v.halt = s.halt /\ v.task[t] = q
  BY <1>1, <1>2, OneSlot
<1>5. CASE Runs(s)
  <2>1. t = 1 => q.signal \subseteq {P!SIGCHLD} /\ q.sid \in {0, 1}
    BY <1>2, <1>5 DEF Good, Family, First
  <2>2. Good(v) /\ Runs(v)
    BY <1>1, <1>2, <1>5, <2>1, SlotKeeps
  <2> HIDE DEF v
  <2> QED
    BY <1>2, <1>3, <1>4, <2>2, SignalKeeps
<1>6. CASE ~ Runs(s)
  <2> HIDE DEF v
  <2>1. P!TaskSignal(v, t) = v
    BY <1>4, <1>6 DEF P!TaskSignal, Runs
  <2> QED
    BY <1>3, <1>4, <1>6, <2>1 DEF Good, Runs
<1> QED
  BY <1>5, <1>6

\* The tasks that are interrupted are in the kernel.
LEMMA SwitchKeeps ==
  ASSUME NEW s, NEW t, Good(s)
  PROVE  Good(P!Switch(s, t))
<1> DEFINE hit(x) == x # t /\ P!Exists(s, x) /\ s.task[x].pc = "user"
           new(x) == IF hit(x) THEN [s.task[x] EXCEPT !.pc = "return"] ELSE s.task[x]
           e == P!Switch(s, t)
<1>1. IsTable(s) /\ e = [s EXCEPT !.task = [x \in P!Pids |-> new(x)]]
  BY DEF P!Switch, Good
<1>2. ASSUME NEW x \in P!Pids
      PROVE  /\ new(x) \in Task \cup {P!NoTask}
             /\ new(x).state = s.task[x].state /\ new(x).ppid = s.task[x].ppid
             /\ new(x).waitpid = s.task[x].waitpid /\ new(x).alarm = s.task[x].alarm
             /\ new(x).signal = s.task[x].signal /\ new(x).sid = s.task[x].sid
  <2>1. CASE hit(x)
    <3>1. s.task[x] \in Task
      BY <1>1, <2>1, SlotFacts
    <3> DEFINE r == [s.task[x] EXCEPT !.pc = "return"]
    <3>2. /\ r \in Task /\ r.state = s.task[x].state /\ r.ppid = s.task[x].ppid
          /\ r.waitpid = s.task[x].waitpid /\ r.alarm = s.task[x].alarm
          /\ r.signal = s.task[x].signal /\ r.sid = s.task[x].sid
      BY <3>1 DEF Task
    <3>3. new(x) = r
      BY <2>1
    <3> QED
      BY <3>2, <3>3
  <2>2. CASE ~ hit(x)
    BY <1>1, <2>2, SlotFacts
  <2> QED
    BY <2>1, <2>2
<1> HIDE DEF new
<1>3. /\ IsTable(e) /\ e.timers = s.timers /\ e.halt = s.halt
      /\ \A x \in P!Pids : e.task[x] = new(x)
  BY <1>1, <1>2 DEF IsTable
<1> HIDE DEF e
<1>4. CASE Runs(s)
  <2>1. First(s) /\ 1 \in P!Pids
    BY <1>4, PidFacts DEF Good, Family
  <2>2. Mild(s, e)
    BY <1>1, <1>2, <1>3, <2>1 DEF Mild, First, Live, P!Exists
  <2>3. SameAlarms(s, e)
    BY <1>2, <1>3 DEF SameAlarms
  <2> QED
    BY <2>2, <2>3, MildKeeps DEF e
<1>5. CASE ~ Runs(s)
  BY <1>3, <1>5 DEF Good, Runs, e
<1> QED
  BY <1>4, <1>5

\* Nothing is promised of a kernel that has stopped.
LEMMA StopKeeps ==
  ASSUME NEW s, Good(s), NEW why \in Halts \ {""}
  PROVE  Good(P!Stop(s, why))
BY StopFacts DEF Good

\* task_waitpid: a dead child goes, or the task waits for a live one, or returns.
LEMMA WaitKeeps ==
  ASSUME NEW s, NEW t \in P!Pids, NEW pid \in Int, Good(s), Runs(s), s.task[t].state = "ready"
  PROVE  Good(P!Waitpid(s, t, pid))
<1> DEFINE mine == {x \in P!Pids \ {1} : P!Exists(s, x) /\ s.task[x].ppid = t /\ pid \in {P!Any, x}}
           dead == {x \in mine : s.task[x].state = "died"}
<1>1. /\ IsTable(s) /\ P!Exists(s, t) /\ s.task[t] \in Task
      /\ First(s) /\ Parents(s) /\ Tree(s) /\ Waiting(s) /\ Alarms(s)
  BY SlotFacts DEF Good, Family, P!Exists
<1>2. CASE dead # {}
  <2> DEFINE x == P!Min(dead)
             e == [s EXCEPT !.task[x] = P!NoTask]
  <2>1. x \in dead
    BY <1>2, MinFacts, PidFacts
  <2> HIDE DEF x
  <2>2. x \in P!Pids /\ x # 1 /\ x # t /\ s.task[x].state = "died"
    BY <1>1, <2>1
  <2>3. /\ IsTable(e) /\ e.timers = s.timers /\ e.halt = s.halt /\ e.task[x] = P!NoTask
        /\ \A y \in P!Pids \ {x} : e.task[y] = s.task[y]
    BY SMTT(60), <1>1, <2>2, OneSlot
  <2> HIDE DEF e
  <2>4. /\ ~ P!Exists(e, x) /\ ~ Live(e, x) /\ ~ Live(s, x) /\ P!NoTask.state = "none"
        /\ \A y \in P!Pids \ {x} : (P!Exists(e, y) <=> P!Exists(s, y)) /\ (Live(e, y) <=> Live(s, y))
    BY <2>2, <2>3 DEF P!Exists, Live, P!NoTask
  <2>5. First(e)
    BY <1>1, <2>2, <2>3, <2>4, PidFacts DEF First
  <2>6. Parents(e)
    <3> SUFFICES ASSUME NEW y \in P!Pids, P!Exists(e, y), e.task[y].ppid # 0
                 PROVE  Live(e, e.task[y].ppid)
      BY DEF Parents
    <3>1. y # x /\ P!Exists(s, y) /\ e.task[y].ppid = s.task[y].ppid
      BY <2>3, <2>4
    <3>2. Live(s, s.task[y].ppid) /\ s.task[y].ppid \in P!Pids
      BY <1>1, <3>1, ParentRange DEF Parents
    <3> QED
      BY <2>4, <3>1, <3>2
  <2>7. Tree(e)
    BY <1>1, <2>3, <2>4 DEF Tree, Older
  <2>8. Waiting(e)
    <3> SUFFICES ASSUME NEW w \in P!Pids, e.task[w].state = "waiting"
                 PROVE  Mine(e, w) # {} /\ \A y \in Mine(e, w) : e.task[y].state # "died"
      BY DEF Waiting
    <3>1. w # x /\ s.task[w].state = "waiting" /\ e.task[w].waitpid = s.task[w].waitpid
      BY <2>3, <2>4
    <3>2. Mine(s, w) # {} /\ \A y \in Mine(s, w) : s.task[y].state # "died"
      BY <1>1, <3>1 DEF Waiting
    <3>3. x \notin Mine(s, w)
      BY <2>2, <3>2
    <3>4. Mine(e, w) = Mine(s, w)
      BY <2>3, <2>4, <3>1, <3>3 DEF Mine
    <3> QED
      BY <2>3, <3>2, <3>3, <3>4 DEF Mine
  <2>9. Alarms(e)
    BY <1>1, <2>3, <2>4 DEF Alarms, Timer
  <2>10. Good(e)
    BY <2>3, <2>5, <2>6, <2>7, <2>8, <2>9 DEF Good, Family
  <2>11. e.task[t].state = "ready"
    BY <2>2, <2>3
  <2>12. P!Waitpid(s, t, pid) = P!Return(e, t)
    BY <1>2 DEF P!Waitpid, e, x
  <2> QED
    BY <2>10, <2>11, <2>12, ReturnKeeps
<1>3. CASE dead = {} /\ mine # {}
  <2> DEFINE q == [s.task[t] EXCEPT !.waitpid = pid, !.pc = "waitpid", !.state = "waiting"]
             e == [s EXCEPT !.task[t] = q]
  <2>1. /\ q \in Task /\ q.state = "waiting" /\ q.waitpid = pid /\ q.ppid = s.task[t].ppid
        /\ q.alarm = s.task[t].alarm /\ q.signal = s.task[t].signal /\ q.sid = s.task[t].sid
    BY <1>1 DEF Task
  <2> HIDE DEF q
  <2>2. /\ IsTable(e) /\ e.timers = s.timers /\ e.halt = s.halt /\ e.task[t] = q
        /\ \A y \in P!Pids \ {t} : e.task[y] = s.task[y]
    BY SMTT(60), <1>1, <2>1, OneSlot
  <2> HIDE DEF e
  <2>3. \A y \in P!Pids : /\ P!Exists(e, y) <=> P!Exists(s, y)
                          /\ Live(e, y) <=> Live(s, y)
                          /\ e.task[y].ppid = s.task[y].ppid
                          /\ e.task[y].state = "died" <=> s.task[y].state = "died"
                          /\ e.task[y].alarm = s.task[y].alarm
    BY <2>1, <2>2 DEF P!Exists, Live
  <2>4. First(e)
    BY <1>1, <2>1, <2>2, <2>3, PidFacts DEF First
  <2>5. Parents(e)
    BY <1>1, <2>3, ParentRange DEF Parents
  <2>6. Tree(e)
    BY <1>1, <2>3 DEF Tree, Older
  <2>7. Waiting(e)
    <3> SUFFICES ASSUME NEW w \in P!Pids, e.task[w].state = "waiting"
                 PROVE  Mine(e, w) # {} /\ \A y \in Mine(e, w) : e.task[y].state # "died"
      BY DEF Waiting
    <3>1. CASE w = t
      <4>1. Mine(e, w) = mine
        BY <2>1, <2>2, <2>3, <3>1 DEF Mine
      <4> QED
        BY <1>3, <2>3, <4>1
    <3>2. CASE w # t
      <4>1. s.task[w].state = "waiting" /\ Mine(e, w) = Mine(s, w)
        BY <2>2, <2>3, <3>2 DEF Mine
      <4> QED
        BY <1>1, <2>3, <4>1 DEF Waiting, Mine
    <3> QED
      BY <3>1, <3>2
  <2>8. Alarms(e)
    BY <1>1, <2>2, <2>3 DEF Alarms, Timer
  <2>9. Good(e)
    BY <2>2, <2>4, <2>5, <2>6, <2>7, <2>8 DEF Good, Family
  <2>10. P!Waitpid(s, t, pid) = e
    BY <1>3 DEF P!Waitpid, e, q
  <2> QED
    BY <2>9, <2>10
<1>4. CASE mine = {}
  <2>1. dead = {}
    BY <1>4
  <2>2. P!Waitpid(s, t, pid) = P!Return(s, t)
    BY <1>4, <2>1 DEF P!Waitpid
  <2> QED
    BY <2>2, ReturnKeeps
<1> QED
  BY <1>2, <1>3, <1>4

\* task_fork: the child is younger than everybody, and has no children.
LEMMA ForkKeeps ==
  ASSUME NEW s, NEW t \in P!Pids, Good(s), Runs(s), s.task[t].state = "ready", s.task[t].alarm = 0,
         NEW c \in P!Pids, ~ P!Exists(s, c)
  PROVE  Good([s EXCEPT !.task[c] = [s.task[t] EXCEPT !.ppid = t, !.pc = "return"]])
<1> DEFINE q == [s.task[t] EXCEPT !.ppid = t, !.pc = "return"]
           e == [s EXCEPT !.task[c] = q]
<1>1. /\ IsTable(s) /\ P!Exists(s, t) /\ s.task[t] \in Task /\ Live(s, t) /\ ~ Live(s, c) /\ c # t
      /\ First(s) /\ Parents(s) /\ Tree(s) /\ Waiting(s) /\ Alarms(s)
  BY SlotFacts DEF Good, Family, P!Exists, Live
<1>2. q \in Task /\ q.state = "ready" /\ q.ppid = t /\ q.alarm = 0
  BY <1>1 DEF Task
<1> HIDE DEF q
<1>3. /\ IsTable(e) /\ e.timers = s.timers /\ e.halt = s.halt /\ e.task[c] = q
      /\ \A y \in P!Pids \ {c} : e.task[y] = s.task[y]
  BY <1>1, <1>2, OneSlot
<1> HIDE DEF e
<1>4. /\ P!Exists(e, c) /\ Live(e, c)
      /\ \A y \in P!Pids \ {c} : (P!Exists(e, y) <=> P!Exists(s, y)) /\ (Live(e, y) <=> Live(s, y))
  BY <1>2, <1>3 DEF P!Exists, Live
<1>5. First(e)
  <2>1. c # 1
    BY <1>1 DEF First
  <2> QED
    BY <1>1, <1>3, <1>4, <2>1, PidFacts DEF First
<1>6. \A y \in P!Pids \ {c} : P!Exists(s, y) /\ s.task[y].ppid # 0 =>
        s.task[y].ppid \in P!Pids \ {c} /\ Live(s, s.task[y].ppid)
  BY <1>1, ParentRange DEF Parents
<1>7. Parents(e)
  BY <1>1, <1>2, <1>3, <1>4, <1>6 DEF Parents
<1>8. Tree(e)
  <2>1. PICK r \in [P!Pids -> Nat] : Older(s, r)
    BY <1>1 DEF Tree
  <2> DEFINE n == [r EXCEPT ![c] = r[t] + 1]
  <2>2. n \in [P!Pids -> Nat] /\ n[c] = r[t] + 1 /\ \A y \in P!Pids \ {c} : n[y] = r[y]
    BY <2>1
  <2> HIDE DEF n
  <2>3. n[t] < n[c]
    BY <1>1, <2>1, <2>2
  <2>4. ASSUME NEW y \in P!Pids \ {c}, P!Exists(e, y), e.task[y].ppid # 0
        PROVE  n[e.task[y].ppid] < n[y]
    BY <1>3, <1>4, <1>6, <2>1, <2>2, <2>4 DEF Older
  <2>5. Older(e, n)
    BY <1>2, <1>3, <2>3, <2>4 DEF Older
  <2> QED
    BY <2>2, <2>5 DEF Tree
<1>9. Waiting(e)
  <2> SUFFICES ASSUME NEW w \in P!Pids, e.task[w].state = "waiting"
               PROVE  Mine(e, w) # {} /\ \A y \in Mine(e, w) : e.task[y].state # "died"
    BY DEF Waiting
  <2>1. w # c /\ w # t /\ s.task[w].state = "waiting" /\ e.task[w].waitpid = s.task[w].waitpid
    BY <1>1, <1>2, <1>3
  <2>2. Mine(e, w) = Mine(s, w) /\ c \notin Mine(s, w)
    BY <1>2, <1>3, <1>4, <2>1 DEF Mine
  <2> QED
    BY <1>1, <1>3, <2>1, <2>2 DEF Waiting, Mine
<1>10. Alarms(e)
  BY <1>1, <1>2, <1>3, <1>4 DEF Alarms, Timer
<1> QED
  BY <1>3, <1>5, <1>7, <1>8, <1>9, <1>10 DEF Good, Family, e, q

\* sys_kill: a signal bit, and an end of a wait.
LEMMA KillFacts ==
  ASSUME NEW s, NEW p \in P!Pids, NEW sig \in Signals, IsTable(s), Family(s), Runs(s)
  PROVE  LET e == P!SysKill(s, p, sig)
         IN /\ Mild(s, e) /\ SameAlarms(s, e) /\ Runs(e)
            /\ \A x \in P!Pids : s.task[x].state = "ready" => e.task[x].state = "ready"
<1>0. First(s) /\ 1 \in P!Pids
  BY PidFacts DEF Family
<1>1. CASE p = 1 \/ s.task[p].state \in {"none", "died"}
  <2>1. P!SysKill(s, p, sig) = s
    BY <1>1 DEF P!SysKill
  <2> QED
    BY <1>0, <2>1 DEF Mild, SameAlarms, First
<1>2. CASE ~ (p = 1 \/ s.task[p].state \in {"none", "died"})
  <2> DEFINE a == [s.task[p] EXCEPT !.signal = s.task[p].signal \cup {sig}]
             u == [s EXCEPT !.task[p] = a]
             q == [a EXCEPT !.state = "ready"]
             e == [u EXCEPT !.task[p] = q]
             r == IF a.state \in {"waiting", "sleeping"} THEN e ELSE u
  <2>1. s.task[p] \in Task /\ P!Exists(s, p) /\ Live(s, p)
    BY <1>2, SlotFacts DEF P!Exists, Live
  <2>2. /\ a \in Task /\ a.state = s.task[p].state /\ a.ppid = s.task[p].ppid
        /\ a.waitpid = s.task[p].waitpid /\ a.alarm = s.task[p].alarm
    BY <2>1 DEF Task
  <2>3. q \in Task /\ q.state = "ready" /\ q.ppid = s.task[p].ppid /\ q.alarm = s.task[p].alarm
    BY <2>1 DEF Task
  <2> HIDE DEF a, q
  <2>4. /\ IsTable(u) /\ u.timers = s.timers /\ u.halt = s.halt /\ u.task[p] = a
        /\ \A y \in P!Pids \ {p} : u.task[y] = s.task[y]
    BY <2>2, OneSlot
  <2> HIDE DEF u
  <2>5. /\ IsTable(e) /\ e.timers = s.timers /\ e.halt = s.halt /\ e.task[p] = q
        /\ \A y \in P!Pids \ {p} : e.task[y] = s.task[y]
    <3>1. /\ IsTable(e) /\ e.timers = u.timers /\ e.halt = u.halt /\ e.task[p] = q
          /\ \A y \in P!Pids \ {p} : e.task[y] = u.task[y]
      BY <2>3, <2>4, OneSlot
    <3> QED
      BY <2>4, <3>1
  <2> HIDE DEF e
  <2>6. Mild(s, u) /\ SameAlarms(s, u)
    BY <1>0, <1>2, <2>1, <2>2, <2>4 DEF Mild, SameAlarms, First, P!Exists, Live
  <2>7. Mild(s, e) /\ SameAlarms(s, e)
    BY <1>0, <1>2, <2>1, <2>3, <2>5 DEF Mild, SameAlarms, First, P!Exists, Live
  <2>8. P!SysKill(s, p, sig) = r
    <3>1. u = [s EXCEPT !.task[p].signal = s.task[p].signal \cup {sig}]
      BY DEF u, a
    <3>2. e = P!Unblock(u, p)
      <4>1. P!Unblock(u, p) = [u EXCEPT !.task[p] = [u.task[p] EXCEPT !.state = "ready"]]
        BY DEF P!Unblock
      <4> QED
        BY <4>1, <2>4 DEF e, q
    <3>3. P!SysKill(s, p, sig) =
            IF u.task[p].state \in {"waiting", "sleeping"} THEN P!Unblock(u, p) ELSE u
      BY <1>2, <3>1 DEF P!SysKill, P!Bind
    <3> QED
      BY <2>4, <3>2, <3>3
  <2> QED
    BY ZenonT(60), <2>2, <2>3, <2>4, <2>5, <2>6, <2>7, <2>8 DEF Runs
<1> QED
  BY <1>1, <1>2

\* kmalloc gives a new timer an address of its own: a task has one timer at
\* most, so that one of TaskNr + 1 numbers is free.
LEMMA FreeIdFacts ==
  ASSUME NEW s, s.timers \subseteq Timer,
         \A tm, n \in s.timers : tm.task = n.task => tm.id = n.id
  PROVE  P!FreeId(s) \in Nat \ {0} /\ \A tm \in s.timers : tm.id # P!FreeId(s)
<1> DEFINE N == 1 .. TaskNr + 1
           ids == {tm.id : tm \in s.timers}
           free == N \ ids
<1>1. TaskNr \in Nat /\ IsFiniteSet(N) /\ Cardinality(N) = TaskNr + 1
  <2>1. TaskNr \in Nat
    BY ProcAssumption
  <2>2. TaskNr + 1 \in Int /\ 1 \in Int /\ ~ (1 > TaskNr + 1) /\ TaskNr + 1 - 1 + 1 = TaskNr + 1
    BY <2>1
  <2> QED
    BY <2>1, <2>2, FS_Interval
<1>2. IsFiniteSet(P!Pids) /\ Cardinality(P!Pids) < TaskNr + 1
  <2>1. IsFiniteSet(1 .. TaskNr) /\ Cardinality(1 .. TaskNr) = TaskNr
    <3>1. TaskNr \in Int /\ ~ (1 > TaskNr) /\ TaskNr - 1 + 1 = TaskNr
      BY ProcAssumption
    <3> QED
      BY <3>1, FS_Interval
  <2> QED
    BY <1>1, <2>1 DEF P!Pids
<1>3. free # {}
  <2> SUFFICES ASSUME free = {} PROVE FALSE
    OBVIOUS
  <2>1. \A i \in N : \E tm \in s.timers : tm.id = i
    OBVIOUS
  <2> DEFINE owner == [i \in N |-> (CHOOSE tm \in s.timers : tm.id = i).task]
  <2>2. ASSUME NEW i \in N PROVE \E tm \in s.timers : tm.id = i /\ owner[i] = tm.task
    <3> DEFINE tm == CHOOSE tm \in s.timers : tm.id = i
    <3>1. tm \in s.timers /\ tm.id = i
      BY <2>1
    <3>2. owner[i] = tm.task
      OBVIOUS
    <3> QED
      BY <3>1, <3>2
  <2>3. owner \in [N -> P!Pids]
    <3>1. \A i \in N : owner[i] \in P!Pids
      BY <2>2 DEF Timer
    <3>2. owner = [i \in N |-> owner[i]]
      OBVIOUS
    <3> HIDE DEF owner
    <3> QED
      BY <3>1, <3>2
  <2> HIDE DEF owner, N
  <2>4. PICK i, j \in N : i # j /\ owner[i] = owner[j]
    BY <1>1, <1>2, <2>3, FS_PigeonHole
  <2>5. PICK tm \in s.timers : tm.id = i /\ owner[i] = tm.task
    BY <2>2
  <2>6. PICK n \in s.timers : n.id = j /\ owner[j] = n.task
    BY <2>2
  <2> QED
    BY <2>4, <2>5, <2>6
<1>4. free \in SUBSET Nat /\ 0 \notin free
  BY <1>1
<1>5. P!FreeId(s) = P!Min(free)
  BY DEF P!FreeId
<1>6. P!FreeId(s) \in free
  <2> HIDE DEF free
  <2> QED
    BY <1>3, <1>4, <1>5, MinFacts
<1> QED
  BY <1>4, <1>6

\* timer_put of a timer that is there.
LEMMA PutFacts ==
  ASSUME NEW s, IsTable(s), NEW tm \in s.timers, \A n, k \in s.timers : n.id = k.id => n = k
  PROVE  LET e == P!TimerPut(s, tm.id)
         IN /\ IsTable(e) /\ e.task = s.task /\ e.halt = s.halt /\ e.timers = s.timers \ {tm}
<1> DEFINE rest == {n \in s.timers : n.id # tm.id}
<1>1. P!TimerPut(s, tm.id) = [s EXCEPT !.timers = rest]
  BY DEF P!TimerPut
<1>2. rest = s.timers \ {tm}
  OBVIOUS
<1> HIDE DEF rest
<1>3. [s EXCEPT !.timers = rest] = [task |-> s.task, timers |-> rest, halt |-> s.halt]
  <2>1. PICK x, y, z : s = [task |-> x, timers |-> y, halt |-> z]
    BY DEF IsTable
  <2>2. s.task = x /\ s.halt = z
    BY <2>1
  <2>3. [[task |-> x, timers |-> y, halt |-> z] EXCEPT !.timers = rest]
          = [task |-> x, timers |-> rest, halt |-> z]
    OBVIOUS
  <2> QED
    BY <2>1, <2>2, <2>3
<1> QED
  BY <1>1, <1>2, <1>3 DEF IsTable

\* sys_alarm puts the timer of the task and adds another.
LEMMA AlarmKeeps ==
  ASSUME NEW s, NEW t \in P!Pids, Good(s), Runs(s), s.task[t].state = "ready",
         NEW put, put = IF s.task[t].alarm = 0 THEN s ELSE P!TimerPut(s, s.task[t].alarm)
  PROVE  LET e == [put EXCEPT !.timers = put.timers \cup {[id |-> P!FreeId(put), task |-> t]},
                              !.task[t].alarm = P!FreeId(put)]
         IN Good(e) /\ e.task[t].state = "ready"
<1> DEFINE i == P!FreeId(put)
           new == [id |-> i, task |-> t]
           q == [s.task[t] EXCEPT !.alarm = i]
           e == [put EXCEPT !.timers = put.timers \cup {[id |-> P!FreeId(put), task |-> t]},
                              !.task[t].alarm = P!FreeId(put)]
           tasks1 == [s.task EXCEPT ![t] = q]
<1>1. /\ IsTable(s) /\ P!Exists(s, t) /\ Live(s, t) /\ s.task[t] \in Task /\ Family(s) /\ Alarms(s)
  BY SlotFacts DEF Good, P!Exists, Live
<1>2. /\ IsTable(put) /\ put.task = s.task /\ put.halt = s.halt /\ put.timers \subseteq s.timers
      /\ \A tm \in put.timers : tm.task # t
      /\ \A tm \in s.timers : tm.task # t => tm \in put.timers
  <2>1. CASE s.task[t].alarm = 0
    BY <1>1, <2>1 DEF Alarms, Timer
  <2>2. CASE s.task[t].alarm # 0
    <3> DEFINE tm == [id |-> s.task[t].alarm, task |-> t]
    <3>1. tm \in s.timers /\ tm.id = s.task[t].alarm /\ tm.task = t
      BY <1>1, <2>2 DEF Alarms
    <3> HIDE DEF tm
    <3>2. IsTable(put) /\ put.task = s.task /\ put.halt = s.halt /\ put.timers = s.timers \ {tm}
      BY <1>1, <2>2, <3>1, PutFacts DEF Alarms
    <3>3. \A n \in s.timers : n.task = t => n = tm
      BY <1>1, <3>1 DEF Alarms
    <3> QED
      BY <3>1, <3>2, <3>3
  <2> QED
    BY <2>1, <2>2
<1>3. i \in Nat \ {0} /\ \A tm \in put.timers : tm.id # i
  BY <1>1, <1>2, FreeIdFacts DEF Alarms
<1>4. new \in Timer /\ new.id = i /\ new.task = t
  BY <1>3 DEF Timer
<1>5. q \in Task /\ q.state = "ready" /\ q.ppid = s.task[t].ppid /\ q.alarm = i
      /\ q.signal = s.task[t].signal /\ q.sid = s.task[t].sid
  BY SMTT(60), <1>1, <1>3 DEF Task
<1>6. e = [task |-> tasks1, timers |-> put.timers \cup {new}, halt |-> put.halt]
  <2> DEFINE left == put.timers \cup {new}
  <2>1. e = [put EXCEPT !.timers = left, !.task = tasks1]
    BY <1>2 DEF IsTable
  <2> HIDE DEF left, tasks1, e
  <2>2. e = [task |-> tasks1, timers |-> left, halt |-> put.halt]
    <3>1. IsTable(put)
      BY <1>2
    <3>2. \A a, b : [put EXCEPT !.timers = a, !.task = b] = [task |-> b, timers |-> a, halt |-> put.halt]
      BY <3>1, TwoFields
    <3> QED
      BY <2>1, <3>2
  <2> QED
    BY <2>2 DEF left
<1>7. /\ tasks1 \in [P!Pids -> Task \cup {P!NoTask}] /\ tasks1[t] = q
      /\ \A y \in P!Pids \ {t} : tasks1[y] = s.task[y]
  BY <1>1, <1>5 DEF IsTable
<1> HIDE DEF tasks1, e, q, new, i
<1>8. /\ IsTable(e) /\ e.task = tasks1 /\ e.timers = put.timers \cup {new} /\ e.halt = s.halt
  BY <1>1, <1>2, <1>6, <1>7 DEF IsTable
<1>9. Mild(s, e)
  BY <1>1, <1>5, <1>7, <1>8, PidFacts DEF Mild, Family, First, P!Exists, Live
<1>10. Alarms(e)
  <2>1. e.timers \subseteq Timer /\ \A tm, n \in e.timers : tm.id = n.id => tm = n
    BY <1>1, <1>2, <1>3, <1>4, <1>8 DEF Alarms
  <2>2. ASSUME NEW x \in P!Pids, Live(e, x)
        PROVE  e.task[x].alarm = 0 \/ [id |-> e.task[x].alarm, task |-> x] \in e.timers
    <3>1. CASE x = t
      BY <1>5, <1>7, <1>8, <3>1 DEF new
    <3>2. CASE x # t
      <4> DEFINE tm == [id |-> s.task[x].alarm, task |-> x]
      <4>1. Live(s, x) /\ e.task[x].alarm = s.task[x].alarm
        BY <1>7, <1>8, <2>2, <3>2 DEF Live
      <4>2. s.task[x].alarm = 0 \/ tm \in s.timers
        BY <1>1, <4>1 DEF Alarms
      <4>3. tm.task = x
        OBVIOUS
      <4> HIDE DEF tm
      <4>4. tm \in s.timers => tm \in e.timers
        BY <1>2, <1>8, <3>2, <4>3
      <4> QED
        BY <4>1, <4>2, <4>4 DEF tm
    <3> QED
      BY <3>1, <3>2
  <2>3. ASSUME NEW tm \in e.timers PROVE Live(e, tm.task) /\ e.task[tm.task].alarm = tm.id
    <3>1. CASE tm = new
      BY <1>4, <1>5, <1>7, <1>8, <3>1 DEF Live
    <3>2. CASE tm # new
      <4>1. tm \in s.timers /\ tm.task # t /\ tm.task \in P!Pids
        BY <1>2, <1>8, <2>1, <3>2 DEF Timer
      <4> QED
        BY <1>1, <1>7, <1>8, <4>1 DEF Alarms, Live
    <3> QED
      BY <3>1, <3>2
  <2> QED
    BY <2>1, <2>2, <2>3 DEF Alarms
<1>11. Family(e)
  BY <1>1, <1>9, MildFamily
<1> QED
  BY Zenon, <1>5, <1>7, <1>8, <1>10, <1>11 DEF Good, e

\* task_alarm: the timer is put when it rings.
LEMMA RingKeeps ==
  ASSUME NEW s, Good(s), Runs(s), NEW tm \in s.timers
  PROVE  Good(P!TimerPut(P!SysKill([s EXCEPT !.task[tm.task].alarm = 0], tm.task, P!SIGALRM), tm.id))
<1> DEFINE t == tm.task
           q == [s.task[t] EXCEPT !.alarm = 0]
           a == [s EXCEPT !.task[t] = q]
           k == P!SysKill(a, t, P!SIGALRM)
           e == P!TimerPut(k, tm.id)
<1>1. /\ IsTable(s) /\ t \in P!Pids /\ Live(s, t) /\ Family(s) /\ Alarms(s)
      /\ s.task[t].alarm = tm.id
  BY DEF Good, Alarms, Timer
<1>2. s.task[t] \in Task /\ P!Exists(s, t)
  BY <1>1, SlotFacts
<1>3. /\ q \in Task /\ q.state = s.task[t].state /\ q.ppid = s.task[t].ppid /\ q.alarm = 0
      /\ q.signal = s.task[t].signal /\ q.sid = s.task[t].sid /\ q.waitpid = s.task[t].waitpid
  BY <1>2 DEF Task
<1>4. a = [s EXCEPT !.task[tm.task].alarm = 0]
  BY <1>1 DEF IsTable
<1> HIDE DEF q
<1>5. /\ IsTable(a) /\ a.timers = s.timers /\ a.halt = s.halt /\ a.task[t] = q
      /\ \A y \in P!Pids \ {t} : a.task[y] = s.task[y]
  BY <1>1, <1>3, OneSlot
<1> HIDE DEF a
<1>6. Mild(s, a) /\ Family(a) /\ Runs(a)
  <2>1. Mild(s, a)
    BY <1>1, <1>3, <1>5, PidFacts DEF Mild, Family, First, P!Exists, Live
  <2> QED
    BY <1>1, <1>5, <2>1, MildFamily DEF Runs
<1>7. Mild(a, k) /\ SameAlarms(a, k) /\ Runs(k) /\ Family(k) /\ IsTable(k)
  <2>1. Mild(a, k) /\ SameAlarms(a, k) /\ Runs(k)
    BY <1>1, <1>5, <1>6, KillFacts, SignalFacts
  <2> QED
    BY <1>6, <2>1, MildFamily DEF Mild
<1> HIDE DEF k
<1>8. /\ k.timers = s.timers
      /\ \A y \in P!Pids : (Live(k, y) <=> Live(s, y))
      /\ k.task[t].alarm = 0 /\ \A y \in P!Pids \ {t} : k.task[y].alarm = s.task[y].alarm
  BY <1>1, <1>3, <1>5, <1>6, <1>7 DEF Mild, SameAlarms
<1>9. IsTable(e) /\ e.task = k.task /\ e.halt = k.halt /\ e.timers = s.timers \ {tm}
  BY <1>1, <1>7, <1>8, PutFacts DEF Alarms
<1> HIDE DEF e
<1>10. Mild(k, e)
  BY <1>7, <1>9, PidFacts DEF Mild, Family, First, P!Exists, Live
<1>11. Alarms(e)
  <2>1. e.timers \subseteq Timer /\ \A n, j \in e.timers : n.id = j.id => n = j
    BY <1>1, <1>9 DEF Alarms
  <2>2. ASSUME NEW x \in P!Pids, Live(e, x)
        PROVE  e.task[x].alarm = 0 \/ [id |-> e.task[x].alarm, task |-> x] \in e.timers
    <3>1. CASE x = t
      BY <1>8, <1>9, <3>1
    <3>2. CASE x # t
      <4> DEFINE n == [id |-> s.task[x].alarm, task |-> x]
      <4>1. Live(s, x) /\ e.task[x].alarm = s.task[x].alarm
        BY <1>8, <1>9, <2>2, <3>2 DEF Live
      <4>2. s.task[x].alarm = 0 \/ n \in s.timers
        BY <1>1, <4>1 DEF Alarms
      <4>3. n.task = x
        OBVIOUS
      <4> HIDE DEF n
      <4>4. n \in s.timers => n \in e.timers
        BY <1>9, <3>2, <4>3
      <4> QED
        BY <4>1, <4>2, <4>4 DEF n
    <3> QED
      BY <3>1, <3>2
  <2>3. ASSUME NEW n \in e.timers PROVE Live(e, n.task) /\ e.task[n.task].alarm = n.id
    <3>1. n \in s.timers /\ n # tm /\ n.task \in P!Pids /\ n.task # t
      BY <1>1, <1>9, <2>1, <2>3 DEF Alarms, Timer
    <3> QED
      BY <1>1, <1>8, <1>9, <3>1 DEF Alarms, Live
  <2> QED
    BY <2>1, <2>2, <2>3 DEF Alarms
<1>12. Family(e)
  BY <1>7, <1>10, MildFamily
<1>13. Good(e)
  BY <1>9, <1>11, <1>12 DEF Good
<1> QED
  BY <1>4, <1>13 DEF e, k

\* A call, the return from it and the switch to another task.
LEMMA CallKeeps ==
  ASSUME NEW t \in P!Pids, NEW s, Good(s), s.task[t].state = "ready", P!Call(t, s)
  PROVE  Good(procs')
BY ReturnKeeps, SwitchKeeps DEF P!Call, P!Step

\* A call that changes only the slot of t, and that not in its place in the
\* family.
LEMMA SlotCallKeeps ==
  ASSUME NEW t \in P!Pids, Good(procs), Runs(procs), procs.task[t].state = "ready",
         NEW r \in Task, r.state = "ready", r.ppid = procs.task[t].ppid, r.alarm = procs.task[t].alarm,
         r.signal = procs.task[t].signal, r.sid \in {procs.task[t].sid, t},
         P!Call(t, [procs EXCEPT !.task[t] = r])
  PROVE  Good(procs')
<1> DEFINE e == [procs EXCEPT !.task[t] = r]
<1>1. P!Exists(procs, t) /\ First(procs)
  BY DEF P!Exists, Good, Family
<1>2. t = 1 => r.signal \subseteq {P!SIGCHLD} /\ r.sid \in {0, 1}
  BY <1>1 DEF First
<1>3. Good(e) /\ e.task[t] = r
  BY <1>1, <1>2, SlotKeeps
<1> HIDE DEF e
<1>4. e.task[t].state = "ready"
  BY <1>3
<1>5. P!Call(t, e)
  BY DEF e
<1> QED
  BY <1>3, <1>4, <1>5, CallKeeps

\* fork, exit, waitpid and the return of a task that was switched away.
LEMMA FamilyCallsKeep ==
  ASSUME "alarm" \notin Careless, NEW t \in P!Pids, Good(procs), P!FamilyCalls(t)
  PROVE  Good(procs')
<1>1. IsTable(procs) /\ Family(procs) /\ Runs(procs) /\ procs.task[t].state = "ready" /\ procs.task[t] \in Task
  <2>1. Runs(procs) /\ procs.task[t].state = "ready"
    BY DEF P!FamilyCalls, P!Fork, P!Exit, P!Wait, P!WaitAgain, P!Resume, P!Call, P!Step, Runs
  <2> QED
    BY <2>1, SlotFacts DEF Good, P!Exists
<1>2. CASE P!Fork(t)
  <2> DEFINE free == {x \in P!Pids : ~ P!Exists(procs, x)}
             c == P!Min(free)
             child == [procs.task[t] EXCEPT !.ppid = t, !.pc = "return"]
             e == IF free = {} THEN P!Stop(procs, "No more tasks")
                  ELSE [procs EXCEPT !.task[c] = child]
  <2>1. procs.task[t].alarm = 0 /\ P!Call(t, e)
    BY <1>2 DEF P!Fork
  <2>2. Good(e) /\ e.task[t].state = "ready"
    <3>1. CASE free = {}
      <4>1. "No more tasks" \in Halts \ {""}
        BY DEF Halts
      <4> QED
        BY <1>1, <3>1, <4>1, StopFacts, StopKeeps
    <3>2. CASE free # {}
      <4>1. c \in free
        BY <3>2, MinFacts, PidFacts
      <4> HIDE DEF c
      <4>2. c \in P!Pids /\ ~ P!Exists(procs, c) /\ c # t
        BY <1>1, <4>1 DEF P!Exists
      <4>3. e = [procs EXCEPT !.task[c] = child]
        BY <3>2
      <4> HIDE DEF e
      <4>4. Good(e)
        BY <1>1, <2>1, <4>2, <4>3, ForkKeeps
      <4>5. e.task[t] = procs.task[t]
        <5> HIDE DEF child
        <5> QED
          BY <1>1, <4>2, <4>3 DEF IsTable
      <4> QED
        BY <1>1, <4>4, <4>5
    <3> QED
      BY <3>1, <3>2
  <2> HIDE DEF e
  <2> QED
    BY <2>1, <2>2, CallKeeps
<1>3. CASE P!Exit(t)
  <2>1. t # 1 /\ procs' = P!Switch(P!TaskExit(procs, t), t)
    BY <1>3 DEF P!Exit, P!Step
  <2>2. Good(P!TaskExit(procs, t))
    BY <1>1, <2>1, ExitKeeps
  <2> QED
    BY <2>1, <2>2, SwitchKeeps
<1>4. ASSUME NEW pid \in (P!Pids \ {1}) \cup {P!Any}, P!Wait(t, pid) PROVE Good(procs')
  <2>1. pid \in Int
    BY PidFacts DEF P!Any
  <2>2. Good(P!Waitpid(procs, t, pid)) /\ procs' = P!Switch(P!Waitpid(procs, t, pid), t)
    BY <1>1, <1>4, <2>1, WaitKeeps DEF P!Wait, P!Step
  <2> QED
    BY <2>2, SwitchKeeps
<1>5. CASE P!WaitAgain(t)
  <2>1. procs.task[t].waitpid \in Int
    BY <1>1 DEF Task
  <2>2. /\ Good(P!Waitpid(procs, t, procs.task[t].waitpid))
        /\ procs' = P!Switch(P!Waitpid(procs, t, procs.task[t].waitpid), t)
    BY <1>1, <1>5, <2>1, WaitKeeps DEF P!WaitAgain, P!Step
  <2> QED
    BY <2>2, SwitchKeeps
<1>6. CASE P!Resume(t)
  BY <1>1, <1>6, ReturnKeeps, SwitchKeeps DEF P!Resume, P!Step
<1> QED
  BY <1>2, <1>3, <1>4, <1>5, <1>6 DEF P!FamilyCalls

\* task_sleep and its timer.
LEMMA SleepCallsKeep ==
  ASSUME NEW t \in P!Pids, Good(procs), P!SleepCalls(t)
  PROVE  Good(procs')
<1>1. CASE P!Sleep(t)
  <2> DEFINE r == [procs.task[t] EXCEPT !.state = "sleeping", !.pc = "return"]
             e == [procs EXCEPT !.task[t] = r]
  <2>1. /\ Runs(procs) /\ procs.task[t].state = "ready" /\ procs.task[t] \in Task /\ First(procs)
        /\ P!Exists(procs, t) /\ procs' = P!Switch(e, t)
    BY <1>1, SlotFacts DEF P!Sleep, P!Step, Runs, Good, Family, P!Exists
  <2>2. /\ r \in Task /\ r.state = "sleeping" /\ r.ppid = procs.task[t].ppid
        /\ r.alarm = procs.task[t].alarm /\ r.signal = procs.task[t].signal /\ r.sid = procs.task[t].sid
    BY <2>1 DEF Task
  <2> HIDE DEF r
  <2>3. t = 1 => r.signal \subseteq {P!SIGCHLD} /\ r.sid \in {0, 1}
    BY <2>1, <2>2 DEF First
  <2>4. Good(e)
    BY <2>1, <2>2, <2>3, SlotKeeps
  <2> HIDE DEF e
  <2> QED
    BY <2>1, <2>4, SwitchKeeps
<1>2. CASE P!SleepEnds(t)
  <2> DEFINE r == [procs.task[t] EXCEPT !.state = "ready"]
             e == [procs EXCEPT !.task[t] = r]
  <2>1. /\ Runs(procs) /\ procs.task[t].state = "sleeping" /\ procs.task[t] \in Task /\ First(procs)
        /\ P!Exists(procs, t) /\ procs' = P!Switch(e, 0)
    BY <1>2, SlotFacts DEF P!SleepEnds, P!Irq, P!Unblock, Runs, Good, Family, P!Exists
  <2>2. /\ r \in Task /\ r.state = "ready" /\ r.ppid = procs.task[t].ppid
        /\ r.alarm = procs.task[t].alarm /\ r.signal = procs.task[t].signal /\ r.sid = procs.task[t].sid
    BY <2>1 DEF Task
  <2> HIDE DEF r
  <2>3. t = 1 => r.signal \subseteq {P!SIGCHLD} /\ r.sid \in {0, 1}
    BY <2>1, <2>2 DEF First
  <2>4. Good(e)
    BY <2>1, <2>2, <2>3, SlotKeeps
  <2> HIDE DEF e
  <2> QED
    BY <2>1, <2>4, SwitchKeeps
<1> QED
  BY <1>1, <1>2 DEF P!SleepCalls

\* sys_kill, and an interrupt that ends in task_signal.
LEMMA SignalCallsKeep ==
  ASSUME NEW t \in P!Pids, Good(procs), P!SignalCalls(t)
  PROVE  Good(procs')
<1>1. ASSUME NEW p \in P!Pids, NEW sig \in Signals, P!Kill(t, p, sig) PROVE Good(procs')
  <2> DEFINE e == P!SysKill(procs, p, sig)
  <2>1. Runs(procs) /\ procs.task[t].state = "ready" /\ IsTable(procs) /\ Family(procs)
    BY <1>1 DEF P!Kill, P!Call, P!Step, Runs, Good
  <2>2. Mild(procs, e) /\ SameAlarms(procs, e) /\ e.task[t].state = "ready"
    BY <2>1, KillFacts
  <2>3. P!Call(t, e)
    BY <1>1 DEF P!Kill
  <2> HIDE DEF e
  <2>4. Good(e)
    BY <2>2, MildKeeps
  <2> QED
    BY <2>2, <2>3, <2>4, CallKeeps
<1>2. CASE P!Interrupt(t)
  BY <1>2, CallKeeps DEF P!Interrupt, P!Call, P!Step
<1> QED
  BY <1>1, <1>2 DEF P!SignalCalls

\* sys_signal, sys_sigaction, sys_ssetmask and the restorer.
LEMMA HandlerCallsKeep ==
  ASSUME NEW t \in P!Pids, Good(procs), P!HandlerCalls(t)
  PROVE  Good(procs')
<1>0. ASSUME NEW s, P!Call(t, s)
      PROVE  Runs(procs) /\ procs.task[t].state = "ready" /\ procs.task[t] \in Task /\ IsTable(procs)
  BY <1>0, SlotFacts DEF P!Call, P!Step, Runs, Good, P!Exists
<1>1. ASSUME NEW sig \in Handled, NEW act \in Actions, P!Handle(t, sig, act) PROVE Good(procs')
  <2>1. CASE sig = P!SIGKILL
    BY <1>0, <1>1, <2>1, CallKeeps DEF P!Handle
  <2>2. CASE sig # P!SIGKILL
    <3> DEFINE acts == [procs.task[t].act EXCEPT ![sig] = act]
               r == [procs.task[t] EXCEPT !.act = acts]
    <3>1. P!Call(t, [procs EXCEPT !.task[t] = r])
      BY <1>1, <2>2 DEF P!Handle
    <3>2. Runs(procs) /\ procs.task[t].state = "ready" /\ procs.task[t] \in Task
      BY <1>0, <3>1
    <3>3. acts \in [Signals -> Actions]
      BY <3>2 DEF Task
    <3> HIDE DEF acts
    <3>4. /\ r \in Task /\ r.state = "ready" /\ r.ppid = procs.task[t].ppid
          /\ r.alarm = procs.task[t].alarm /\ r.signal = procs.task[t].signal /\ r.sid = procs.task[t].sid
      BY <3>2, <3>3 DEF Task
    <3> HIDE DEF r
    <3> QED
      BY <3>1, <3>2, <3>4, SlotCallKeeps
  <2> QED
    BY <2>1, <2>2
<1>2. ASSUME NEW mask \in SUBSET P!All,
             P!Call(t, [procs EXCEPT !.task[t].blocked = mask \ {P!SIGKILL}])
      PROVE  Good(procs')
  <2> DEFINE r == [procs.task[t] EXCEPT !.blocked = mask \ {P!SIGKILL}]
  <2>1. Runs(procs) /\ procs.task[t].state = "ready" /\ procs.task[t] \in Task
    BY <1>0, <1>2
  <2>2. /\ r \in Task /\ r.state = "ready" /\ r.ppid = procs.task[t].ppid
        /\ r.alarm = procs.task[t].alarm /\ r.signal = procs.task[t].signal /\ r.sid = procs.task[t].sid
    BY <2>1 DEF Task
  <2>3. P!Call(t, [procs EXCEPT !.task[t] = r])
    BY <1>2
  <2> HIDE DEF r
  <2> QED
    BY <2>1, <2>2, <2>3, SlotCallKeeps
<1>3. ASSUME NEW mask \in {{}, {P!SIGKILL, P!SIGALRM}, P!All}, P!SetMask(t, mask) PROVE Good(procs')
  <2>1. mask \in SUBSET P!All
    BY SignalFacts DEF P!All
  <2>2. CASE mask = P!All
    BY <1>0, <1>3, <2>2, CallKeeps DEF P!SetMask
  <2>3. CASE mask # P!All
    BY <1>2, <1>3, <2>1, <2>3 DEF P!SetMask
  <2> QED
    BY <2>2, <2>3
<1>4. CASE P!HandlerReturns(t)
  <2> DEFINE frames == procs.task[t].frames
             mask   == frames[Len(frames)]
             rest   == SubSeq(frames, 1, Len(frames) - 1)
             r == [procs.task[t] EXCEPT !.frames = rest]
             popped == [procs EXCEPT !.task[t] = r]
  <2>1. /\ frames # << >>
        /\ P!Call(t, IF mask = P!All THEN popped
                     ELSE [popped EXCEPT !.task[t].blocked = mask \ {P!SIGKILL}])
    BY <1>4 DEF P!HandlerReturns
  <2>2. Runs(procs) /\ procs.task[t].state = "ready" /\ procs.task[t] \in Task /\ IsTable(procs)
    BY <1>0, <2>1
  <2>3. frames \in Seq(SUBSET P!All)
    BY <2>2 DEF Task
  <2>4. rest \in Seq(SUBSET P!All) /\ mask \in SUBSET P!All
    <3> HIDE DEF frames
    <3> QED
      BY <2>1, <2>3
  <2> HIDE DEF rest, mask
  <2>5. /\ r \in Task /\ r.state = "ready" /\ r.ppid = procs.task[t].ppid
        /\ r.alarm = procs.task[t].alarm /\ r.signal = procs.task[t].signal /\ r.sid = procs.task[t].sid
    BY <2>2, <2>4 DEF Task
  <2> HIDE DEF r
  <2>6. CASE mask = P!All
    BY <2>1, <2>2, <2>5, <2>6, SlotCallKeeps
  <2>7. CASE mask # P!All
    <3> DEFINE q == [r EXCEPT !.blocked = mask \ {P!SIGKILL}]
    <3>1. /\ q \in Task /\ q.state = "ready" /\ q.ppid = procs.task[t].ppid
          /\ q.alarm = procs.task[t].alarm /\ q.signal = procs.task[t].signal /\ q.sid = procs.task[t].sid
      BY <2>4, <2>5 DEF Task
    <3>2. [popped EXCEPT !.task[t].blocked = mask \ {P!SIGKILL}] = [procs EXCEPT !.task[t] = q]
      <4>1. popped.task[t] = r
        BY <2>2 DEF IsTable
      <4>2. [popped EXCEPT !.task[t].blocked = mask \ {P!SIGKILL}] = [popped EXCEPT !.task[t] = q]
        <5> HIDE DEF popped
        <5> QED
          BY <4>1
      <4>3. [popped EXCEPT !.task[t] = q] = [procs EXCEPT !.task[t] = q]
        <5> HIDE DEF q
        <5> QED
          BY <2>2 DEF IsTable
      <4> QED
        BY <4>2, <4>3
    <3> HIDE DEF q, popped
    <3>3. P!Call(t, [procs EXCEPT !.task[t] = q])
      BY <2>1, <2>7, <3>2
    <3> QED
      BY <2>2, <3>1, <3>3, SlotCallKeeps
  <2> QED
    BY <2>6, <2>7
<1>5. \A h \in {"dfl", "ign", "fun"}, nomask \in BOOLEAN :
        [handler |-> h, once |-> nomask, nomask |-> nomask] \in Actions
  BY DEF Actions
<1> QED
  BY <1>1, <1>3, <1>4, <1>5 DEF P!HandlerCalls

\* sys_alarm and task_alarm.
LEMMA AlarmCallsKeep ==
  ASSUME NEW t \in P!Pids, Good(procs), P!AlarmCalls(t)
  PROVE  Good(procs')
<1>1. CASE P!Alarm(t)
  <2> DEFINE old == procs.task[t].alarm
             put == IF old = 0 THEN procs ELSE P!TimerPut(procs, old)
             e == [put EXCEPT !.timers = put.timers \cup {[id |-> P!FreeId(put), task |-> t]},
                              !.task[t].alarm = P!FreeId(put)]
  <2>1. P!Call(t, e)
    BY <1>1 DEF P!Alarm, P!Bind
  <2>2. Runs(procs) /\ procs.task[t].state = "ready"
    BY <2>1 DEF P!Call, P!Step, Runs
  <2>3. put = IF procs.task[t].alarm = 0 THEN procs ELSE P!TimerPut(procs, procs.task[t].alarm)
    OBVIOUS
  <2> HIDE DEF put
  <2>4. Good(e) /\ e.task[t].state = "ready"
    BY ZenonT(60), <2>2, <2>3, AlarmKeeps
  <2> HIDE DEF e
  <2> QED
    BY <2>1, <2>4, CallKeeps
<1>2. ASSUME NEW tm \in procs.timers, P!AlarmRings(tm) PROVE Good(procs')
  BY <1>2, RingKeeps, SwitchKeeps DEF P!AlarmRings, P!Irq, Runs
<1> QED
  BY <1>1, <1>2 DEF P!AlarmCalls

\* sys_setsid and sys_setpgid.
LEMMA GroupCallsKeep ==
  ASSUME NEW t \in P!Pids, Good(procs), P!GroupCalls(t)
  PROVE  Good(procs')
<1>0. ASSUME NEW s, P!Call(t, s)
      PROVE  /\ Runs(procs) /\ procs.task[t].state = "ready" /\ procs.task[t] \in Task
             /\ IsTable(procs) /\ First(procs)
  BY <1>0, SlotFacts DEF P!Call, P!Step, Runs, Good, P!Exists, Family
<1>1. CASE P!SetSid(t)
  <2>1. CASE procs.task[t].sid = t
    BY <1>0, <1>1, <2>1, CallKeeps DEF P!SetSid
  <2>2. CASE procs.task[t].sid # t
    <3> DEFINE r == [procs.task[t] EXCEPT !.sid = t, !.pgid = t]
    <3>1. P!Call(t, [procs EXCEPT !.task[t] = r])
      BY <1>1, <2>2 DEF P!SetSid
    <3>2. Runs(procs) /\ procs.task[t].state = "ready" /\ procs.task[t] \in Task
      BY <1>0, <3>1
    <3>3. /\ r \in Task /\ r.state = "ready" /\ r.ppid = procs.task[t].ppid
          /\ r.alarm = procs.task[t].alarm /\ r.signal = procs.task[t].signal /\ r.sid = t
      BY <3>2 DEF Task
    <3> HIDE DEF r
    <3> QED
      BY <3>1, <3>2, <3>3, SlotCallKeeps
  <2> QED
    BY <2>1, <2>2
<1>2. ASSUME NEW p \in P!Pids, P!SetPgid(t, p, t) PROVE Good(procs')
  <2> DEFINE keep == ~ P!Exists(procs, p) \/ procs.task[p].sid = p \/ procs.task[p].sid # procs.task[t].sid
             r == [procs.task[p] EXCEPT !.pgid = t]
             e == [procs EXCEPT !.task[p] = r]
  <2>1. CASE keep
    BY <1>0, <1>2, <2>1, CallKeeps DEF P!SetPgid
  <2>2. CASE ~ keep
    <3>1. P!Call(t, e)
      BY <1>2, <2>2 DEF P!SetPgid
    <3>2. Runs(procs) /\ procs.task[t].state = "ready" /\ IsTable(procs) /\ First(procs)
      BY <1>0, <3>1
    <3>3. P!Exists(procs, p) /\ procs.task[p] \in Task
      BY <2>2, <3>2, SlotFacts
    <3>4. /\ r \in Task /\ r.state = procs.task[p].state /\ r.ppid = procs.task[p].ppid
          /\ r.alarm = procs.task[p].alarm /\ r.signal = procs.task[p].signal
          /\ r.sid = procs.task[p].sid /\ r.waitpid = procs.task[p].waitpid
      BY <3>3 DEF Task
    <3> HIDE DEF r
    <3>5. p = 1 => r.signal \subseteq {P!SIGCHLD} /\ r.sid \in {0, 1}
      BY <3>2, <3>4 DEF First
    <3>6. Good(e) /\ e.task[p] = r /\ \A x \in P!Pids \ {p} : e.task[x] = procs.task[x]
      BY <3>2, <3>3, <3>4, <3>5, SlotKeeps
    <3>7. e.task[t].state = "ready"
      BY <3>2, <3>4, <3>6
    <3> HIDE DEF e
    <3> QED
      BY <3>1, <3>6, <3>7, CallKeeps
  <2> QED
    BY <2>1, <2>2
<1> QED
  BY <1>1, <1>2 DEF P!GroupCalls

\* Every step of the task table keeps the invariant.
LEMMA ProcKeeps ==
  ASSUME "alarm" \notin Careless, Good(procs), [P!ProcNext]_(P!pvars)
  PROVE  Good(procs')
<1>1. CASE P!ProcNext
  BY <1>1, FamilyCallsKeep, SleepCallsKeep, SignalCallsKeep, HandlerCallsKeep, AlarmCallsKeep, GroupCallsKeep
     DEF P!ProcNext
<1>2. CASE UNCHANGED P!pvars
  BY <1>2 DEF P!pvars
<1> QED
  BY <1>1, <1>2

\* It holds when init is the only task.
LEMMA ProcInit == P!ProcInit => Good(procs)
<1> SUFFICES ASSUME P!ProcInit PROVE Good(procs)
  OBVIOUS
<1>1. procs = [task |-> [t \in P!Pids |-> IF t = 1 THEN P!FirstTask ELSE P!NoTask], timers |-> {}, halt |-> ""]
  BY DEF P!ProcInit
<1>2. /\ P!FirstTask \in Task /\ P!FirstTask.state = "ready" /\ P!FirstTask.ppid = 0
      /\ P!FirstTask.sid = 0 /\ P!FirstTask.signal = {} /\ P!FirstTask.alarm = 0
  <2>1. P!FirstTask \in Task
    BY FirstTaskType
  <2> QED
    BY <2>1 DEF P!FirstTask
<1>3. IsTable(procs) /\ procs.timers = {} /\ 1 \in P!Pids /\ procs.task[1] = P!FirstTask
  BY <1>1, <1>2, PidFacts DEF IsTable, Halts
<1>4. \A t \in P!Pids \ {1} : procs.task[t] = P!NoTask /\ P!NoTask.state = "none"
  BY <1>1 DEF P!NoTask
<1>5. First(procs) /\ Parents(procs) /\ Waiting(procs)
  BY <1>2, <1>3, <1>4 DEF First, Parents, Waiting, Live, P!Exists
<1>6. Tree(procs)
  <2>1. [t \in P!Pids |-> 0] \in [P!Pids -> Nat]
    OBVIOUS
  <2> QED
    BY <1>2, <1>3, <1>4, <2>1 DEF Tree, Older, P!Exists
<1>7. Alarms(procs)
  BY <1>2, <1>3, <1>4 DEF Alarms, Live
<1> QED
  BY <1>3, <1>5, <1>6, <1>7 DEF Good, Family

TableGood == Good(procs)

\* The table is always good.
LEMMA ProcAlways == ASSUME "alarm" \notin Careless PROVE System => []TableGood
<1>1. Boot => TableGood
  BY ProcInit DEF Boot, TableGood
<1>2. TableGood /\ [Run]_<<part, vars, pvars, mvars, hvars>> => TableGood'
  <2>1. [Run]_<<part, vars, pvars, mvars, hvars>> => [P!ProcNext]_(P!pvars)
    BY DEF Run, P!pvars, pvars
  <2> QED
    BY <2>1, ProcKeeps DEF TableGood
<1> QED
  BY <1>1, <1>2, PTL DEF System

\* task.c:543 and timer.c:28: task_tell_fater finds the parent and timer_put the
\* timer, for any number of tasks; what can stop the kernel is a full table, or a
\* second fatal signal inside task_exit.
THEOREM PanicsKnown ==
  ASSUME "alarm" \notin Careless PROVE System => []StopsKnown
<1>1. TableGood => StopsKnown
  BY DEF TableGood, Good, IsTable, Halts, StopsKnown, P!StopsKnown
<1> QED
  BY <1>1, ProcAlways, PTL

\* task_exit and task_waitpid: for any number of tasks, the parent of every task
\* is there and has not exited, so that it can be told and can reap the task.
THEOREM ParentsStay ==
  ASSUME "alarm" \notin Careless PROVE System => []ParentsLive
<1>1. TableGood => ParentsLive
  BY DEF TableGood, Good, Family, Parents, Runs, Live, ParentsLive, P!ParentsLive
<1> QED
  BY <1>1, ProcAlways, PTL

\* task_waitpid, task_exit: a task that waits for a child has one to wait for,
\* and no child it waits for has exited without waking it.
THEOREM WaitersHaveReason ==
  ASSUME "alarm" \notin Careless PROVE System => []WaitsForAReason
<1>1. TableGood => WaitsForAReason
  BY DEF TableGood, Good, Family, Waiting, Runs, Mine, WaitsForAReason, P!WaitsForAReason
<1> QED
  BY <1>1, ProcAlways, PTL

\* sys_alarm, task_alarm, task_exit: the alarm of a task is a running timer of
\* its own, and no timer outlives its task.
THEOREM AlarmsAreOwned ==
  ASSUME "alarm" \notin Careless PROVE System => []AlarmsOwned
<1>1. TableGood => AlarmsOwned
  BY DEF TableGood, Good, Alarms, Runs, Live, AlarmsOwned, P!AlarmsOwned
<1> QED
  BY <1>1, ProcAlways, PTL
-----------------------------------------------------------------------------
(***************************************************************************)
(* The kernel heap.                                                        *)
(***************************************************************************)
\* A block is on a list; each block is there once at most.
On(list, x) == \E i \in 1 .. Len(list) : list[i] = x
Once(list)  == \A i, j \in 1 .. Len(list) : list[i] = list[j] => i = j
KBlock      == KPages \X Nat

Keeping(list, p, f, n) ==
  f = [i \in 0 .. n |-> IF i = 0 THEN << >> ELSE IF list[i][1] = p THEN f[i - 1]
                        ELSE Append(f[i - 1], list[i])]

\* The pass over the list exists, and never reads what it has not made.
LEMMA KeptExists ==
  ASSUME NEW list \in Seq(KBlock), NEW p
  PROVE  \E f : Keeping(list, p, f, Len(list))
<1> DEFINE bad == {n \in 0 .. Len(list) : ~ \E f : Keeping(list, p, f, n)}
<1>1. SUFFICES bad = {}
  BY Len(list) \in Nat
<1>2. SUFFICES ASSUME bad # {} PROVE FALSE
  OBVIOUS
<1>3. PICK n \in bad : \A k \in bad : n <= k
  <2>1. bad \in SUBSET Nat
    OBVIOUS
  <2> HIDE DEF bad
  <2> QED
    BY <1>2, <2>1, MinFacts
<1>4. CASE n = 0
  <2>1. Keeping(list, p, [i \in 0 .. 0 |-> << >>], 0)
    BY DEF Keeping
  <2> QED
    BY <1>3, <1>4, <2>1
<1>5. CASE n # 0
  <2>1. n \in Nat \ {0} /\ n - 1 \in 0 .. Len(list) /\ n - 1 \notin bad
    BY <1>3, <1>5
  <2>2. PICK f : Keeping(list, p, f, n - 1)
    BY <2>1
  <2> DEFINE g == [i \in 0 .. n |-> IF i = n
                     THEN IF list[n][1] = p THEN f[n - 1] ELSE Append(f[n - 1], list[n])
                     ELSE f[i]]
  <2>3. \A i \in 0 .. n : g[i] = IF i = 0 THEN << >> ELSE IF list[i][1] = p THEN g[i - 1]
                                 ELSE Append(g[i - 1], list[i])
    <3> SUFFICES ASSUME NEW i \in 0 .. n
                 PROVE g[i] = IF i = 0 THEN << >> ELSE IF list[i][1] = p THEN g[i - 1]
                              ELSE Append(g[i - 1], list[i])
      OBVIOUS
    <3>1. CASE i = n
      BY <2>1, <3>1
    <3>2. CASE i # n
      <4>1. i \in 0 .. n - 1 /\ g[i] = f[i] /\ (i # 0 => g[i - 1] = f[i - 1])
        BY <2>1, <3>2
      <4> HIDE DEF g
      <4> QED
        BY <2>2, <4>1 DEF Keeping
    <3> QED
      BY <3>1, <3>2
  <2>4. Keeping(list, p, g, n)
    <3>1. g = [i \in 0 .. n |-> g[i]]
      OBVIOUS
    <3> HIDE DEF g
    <3> QED
      BY <2>3, <3>1 DEF Keeping
  <2> QED
    BY <1>3, <2>4
<1> QED
  BY <1>3, <1>4, <1>5

\* list_remove of the blocks of a page leaves the others, each as often as it was.
LEMMA WithoutFacts ==
  ASSUME NEW list \in Seq(KBlock), NEW p
  PROVE  /\ H!Without(list, p) \in Seq(KBlock)
         /\ \A x : On(H!Without(list, p), x) <=> On(list, x) /\ x[1] # p
         /\ Once(list) => Once(H!Without(list, p))
<1> DEFINE f == CHOOSE f : Keeping(list, p, f, Len(list))
<1>1. Keeping(list, p, f, Len(list))
  BY KeptExists
<1>2. H!Without(list, p) = f[Len(list)]
  BY DEF H!Without, Keeping
<1> HIDE DEF f
<1> DEFINE Part(n) == /\ f[n] \in Seq(KBlock)
                      /\ \A x : On(f[n], x) <=> x[1] # p /\ \E i \in 1 .. n : list[i] = x
                      /\ Once(list) => Once(f[n])
           bad == {n \in 0 .. Len(list) : ~ Part(n)}
<1>3. \A n \in 0 .. Len(list) : f[n] = IF n = 0 THEN << >> ELSE IF list[n][1] = p THEN f[n - 1]
                                        ELSE Append(f[n - 1], list[n])
  BY <1>1 DEF Keeping
<1>4. Part(0)
  <2>1. f[0] = << >>
    BY <1>3, 0 \in 0 .. Len(list)
  <2>2. << >> \in Seq(KBlock) /\ Len(<< >>) = 0
    OBVIOUS
  <2>3. \A i \in 1 .. 0 : FALSE
    OBVIOUS
  <2> QED
    BY <2>1, <2>2, <2>3 DEF On, Once
<1>5. ASSUME NEW n \in 1 .. Len(list), Part(n - 1) PROVE Part(n)
  <2>1. list[n] \in KBlock /\ n \in 0 .. Len(list) /\ n # 0
    OBVIOUS
  <2>2. \A x : (\E i \in 1 .. n : list[i] = x) <=> (x = list[n] \/ \E i \in 1 .. n - 1 : list[i] = x)
    <3>1. \A i \in 1 .. n : i = n \/ i \in 1 .. n - 1
      OBVIOUS
    <3>2. n \in 1 .. n /\ \A i \in 1 .. n - 1 : i \in 1 .. n
      OBVIOUS
    <3> QED
      BY <3>1, <3>2
  <2>3. CASE list[n][1] = p
    BY <1>3, <1>5, <2>1, <2>2, <2>3
  <2>4. CASE list[n][1] # p
    <3> DEFINE e == f[n - 1]
               g == f[n]
    <3>1. g = Append(e, list[n]) /\ e \in Seq(KBlock)
      BY <1>3, <1>5, <2>1, <2>4
    <3>2. \A x : On(e, x) <=> x[1] # p /\ \E i \in 1 .. n - 1 : list[i] = x
      BY <1>5
    <3>3. Once(list) => Once(e)
      BY <1>5
    <3> HIDE DEF e, g
    <3>4. /\ g \in Seq(KBlock) /\ Len(g) = Len(e) + 1 /\ Len(e) \in Nat
          /\ g[Len(e) + 1] = list[n] /\ \A i \in 1 .. Len(e) : g[i] = e[i]
      BY <2>1, <3>1
    <3>5. \A x : On(g, x) <=> On(e, x) \/ x = list[n]
      <4>1. \A i \in 1 .. Len(g) : i = Len(e) + 1 \/ i \in 1 .. Len(e)
        BY <3>4
      <4>2. Len(e) + 1 \in 1 .. Len(g) /\ \A i \in 1 .. Len(e) : i \in 1 .. Len(g)
        BY <3>4
      <4> QED
        BY <3>4, <4>1, <4>2 DEF On
    <3>6. \A x : On(g, x) <=> x[1] # p /\ \E i \in 1 .. n : list[i] = x
      BY <2>2, <2>4, <3>2, <3>5
    <3>7. ASSUME Once(list) PROVE Once(g)
      <4>1. ~ On(e, list[n])
        <5> SUFFICES ASSUME On(e, list[n]) PROVE FALSE
          OBVIOUS
        <5>1. PICK i \in 1 .. n - 1 : list[i] = list[n]
          BY <3>2
        <5>2. i \in 1 .. Len(list) /\ i # n
          OBVIOUS
        <5> QED
          BY <3>7, <5>1, <5>2 DEF Once
      <4> QED
        BY <3>3, <3>4, <3>7, <4>1 DEF On, Once
    <3> QED
      BY <3>4, <3>6, <3>7 DEF g
  <2> QED
    BY <2>3, <2>4
<1> HIDE DEF Part
<1>6. bad = {}
  <2> SUFFICES ASSUME bad # {} PROVE FALSE
    OBVIOUS
  <2>1. bad \in SUBSET Nat
    OBVIOUS
  <2>2. PICK n \in bad : \A k \in bad : n <= k
    <3> HIDE DEF bad
    <3> QED
      BY <2>1, MinFacts
  <2>3. n \in 0 .. Len(list) /\ ~ Part(n)
    BY <2>2
  <2>4. n # 0
    BY <1>4, <2>3
  <2>5. n \in 1 .. Len(list) /\ n - 1 \in 0 .. Len(list) /\ n - 1 \notin bad
    BY <2>2, <2>3, <2>4
  <2>6. Part(n - 1)
    BY <2>5
  <2> QED
    BY <1>5, <2>3, <2>5, <2>6
<1>7. Part(Len(list))
  BY <1>6, Len(list) \in 0 .. Len(list)
<1> QED
  BY <1>2, <1>7 DEF Part, On

Arena  == [desc : Nat, count : Nat]
Memory == [page : KPages, from : Nat, to : Nat]
\* The parts of the invariant, of a map k, arenas a, descriptors e and blocks
\* l.  CutFor: the pages cut for d; FreeOf: the numbers of its free blocks in p.
CutFor(a, d)    == {p \in KPages : a[p].desc = d}
FreeOf(e, d, p) == {n \in 1 .. TotalBlock[d] : On(e[d].free_list, <<p, n>>)}
HeapType(k, a, e, l) ==
  /\ k \subseteq KPages /\ a \in [KPages -> Arena] /\ l \subseteq Memory
  /\ e \in [H!Descs -> [page_count : Nat, free_list : Seq(KBlock)]]
\* A free list has blocks of the pages cut for its descriptor, each once.
Lists(k, a, e) ==
  /\ \A p \in KPages : a[p].desc # 0 => p \in k
  /\ \A d \in H!Descs : Once(e[d].free_list)
  /\ \A d \in H!Descs : \A x \in KBlock : On(e[d].free_list, x) =>
       a[x[1]].desc = d /\ x[2] \in 1 .. TotalBlock[d]
Counts(a, e) == \A d \in H!Descs :
  /\ e[d].page_count = Cardinality(CutFor(a, d))
  /\ \A p \in CutFor(a, d) : a[p].count = Cardinality(FreeOf(e, d, p))
\* A small block is one of a page cut for some descriptor, and not free.
Small(a, e, l) == \A b \in l : b.from # 0 =>
  /\ b.to = b.from /\ a[b.page].desc \in H!Descs
  /\ b.from \in 1 .. TotalBlock[a[b.page].desc]
  /\ ~ On(e[a[b.page].desc].free_list, <<b.page, b.from>>)
\* A large block is a run of pages that are cut for nobody.
Whole(k, a, l) == \A b \in l : b.from = 0 =>
  /\ b.page <= b.to /\ b.page .. b.to \subseteq k
  /\ a[b.page].count = b.to - b.page + 1
  /\ \A p \in b.page .. b.to : a[p].desc = 0
Apart(l) == \A b, c \in l : b.from = 0 /\ c.from = 0 /\ b # c =>
  \A p \in b.page .. b.to : p \notin c.page .. c.to
Heaped(k, a, e, l) ==
  /\ HeapType(k, a, e, l) /\ Lists(k, a, e) /\ Counts(a, e)
  /\ Small(a, e, l) /\ Whole(k, a, l) /\ Apart(l)

\* The constants of the heap.
LEMMA DescFacts ==
  /\ H!Descs \subseteq Nat \ {0} /\ \A d \in H!Descs : TotalBlock[d] \in Nat \ {0}
  /\ KPages \subseteq Nat \ {0} /\ IsFiniteSet(KPages) /\ Large \subseteq Nat \ {0}
BY HeapAssumption DEF H!Descs

\* The pages of a descriptor can be counted.
LEMMA CutFinite ==
  ASSUME NEW a, NEW d PROVE IsFiniteSet(CutFor(a, d)) /\ Cardinality(CutFor(a, d)) \in Nat
<1>1. CutFor(a, d) \subseteq KPages
  BY DEF CutFor
<1> QED
  BY <1>1, DescFacts, FS_Subset, FS_CardinalityType

\* So can the free blocks of a page; if they are as many as the page has, they
\* are all its blocks.
LEMMA FreeFinite ==
  ASSUME NEW e, NEW d \in H!Descs, NEW p
  PROVE /\ IsFiniteSet(FreeOf(e, d, p)) /\ Cardinality(FreeOf(e, d, p)) \in Nat
        /\ FreeOf(e, d, p) \subseteq 1 .. TotalBlock[d]
        /\ Cardinality(FreeOf(e, d, p)) = TotalBlock[d] => FreeOf(e, d, p) = 1 .. TotalBlock[d]
<1>1. FreeOf(e, d, p) \subseteq 1 .. TotalBlock[d]
  BY DEF FreeOf
<1>2. IsFiniteSet(1 .. TotalBlock[d]) /\ Cardinality(1 .. TotalBlock[d]) = TotalBlock[d]
  <2>1. TotalBlock[d] \in Int /\ 1 \in Int /\ ~ (1 > TotalBlock[d]) /\ TotalBlock[d] - 1 + 1 = TotalBlock[d]
    BY DescFacts
  <2> QED
    BY <2>1, FS_Interval
<1> QED
  BY <1>1, <1>2, FS_Subset, FS_CardinalityType

\* kmalloc pops the head of a free list.
LEMMA PopKeeps ==
  ASSUME NEW k, NEW a, NEW e, NEW l, Heaped(k, a, e, l),
         NEW d \in H!Descs, e[d].free_list # << >>
  PROVE  LET x == Head(e[d].free_list)
         IN Heaped(k, [a EXCEPT ![x[1]].count = @ - 1],
                   [e EXCEPT ![d] = [page_count |-> @.page_count, free_list |-> Tail(@.free_list)]],
                   l \cup {[page |-> x[1], from |-> x[2], to |-> x[2]]})
<1> DEFINE list == e[d].free_list
           x == Head(list)
           q == x[1]
           i == x[2]
           a2 == [a EXCEPT ![q].count = @ - 1]
           e2 == [e EXCEPT ![d] = [page_count |-> @.page_count, free_list |-> Tail(@.free_list)]]
           l2 == l \cup {[page |-> q, from |-> i, to |-> i]}
<1>1. /\ HeapType(k, a, e, l) /\ Lists(k, a, e) /\ Counts(a, e)
      /\ Small(a, e, l) /\ Whole(k, a, l) /\ Apart(l)
  BY DEF Heaped
<1>2. list \in Seq(KBlock) /\ list # << >> /\ Once(list)
  BY <1>1 DEF HeapType, Lists
<1>3. /\ x \in KBlock /\ On(list, x) /\ Tail(list) \in Seq(KBlock) /\ Once(Tail(list))
      /\ \A y : On(Tail(list), y) <=> On(list, y) /\ y # x
  <2> HIDE DEF list
  <2>1. Len(list) \in Nat \ {0} /\ x = list[1] /\ Len(Tail(list)) = Len(list) - 1
        /\ \A j \in 1 .. Len(list) - 1 : Tail(list)[j] = list[j + 1]
    BY <1>2
  <2>2. \A j \in 1 .. Len(list) : j = 1 \/ j - 1 \in 1 .. Len(list) - 1
    BY <2>1
  <2>3. \A j \in 1 .. Len(list) - 1 : j + 1 \in 1 .. Len(list) /\ j + 1 # 1
    BY <2>1
  <2>4. x \in KBlock /\ On(list, x) /\ Tail(list) \in Seq(KBlock)
    BY <1>2, <2>1 DEF On
  <2>5. Once(Tail(list))
    BY <1>2, <2>1, <2>3 DEF Once
  <2>6. ASSUME NEW y PROVE On(Tail(list), y) <=> On(list, y) /\ y # x
    <3>1. ASSUME On(Tail(list), y) PROVE On(list, y) /\ y # x
      <4>1. PICK j \in 1 .. Len(list) - 1 : Tail(list)[j] = y
        BY <2>1, <3>1 DEF On
      <4>2. list[j + 1] = y /\ 1 \in 1 .. Len(list)
        BY <2>1, <4>1
      <4> QED
        BY <1>2, <2>1, <2>3, <4>2 DEF On, Once
    <3>2. ASSUME On(list, y), y # x PROVE On(Tail(list), y)
      <4>1. PICK j \in 1 .. Len(list) : list[j] = y
        BY <3>2 DEF On
      <4>2. j - 1 \in 1 .. Len(list) - 1 /\ list[(j - 1) + 1] = y
        BY <2>1, <2>2, <3>2, <4>1
      <4> QED
        BY <2>1, <4>2 DEF On
    <3> QED
      BY <3>1, <3>2
  <2> QED
    BY <2>4, <2>5, <2>6
<1>4. q \in KPages /\ i \in 1 .. TotalBlock[d] /\ a[q].desc = d /\ d # 0 /\ q \in CutFor(a, d) /\ x = <<q, i>>
  BY <1>1, <1>3, DescFacts DEF Lists, CutFor, KBlock
<1>5. /\ e2[d].free_list = Tail(list) /\ e2[d].page_count = e[d].page_count
      /\ \A c \in H!Descs \ {d} : e2[c] = e[c]
      /\ e2 \in [H!Descs -> [page_count : Nat, free_list : Seq(KBlock)]]
  BY <1>1, <1>3 DEF HeapType
<1>6. /\ a[q].count = Cardinality(FreeOf(e, d, q)) /\ i \in FreeOf(e, d, q)
  BY <1>1, <1>3, <1>4 DEF Counts, FreeOf
<1>7. FreeOf(e2, d, q) = FreeOf(e, d, q) \ {i}
  BY SMTT(60), <1>3, <1>4, <1>5 DEF FreeOf
<1>8. Cardinality(FreeOf(e2, d, q)) = a[q].count - 1 /\ a[q].count - 1 \in Nat
  <2> DEFINE F == FreeOf(e, d, q)
             G == FreeOf(e2, d, q)
  <2>1. IsFiniteSet(F) /\ Cardinality(F) \in Nat /\ Cardinality(G) \in Nat
    BY FreeFinite
  <2>2. G = F \ {i} /\ i \in F /\ a[q].count = Cardinality(F)
    BY <1>6, <1>7
  <2> HIDE DEF F, G
  <2>3. Cardinality(G) = Cardinality(F) - 1
    BY <2>1, <2>2, FS_RemoveElement
  <2> QED
    BY <2>1, <2>2, <2>3 DEF G
<1>9. \A c \in H!Descs, p \in KPages : c # d \/ p # q => FreeOf(e2, c, p) = FreeOf(e, c, p)
  BY <1>3, <1>4, <1>5 DEF FreeOf
<1>10. /\ a2 \in [KPages -> Arena] /\ a2[q].count = a[q].count - 1 /\ \A p \in KPages : a2[p].desc = a[p].desc
       /\ \A p \in KPages \ {q} : a2[p] = a[p]
  BY <1>1, <1>4, <1>8 DEF HeapType, Arena
<1>11. [page |-> q, from |-> i, to |-> i] \in Memory
  BY <1>4, DescFacts DEF Memory
<1> HIDE DEF a2, e2, q, i, x, list
<1>12. HeapType(k, a2, e2, l2)
  BY <1>1, <1>5, <1>10, <1>11 DEF HeapType
<1>13. Lists(k, a2, e2)
  <2>1. \A p \in KPages : a2[p].desc # 0 => p \in k
    BY <1>1, <1>10 DEF Lists
  <2>2. ASSUME NEW c \in H!Descs
        PROVE  Once(e2[c].free_list) /\ \A y \in KBlock : On(e2[c].free_list, y) => On(e[c].free_list, y)
    BY <1>1, <1>3, <1>5 DEF Lists, list
  <2>3. ASSUME NEW c \in H!Descs, NEW y \in KBlock, On(e2[c].free_list, y)
        PROVE  a2[y[1]].desc = c /\ y[2] \in 1 .. TotalBlock[c]
    <3>1. y[1] \in KPages
      BY DEF KBlock
    <3>2. a[y[1]].desc = c /\ y[2] \in 1 .. TotalBlock[c]
      BY <1>1, <2>2, <2>3 DEF Lists
    <3> QED
      BY <1>10, <3>1, <3>2
  <2> QED
    BY <2>1, <2>2, <2>3 DEF Lists
<1>14. Counts(a2, e2)
  <2>1. \A c : CutFor(a2, c) = CutFor(a, c)
    BY <1>10 DEF CutFor
  <2>2. \A c \in H!Descs : e2[c].page_count = e[c].page_count
    BY <1>5
  <2>3. ASSUME NEW c \in H!Descs, NEW p \in CutFor(a, c) PROVE a2[p].count = Cardinality(FreeOf(e2, c, p))
    <3>1. p \in KPages /\ a[p].desc = c
      BY DEF CutFor
    <3>2. CASE p = q
      BY <1>4, <1>8, <1>10, <3>1, <3>2
    <3>3. CASE p # q
      BY <1>1, <1>9, <1>10, <3>1, <3>3 DEF Counts
    <3> QED
      BY <3>2, <3>3
  <2> QED
    BY <1>1, <2>1, <2>2, <2>3 DEF Counts
<1>15. Small(a2, e2, l2)
  <2>1. ASSUME NEW b \in l, b.from # 0
        PROVE /\ b.to = b.from /\ a2[b.page].desc \in H!Descs
              /\ b.from \in 1 .. TotalBlock[a2[b.page].desc]
              /\ ~ On(e2[a2[b.page].desc].free_list, <<b.page, b.from>>)
    <3>1. b.page \in KPages
      BY <1>1 DEF HeapType, Memory
    <3> DEFINE c == a[b.page].desc
    <3>2. /\ b.to = b.from /\ c \in H!Descs /\ b.from \in 1 .. TotalBlock[c]
          /\ ~ On(e[c].free_list, <<b.page, b.from>>)
      BY <1>1, <2>1 DEF Small
    <3>3. a2[b.page].desc = c
      BY <1>10, <3>1
    <3> HIDE DEF c
    <3>4. ~ On(e2[c].free_list, <<b.page, b.from>>)
      BY <1>3, <1>5, <3>2 DEF list
    <3> QED
      BY <3>2, <3>3, <3>4
  <2>2. a2[q].desc = d /\ ~ On(e2[d].free_list, <<q, i>>)
    BY <1>3, <1>4, <1>5, <1>10
  <2> QED
    BY <1>4, <2>1, <2>2 DEF Small
<1>16. Whole(k, a2, l2)
  <2>1. \A b \in l : b.from = 0 => b.page \in KPages \ {q} /\ b.page .. b.to \subseteq KPages
    <3>1. \A b \in l : b.page \in Nat /\ b.to \in Nat
      BY <1>1, DescFacts DEF HeapType, Memory
    <3>2. \A b \in l : b.from = 0 => b.page \in b.page .. b.to
      BY <1>1, <3>1 DEF Whole
    <3> QED
      BY <1>1, <1>4, <3>2 DEF HeapType, Whole
  <2>2. i # 0
    BY <1>4, DescFacts
  <2> QED
    BY <1>1, <1>10, <2>1, <2>2 DEF Whole
<1>17. Apart(l2)
  <2>1. i # 0
    BY <1>4, DescFacts
  <2> QED
    BY <1>1, <2>1 DEF Apart
<1>18. Heaped(k, a2, e2, l2)
  BY <1>12, <1>13, <1>14, <1>15, <1>16, <1>17 DEF Heaped
<1> QED
  BY <1>18 DEF a2, e2, q, i, x, list

\* kmalloc cuts a page for a descriptor that has no free block.
LEMMA CutKeeps ==
  ASSUME NEW k, NEW a, NEW e, NEW l, Heaped(k, a, e, l),
         NEW d \in H!Descs, e[d].free_list = << >>, NEW p \in KPages, p \notin k
  PROVE  Heaped(k \cup {p}, [a EXCEPT ![p] = [desc |-> d, count |-> TotalBlock[d]]],
                [e EXCEPT ![d] = [page_count |-> @.page_count + 1, free_list |-> H!Cut(d, p)]], l)
<1> DEFINE k2 == k \cup {p}
           a2 == [a EXCEPT ![p] = [desc |-> d, count |-> TotalBlock[d]]]
           list == H!Cut(d, p)
           e2 == [e EXCEPT ![d] = [page_count |-> @.page_count + 1, free_list |-> list]]
           T == TotalBlock[d]
<1>1. /\ HeapType(k, a, e, l) /\ Lists(k, a, e) /\ Counts(a, e)
      /\ Small(a, e, l) /\ Whole(k, a, l) /\ Apart(l)
  BY DEF Heaped
<1>2. d \in Nat \ {0} /\ T \in Nat \ {0} /\ p \in Nat
  BY DescFacts
<1>3. list \in Seq(KBlock) /\ Len(list) = T /\ \A j \in 1 .. T : list[j] = <<p, T + 1 - j>>
  <2>1. list = [j \in 1 .. T |-> <<p, T + 1 - j>>]
    BY DEF H!Cut
  <2>2. \A j \in 1 .. T : <<p, T + 1 - j>> \in KBlock
    BY <1>2 DEF KBlock
  <2> HIDE DEF list, T
  <2>3. list \in [1 .. T -> KBlock] /\ \A j \in 1 .. T : list[j] = <<p, T + 1 - j>>
    BY <2>1, <2>2
  <2>4. list \in Seq(KBlock) /\ Len(list) = T
    BY <1>2, <2>3
  <2> QED
    BY <2>3, <2>4
<1>4. Once(list)
  <2> HIDE DEF list, T
  <2>1. \A j \in 1 .. T : list[j][2] = T + 1 - j
    BY <1>3
  <2> QED
    BY <1>2, <1>3, <2>1 DEF Once
<1>5. \A x : On(list, x) <=> \E n \in 1 .. T : x = <<p, n>>
  <2> HIDE DEF list, T
  <2>1. ASSUME NEW n \in 1 .. T PROVE T + 1 - n \in 1 .. T /\ list[T + 1 - n] = <<p, n>>
    BY <1>2, <1>3
  <2>2. \A j \in 1 .. T : T + 1 - j \in 1 .. T
    BY <1>2
  <2> QED
    BY ZenonT(60), <1>3, <2>1, <2>2 DEF On
<1>6. /\ e2[d].free_list = list /\ e2[d].page_count = e[d].page_count + 1
      /\ \A c \in H!Descs \ {d} : e2[c] = e[c]
      /\ e2 \in [H!Descs -> [page_count : Nat, free_list : Seq(KBlock)]]
  BY <1>1, <1>3 DEF HeapType
<1>7. /\ a2 \in [KPages -> Arena] /\ a2[p].desc = d /\ a2[p].count = T
      /\ \A g \in KPages \ {p} : a2[g] = a[g]
  BY <1>1, <1>2 DEF HeapType, Arena
<1>8. a[p].desc = 0
  BY <1>1 DEF Lists
<1> HIDE DEF a2, e2, k2, list, T
<1>9. HeapType(k2, a2, e2, l)
  BY <1>1, <1>6, <1>7 DEF HeapType, k2
<1>10. Lists(k2, a2, e2)
  <2>1. \A g \in KPages : a2[g].desc # 0 => g \in k2
    BY <1>1, <1>7 DEF Lists, k2
  <2>2. \A c \in H!Descs : Once(e2[c].free_list)
    BY <1>1, <1>4, <1>6 DEF Lists
  <2>3. ASSUME NEW c \in H!Descs, NEW x \in KBlock, On(e2[c].free_list, x)
        PROVE  a2[x[1]].desc = c /\ x[2] \in 1 .. TotalBlock[c]
    <3>1. CASE c = d
      <4>1. PICK n \in 1 .. T : x = <<p, n>>
        BY <1>5, <1>6, <2>3, <3>1
      <4> QED
        BY <1>7, <3>1, <4>1 DEF T
    <3>2. CASE c # d
      <4>1. a[x[1]].desc = c /\ x[2] \in 1 .. TotalBlock[c] /\ c # 0 /\ x[1] \in KPages
        BY <1>1, <1>6, <2>3, <3>2, DescFacts DEF Lists, KBlock
      <4> QED
        BY <1>7, <1>8, <4>1
    <3> QED
      BY <3>1, <3>2
  <2> QED
    BY <2>1, <2>2, <2>3 DEF Lists
<1>11. Counts(a2, e2)
  <2>1. CutFor(a2, d) = CutFor(a, d) \cup {p} /\ p \notin CutFor(a, d)
    BY <1>2, <1>7, <1>8 DEF CutFor
  <2>2. Cardinality(CutFor(a2, d)) = Cardinality(CutFor(a, d)) + 1
    BY <2>1, CutFinite, FS_AddElement
  <2>3. \A c \in H!Descs \ {d} : CutFor(a2, c) = CutFor(a, c)
    <3>1. \A c \in H!Descs : c # 0
      BY DescFacts
    <3> QED
      BY <1>7, <1>8, <3>1 DEF CutFor
  <2>4. \A c \in H!Descs : e2[c].page_count = Cardinality(CutFor(a2, c))
    BY <1>1, <1>6, <2>2, <2>3 DEF Counts
  <2>5. FreeOf(e2, d, p) = 1 .. T
    BY <1>5, <1>6 DEF FreeOf, T
  <2>6. Cardinality(1 .. T) = T
    <3>1. T \in Int /\ 1 \in Int /\ ~ (1 > T) /\ T - 1 + 1 = T
      BY <1>2
    <3> QED
      BY <3>1, FS_Interval
  <2>7. CutFor(a, d) = {} \/ \A g \in CutFor(a, d) : a[g].count = 0 /\ FreeOf(e2, d, g) = {}
    <3>1. \A g \in CutFor(a, d) : FreeOf(e, d, g) = {}
      <4>1. \A x : ~ On(e[d].free_list, x)
        BY DEF On
      <4> QED
        BY <4>1 DEF FreeOf
    <3>2. \A g \in CutFor(a, d) : FreeOf(e2, d, g) = {}
      BY <1>5, <1>6, <2>1 DEF FreeOf
    <3>3. Cardinality({}) = 0
      BY FS_EmptySet
    <3> QED
      BY <1>1, <3>1, <3>2, <3>3 DEF Counts
  <2>8. ASSUME NEW c \in H!Descs, NEW g \in CutFor(a2, c) PROVE a2[g].count = Cardinality(FreeOf(e2, c, g))
    <3>0. g \in KPages /\ a2[g].desc = c
      BY DEF CutFor
    <3>1. CASE g = p
      BY <1>7, <2>5, <2>6, <3>0, <3>1
    <3>2. CASE g # p /\ c = d
      <4>1. a2[g].count = 0 /\ FreeOf(e2, c, g) = {}
        BY <1>7, <2>1, <2>7, <3>0, <3>2
      <4> QED
        BY <4>1, FS_EmptySet
    <3>3. CASE c # d
      <4>1. FreeOf(e2, c, g) = FreeOf(e, c, g)
        BY <1>6, <3>3 DEF FreeOf
      <4>2. g # p /\ g \in CutFor(a, c)
        BY <1>7, <2>3, <3>0, <3>3
      <4> QED
        BY <1>1, <1>7, <3>0, <4>1, <4>2 DEF Counts
    <3> QED
      BY <3>1, <3>2, <3>3
  <2> QED
    BY <2>4, <2>8 DEF Counts
<1>12. Small(a2, e2, l)
  <2>1. ASSUME NEW b \in l, b.from # 0
        PROVE /\ b.to = b.from /\ a2[b.page].desc \in H!Descs
              /\ b.from \in 1 .. TotalBlock[a2[b.page].desc]
              /\ ~ On(e2[a2[b.page].desc].free_list, <<b.page, b.from>>)
    <3> DEFINE c == a[b.page].desc
    <3>1. b.page \in KPages
      BY <1>1 DEF HeapType, Memory
    <3>2. /\ b.to = b.from /\ c \in H!Descs /\ b.from \in 1 .. TotalBlock[c]
          /\ ~ On(e[c].free_list, <<b.page, b.from>>)
      BY <1>1, <2>1 DEF Small
    <3>3. a2[b.page].desc = c /\ b.page # p
      BY <1>7, <1>8, <3>1, <3>2, DescFacts
    <3> HIDE DEF c
    <3>4. ~ On(e2[c].free_list, <<b.page, b.from>>)
      BY <1>5, <1>6, <3>2, <3>3
    <3> QED
      BY <3>2, <3>3, <3>4
  <2> QED
    BY <2>1 DEF Small
<1>13. Whole(k2, a2, l)
  <2>1. ASSUME NEW b \in l, b.from = 0
        PROVE /\ b.page <= b.to /\ b.page .. b.to \subseteq k2
              /\ a2[b.page].count = b.to - b.page + 1
              /\ \A g \in b.page .. b.to : a2[g].desc = 0
    <3>1. /\ b.page <= b.to /\ b.page .. b.to \subseteq k
          /\ a[b.page].count = b.to - b.page + 1
          /\ \A g \in b.page .. b.to : a[g].desc = 0
      BY <1>1, <2>1 DEF Whole
    <3>2. b.page \in Nat /\ b.to \in Nat
      BY <1>1, DescFacts DEF HeapType, Memory
    <3>3. b.page \in b.page .. b.to /\ b.page .. b.to \subseteq KPages \ {p}
      BY <1>1, <3>1, <3>2 DEF HeapType
    <3>4. \A g \in b.page .. b.to : a2[g] = a[g]
      BY <1>7, <3>3
    <3> QED
      BY <3>1, <3>3, <3>4 DEF k2
  <2> QED
    BY <2>1 DEF Whole
<1>14. Heaped(k2, a2, e2, l)
  BY SMTT(60), <1>1, <1>9, <1>10, <1>11, <1>12, <1>13 DEF Heaped
<1> QED
  BY <1>14 DEF k2, a2, e2, list, T

\* kfree pushes a block back.
LEMMA PushKeeps ==
  ASSUME NEW k, NEW a, NEW e, NEW l, Heaped(k, a, e, l), NEW b \in l, b.from # 0
  PROVE  LET d == a[b.page].desc
         IN /\ d \in H!Descs /\ b.page \in KPages
            /\ Heaped(k, [a EXCEPT ![b.page].count = @ + 1],
                      [e EXCEPT ![d].free_list = <<<<b.page, b.from>>>> \o @], l \ {b})
<1> DEFINE d == a[b.page].desc
           p == b.page
           i == b.from
           list == <<<<p, i>>>> \o e[d].free_list
           a2 == [a EXCEPT ![p].count = @ + 1]
           e2 == [e EXCEPT ![d].free_list = list]
           l2 == l \ {b}
<1>1. /\ HeapType(k, a, e, l) /\ Lists(k, a, e) /\ Counts(a, e)
      /\ Small(a, e, l) /\ Whole(k, a, l) /\ Apart(l)
  BY DEF Heaped
<1>2. /\ p \in KPages /\ d \in H!Descs /\ i \in 1 .. TotalBlock[d]
      /\ ~ On(e[d].free_list, <<p, i>>) /\ b.to = i /\ d # 0 /\ p \in CutFor(a, d)
      /\ <<p, i>> \in KBlock
  BY <1>1, DescFacts DEF HeapType, Memory, Small, CutFor, KBlock
<1>3. /\ list \in Seq(KBlock) /\ Once(list)
      /\ \A x : On(list, x) <=> On(e[d].free_list, x) \/ x = <<p, i>>
  <2> DEFINE old == e[d].free_list
             x == <<p, i>>
  <2>1. old \in Seq(KBlock) /\ Once(old) /\ x \in KBlock /\ ~ On(old, x)
    BY <1>1, <1>2 DEF HeapType, Lists
  <2>2. list = <<x>> \o old
    OBVIOUS
  <2> HIDE DEF old, x, list
  <2>3. /\ list \in Seq(KBlock) /\ Len(list) = Len(old) + 1 /\ Len(old) \in Nat
        /\ list[1] = x /\ \A j \in 1 .. Len(old) : list[j + 1] = old[j]
    BY <2>1, <2>2
  <2>4. \A j \in 1 .. Len(list) : j = 1 \/ (j - 1 \in 1 .. Len(old) /\ list[j] = old[j - 1])
    <3> TAKE j \in 1 .. Len(list)
    <3>1. j = 1 \/ (j - 1 \in 1 .. Len(old) /\ (j - 1) + 1 = j)
      BY <2>3
    <3> QED
      BY <2>3, <3>1
  <2>5. \A j \in 1 .. Len(old) : j + 1 \in 1 .. Len(list)
    BY <2>3
  <2>6. 1 \in 1 .. Len(list)
    BY <2>3
  <2>7. \A y : On(list, y) <=> On(old, y) \/ y = x
    BY SMTT(60), <2>3, <2>4, <2>5, <2>6 DEF On
  <2>8. Once(list)
    <3> SUFFICES ASSUME NEW j \in 1 .. Len(list), NEW h \in 1 .. Len(list), list[j] = list[h] PROVE j = h
      BY DEF Once
    <3>1. CASE j = 1 /\ h = 1
      BY <3>1
    <3>2. CASE j = 1 /\ h # 1
      BY <2>1, <2>3, <2>4, <3>2 DEF On
    <3>3. CASE j # 1 /\ h = 1
      BY <2>1, <2>3, <2>4, <3>3 DEF On
    <3>4. CASE j # 1 /\ h # 1
      <4>1. j - 1 \in 1 .. Len(old) /\ h - 1 \in 1 .. Len(old) /\ old[j - 1] = old[h - 1]
        BY <2>4, <3>4
      <4>2. j - 1 = h - 1
        BY SMTT(60), <2>1, <4>1 DEF Once
      <4> QED
        BY <4>2
    <3> QED
      BY <3>1, <3>2, <3>3, <3>4
  <2> QED
    BY <2>3, <2>7, <2>8 DEF old, x
<1> HIDE DEF list
<1>4. /\ e2[d].free_list = list /\ \A c \in H!Descs : e2[c].page_count = e[c].page_count
      /\ \A c \in H!Descs \ {d} : e2[c] = e[c]
      /\ e2 \in [H!Descs -> [page_count : Nat, free_list : Seq(KBlock)]]
  BY <1>1, <1>2, <1>3 DEF HeapType
<1>5. /\ a2 \in [KPages -> Arena] /\ a2[p].count = a[p].count + 1 /\ \A g \in KPages : a2[g].desc = a[g].desc
      /\ \A g \in KPages \ {p} : a2[g] = a[g]
  <2> HIDE DEF d, p, i
  <2>1. a \in [KPages -> Arena] /\ a[p] \in Arena /\ p \in KPages
    BY <1>1, <1>2 DEF HeapType
  <2> DEFINE w == [a[p] EXCEPT !.count = @ + 1]
  <2>2. w \in Arena /\ w.count = a[p].count + 1 /\ w.desc = a[p].desc
    BY <2>1 DEF Arena
  <2>3. a2 = [a EXCEPT ![p] = w]
    OBVIOUS
  <2> HIDE DEF w, a2
  <2> QED
    BY <2>1, <2>2, <2>3
<1>6. FreeOf(e2, d, p) = FreeOf(e, d, p) \cup {i} /\ i \notin FreeOf(e, d, p)
  BY ZenonT(60), <1>2, <1>3, <1>4 DEF FreeOf
<1>7. Cardinality(FreeOf(e2, d, p)) = a[p].count + 1
  <2>1. a[p].count = Cardinality(FreeOf(e, d, p))
    BY <1>1, <1>2 DEF Counts
  <2>2. IsFiniteSet(FreeOf(e, d, p))
    BY <1>2, FreeFinite
  <2> QED
    BY <1>6, <2>1, <2>2, FS_AddElement
<1>8. \A c \in H!Descs, g \in KPages : c # d \/ g # p => FreeOf(e2, c, g) = FreeOf(e, c, g)
  BY <1>3, <1>4 DEF FreeOf
<1>9. \A c \in H!Descs : e2[c].free_list = IF c = d THEN list ELSE e[c].free_list
  BY <1>4
<1>10. a[p].desc = d
  OBVIOUS
<1> HIDE DEF a2, e2, p, i, d
<1>11. HeapType(k, a2, e2, l2)
  BY <1>1, <1>4, <1>5 DEF HeapType
<1>12. Lists(k, a2, e2)
  <2>1. \A g \in KPages : a2[g].desc # 0 => g \in k
    BY <1>1, <1>5 DEF Lists
  <2>2. \A c \in H!Descs : Once(e2[c].free_list)
    BY <1>1, <1>3, <1>9 DEF Lists
  <2>3. ASSUME NEW c \in H!Descs, NEW x \in KBlock, On(e2[c].free_list, x)
        PROVE  a2[x[1]].desc = c /\ x[2] \in 1 .. TotalBlock[c]
    <3>1. x[1] \in KPages
      BY DEF KBlock
    <3>2. CASE On(e[c].free_list, x)
      BY <1>1, <1>5, <3>1, <3>2 DEF Lists
    <3>3. CASE ~ On(e[c].free_list, x)
      <4>1. c = d /\ x = <<p, i>>
        BY <1>3, <1>9, <2>3, <3>3
      <4> QED
        BY <1>2, <1>5, <1>10, <4>1
    <3> QED
      BY <3>2, <3>3
  <2> QED
    BY <2>1, <2>2, <2>3 DEF Lists
<1>13. Counts(a2, e2)
  <2>1. \A c : CutFor(a2, c) = CutFor(a, c)
    BY <1>5 DEF CutFor
  <2>2. ASSUME NEW c \in H!Descs, NEW g \in CutFor(a, c) PROVE a2[g].count = Cardinality(FreeOf(e2, c, g))
    <3>1. g \in KPages /\ a[g].desc = c
      BY DEF CutFor
    <3>2. CASE g = p
      BY <1>5, <1>7, <1>10, <3>1, <3>2
    <3>3. CASE g # p
      BY <1>1, <1>5, <1>8, <3>1, <3>3 DEF Counts
    <3> QED
      BY <3>2, <3>3
  <2> QED
    BY <1>1, <1>4, <2>1, <2>2 DEF Counts
<1>14. Small(a2, e2, l2)
  <2>1. ASSUME NEW c \in l, c # b, c.from # 0
        PROVE /\ c.to = c.from /\ a2[c.page].desc \in H!Descs
              /\ c.from \in 1 .. TotalBlock[a2[c.page].desc]
              /\ ~ On(e2[a2[c.page].desc].free_list, <<c.page, c.from>>)
    <3> DEFINE u == a[c.page].desc
    <3>1. c.page \in KPages
      BY <1>1 DEF HeapType, Memory
    <3>2. /\ c.to = c.from /\ u \in H!Descs /\ c.from \in 1 .. TotalBlock[u]
          /\ ~ On(e[u].free_list, <<c.page, c.from>>)
      BY <1>1, <2>1 DEF Small
    <3>3. a2[c.page].desc = u
      BY <1>5, <3>1
    <3>4. <<c.page, c.from>> # <<p, i>>
      <4>1. /\ c = [page |-> c.page, from |-> c.from, to |-> c.to]
            /\ b = [page |-> b.page, from |-> b.from, to |-> b.to]
        BY <1>1 DEF HeapType, Memory
      <4> QED
        BY <1>2, <2>1, <3>2, <4>1 DEF p, i
    <3> HIDE DEF u
    <3>5. ~ On(e2[u].free_list, <<c.page, c.from>>)
      BY <1>3, <1>9, <3>2, <3>4
    <3> QED
      BY <3>2, <3>3, <3>5
  <2> QED
    BY <2>1 DEF Small
<1>15. Whole(k, a2, l2)
  <2>1. ASSUME NEW c \in l, c.from = 0
        PROVE /\ c.page <= c.to /\ c.page .. c.to \subseteq k
              /\ a2[c.page].count = c.to - c.page + 1
              /\ \A g \in c.page .. c.to : a2[g].desc = 0
    <3>1. /\ c.page <= c.to /\ c.page .. c.to \subseteq k
          /\ a[c.page].count = c.to - c.page + 1
          /\ \A g \in c.page .. c.to : a[g].desc = 0
      BY <1>1, <2>1 DEF Whole
    <3>2. c.page \in Nat /\ c.to \in Nat
      BY <1>1, DescFacts DEF HeapType, Memory
    <3>3. c.page \in c.page .. c.to /\ c.page .. c.to \subseteq KPages \ {p}
      BY <1>1, <1>2, <1>10, <3>1, <3>2 DEF HeapType
    <3>4. \A g \in c.page .. c.to : a2[g] = a[g]
      BY <1>5, <3>3
    <3> QED
      BY <3>1, <3>3, <3>4
  <2> QED
    BY <2>1 DEF Whole
<1>16. Heaped(k, a2, e2, l2)
  BY <1>1, <1>11, <1>12, <1>13, <1>14, <1>15 DEF Heaped, Apart
<1>17. e2 = [e EXCEPT ![d].free_list = <<<<p, i>>>> \o @]
  BY DEF e2, list
<1> QED
  BY <1>2, <1>16, <1>17 DEF a2, p, i, d

\* kfree gives back a page all of whose blocks are free.
LEMMA BackKeeps ==
  ASSUME NEW k, NEW a, NEW e, NEW l, Heaped(k, a, e, l), NEW d \in H!Descs,
         NEW p \in KPages, a[p].desc = d, a[p].count = TotalBlock[d]
  PROVE  Heaped(k \ {p}, [a EXCEPT ![p] = H!NoArena],
                [e EXCEPT ![d] = [page_count |-> @.page_count - 1,
                                  free_list |-> H!Without(@.free_list, p)]], l)
<1> DEFINE old == e[d].free_list
           list == H!Without(old, p)
           k2 == k \ {p}
           a2 == [a EXCEPT ![p] = H!NoArena]
           e2 == [e EXCEPT ![d] = [page_count |-> @.page_count - 1, free_list |-> list]]
<1>1. /\ HeapType(k, a, e, l) /\ Lists(k, a, e) /\ Counts(a, e)
      /\ Small(a, e, l) /\ Whole(k, a, l) /\ Apart(l)
  BY DEF Heaped
<1>2. p \in CutFor(a, d) /\ d # 0
  BY DescFacts DEF CutFor
<1>3. old \in Seq(KBlock) /\ Once(old)
  BY <1>1 DEF HeapType, Lists
<1>4. /\ list \in Seq(KBlock) /\ Once(list)
      /\ \A x : On(list, x) <=> On(old, x) /\ x[1] # p
  <2> HIDE DEF old
  <2> QED
    BY <1>3, WithoutFacts
<1>5. /\ CutFor(a2, d) = CutFor(a, d) \ {p}
      /\ \A c \in H!Descs \ {d} : CutFor(a2, c) = CutFor(a, c)
  <2>1. H!NoArena.desc = 0 /\ \A c \in H!Descs : c # 0
    BY DescFacts DEF H!NoArena
  <2>2. a2[p] = H!NoArena /\ \A g \in KPages \ {p} : a2[g] = a[g]
    BY <1>1 DEF HeapType
  <2> HIDE DEF a2
  <2> QED
    BY <2>1, <2>2 DEF CutFor
<1>6. /\ Cardinality(CutFor(a2, d)) = e[d].page_count - 1 /\ e[d].page_count - 1 \in Nat
  <2>1. e[d].page_count = Cardinality(CutFor(a, d))
    BY <1>1 DEF Counts
  <2>2. Cardinality(CutFor(a2, d)) = Cardinality(CutFor(a, d)) - 1
    <3> DEFINE C == CutFor(a, d)
    <3>1. IsFiniteSet(C) /\ p \in C /\ CutFor(a2, d) = C \ {p}
      BY <1>2, <1>5, CutFinite
    <3> HIDE DEF C, a2
    <3>2. Cardinality(C \ {p}) = Cardinality(C) - 1
      BY <3>1, FS_RemoveElement
    <3> QED
      BY <3>1, <3>2 DEF C
  <2>3. Cardinality(CutFor(a2, d)) \in Nat
    BY CutFinite
  <2> QED
    BY <2>1, <2>2, <2>3
<1>7. /\ e2[d].free_list = list /\ e2[d].page_count = e[d].page_count - 1
      /\ \A c \in H!Descs \ {d} : e2[c] = e[c]
      /\ e2 \in [H!Descs -> [page_count : Nat, free_list : Seq(KBlock)]]
  <2> HIDE DEF list
  <2> QED
    BY <1>1, <1>4, <1>6 DEF HeapType
<1>8. /\ a2 \in [KPages -> Arena] /\ a2[p].desc = 0 /\ \A g \in KPages \ {p} : a2[g] = a[g]
  BY <1>1 DEF HeapType, Arena, H!NoArena
<1>9. FreeOf(e, d, p) = 1 .. TotalBlock[d]
  <2>1. Cardinality(FreeOf(e, d, p)) = TotalBlock[d]
    BY <1>1, <1>2 DEF Counts
  <2> QED
    BY <2>1, FreeFinite
<1>10. \A b \in l : b.from # 0 => b.page # p
  <2>1. \A n \in 1 .. TotalBlock[d] : On(e[d].free_list, <<p, n>>)
    BY <1>9 DEF FreeOf
  <2> QED
    BY <1>1, <2>1 DEF Small
<1> HIDE DEF k2, a2, e2, list, old
<1>11. HeapType(k2, a2, e2, l)
  BY <1>1, <1>7, <1>8 DEF HeapType, k2
<1>12. Lists(k2, a2, e2)
  <2>1. \A g \in KPages : a2[g].desc # 0 => g \in k2
    BY <1>1, <1>8 DEF Lists, k2
  <2>2. \A c \in H!Descs : Once(e2[c].free_list)
    BY <1>1, <1>4, <1>7 DEF Lists
  <2>3. ASSUME NEW c \in H!Descs, NEW x \in KBlock, On(e2[c].free_list, x)
        PROVE  a2[x[1]].desc = c /\ x[2] \in 1 .. TotalBlock[c]
    <3>1. On(e[c].free_list, x) /\ (c = d => x[1] # p)
      BY <1>4, <1>7, <2>3 DEF old
    <3>2. a[x[1]].desc = c /\ x[2] \in 1 .. TotalBlock[c] /\ x[1] \in KPages
      BY <1>1, <3>1 DEF Lists, KBlock
    <3> QED
      BY <1>8, <3>1, <3>2
  <2> QED
    BY <2>1, <2>2, <2>3 DEF Lists
<1>13. Counts(a2, e2)
  <2>1. \A c \in H!Descs : e2[c].page_count = Cardinality(CutFor(a2, c))
    BY <1>1, <1>5, <1>6, <1>7 DEF Counts
  <2>2. ASSUME NEW c \in H!Descs, NEW g \in CutFor(a2, c) PROVE a2[g].count = Cardinality(FreeOf(e2, c, g))
    <3>1. g \in KPages /\ g # p /\ g \in CutFor(a, c)
      <4>1. g \in KPages /\ a2[g].desc = c /\ c # 0
        BY DescFacts DEF CutFor
      <4> QED
        BY <1>8, <4>1 DEF CutFor
    <3>2. FreeOf(e2, c, g) = FreeOf(e, c, g)
      BY <1>4, <1>7, <3>1 DEF FreeOf, old
    <3> QED
      BY <1>1, <1>8, <3>1, <3>2 DEF Counts
  <2> QED
    BY <2>1, <2>2 DEF Counts
<1>14. Small(a2, e2, l)
  <2>1. ASSUME NEW b \in l, b.from # 0
        PROVE /\ b.to = b.from /\ a2[b.page].desc \in H!Descs
              /\ b.from \in 1 .. TotalBlock[a2[b.page].desc]
              /\ ~ On(e2[a2[b.page].desc].free_list, <<b.page, b.from>>)
    <3> DEFINE c == a[b.page].desc
    <3>1. b.page \in KPages /\ b.page # p
      BY <1>1, <1>10, <2>1 DEF HeapType, Memory
    <3>2. /\ b.to = b.from /\ c \in H!Descs /\ b.from \in 1 .. TotalBlock[c]
          /\ ~ On(e[c].free_list, <<b.page, b.from>>)
      BY <1>1, <2>1 DEF Small
    <3>3. a2[b.page].desc = c
      BY <1>8, <3>1
    <3> HIDE DEF c
    <3>4. ~ On(e2[c].free_list, <<b.page, b.from>>)
      BY <1>4, <1>7, <3>2 DEF old
    <3> QED
      BY <3>2, <3>3, <3>4
  <2> QED
    BY <2>1 DEF Small
<1>15. Whole(k2, a2, l)
  <2>1. ASSUME NEW c \in l, c.from = 0
        PROVE /\ c.page <= c.to /\ c.page .. c.to \subseteq k2
              /\ a2[c.page].count = c.to - c.page + 1
              /\ \A g \in c.page .. c.to : a2[g].desc = 0
    <3>1. /\ c.page <= c.to /\ c.page .. c.to \subseteq k
          /\ a[c.page].count = c.to - c.page + 1
          /\ \A g \in c.page .. c.to : a[g].desc = 0
      BY <1>1, <2>1 DEF Whole
    <3>2. c.page \in Nat /\ c.to \in Nat
      BY <1>1, DescFacts DEF HeapType, Memory
    <3>3. c.page \in c.page .. c.to /\ c.page .. c.to \subseteq KPages \ {p}
      BY <1>1, <1>2, <3>1, <3>2 DEF HeapType
    <3>4. \A g \in c.page .. c.to : a2[g] = a[g]
      BY <1>8, <3>3
    <3> QED
      BY <3>1, <3>3, <3>4 DEF k2
  <2> QED
    BY <2>1 DEF Whole
<1>16. Heaped(k2, a2, e2, l)
  BY <1>1, <1>11, <1>12, <1>13, <1>14, <1>15 DEF Heaped
<1> QED
  BY <1>16 DEF k2, a2, e2, list, old

\* kmalloc hands out a run of free pages.
LEMMA LargeKeeps ==
  ASSUME NEW k, NEW a, NEW e, NEW l, Heaped(k, a, e, l), NEW n \in Nat \ {0},
         NEW p \in KPages, H!Run(p, n) \subseteq KPages \ k
  PROVE  Heaped(k \cup H!Run(p, n), [a EXCEPT ![p] = [desc |-> 0, count |-> n]], e,
                l \cup {[page |-> p, from |-> 0, to |-> p + n - 1]})
<1> DEFINE k2 == k \cup H!Run(p, n)
           a2 == [a EXCEPT ![p] = [desc |-> 0, count |-> n]]
           q == p + n - 1
           new == [page |-> p, from |-> 0, to |-> q]
           l2 == l \cup {new}
<1>1. /\ HeapType(k, a, e, l) /\ Lists(k, a, e) /\ Counts(a, e)
      /\ Small(a, e, l) /\ Whole(k, a, l) /\ Apart(l)
  BY DEF Heaped
<1>2. /\ p \in Nat /\ q \in Nat /\ p <= q /\ n = q - p + 1 /\ H!Run(p, n) = p .. q /\ p \in p .. q
  BY DescFacts DEF H!Run
<1>3. new \in Memory /\ new.page = p /\ new.from = 0 /\ new.to = q
  BY <1>2 DEF Memory
<1>4. /\ p .. q \subseteq KPages /\ \A g \in p .. q : g \notin k /\ a[g].desc = 0
  BY <1>1, <1>2 DEF Lists
<1>5. /\ a2 \in [KPages -> Arena] /\ a2[p].desc = 0 /\ a2[p].count = n
      /\ \A g \in KPages \ {p} : a2[g] = a[g]
  BY <1>1, <1>2 DEF HeapType, Arena
<1>6. \A g \in KPages : a2[g].desc = a[g].desc
  BY <1>2, <1>4, <1>5
<1> HIDE DEF a2, q, new
<1>7. HeapType(k2, a2, e, l2)
  BY <1>1, <1>2, <1>3, <1>4, <1>5 DEF HeapType
<1>8. Lists(k2, a2, e)
  <2>1. \A g \in KPages : a2[g].desc # 0 => g \in k2
    BY <1>1, <1>6 DEF Lists
  <2>2. \A x \in KBlock : x[1] \in KPages
    BY DEF KBlock
  <2> QED
    BY <1>1, <1>6, <2>1, <2>2 DEF Lists
<1>9. Counts(a2, e)
  <2>1. \A c : CutFor(a2, c) = CutFor(a, c)
    BY <1>6 DEF CutFor
  <2>2. \A c \in H!Descs : \A g \in CutFor(a, c) : g \in KPages \ {p}
    <3>1. \A c \in H!Descs : c # 0
      BY DescFacts
    <3> QED
      BY <1>2, <1>4, <3>1 DEF CutFor
  <2> QED
    BY <1>1, <1>5, <2>1, <2>2 DEF Counts
<1>10. Small(a2, e, l2)
  <2>1. \A b \in l : b.page \in KPages
    BY <1>1 DEF HeapType, Memory
  <2> QED
    BY <1>1, <1>3, <1>6, <2>1 DEF Small
<1>11. \A b \in l : b.from = 0 => /\ b.page <= b.to /\ b.page .. b.to \subseteq k /\ b.page .. b.to \subseteq KPages
                                  /\ b.page \in b.page .. b.to
                                  /\ \A g \in b.page .. b.to : g \notin p .. q
  <2>1. \A b \in l : b.page \in Nat /\ b.to \in Nat
    BY <1>1, DescFacts DEF HeapType, Memory
  <2>2. \A b \in l : b.from = 0 => b.page <= b.to /\ b.page .. b.to \subseteq k /\ b.page .. b.to \subseteq KPages
    BY <1>1 DEF Whole, HeapType
  <2> QED
    BY <1>4, <2>1, <2>2
<1>12. Whole(k2, a2, l2)
  <2>1. ASSUME NEW c \in l, c.from = 0
        PROVE /\ c.page <= c.to /\ c.page .. c.to \subseteq k2
              /\ a2[c.page].count = c.to - c.page + 1
              /\ \A g \in c.page .. c.to : a2[g].desc = 0
    <3>1. /\ a[c.page].count = c.to - c.page + 1
          /\ \A g \in c.page .. c.to : a[g].desc = 0
      BY <1>1, <2>1 DEF Whole
    <3>2. c.page # p /\ c.page \in KPages
      BY <1>2, <1>11, <2>1
    <3> QED
      BY <1>5, <1>6, <1>11, <2>1, <3>1, <3>2
  <2>2. /\ new.page <= new.to /\ new.page .. new.to \subseteq k2
        /\ a2[new.page].count = new.to - new.page + 1
        /\ \A g \in new.page .. new.to : a2[g].desc = 0
    BY <1>2, <1>3, <1>4, <1>5, <1>6
  <2> QED
    BY <2>1, <2>2 DEF Whole
<1>13. Apart(l2)
  <2> SUFFICES ASSUME NEW b \in l2, NEW c \in l2, b.from = 0, c.from = 0, b # c
               PROVE \A g \in b.page .. b.to : g \notin c.page .. c.to
    BY DEF Apart
  <2>1. CASE b \in l /\ c \in l
    BY <1>1, <2>1 DEF Apart
  <2>2. CASE b = new /\ c \in l
    BY <1>3, <1>11, <2>2
  <2>3. CASE b \in l /\ c = new
    BY <1>3, <1>11, <2>3
  <2> QED
    BY <2>1, <2>2, <2>3
<1>14. Heaped(k2, a2, e, l2)
  BY <1>7, <1>8, <1>9, <1>10, <1>12, <1>13 DEF Heaped
<1> QED
  BY <1>14 DEF a2, new, q

\* kfree of a large block.
LEMMA LargeFreed ==
  ASSUME NEW k, NEW a, NEW e, NEW l, Heaped(k, a, e, l), NEW b \in l, b.from = 0
  PROVE  Heaped(k \ H!Run(b.page, a[b.page].count), [a EXCEPT ![b.page] = H!NoArena], e, l \ {b})
<1> DEFINE p == b.page
           q == b.to
           k2 == k \ H!Run(p, a[p].count)
           a2 == [a EXCEPT ![p] = H!NoArena]
           l2 == l \ {b}
<1>1. /\ HeapType(k, a, e, l) /\ Lists(k, a, e) /\ Counts(a, e)
      /\ Small(a, e, l) /\ Whole(k, a, l) /\ Apart(l)
  BY DEF Heaped
<1>2. p \in KPages /\ p \in Nat /\ q \in Nat
  BY <1>1, DescFacts DEF HeapType, Memory
<1>3. p <= q /\ a[p].count = q - p + 1 /\ \A g \in p .. q : a[g].desc = 0
  BY <1>1 DEF Whole
<1>4. H!Run(p, a[p].count) = p .. q /\ p \in p .. q
  <2> HIDE DEF p, q
  <2> QED
    BY <1>2, <1>3 DEF H!Run
<1>5. /\ a2 \in [KPages -> Arena] /\ a2[p].desc = 0
      /\ \A g \in KPages \ {p} : a2[g] = a[g]
  <2> HIDE DEF p
  <2> QED
    BY <1>1, <1>2 DEF HeapType, Arena, H!NoArena
<1>6. \A g \in KPages : a2[g].desc = a[g].desc
  BY <1>3, <1>4, <1>5
<1>7. \A c \in l2 : c.from = 0 => \A g \in c.page .. c.to : g \notin p .. q
  BY <1>1 DEF Apart
<1>8. k2 = k \ (p .. q)
  BY <1>4
<1> HIDE DEF a2, p, q, k2
<1>9. HeapType(k2, a2, e, l2)
  BY <1>1, <1>5, <1>8 DEF HeapType
<1>10. Lists(k2, a2, e)
  <2>1. \A g \in KPages : a2[g].desc # 0 => g \in k2
    BY <1>1, <1>3, <1>6, <1>8 DEF Lists
  <2>2. \A x \in KBlock : x[1] \in KPages
    BY DEF KBlock
  <2> QED
    BY <1>1, <1>6, <2>1, <2>2 DEF Lists
<1>11. Counts(a2, e)
  <2>1. \A c : CutFor(a2, c) = CutFor(a, c)
    BY <1>6 DEF CutFor
  <2>2. \A c \in H!Descs : \A g \in CutFor(a, c) : g \in KPages \ {p}
    <3>1. \A c \in H!Descs : c # 0
      BY DescFacts
    <3> QED
      BY <1>3, <1>4, <3>1 DEF CutFor
  <2> QED
    BY <1>1, <1>5, <2>1, <2>2 DEF Counts
<1>12. Small(a2, e, l2)
  <2>1. \A c \in l : c.page \in KPages
    BY <1>1 DEF HeapType, Memory
  <2> QED
    BY <1>1, <1>6, <2>1 DEF Small
<1>13. Whole(k2, a2, l2)
  <2>1. ASSUME NEW c \in l2, c.from = 0
        PROVE /\ c.page <= c.to /\ c.page .. c.to \subseteq k2
              /\ a2[c.page].count = c.to - c.page + 1
              /\ \A g \in c.page .. c.to : a2[g].desc = 0
    <3>1. /\ c.page <= c.to /\ c.page .. c.to \subseteq k
          /\ a[c.page].count = c.to - c.page + 1
          /\ \A g \in c.page .. c.to : a[g].desc = 0
      BY <1>1, <2>1 DEF Whole
    <3>2. c.page \in Nat /\ c.to \in Nat
      BY <1>1, DescFacts DEF HeapType, Memory
    <3>3. c.page \in c.page .. c.to
      BY <3>1, <3>2
    <3>4. c.page .. c.to \subseteq k2 /\ c.page .. c.to \subseteq KPages /\ c.page # p
      BY <1>1, <1>4, <1>7, <1>8, <2>1, <3>1, <3>3 DEF HeapType
    <3> QED
      BY <1>5, <1>6, <3>1, <3>3, <3>4
  <2> QED
    BY <2>1 DEF Whole
<1>14. Heaped(k2, a2, e, l2)
  BY <1>1, <1>9, <1>10, <1>11, <1>12, <1>13 DEF Heaped, Apart
<1> QED
  BY <1>14 DEF a2, k2, p

HeapGood == Heaped(kmap, arenas, desc, live)

\* It holds after arena_init.
LEMMA HeapStart == H!HeapInit => HeapGood
<1> SUFFICES ASSUME H!HeapInit PROVE HeapGood
  OBVIOUS
<1>1. /\ kmap = {} /\ live = {} /\ arenas = [p \in KPages |-> H!NoArena]
      /\ desc = [d \in H!Descs |-> [page_count |-> 0, free_list |-> << >>]]
  BY DEF H!HeapInit
<1>2. \A p \in KPages : arenas[p].desc = 0
  BY <1>1 DEF H!NoArena
<1>3. \A d \in H!Descs : desc[d].page_count = 0 /\ desc[d].free_list = << >>
  BY <1>1
<1>4. HeapType(kmap, arenas, desc, live)
  <2>1. H!NoArena \in Arena
    BY DEF H!NoArena, Arena
  <2>2. << >> \in Seq(KBlock)
    OBVIOUS
  <2>3. [page_count |-> 0, free_list |-> << >>] \in [page_count : Nat, free_list : Seq(KBlock)]
    BY <2>2
  <2> QED
    BY <1>1, <2>1, <2>3 DEF HeapType
<1>5. Lists(kmap, arenas, desc)
  <2>1. \A d \in H!Descs : Len(desc[d].free_list) = 0
    BY <1>3
  <2>2. \A i \in 1 .. 0 : FALSE
    OBVIOUS
  <2> QED
    BY <1>2, <2>1, <2>2 DEF Lists, On, Once
<1>6. Counts(arenas, desc)
  <2>1. \A d \in H!Descs : CutFor(arenas, d) = {}
    BY <1>2, DescFacts DEF CutFor
  <2>2. Cardinality({}) = 0
    BY FS_EmptySet
  <2> QED
    BY <1>3, <2>1, <2>2 DEF Counts
<1> QED
  BY <1>1, <1>4, <1>5, <1>6 DEF HeapGood, Heaped, Small, Whole, Apart

\* bitmap_scan finds a run of free pages, if it finds one.
LEMMA ScanFacts ==
  ASSUME NEW n \in Nat \ {0}, H!ScanPage(n) # 0
  PROVE  H!ScanPage(n) \in KPages /\ H!Run(H!ScanPage(n), n) \subseteq KPages \ kmap
<1> DEFINE fit == {p \in KPages : H!Run(p, n) \subseteq KPages \ kmap}
<1>1. H!ScanPage(n) = IF fit = {} THEN 0 ELSE P!Min(fit)
  BY DEF H!ScanPage, H!Min, P!Min
<1>2. fit \in SUBSET Nat
  BY DescFacts
<1>3. H!ScanPage(n) \in fit
  <2> HIDE DEF fit
  <2> QED
    BY <1>1, <1>2, MinFacts
<1> QED
  BY <1>3

\* kmalloc of a small block: cut if need be, then pop.
LEMMA KmallocKeeps ==
  ASSUME HeapGood, NEW d \in H!Descs, H!Kmalloc(d) PROVE HeapGood'
<1> DEFINE p == H!ScanPage(1)
           new == desc[d].free_list = << >>
           list == IF new THEN H!Cut(d, p) ELSE desc[d].free_list
           k1 == IF new THEN kmap \cup {p} ELSE kmap
           a1 == IF new THEN [arenas EXCEPT ![p] = [desc |-> d, count |-> TotalBlock[d]]] ELSE arenas
           e1 == IF new THEN [desc EXCEPT ![d] = [page_count |-> @.page_count + 1, free_list |-> list]] ELSE desc
<1>1. HeapType(kmap, arenas, desc, live) /\ Heaped(kmap, arenas, desc, live)
  BY DEF HeapGood, Heaped
<1>2. CASE new
  <2>1. p # 0
    BY <1>2 DEF H!Kmalloc
  <2>2. p \in KPages /\ p \notin kmap
    <3>1. 1 \in Nat \ {0}
      OBVIOUS
    <3>2. p \in KPages /\ H!Run(p, 1) \subseteq KPages \ kmap
      BY <2>1, <3>1, ScanFacts
    <3>3. p \in H!Run(p, 1)
      <4> HIDE DEF p
      <4>1. p \in Nat
        BY <3>2, DescFacts
      <4> QED
        BY <4>1 DEF H!Run
    <3> QED
      BY <3>2, <3>3
  <2> HIDE DEF p
  <2>3. Heaped(kmap \cup {p}, [arenas EXCEPT ![p] = [desc |-> d, count |-> TotalBlock[d]]],
               [desc EXCEPT ![d] = [page_count |-> @.page_count + 1, free_list |-> H!Cut(d, p)]], live)
    BY <1>1, <1>2, <2>2, CutKeeps
  <2>4. Heaped(k1, a1, e1, live)
    BY <1>2, <2>3
  <2>5. e1[d].free_list = list /\ e1[d].page_count = desc[d].page_count + 1
    BY <1>1, <1>2 DEF HeapType
  <2>6. list # << >>
    <3>1. H!Cut(d, p) = [i \in 1 .. TotalBlock[d] |-> <<p, TotalBlock[d] + 1 - i>>]
      BY DEF H!Cut
    <3>2. TotalBlock[d] \in Nat \ {0}
      BY DescFacts
    <3>3. 1 \in DOMAIN H!Cut(d, p) /\ 1 \notin DOMAIN << >>
      BY <3>1, <3>2
    <3> QED
      BY <1>2, <3>3
  <2>7. e1 \in [H!Descs -> [page_count : Nat, free_list : Seq(KBlock)]]
    <3> HIDE DEF e1
    <3> QED
      BY <2>4 DEF Heaped, HeapType
  <2>8. [e1 EXCEPT ![d] = [page_count |-> e1[d].page_count, free_list |-> Tail(e1[d].free_list)]]
          = [desc EXCEPT ![d] = [page_count |-> desc[d].page_count + 1, free_list |-> Tail(list)]]
    <3>1. e1 = [desc EXCEPT ![d] = [page_count |-> desc[d].page_count + 1, free_list |-> list]]
      BY <1>2
    <3> DEFINE w == [page_count |-> desc[d].page_count + 1, free_list |-> Tail(list)]
               v == [page_count |-> desc[d].page_count + 1, free_list |-> list]
    <3>2. [page_count |-> e1[d].page_count, free_list |-> Tail(e1[d].free_list)] = w
      BY <2>5
    <3> HIDE DEF w, v, list
    <3>3. [[desc EXCEPT ![d] = v] EXCEPT ![d] = w] = [desc EXCEPT ![d] = w]
      BY <1>1 DEF HeapType
    <3>4. e1 = [desc EXCEPT ![d] = v]
      BY <3>1 DEF v
    <3> HIDE DEF e1
    <3> QED
      BY <3>2, <3>3, <3>4 DEF w
  <2>9. desc' = [desc EXCEPT ![d] = [page_count |-> desc[d].page_count + 1, free_list |-> Tail(list)]]
    BY <1>2 DEF H!Kmalloc, p
  <2>10. /\ kmap' = k1 /\ arenas' = [a1 EXCEPT ![Head(list)[1]].count = @ - 1]
         /\ live' = live \cup {[page |-> Head(list)[1], from |-> Head(list)[2], to |-> Head(list)[2]]}
    BY <1>2 DEF H!Kmalloc, p
  <2> HIDE DEF k1, a1, e1, list
  <2>11. Heaped(k1, [a1 EXCEPT ![Head(list)[1]].count = @ - 1],
                [e1 EXCEPT ![d] = [page_count |-> @.page_count, free_list |-> Tail(@.free_list)]],
                live \cup {[page |-> Head(list)[1], from |-> Head(list)[2], to |-> Head(list)[2]]})
    BY <2>4, <2>5, <2>6, PopKeeps
  <2> QED
    BY <2>8, <2>9, <2>10, <2>11 DEF HeapGood
<1>3. CASE ~ new
  <2>1. kmap' = kmap /\ arenas' = [arenas EXCEPT ![Head(desc[d].free_list)[1]].count = @ - 1]
    BY <1>3 DEF H!Kmalloc
  <2>2. live' = live \cup {[page |-> Head(desc[d].free_list)[1], from |-> Head(desc[d].free_list)[2],
                            to |-> Head(desc[d].free_list)[2]]}
    BY <1>3 DEF H!Kmalloc
  <2>3. desc' = [desc EXCEPT ![d] = [page_count |-> @.page_count, free_list |-> Tail(@.free_list)]]
    <3>1. desc' = [desc EXCEPT ![d] = [page_count |-> desc[d].page_count + 0, free_list |-> Tail(desc[d].free_list)]]
      BY <1>3 DEF H!Kmalloc
    <3>2. desc[d].page_count + 0 = desc[d].page_count
      BY SMTT(60), <1>1 DEF HeapType
    <3> QED
      BY <3>1, <3>2
  <2>4. Heaped(kmap, [arenas EXCEPT ![Head(desc[d].free_list)[1]].count = @ - 1],
               [desc EXCEPT ![d] = [page_count |-> @.page_count, free_list |-> Tail(@.free_list)]],
               live \cup {[page |-> Head(desc[d].free_list)[1], from |-> Head(desc[d].free_list)[2],
                            to |-> Head(desc[d].free_list)[2]]})
    BY <1>1, <1>3, PopKeeps
  <2> QED
    BY <2>1, <2>2, <2>3, <2>4 DEF HeapGood
<1> QED
  BY <1>2, <1>3

\* kfree of a small block: push, then give the page back if it is all free.
LEMMA KfreeKeeps ==
  ASSUME HeapGood, NEW b \in live, b.from # 0, H!Kfree(b) PROVE HeapGood'
<1> DEFINE p == b.page
           d == arenas[p].desc
           list == <<<<p, b.from>>>> \o desc[d].free_list
           a1 == [arenas EXCEPT ![p].count = @ + 1]
           e1 == [desc EXCEPT ![d].free_list = list]
           l1 == live \ {b}
           back == arenas[p].count + 1 = TotalBlock[d] /\ desc[d].page_count > BufCount
<1>1. HeapType(kmap, arenas, desc, live) /\ Heaped(kmap, arenas, desc, live)
  BY DEF HeapGood, Heaped
<1>2. /\ d \in H!Descs /\ p \in KPages
      /\ Heaped(kmap, [arenas EXCEPT ![b.page].count = @ + 1],
                [desc EXCEPT ![d].free_list = <<<<b.page, b.from>>>> \o @], l1)
  BY <1>1, PushKeeps
<1>3. Heaped(kmap, a1, e1, l1)
  BY <1>2
<1>4. CASE ~ back
  <2>1. kmap' = kmap /\ arenas' = a1 /\ desc' = e1 /\ live' = l1
    BY <1>4 DEF H!Kfree
  <2> QED
    BY SMTT(60), <1>3, <2>1 DEF HeapGood
<1>5. CASE back
  <2>1. /\ kmap' = kmap \ {p} /\ live' = l1 /\ arenas' = [arenas EXCEPT ![p] = H!NoArena]
        /\ desc' = [desc EXCEPT ![d] = [page_count |-> desc[d].page_count - 1,
                                        free_list |-> H!Without(list, p)]]
    BY <1>5 DEF H!Kfree
  <2>2. a1[p].desc = d /\ a1[p].count = TotalBlock[d]
    <3>1. arenas[p] \in Arena /\ p \in KPages /\ arenas \in [KPages -> Arena]
      BY <1>1, <1>2 DEF HeapType
    <3>2. a1[p] = [arenas[p] EXCEPT !.count = @ + 1]
      BY SMTT(60), <3>1
    <3> QED
      BY <1>5, <3>1, <3>2 DEF Arena
  <2>3. e1[d].free_list = list /\ e1[d].page_count = desc[d].page_count
    BY <1>1, <1>2 DEF HeapType
  <2> DEFINE w == [page_count |-> desc[d].page_count - 1, free_list |-> H!Without(list, p)]
             v == [desc[d] EXCEPT !.free_list = list]
  <2>4. [e1 EXCEPT ![d] = w] = [desc EXCEPT ![d] = w]
    <3>1. e1 = [desc EXCEPT ![d] = v]
      OBVIOUS
    <3> HIDE DEF e1, v, w, d
    <3> QED
      BY <1>1, <1>2, <3>1 DEF HeapType
  <2>5. [a1 EXCEPT ![p] = H!NoArena] = [arenas EXCEPT ![p] = H!NoArena]
    <3> DEFINE u == [arenas[p] EXCEPT !.count = @ + 1]
    <3>1. a1 = [arenas EXCEPT ![p] = u]
      OBVIOUS
    <3> HIDE DEF a1, u, p
    <3> QED
      BY <1>1, <1>2, <3>1 DEF HeapType
  <2> HIDE DEF a1, e1, l1, list, d
  <2>6. Heaped(kmap \ {p}, [a1 EXCEPT ![p] = H!NoArena],
               [e1 EXCEPT ![d] = [page_count |-> e1[d].page_count - 1,
                                  free_list |-> H!Without(e1[d].free_list, p)]], l1)
    BY <1>2, <1>3, <2>2, BackKeeps
  <2> QED
    BY <2>1, <2>3, <2>4, <2>5, <2>6 DEF HeapGood
<1> QED
  BY <1>4, <1>5

\* Every call keeps it.
LEMMA HeapKeeps == HeapGood /\ [H!HeapNext]_hvars => HeapGood'
<1> SUFFICES ASSUME HeapGood, [H!HeapNext]_hvars PROVE HeapGood'
  OBVIOUS
<1>1. ASSUME NEW n \in Large, H!KmallocLarge(n) PROVE HeapGood'
  <2> DEFINE p == H!ScanPage(n)
  <2>1. n \in Nat \ {0} /\ p # 0
    BY <1>1, DescFacts DEF H!KmallocLarge
  <2>2. p \in KPages /\ H!Run(p, n) \subseteq KPages \ kmap
    BY <2>1, ScanFacts
  <2>3. /\ kmap' = kmap \cup H!Run(p, n) /\ desc' = desc
        /\ arenas' = [arenas EXCEPT ![p] = [desc |-> 0, count |-> n]]
        /\ live' = live \cup {[page |-> p, from |-> 0, to |-> p + n - 1]}
    BY <1>1 DEF H!KmallocLarge
  <2> HIDE DEF p
  <2>4. Heaped(kmap \cup H!Run(p, n), [arenas EXCEPT ![p] = [desc |-> 0, count |-> n]], desc,
               live \cup {[page |-> p, from |-> 0, to |-> p + n - 1]})
    BY <2>1, <2>2, LargeKeeps DEF HeapGood
  <2> QED
    BY <2>3, <2>4 DEF HeapGood
<1>2. ASSUME NEW d \in H!Descs, H!Kmalloc(d) PROVE HeapGood'
  BY <1>2, KmallocKeeps
<1>3. ASSUME NEW b \in live, b.from = 0, H!KfreeLarge(b) PROVE HeapGood'
  <2>1. Heaped(kmap \ H!Run(b.page, arenas[b.page].count), [arenas EXCEPT ![b.page] = H!NoArena],
               desc, live \ {b})
    BY <1>3, LargeFreed DEF HeapGood
  <2> QED
    BY <1>3, <2>1 DEF HeapGood, H!KfreeLarge
<1>4. ASSUME NEW b \in live, b.from # 0, H!Kfree(b) PROVE HeapGood'
  BY <1>4, KfreeKeeps
<1>5. CASE UNCHANGED hvars
  BY <1>5 DEF hvars, HeapGood
<1> QED
  BY <1>1, <1>2, <1>3, <1>4, <1>5 DEF H!HeapNext

\* What the invariant says of blocks and counts.
LEMMA HeapImplies == HeapGood => HeapSound
<1> SUFFICES ASSUME HeapGood PROVE HeapSound
  OBVIOUS
<1>1. /\ HeapType(kmap, arenas, desc, live) /\ Lists(kmap, arenas, desc) /\ Counts(arenas, desc)
      /\ Small(arenas, desc, live) /\ Whole(kmap, arenas, live) /\ Apart(live)
  BY DEF HeapGood, Heaped
<1>2. \A b \in live : b.page \in KPages /\ b.page \in Nat /\ b.to \in Nat /\ b.from \in Nat
  BY <1>1, DescFacts DEF HeapType, Memory
<1>3. \A d \in H!Descs : d # 0
  BY DescFacts
<1>4. \A b \in live : H!PagesOf(b) \subseteq kmap
  <2> SUFFICES ASSUME NEW b \in live PROVE H!PagesOf(b) \subseteq kmap
    OBVIOUS
  <2>1. CASE b.from = 0
    BY <1>1, <2>1 DEF Whole, H!PagesOf
  <2>2. CASE b.from # 0
    BY <1>1, <1>2, <1>3, <2>2 DEF Small, Lists, H!PagesOf
  <2> QED
    BY <2>1, <2>2
<1>5. ASSUME NEW b \in live, NEW c \in live, b # c, H!PagesOf(b) \cap H!PagesOf(c) # {}
      PROVE  b.from # 0 /\ c.from # 0 /\ b.from # c.from
  <2>1. PICK g : g \in H!PagesOf(b) /\ g \in H!PagesOf(c)
    BY <1>5
  <2>2. ~ (b.from = 0 /\ c.from = 0)
    BY <1>1, <1>5, <2>1 DEF Apart, H!PagesOf
  <2>3. ~ (b.from = 0 /\ c.from # 0)
    BY <1>1, <1>3, <2>1 DEF Whole, Small, H!PagesOf
  <2>4. ~ (b.from # 0 /\ c.from = 0)
    BY <1>1, <1>3, <2>1 DEF Whole, Small, H!PagesOf
  <2>5. ASSUME b.from # 0, c.from # 0, b.from = c.from PROVE FALSE
    <3>1. b.page = c.page
      BY <2>1, <2>5 DEF H!PagesOf
    <3>2. b.to = c.to
      BY <1>1, <2>5 DEF Small
    <3>3. /\ b = [page |-> b.page, from |-> b.from, to |-> b.to]
          /\ c = [page |-> c.page, from |-> c.from, to |-> c.to]
      BY <1>1 DEF HeapType, Memory
    <3> QED
      BY <1>5, <2>5, <3>1, <3>2, <3>3
  <2> QED
    BY <2>2, <2>3, <2>4, <2>5
<1>6. ASSUME NEW d \in H!Descs, NEW b \in live
      PROVE  ~ H!Contains(desc[d].free_list, <<b.page, b.from>>)
  <2> DEFINE list == desc[d].free_list
             x == <<b.page, b.from>>
  <2>1. list \in Seq(KBlock)
    BY <1>1 DEF HeapType
  <2>2. H!Contains(list, x) => On(list, x)
    BY <2>1 DEF H!Contains, On
  <2>3. ASSUME On(list, x) PROVE FALSE
    <3>1. x \in KBlock
      BY <1>2 DEF KBlock
    <3>2. arenas[b.page].desc = d /\ b.from \in 1 .. TotalBlock[d]
      BY <1>1, <2>3, <3>1 DEF Lists
    <3>3. b.from # 0
      BY <3>2, DescFacts
    <3> QED
      BY <1>1, <2>3, <3>2, <3>3 DEF Small
  <2> QED
    BY <2>2, <2>3
<1>7. H!BlocksDisjoint
  BY <1>4, <1>5, <1>6 DEF H!BlocksDisjoint
<1>8. ASSUME NEW d \in H!Descs
      PROVE /\ desc[d].page_count = Cardinality({p \in KPages : arenas[p].desc = d})
            /\ \A i \in DOMAIN desc[d].free_list :
                 desc[d].free_list[i][1] \in {p \in KPages : arenas[p].desc = d}
            /\ \A p \in {p \in KPages : arenas[p].desc = d} :
                 arenas[p].count = Cardinality({i \in DOMAIN desc[d].free_list : desc[d].free_list[i][1] = p})
  <2> DEFINE list == desc[d].free_list
             cut == {p \in KPages : arenas[p].desc = d}
  <2>1. list \in Seq(KBlock) /\ Once(list) /\ DOMAIN list = 1 .. Len(list)
    BY <1>1 DEF HeapType, Lists
  <2>2. cut = CutFor(arenas, d)
    BY DEF CutFor
  <2>3. desc[d].page_count = Cardinality(cut)
    BY <1>1, <2>2 DEF Counts
  <2>4. \A i \in 1 .. Len(list) : /\ list[i] \in KBlock /\ list[i] = <<list[i][1], list[i][2]>>
                                  /\ arenas[list[i][1]].desc = d /\ list[i][2] \in 1 .. TotalBlock[d]
    <3> TAKE i \in 1 .. Len(list)
    <3>1. list[i] \in KBlock /\ On(list, list[i])
      BY <2>1 DEF On
    <3>2. list[i] = <<list[i][1], list[i][2]>>
      BY <3>1 DEF KBlock
    <3> QED
      BY <1>1, <3>1, <3>2 DEF Lists
  <2>5. \A i \in 1 .. Len(list) : list[i][1] \in cut
    BY <2>4 DEF KBlock
  <2>6. ASSUME NEW p \in cut
        PROVE  arenas[p].count = Cardinality({i \in 1 .. Len(list) : list[i][1] = p})
    <3> DEFINE S == {i \in 1 .. Len(list) : list[i][1] = p}
               T == FreeOf(desc, d, p)
               f == [i \in S |-> list[i][2]]
    <3>1. T = {n \in 1 .. TotalBlock[d] : On(list, <<p, n>>)}
      BY DEF FreeOf
    <3> HIDE DEF list, T, cut
    <3>2. f \in [S -> T]
      <4>1. ASSUME NEW i \in S PROVE list[i][2] \in T
        <5>1. list[i] = <<p, list[i][2]>> /\ list[i][2] \in 1 .. TotalBlock[d] /\ i \in 1 .. Len(list)
          BY <2>4
        <5>2. On(list, <<p, list[i][2]>>)
          BY <5>1 DEF On
        <5> QED
          BY <3>1, <5>1, <5>2
      <4> QED
        BY <4>1
    <3>3. \A i, j \in S : f[i] = f[j] => i = j
      <4> SUFFICES ASSUME NEW i \in S, NEW j \in S, f[i] = f[j] PROVE i = j
        OBVIOUS
      <4>1. list[i] = <<p, list[i][2]>> /\ list[j] = <<p, list[j][2]>> /\ list[i][2] = list[j][2]
        BY <2>4
      <4> QED
        BY <2>1, <4>1 DEF Once
    <3>4. \A n \in T : \E i \in S : f[i] = n
      <4> SUFFICES ASSUME NEW n \in T PROVE \E i \in S : f[i] = n
        OBVIOUS
      <4>1. PICK i \in 1 .. Len(list) : list[i] = <<p, n>>
        BY <3>1 DEF On
      <4>2. i \in S /\ list[i][2] = n
        BY <4>1
      <4> QED
        BY <4>2
    <3>5. IsFiniteSet(S)
      <4>1. Len(list) \in Nat
        BY <2>1
      <4>2. IsFiniteSet(1 .. Len(list))
        BY <4>1, FS_Interval
      <4> QED
        BY <4>2, FS_Subset
    <3>6. f \in Bijection(S, T)
      <4> HIDE DEF f, S
      <4> QED
        BY <3>2, <3>3, <3>4 DEF Bijection, Injection, Surjection, IsInjective
    <3>7. Cardinality(S) = Cardinality(T)
      <4> HIDE DEF f, S
      <4> QED
        BY <3>5, <3>6, FS_Bijection DEF ExistsBijection
    <3>8. arenas[p].count = Cardinality(T)
      BY <1>1, <2>2 DEF Counts, T
    <3> QED
      BY <3>7, <3>8
  <2> QED
    BY <2>1, <2>3, <2>5, <2>6
<1>9. H!ArenasCounted
  BY <1>8 DEF H!ArenasCounted, H!Cardinality, Cardinality
<1> QED
  BY <1>7, <1>9 DEF HeapSound, H!HeapSound

\* kmalloc and kfree: for any number of pages and any sizes, blocks handed out
\* are disjoint, none is free, and a page goes back only when all of it is.
THEOREM HeapStaysSound == System => []HeapSound
<1>1. Boot => HeapGood
  BY HeapStart DEF Boot
<1>2. HeapGood /\ [Run]_<<part, vars, pvars, mvars, hvars>> => HeapGood'
  <2>1. [Run]_<<part, vars, pvars, mvars, hvars>> => [H!HeapNext]_hvars
    BY DEF Run
  <2> QED
    BY <2>1, HeapKeeps
<1>3. HeapGood => HeapSound
  BY HeapImplies
<1> QED
  BY <1>1, <1>2, <1>3, PTL DEF System
-----------------------------------------------------------------------------
(***************************************************************************)
(* User memory.                                                            *)
(***************************************************************************)
\* A page is an entry of a directory and one of a table, and no other page is.
LEMMA PageFacts ==
  /\ M!LastPage \in Nat
  /\ M!Pages \subseteq Nat /\ StackAddr \in M!Pages /\ M!LastPage \in M!Pages
  /\ \A p \in M!Pages : M!DirOf(p) \in Dirs /\ M!SlotOf(p) \in M!Slots
  /\ \A p, q \in M!Pages : M!DirOf(p) = M!DirOf(q) /\ M!SlotOf(p) = M!SlotOf(q) => p = q
<1> DEFINE n == Cardinality(Dirs)
<1>1. n \in Nat /\ PerTable \in Nat \ {0}
  BY MemoryAssumption, FS_CardinalityType
<1>2. M!LastPage = n * PerTable - 1
  BY DEF M!LastPage, M!Cardinality, Cardinality
<1>3. n * PerTable \in Nat
  BY <1>1
<1>4. StackAddr \in 0 .. n * PerTable - 1
  BY MemoryAssumption
<1> HIDE DEF n
<1>5. M!LastPage \in Nat /\ M!Pages \subseteq Nat /\ StackAddr \in M!Pages /\ M!LastPage \in M!Pages
  BY <1>2, <1>3, <1>4 DEF M!Pages
<1>6. ASSUME NEW p \in M!Pages
      PROVE  /\ p = PerTable * (p \div PerTable) + (p % PerTable)
             /\ p \div PerTable \in Nat /\ p % PerTable \in 0 .. PerTable - 1
  BY <1>1, <1>5, <1>6
<1>7. ASSUME NEW p \in M!Pages PROVE p \div PerTable \in 0 .. n - 1
  <2> DEFINE d == p \div PerTable
  <2>1. p < n * PerTable /\ d \in Nat
    BY <1>2, <1>3, <1>5, <1>6 DEF M!Pages
  <2>2. PerTable * d <= p /\ PerTable * d \in Nat
    BY <1>1, <1>5, <1>6
  <2> HIDE DEF d
  <2>3. ASSUME d >= n PROVE FALSE
    <3>1. PerTable * d = PerTable * n + PerTable * (d - n)
      BY <1>1, <2>1
    <3>2. PerTable * (d - n) >= 0
      BY <1>1, <2>1, <2>3
    <3>3. PerTable * n = n * PerTable
      BY <1>1
    <3> QED BY <1>1, <1>3, <1>5, <2>1, <2>2, <3>1, <3>2, <3>3
  <2>4. d \in 0 .. n - 1
    BY <1>1, <2>1, <2>3
  <2> QED BY <2>4 DEF d
<1>8. Dirs = 0 .. n - 1
  BY MemoryAssumption DEF n
<1>9. \A p \in M!Pages : M!DirOf(p) \in Dirs /\ M!SlotOf(p) \in M!Slots
  BY <1>6, <1>7, <1>8 DEF M!DirOf, M!SlotOf, M!Slots
<1>10. ASSUME NEW p \in M!Pages, NEW q \in M!Pages, M!DirOf(p) = M!DirOf(q), M!SlotOf(p) = M!SlotOf(q)
       PROVE  p = q
  <2>1. p = PerTable * M!DirOf(p) + M!SlotOf(p)
    BY <1>6 DEF M!DirOf, M!SlotOf
  <2>2. q = PerTable * M!DirOf(q) + M!SlotOf(q)
    BY <1>6 DEF M!DirOf, M!SlotOf
  <2> QED BY <2>1, <2>2, <1>10
<1> QED BY <1>5, <1>9, <1>10

Entry == {e \in [frame : M!Frames \cup {M!NoFrame}, write : BOOLEAN, shared : BOOLEAN, readonly : BOOLEAN] :
            e.frame = M!NoFrame => ~ e.shared}
\* What the kernel stops with, if it does.
Stops == {"", "put_page", "page_fault", "page fault!!!"}
IsMemory(s) ==
  s \in [count : [M!Frames -> Nat], data : [M!Frames -> Procs \cup {0}],
         table : [M!Frames -> [M!Slots -> Entry]],
         dir : [Procs -> [Dirs -> [table : M!Frames \cup {M!NoFrame}, write : BOOLEAN]]], halt : Stops]
\* A frame is used for what it is set apart for.
InPlace(s) ==
  /\ \A t \in Procs, d \in Dirs : s.dir[t][d].table # M!NoFrame =>
       s.dir[t][d].table.for = "table" /\ s.dir[t][d].table.nr = d
  /\ \A t \in Procs, p \in M!Pages : M!Present(s, t, p) =>
       M!EntryOf(s, t, p).frame.for = "page" /\ M!EntryOf(s, t, p).frame.nr = p
Holds(s, t, f) ==
  IF f.for = "page" THEN M!EntryOf(s, t, f.nr).frame = f ELSE s.dir[t][f.nr].table = f
Holders(s, f) == {t \in Procs : Holds(s, t, f)}
Counted(s) == \A f \in M!Frames : s.count[f] = Cardinality(Holders(s, f))
Clean(s) == \A f \in M!Frames : s.count[f] = 0 => s.table[f] = M!NoTable /\ s.data[f] = 0
Alone(s) == \A t \in Procs, d \in Dirs : s.dir[t][d].write =>
  s.dir[t][d].table # M!NoFrame /\ s.count[s.dir[t][d].table] = 1
Sound(s) == IsMemory(s) /\ InPlace(s) /\ Counted(s) /\ Clean(s) /\ Alone(s)

LEMMA FrameFacts ==
  /\ M!NoFrame \notin M!Frames
  /\ \A f \in M!Frames : /\ f.for \in {"page", "table"} /\ f.copy \in Procs
                         /\ f.for = "page" => f.nr \in M!Pages
                         /\ f.for = "table" => f.nr \in Dirs
  /\ \A f, g \in M!Frames : f.for = g.for /\ f.nr = g.nr /\ f.copy = g.copy => f = g
  /\ \A p \in M!Pages, t \in Procs : [for |-> "page", nr |-> p, copy |-> t] \in M!Frames
  /\ \A d \in Dirs, t \in Procs : [for |-> "table", nr |-> d, copy |-> t] \in M!Frames
<1>1. M!NoFrame \notin M!Frames
  BY DEF M!Frames, M!NoFrame
<1> QED BY <1>1 DEF M!Frames

LEMMA NoEntryFacts == M!NoEntry \in Entry /\ M!NoTable \in [M!Slots -> Entry] /\ M!NoEntry.frame = M!NoFrame
                      /\ \A x \in M!Slots : M!NoTable[x] = M!NoEntry
BY DEF M!NoEntry, Entry, M!NoTable

\* An entry is one, and one of a task that has no table is absent.
LEMMA EntryFacts ==
  ASSUME NEW s, IsMemory(s), NEW t \in Procs, NEW p \in M!Pages
  PROVE  /\ M!TableOf(s, t, p) \in M!Frames \cup {M!NoFrame}
         /\ M!EntryOf(s, t, p) \in Entry
         /\ M!Present(s, t, p) => M!TableOf(s, t, p) # M!NoFrame /\ M!EntryOf(s, t, p).frame \in M!Frames
<1>1. M!DirOf(p) \in Dirs /\ M!SlotOf(p) \in M!Slots
  BY PageFacts
<1>2. M!TableOf(s, t, p) \in M!Frames \cup {M!NoFrame}
  BY <1>1 DEF IsMemory, M!TableOf
<1>3. M!EntryOf(s, t, p) \in Entry
  BY <1>1, <1>2, NoEntryFacts DEF IsMemory, M!EntryOf
<1>4. M!EntryOf(s, t, p).frame \in M!Frames \cup {M!NoFrame}
  BY <1>3 DEF Entry
<1> QED BY <1>2, <1>3, <1>4, NoEntryFacts DEF M!Present, M!EntryOf

LEMMA HolderFacts ==
  ASSUME NEW s, Counted(s), NEW f \in M!Frames
  PROVE  /\ IsFiniteSet(Holders(s, f)) /\ Cardinality(Holders(s, f)) \in Nat
         /\ s.count[f] = Cardinality(Holders(s, f))
<1>1. IsFiniteSet(Procs) /\ Holders(s, f) \subseteq Procs
  BY MemoryAssumption DEF Holders
<1> QED BY <1>1, FS_Subset, FS_CardinalityType DEF Counted

\* Who holds a frame counts; of a frame that counts one there is no other.
LEMMA CountFacts ==
  ASSUME NEW s, Counted(s), NEW f \in M!Frames, NEW t \in Procs, Holds(s, t, f)
  PROVE  /\ s.count[f] \in Nat \ {0}
         /\ s.count[f] = 1 => \A u \in Procs : Holds(s, u, f) => u = t
         /\ s.count[f] # 1 => s.count[f] - 1 \in Nat \ {0} /\ \E u \in Procs : u # t /\ Holds(s, u, f)
<1> DEFINE hs == Holders(s, f)
<1>1. IsFiniteSet(hs) /\ s.count[f] = Cardinality(hs) /\ Cardinality(hs) \in Nat
  BY HolderFacts
<1>2. t \in hs
  BY DEF Holders
<1>3. Cardinality(hs \ {t}) = Cardinality(hs) - 1 /\ IsFiniteSet(hs \ {t}) /\ Cardinality(hs \ {t}) \in Nat
  BY <1>1, <1>2, FS_RemoveElement, FS_CardinalityType
<1>4. Cardinality(hs \ {t}) = 0 <=> hs \ {t} = {}
  BY <1>3, FS_EmptySet
<1> HIDE DEF hs
<1>5. s.count[f] \in Nat \ {0} /\ (s.count[f] = 1 <=> hs \ {t} = {}) /\ s.count[f] - 1 \in Nat
  BY <1>1, <1>3, <1>4
<1>6. \A u \in Procs : Holds(s, u, f) <=> u \in hs
  BY DEF hs, Holders
<1>7. hs \subseteq Procs
  BY DEF hs, Holders
<1> QED BY <1>5, <1>6, <1>7

LEMMA FreeHeldByNone ==
  ASSUME NEW s, Counted(s), NEW f \in M!Frames, s.count[f] = 0, NEW t \in Procs
  PROVE  ~ Holds(s, t, f)
BY CountFacts

\* Counts stay true when the frames of one task change and its counts with them.
LEMMA OneTask ==
  ASSUME NEW s, NEW e, Counted(s), NEW t \in Procs,
         \A u \in Procs \ {t}, f \in M!Frames : Holds(e, u, f) <=> Holds(s, u, f),
         \A f \in M!Frames : /\ (Holds(e, t, f) <=> Holds(s, t, f)) => e.count[f] = s.count[f]
                             /\ Holds(e, t, f) /\ ~ Holds(s, t, f) => e.count[f] = s.count[f] + 1
                             /\ ~ Holds(e, t, f) /\ Holds(s, t, f) => e.count[f] = s.count[f] - 1
  PROVE  Counted(e)
<1> SUFFICES ASSUME NEW f \in M!Frames PROVE e.count[f] = Cardinality(Holders(e, f))
  BY DEF Counted
<1>1. IsFiniteSet(Holders(s, f)) /\ s.count[f] = Cardinality(Holders(s, f))
  BY HolderFacts
<1>2. t \in Holders(s, f) <=> Holds(s, t, f)
  BY DEF Holders
<1>3. CASE Holds(e, t, f) <=> Holds(s, t, f)
  <2>1. Holders(e, f) = Holders(s, f)
    BY <1>3 DEF Holders
  <2> QED BY <2>1, <1>1, <1>3
<1>4. CASE Holds(e, t, f) /\ ~ Holds(s, t, f)
  <2>1. Holders(e, f) = Holders(s, f) \cup {t}
    BY <1>4 DEF Holders
  <2> QED BY <2>1, <1>1, <1>2, <1>4, FS_AddElement
<1>5. CASE ~ Holds(e, t, f) /\ Holds(s, t, f)
  <2>1. Holders(e, f) = Holders(s, f) \ {t}
    BY <1>5 DEF Holders
  <2> QED BY <2>1, <1>1, <1>2, <1>5, FS_RemoveElement
<1> QED BY <1>3, <1>4, <1>5

\* There are as many frames for a page, or a table, as tasks: one is free for a
\* task that has none, or shares the one it has.
LEMMA FreeFrameFacts ==
  ASSUME NEW s, Counted(s), NEW t \in Procs, NEW for \in {"page", "table"}, NEW nr,
         for = "page" => nr \in M!Pages, for = "table" => nr \in Dirs,
         \A f \in M!Frames : f.for = for /\ f.nr = nr /\ Holds(s, t, f) => s.count[f] # 1
  PROVE  LET f == M!FreeFrame(s, for, nr)
         IN f \in M!Frames /\ f.for = for /\ f.nr = nr /\ s.count[f] = 0
<1> DEFINE Fr(u) == [for |-> for, nr |-> nr, copy |-> u]
<1>1. \A u \in Procs : Fr(u) \in M!Frames
  BY DEF M!Frames
<1>2. ASSUME \A u \in Procs : s.count[Fr(u)] # 0 PROVE FALSE
  <2> DEFINE Other(u) == CHOOSE v \in Procs : v # t /\ Holds(s, v, Fr(u))
  <2>1. ASSUME NEW u \in Procs PROVE Other(u) \in Procs \ {t} /\ Holds(s, Other(u), Fr(u))
    <3>1. \E v \in Procs : Holds(s, v, Fr(u))
      <4>1. s.count[Fr(u)] = Cardinality(Holders(s, Fr(u)))
        BY <1>1, HolderFacts
      <4>2. Holders(s, Fr(u)) # {}
        BY <4>1, <1>2, FS_EmptySet
      <4> QED BY <4>2 DEF Holders
    <3>2. Holds(s, t, Fr(u)) => s.count[Fr(u)] # 1
      BY <1>1
    <3>3. Holds(s, t, Fr(u)) => \E v \in Procs : v # t /\ Holds(s, v, Fr(u))
      BY <1>1, <3>2, CountFacts
    <3> QED BY <3>1, <3>3
  <2>2. ASSUME NEW u \in Procs, NEW v \in Procs, Other(u) = Other(v) PROVE u = v
    <3> DEFINE o == Other(u)
    <3>1. Holds(s, o, Fr(u)) /\ Holds(s, o, Fr(v))
      BY <2>1, <2>2
    <3> HIDE DEF o
    <3>2. Fr(u) = Fr(v)
      BY <3>1 DEF Holds
    <3> QED BY <3>2
  <2> DEFINE g == [u \in Procs |-> Other(u)]
  <2>3. g \in [Procs -> Procs \ {t}]
    BY <2>1
  <2>4. IsFiniteSet(Procs) /\ Cardinality(Procs) \in Nat
    BY MemoryAssumption, FS_CardinalityType
  <2>5. IsFiniteSet(Procs \ {t}) /\ Cardinality(Procs \ {t}) = Cardinality(Procs) - 1
    BY <2>4, FS_RemoveElement
  <2>6. Cardinality(Procs \ {t}) < Cardinality(Procs)
    BY <2>4, <2>5
  <2>7. PICK u \in Procs, v \in Procs : u # v /\ g[u] = g[v]
    <3> HIDE DEF g
    <3> QED BY <2>3, <2>4, <2>5, <2>6, FS_PigeonHole
  <2> HIDE DEF Other
  <2>8. Other(u) = Other(v)
    BY <2>7
  <2> QED BY <2>2, <2>7, <2>8
<1>3. \E f \in M!Frames : f.for = for /\ f.nr = nr /\ s.count[f] = 0
  BY <1>1, <1>2
<1> QED BY <1>3 DEF M!FreeFrame

\* Memory with other entries for some pages of task t.
LEMMA SetFacts ==
  ASSUME NEW s, IsMemory(s), InPlace(s), NEW t \in Procs, NEW es, DOMAIN es \subseteq M!Pages,
         \A p \in DOMAIN es : es[p] \in Entry
  PROVE  LET e == M!SetEntries(s, t, es)
         IN /\ IsMemory(e)
            /\ e.count = s.count /\ e.data = s.data /\ e.dir = s.dir /\ e.halt = s.halt
            /\ \A u \in Procs, q \in M!Pages :
                 M!EntryOf(e, u, q) = IF /\ q \in DOMAIN es /\ M!TableOf(s, t, q) # M!NoFrame
                                         /\ M!TableOf(s, u, q) = M!TableOf(s, t, q)
                                      THEN es[q] ELSE M!EntryOf(s, u, q)
            /\ \A f \in M!Frames : (\A p \in DOMAIN es : M!TableOf(s, t, p) # f) => e.table[f] = s.table[f]
<1> DEFINE e == M!SetEntries(s, t, es)
           Ps(f, x) == {p \in DOMAIN es : M!TableOf(s, t, p) = f /\ M!SlotOf(p) = x}
           New(f, x) == IF Ps(f, x) = {} THEN s.table[f][x] ELSE es[CHOOSE p \in Ps(f, x) : TRUE]
           table == [f \in M!Frames |-> [x \in M!Slots |-> New(f, x)]]
<1>1. e = [s EXCEPT !.table = table]
  BY DEF M!SetEntries
<1>2. ASSUME NEW f \in M!Frames, NEW x \in M!Slots PROVE New(f, x) \in Entry
  <2>1. s.table[f][x] \in Entry
    BY <1>2 DEF IsMemory
  <2>2. Ps(f, x) # {} => (CHOOSE p \in Ps(f, x) : TRUE) \in DOMAIN es
    OBVIOUS
  <2> HIDE DEF Ps
  <2> QED BY <2>1, <2>2
<1>3. table \in [M!Frames -> [M!Slots -> Entry]]
  BY <1>2
<1> HIDE DEF table
<1>4. /\ IsMemory(e) /\ e.table = table
      /\ e.count = s.count /\ e.data = s.data /\ e.dir = s.dir /\ e.halt = s.halt
  BY <1>1, <1>3 DEF IsMemory
<1> HIDE DEF e, New
<1>5. ASSUME NEW u \in Procs, NEW q \in M!Pages
      PROVE  M!EntryOf(e, u, q) = IF /\ q \in DOMAIN es /\ M!TableOf(s, t, q) # M!NoFrame
                                     /\ M!TableOf(s, u, q) = M!TableOf(s, t, q)
                                  THEN es[q] ELSE M!EntryOf(s, u, q)
  <2> DEFINE f == M!TableOf(s, u, q)
             x == M!SlotOf(q)
  <2>1. M!TableOf(e, u, q) = f /\ x \in M!Slots /\ f \in M!Frames \cup {M!NoFrame}
    BY <1>4, PageFacts, EntryFacts DEF M!TableOf
  <2>2. CASE f = M!NoFrame
    BY <2>1, <2>2 DEF M!EntryOf
  <2>3. CASE f # M!NoFrame
    <3>1. M!EntryOf(e, u, q) = New(f, x) /\ M!EntryOf(s, u, q) = s.table[f][x]
      BY <2>1, <2>3, <1>4 DEF M!EntryOf, table
    <3>2. \A p \in Ps(f, x) : p = q
      <4> SUFFICES ASSUME NEW p \in DOMAIN es, M!TableOf(s, t, p) = f, M!SlotOf(p) = x PROVE p = q
        OBVIOUS
      <4>1. M!DirOf(p) \in Dirs /\ M!DirOf(q) \in Dirs /\ p \in M!Pages
        BY PageFacts
      <4>2. f.nr = M!DirOf(p) /\ f.nr = M!DirOf(q)
        BY <4>1, <2>3 DEF InPlace, M!TableOf
      <4> QED BY <4>1, <4>2, PageFacts
    <3>3. q \in Ps(f, x) <=> q \in DOMAIN es /\ M!TableOf(s, t, q) = f
      OBVIOUS
    <3> HIDE DEF Ps
    <3>4. CASE q \in Ps(f, x)
      <4>1. Ps(f, x) # {} /\ (CHOOSE p \in Ps(f, x) : TRUE) = q
        BY <3>2, <3>4
      <4>2. New(f, x) = es[q]
        BY <4>1 DEF New
      <4> QED BY <4>2, <3>1, <3>3, <3>4, <2>3
    <3>5. CASE q \notin Ps(f, x)
      <4>1. New(f, x) = s.table[f][x]
        BY <3>2, <3>5 DEF New
      <4> QED BY <4>1, <3>1, <3>3, <3>5
    <3> QED BY <3>4, <3>5
  <2> QED BY <2>2, <2>3
<1>6. ASSUME NEW f \in M!Frames, \A p \in DOMAIN es : M!TableOf(s, t, p) # f
      PROVE  e.table[f] = s.table[f]
  <2>1. \A x \in M!Slots : New(f, x) = s.table[f][x]
    BY <1>6 DEF New
  <2>2. e.table[f] = [x \in M!Slots |-> New(f, x)]
    BY <1>4 DEF table
  <2>3. s.table[f] = [x \in M!Slots |-> s.table[f][x]]
    BY DEF IsMemory
  <2> QED BY <2>1, <2>2, <2>3
<1> QED BY <1>4, <1>5, <1>6 DEF e

\* Memory after a step of task t is sound when the counts followed its frames.
Others(s, e, t) == \A u \in Procs \ {t} :
  e.dir[u] = s.dir[u] /\ \A q \in M!Pages : M!EntryOf(e, u, q).frame = M!EntryOf(s, u, q).frame
Recounts(s, e, t) == \A f \in M!Frames :
  /\ (Holds(e, t, f) <=> Holds(s, t, f)) => e.count[f] = s.count[f]
  /\ Holds(e, t, f) /\ ~ Holds(s, t, f) => s.count[f] = 0 /\ e.count[f] = 1
  /\ ~ Holds(e, t, f) /\ Holds(s, t, f) => e.count[f] = s.count[f] - 1
LEMMA SoundAfter ==
  ASSUME NEW s, NEW e, Sound(s), IsMemory(e), InPlace(e), Clean(e), NEW t \in Procs,
         Others(s, e, t), Recounts(s, e, t),
         \A d \in Dirs : e.dir[t][d].write =>
           e.dir[t][d].table # M!NoFrame /\ e.count[e.dir[t][d].table] = 1
  PROVE  Sound(e)
<1>1. \A u \in Procs \ {t}, f \in M!Frames : Holds(e, u, f) <=> Holds(s, u, f)
  BY FrameFacts DEF Others, Holds
<1>2. Counted(s)
  BY DEF Sound
<1>3. Counted(e)
  <2>1. \A f \in M!Frames : /\ (Holds(e, t, f) <=> Holds(s, t, f)) => e.count[f] = s.count[f]
                            /\ Holds(e, t, f) /\ ~ Holds(s, t, f) => e.count[f] = s.count[f] + 1
                            /\ ~ Holds(e, t, f) /\ Holds(s, t, f) => e.count[f] = s.count[f] - 1
    BY DEF Recounts
  <2> QED BY <1>1, <1>2, <2>1, OneTask
<1>4. Alone(e)
  <2> SUFFICES ASSUME NEW u \in Procs \ {t}, NEW d \in Dirs, e.dir[u][d].write
               PROVE  e.dir[u][d].table # M!NoFrame /\ e.count[e.dir[u][d].table] = 1
    BY DEF Alone
  <2> DEFINE f == s.dir[u][d].table
  <2>1. e.dir[u][d].table = f /\ f # M!NoFrame /\ s.count[f] = 1 /\ f \in M!Frames
    BY DEF Others, Sound, Alone, IsMemory
  <2>2. Holds(s, u, f)
    BY <2>1 DEF Holds, Sound, InPlace
  <2> HIDE DEF f
  <2>3. ~ Holds(s, t, f)
    BY <1>2, <2>1, <2>2, CountFacts
  <2>4. ~ Holds(e, t, f)
    BY <2>1, <2>3 DEF Recounts
  <2>5. e.count[f] = 1
    BY <2>1, <2>3, <2>4 DEF Recounts
  <2> QED BY <2>1, <2>5
<1> QED BY <1>3, <1>4 DEF Sound

\* The page table for page p of task t is no other task's.
Own(s, t, p) == M!TableOf(s, t, p) = M!NoFrame \/ s.count[M!TableOf(s, t, p)] = 1

LEMMA GetEntriesFacts ==
  ASSUME NEW s, Sound(s), NEW t \in Procs, NEW pages \in SUBSET M!Pages
  PROVE  LET e == M!GetEntries(s, t, pages)
         IN /\ Sound(e) /\ e.data = s.data /\ e.halt = s.halt
            /\ \A u \in Procs \ {t} : e.dir[u] = s.dir[u]
            /\ \A u \in Procs, q \in M!Pages : M!EntryOf(e, u, q) = M!EntryOf(s, u, q)
            /\ \A q \in pages : M!TableOf(e, t, q) # M!NoFrame
            /\ \A q \in M!Pages : Own(s, t, q) => Own(e, t, q)
            /\ \A f \in M!Frames : f.for = "page" => e.count[f] = s.count[f]
<1> DEFINE new == {d \in Dirs : s.dir[t][d].table = M!NoFrame /\ \E p \in pages : M!DirOf(p) = d}
           F(d) == M!FreeFrame(s, "table", d)
           G == {F(d) : d \in new}
           count == [f \in M!Frames |-> IF f \in G THEN 1 ELSE s.count[f]]
           dir == [d \in Dirs |-> IF d \in new THEN [table |-> F(d), write |-> TRUE] ELSE s.dir[t][d]]
           e == M!GetEntries(s, t, pages)
<1>1. IsMemory(s) /\ InPlace(s) /\ Counted(s) /\ Clean(s) /\ Alone(s)
  BY DEF Sound
<1>2. ASSUME NEW d \in new
      PROVE  F(d) \in M!Frames /\ F(d).for = "table" /\ F(d).nr = d /\ s.count[F(d)] = 0 /\ F(d) # M!NoFrame
  <2>1. s.dir[t][d].table = M!NoFrame /\ d \in Dirs
    OBVIOUS
  <2>2. \A f \in M!Frames : f.for = "table" /\ f.nr = d => ~ Holds(s, t, f)
    BY <2>1, FrameFacts DEF Holds
  <2> QED BY <1>1, <2>1, <2>2, FreeFrameFacts, FrameFacts
<1>3. new \subseteq Dirs
  OBVIOUS
<1>4. \A d \in Dirs : d \notin new => s.dir[t][d].table # M!NoFrame \/ \A p \in pages : M!DirOf(p) # d
  OBVIOUS
<1>5. \A d \in new : s.dir[t][d].table = M!NoFrame
  OBVIOUS
<1>6. e = [M!Get(s, G) EXCEPT !.dir[t] = dir]
  BY <1>1 DEF M!GetEntries, IsMemory, M!Get
<1> HIDE DEF new, F, e
<1>7. \A f \in G : f \in M!Frames /\ f.for = "table" /\ f.nr \in new /\ f = F(f.nr) /\ s.count[f] = 0
  BY <1>2
<1>8. \A d \in new : F(d) \in G
  OBVIOUS
<1> HIDE DEF G
<1>9. count \in [M!Frames -> Nat] /\ dir \in [Dirs -> [table : M!Frames \cup {M!NoFrame}, write : BOOLEAN]]
  BY <1>1, <1>2 DEF IsMemory
<1>10. \A f \in M!Frames : count[f] = IF f \in G THEN 1 ELSE s.count[f]
  OBVIOUS
<1>11. \A d \in Dirs : /\ d \in new => dir[d].table = F(d) /\ dir[d].write
                       /\ d \notin new => dir[d] = s.dir[t][d]
  OBVIOUS
<1>12. M!Get(s, G) = [s EXCEPT !.count = count]
  BY DEF M!Get
<1> HIDE DEF count, dir
<1>13. /\ IsMemory(e) /\ e.count = count /\ e.data = s.data /\ e.halt = s.halt /\ e.table = s.table
       /\ e.dir[t] = dir /\ \A u \in Procs \ {t} : e.dir[u] = s.dir[u]
  BY <1>1, <1>6, <1>9, <1>12 DEF IsMemory
<1>14. ASSUME NEW u \in Procs, NEW q \in M!Pages PROVE M!EntryOf(e, u, q) = M!EntryOf(s, u, q)
  <2>1. M!DirOf(q) \in Dirs /\ M!SlotOf(q) \in M!Slots
    BY PageFacts
  <2>2. CASE u = t /\ M!DirOf(q) \in new
    <3>1. M!TableOf(e, u, q) = F(M!DirOf(q)) /\ M!TableOf(s, u, q) = M!NoFrame
      BY <1>5, <1>11, <1>13, <2>1, <2>2 DEF M!TableOf
    <3>2. e.table[F(M!DirOf(q))] = M!NoTable /\ F(M!DirOf(q)) # M!NoFrame
      BY <1>1, <1>2, <1>13, <2>2 DEF Clean
    <3> QED BY <2>1, <3>1, <3>2, NoEntryFacts DEF M!EntryOf
  <2>3. CASE ~ (u = t /\ M!DirOf(q) \in new)
    <3>1. M!TableOf(e, u, q) = M!TableOf(s, u, q)
      BY <1>11, <1>13, <2>1, <2>3 DEF M!TableOf
    <3> QED BY <3>1, <1>13 DEF M!EntryOf
  <2> QED BY <2>2, <2>3
<1>15. InPlace(e)
  <2>1. ASSUME NEW u \in Procs, NEW d \in Dirs, e.dir[u][d].table # M!NoFrame
        PROVE  e.dir[u][d].table.for = "table" /\ e.dir[u][d].table.nr = d
    <3>1. CASE u = t /\ d \in new
      BY <1>2, <1>11, <1>13, <3>1
    <3>2. CASE ~ (u = t /\ d \in new)
      BY <1>1, <1>11, <1>13, <2>1, <3>2 DEF InPlace
    <3> QED BY <3>1, <3>2
  <2>2. \A u \in Procs, p \in M!Pages : M!Present(e, u, p) =>
          M!EntryOf(e, u, p).frame.for = "page" /\ M!EntryOf(e, u, p).frame.nr = p
    BY <1>1, <1>14 DEF InPlace, M!Present
  <2> QED BY <2>1, <2>2 DEF InPlace
<1>16. Recounts(s, e, t)
  <2> SUFFICES ASSUME NEW f \in M!Frames
               PROVE  /\ (Holds(e, t, f) <=> Holds(s, t, f)) => e.count[f] = s.count[f]
                      /\ Holds(e, t, f) /\ ~ Holds(s, t, f) => s.count[f] = 0 /\ e.count[f] = 1
                      /\ ~ Holds(e, t, f) /\ Holds(s, t, f) => e.count[f] = s.count[f] - 1
    BY DEF Recounts
  <2>1. CASE f.for = "page"
    BY <2>1, <1>7, <1>10, <1>13, <1>14, FrameFacts DEF Holds
  <2>2. CASE f.for = "table"
    <3>1. f.nr \in Dirs
      BY <2>2, FrameFacts
    <3>2. f \in G <=> f.nr \in new /\ f = F(f.nr)
      BY <1>7, <1>8
    <3>3. f \in G => Holds(e, t, f) /\ ~ Holds(s, t, f) /\ s.count[f] = 0
      BY <2>2, <3>1, <3>2, <1>2, <1>5, <1>11, <1>13 DEF Holds
    <3>4. f \notin G => (Holds(e, t, f) <=> Holds(s, t, f))
      BY <2>2, <3>1, <3>2, <1>5, <1>11, <1>13, FrameFacts DEF Holds
    <3> QED BY <3>3, <3>4, <1>10, <1>13
  <2> QED BY <2>1, <2>2, FrameFacts
<1>17. Clean(e)
  BY <1>1, <1>10, <1>13 DEF Clean
<1>18. ASSUME NEW d \in Dirs, e.dir[t][d].write
       PROVE  e.dir[t][d].table # M!NoFrame /\ e.count[e.dir[t][d].table] = 1
  <2>1. CASE d \in new
    BY <1>2, <1>8, <1>10, <1>11, <1>13, <2>1
  <2>2. CASE d \notin new
    <3>1. s.dir[t][d].table # M!NoFrame /\ s.count[s.dir[t][d].table] = 1 /\ s.dir[t][d].table \in M!Frames
      BY <1>1, <1>11, <1>13, <1>18, <2>2 DEF Alone, IsMemory
    <3> QED BY <3>1, <1>10, <1>11, <1>13, <2>2
  <2> QED BY <2>1, <2>2
<1>19. Others(s, e, t)
  BY <1>13, <1>14 DEF Others
<1>20. Sound(e)
  BY <1>13, <1>15, <1>16, <1>17, <1>18, <1>19, SoundAfter
<1>21. \A q \in pages : M!TableOf(e, t, q) # M!NoFrame
  <2> SUFFICES ASSUME NEW q \in pages PROVE M!TableOf(e, t, q) # M!NoFrame
    OBVIOUS
  <2>1. M!DirOf(q) \in Dirs
    BY PageFacts
  <2> QED BY <2>1, <1>2, <1>4, <1>11, <1>13 DEF M!TableOf
<1>22. ASSUME NEW q \in M!Pages, Own(s, t, q) PROVE Own(e, t, q)
  <2>1. M!DirOf(q) \in Dirs
    BY PageFacts
  <2>2. CASE M!DirOf(q) \in new
    BY <2>1, <2>2, <1>2, <1>8, <1>10, <1>11, <1>13 DEF M!TableOf, Own
  <2>3. CASE M!DirOf(q) \notin new
    <3>1. M!TableOf(e, t, q) = M!TableOf(s, t, q)
      BY <2>1, <2>3, <1>11, <1>13 DEF M!TableOf
    <3>2. M!TableOf(s, t, q) \in M!Frames \cup {M!NoFrame}
      BY <1>1, EntryFacts
    <3> QED BY <3>1, <3>2, <1>10, <1>13, <1>22 DEF Own
  <2> QED BY <2>2, <2>3
<1>23. \A f \in M!Frames : f.for = "page" => e.count[f] = s.count[f]
  BY <1>7, <1>10, <1>13
<1> QED BY <1>13, <1>14, <1>20, <1>21, <1>22, <1>23 DEF e

\* The frames that a task holds.
LEMMA HeldFacts ==
  ASSUME NEW s, Sound(s), NEW t \in Procs, NEW p \in M!Pages
  PROVE  /\ M!TableOf(s, t, p) # M!NoFrame =>
              /\ M!TableOf(s, t, p) \in M!Frames /\ M!TableOf(s, t, p).for = "table"
              /\ M!TableOf(s, t, p).nr = M!DirOf(p) /\ Holds(s, t, M!TableOf(s, t, p))
         /\ M!Present(s, t, p) =>
              /\ M!EntryOf(s, t, p).frame \in M!Frames /\ M!EntryOf(s, t, p).frame.for = "page"
              /\ M!EntryOf(s, t, p).frame.nr = p /\ Holds(s, t, M!EntryOf(s, t, p).frame)
         /\ M!Present(s, t, p) => M!TableOf(s, t, p) # M!NoFrame
<1>1. IsMemory(s) /\ InPlace(s)
  BY DEF Sound
<1>2. M!DirOf(p) \in Dirs
  BY PageFacts
<1>3. M!TableOf(s, t, p) # M!NoFrame =>
        M!TableOf(s, t, p).for = "table" /\ M!TableOf(s, t, p).nr = M!DirOf(p)
  BY <1>1, <1>2 DEF InPlace, M!TableOf
<1>4. M!Present(s, t, p) => M!EntryOf(s, t, p).frame.for = "page" /\ M!EntryOf(s, t, p).frame.nr = p
  BY <1>1 DEF InPlace
<1>5. M!TableOf(s, t, p) # M!NoFrame => Holds(s, t, M!TableOf(s, t, p))
  BY <1>3 DEF Holds, M!TableOf
<1>6. M!Present(s, t, p) => Holds(s, t, M!EntryOf(s, t, p).frame)
  BY <1>4 DEF Holds
<1> QED BY <1>1, <1>3, <1>4, <1>5, <1>6, EntryFacts

\* A page table that counts one is in one directory.
LEMMA MineAlone ==
  ASSUME NEW s, Sound(s), NEW t \in Procs, NEW p \in M!Pages, Own(s, t, p),
         M!TableOf(s, t, p) # M!NoFrame, NEW u \in Procs \ {t}
  PROVE  M!TableOf(s, u, p) # M!TableOf(s, t, p)
<1> DEFINE f == M!TableOf(s, t, p)
<1>1. f \in M!Frames /\ s.count[f] = 1 /\ Holds(s, t, f)
  BY HeldFacts DEF Own
<1>2. ~ Holds(s, u, f)
  BY <1>1, CountFacts DEF Sound
<1> QED BY <1>1, <1>2, HeldFacts

\* Entries that change in page tables of task t alone.
LEMMA SetMine ==
  ASSUME NEW s, Sound(s), NEW v, IsMemory(v), v.dir = s.dir, v.table = s.table,
         NEW t \in Procs, NEW es, DOMAIN es \subseteq M!Pages,
         \A p \in DOMAIN es : /\ es[p] \in Entry /\ Own(s, t, p) /\ M!TableOf(s, t, p) # M!NoFrame
                              /\ es[p].frame # M!NoFrame => es[p].frame.for = "page" /\ es[p].frame.nr = p
  PROVE  LET e == M!SetEntries(v, t, es)
         IN /\ IsMemory(e) /\ InPlace(e)
            /\ e.count = v.count /\ e.data = v.data /\ e.dir = s.dir /\ e.halt = v.halt
            /\ \A u \in Procs, q \in M!Pages :
                 M!EntryOf(e, u, q) = IF u = t /\ q \in DOMAIN es THEN es[q] ELSE M!EntryOf(s, u, q)
            /\ \A f \in M!Frames : s.count[f] = 0 => e.table[f] = M!NoTable
<1> DEFINE e == M!SetEntries(v, t, es)
<1>1. \A u \in Procs, q \in M!Pages : M!TableOf(v, u, q) = M!TableOf(s, u, q) /\ M!EntryOf(v, u, q) = M!EntryOf(s, u, q)
  BY DEF M!TableOf, M!EntryOf
<1>2. InPlace(v)
  BY <1>1 DEF Sound, InPlace, M!Present
<1>3. /\ IsMemory(e)
      /\ e.count = v.count /\ e.data = v.data /\ e.dir = v.dir /\ e.halt = v.halt
      /\ \A u \in Procs, q \in M!Pages :
           M!EntryOf(e, u, q) = IF /\ q \in DOMAIN es /\ M!TableOf(v, t, q) # M!NoFrame
                                   /\ M!TableOf(v, u, q) = M!TableOf(v, t, q)
                                THEN es[q] ELSE M!EntryOf(v, u, q)
      /\ \A f \in M!Frames : (\A p \in DOMAIN es : M!TableOf(v, t, p) # f) => e.table[f] = v.table[f]
  <2> HIDE DEF e
  <2> QED BY <1>2, SetFacts DEF e
<1> HIDE DEF e
<1>4. ASSUME NEW u \in Procs, NEW q \in M!Pages
      PROVE  M!EntryOf(e, u, q) = IF u = t /\ q \in DOMAIN es THEN es[q] ELSE M!EntryOf(s, u, q)
  BY <1>1, <1>3, MineAlone
<1>5. InPlace(e)
  <2>1. \A u \in Procs, d \in Dirs : e.dir[u][d].table # M!NoFrame =>
       e.dir[u][d].table.for = "table" /\ e.dir[u][d].table.nr = d
    BY <1>3 DEF Sound, InPlace
  <2>2. \A u \in Procs, p \in M!Pages : M!EntryOf(e, u, p).frame # M!NoFrame =>
       M!EntryOf(e, u, p).frame.for = "page" /\ M!EntryOf(e, u, p).frame.nr = p
    BY <1>4 DEF Sound, InPlace, M!Present
  <2> QED BY <2>1, <2>2 DEF InPlace, M!Present
<1>6. ASSUME NEW f \in M!Frames, s.count[f] = 0 PROVE e.table[f] = M!NoTable
  <2>1. \A p \in DOMAIN es : M!TableOf(v, t, p) # f
    BY <1>1, <1>6 DEF Own
  <2>2. s.table[f] = M!NoTable
    BY <1>6 DEF Sound, Clean
  <2> QED BY <1>3, <2>1, <2>2
<1> QED BY <1>3, <1>4, <1>5, <1>6 DEF e

LEMMA LinkFacts ==
  ASSUME NEW s, Sound(s), NEW t \in Procs, NEW pages \in SUBSET M!Pages,
         \A p \in pages : M!Present(s, t, p) \/ Own(s, t, p)
  PROVE  LET e == M!LinkPages(s, t, pages)
         IN /\ Sound(e) /\ e.data = s.data /\ e.halt = s.halt
            /\ \A u \in Procs \ {t} : e.dir[u] = s.dir[u]
            /\ \A u \in Procs, q \in M!Pages : u # t \/ q \notin pages \/ M!Present(s, t, q) =>
                 M!EntryOf(e, u, q) = M!EntryOf(s, u, q)
            /\ \A q \in pages : ~ M!Present(s, t, q) =>
                 LET n == M!EntryOf(e, t, q)
                 IN n.write /\ ~ n.shared /\ s.count[n.frame] = 0 /\ e.count[n.frame] = 1
            /\ \A q \in pages : M!Present(e, t, q)
            /\ \A q \in M!Pages : Own(s, t, q) => Own(e, t, q)
<1> DEFINE u == M!GetEntries(s, t, pages)
           new == {p \in pages : ~ M!Present(u, t, p)}
           F(p) == M!FreeFrame(u, "page", p)
           G == {F(p) : p \in new}
           v == M!Get(u, G)
           count == [f \in M!Frames |-> IF f \in G THEN 1 ELSE u.count[f]]
           es == [p \in new |-> [M!NoEntry EXCEPT !.frame = F(p), !.write = TRUE]]
           e == M!LinkPages(s, t, pages)
<1>1. /\ Sound(u) /\ u.data = s.data /\ u.halt = s.halt
      /\ \A w \in Procs \ {t} : u.dir[w] = s.dir[w]
      /\ \A w \in Procs, q \in M!Pages : M!EntryOf(u, w, q) = M!EntryOf(s, w, q)
      /\ \A q \in pages : M!TableOf(u, t, q) # M!NoFrame
      /\ \A q \in M!Pages : Own(s, t, q) => Own(u, t, q)
      /\ \A f \in M!Frames : f.for = "page" => u.count[f] = s.count[f]
  BY GetEntriesFacts
<1>2. e = M!SetEntries(v, t, es)
  BY DEF M!LinkPages
<1>3. new \subseteq M!Pages /\ new \subseteq pages
  OBVIOUS
<1>4. \A q \in pages : q \in new <=> ~ M!Present(s, t, q)
  BY <1>1 DEF M!Present
<1> HIDE DEF u, new, e
<1>5. IsMemory(u) /\ InPlace(u) /\ Counted(u) /\ Clean(u) /\ Alone(u)
  BY <1>1 DEF Sound
<1>6. ASSUME NEW p \in new
      PROVE  F(p) \in M!Frames /\ F(p).for = "page" /\ F(p).nr = p /\ u.count[F(p)] = 0 /\ F(p) # M!NoFrame
  <2>1. M!EntryOf(u, t, p).frame = M!NoFrame
    BY <1>1, <1>3, <1>4 DEF M!Present
  <2>2. \A f \in M!Frames : f.for = "page" /\ f.nr = p => ~ Holds(u, t, f)
    BY <2>1, FrameFacts DEF Holds
  <2> QED BY <1>3, <1>5, <2>2, FreeFrameFacts, FrameFacts
<1> HIDE DEF F
<1>7. \A f \in G : f \in M!Frames /\ f.for = "page" /\ f.nr \in new /\ f = F(f.nr) /\ u.count[f] = 0
  BY <1>6
<1>8. \A p \in new : F(p) \in G
  OBVIOUS
<1> HIDE DEF G
<1>9. count \in [M!Frames -> Nat]
  BY <1>5 DEF IsMemory
<1>10. \A f \in M!Frames : count[f] = IF f \in G THEN 1 ELSE u.count[f]
  OBVIOUS
<1>11. v = [u EXCEPT !.count = count]
  BY DEF M!Get
<1> HIDE DEF count, v
<1>12. /\ IsMemory(v) /\ v.count = count /\ v.data = u.data /\ v.halt = u.halt
       /\ v.dir = u.dir /\ v.table = u.table
  BY <1>5, <1>9, <1>11 DEF IsMemory
<1>13. DOMAIN es = new
  OBVIOUS
<1>14. \A p \in new : /\ es[p] \in Entry /\ es[p].frame = F(p) /\ es[p].write /\ ~ es[p].shared
  BY <1>6 DEF Entry, M!NoEntry
<1> HIDE DEF es
<1>15. \A p \in DOMAIN es : /\ es[p] \in Entry /\ Own(u, t, p) /\ M!TableOf(u, t, p) # M!NoFrame
                            /\ es[p].frame # M!NoFrame => es[p].frame.for = "page" /\ es[p].frame.nr = p
  BY <1>1, <1>3, <1>4, <1>6, <1>13, <1>14
<1>16. /\ IsMemory(e) /\ InPlace(e)
       /\ e.count = count /\ e.data = s.data /\ e.dir = u.dir /\ e.halt = s.halt
       /\ \A w \in Procs, q \in M!Pages :
            M!EntryOf(e, w, q) = IF w = t /\ q \in DOMAIN es THEN es[q] ELSE M!EntryOf(u, w, q)
       /\ \A f \in M!Frames : u.count[f] = 0 => e.table[f] = M!NoTable
  <2>1. DOMAIN es \subseteq M!Pages
    BY <1>3, <1>13
  <2>2. Sound(u) /\ IsMemory(v) /\ v.dir = u.dir /\ v.table = u.table
    BY <1>1, <1>12
  <2>3. /\ IsMemory(e) /\ InPlace(e)
        /\ e.count = v.count /\ e.data = v.data /\ e.dir = u.dir /\ e.halt = v.halt
        /\ \A w \in Procs, q \in M!Pages :
             M!EntryOf(e, w, q) = IF w = t /\ q \in DOMAIN es THEN es[q] ELSE M!EntryOf(u, w, q)
        /\ \A f \in M!Frames : u.count[f] = 0 => e.table[f] = M!NoTable
    BY <2>1, <2>2, <1>2, <1>15, SetMine
  <2> QED BY <2>3, <1>1, <1>12
<1>17. Clean(e)
  BY <1>1, <1>5, <1>10, <1>16 DEF Clean
<1>18. Others(u, e, t)
  BY <1>16 DEF Others
<1>19. Recounts(u, e, t)
  <2> SUFFICES ASSUME NEW f \in M!Frames
               PROVE  /\ (Holds(e, t, f) <=> Holds(u, t, f)) => e.count[f] = u.count[f]
                      /\ Holds(e, t, f) /\ ~ Holds(u, t, f) => u.count[f] = 0 /\ e.count[f] = 1
                      /\ ~ Holds(e, t, f) /\ Holds(u, t, f) => e.count[f] = u.count[f] - 1
    BY DEF Recounts
  <2>1. CASE f.for = "table"
    <3>1. Holds(e, t, f) <=> Holds(u, t, f)
      BY <2>1, <1>16 DEF Holds
    <3> QED BY <2>1, <3>1, <1>7, <1>10, <1>16
  <2>2. CASE f.for = "page"
    <3>1. f.nr \in M!Pages
      BY <2>2, FrameFacts
    <3>2. f \in G <=> f.nr \in new /\ f = F(f.nr)
      BY <1>7, <1>8
    <3>3. f.nr \in new => M!EntryOf(u, t, f.nr).frame = M!NoFrame /\ M!EntryOf(e, t, f.nr).frame = F(f.nr)
      BY <1>1, <1>3, <1>4, <1>13, <1>14, <1>16 DEF M!Present
    <3>4. f.nr \notin new => M!EntryOf(e, t, f.nr) = M!EntryOf(u, t, f.nr)
      BY <3>1, <1>13, <1>16
    <3>5. f \in G => Holds(e, t, f) /\ ~ Holds(u, t, f) /\ u.count[f] = 0
      BY <2>2, <3>2, <3>3, <1>6 DEF Holds
    <3>6. f \notin G => (Holds(e, t, f) <=> Holds(u, t, f))
      BY <2>2, <3>2, <3>3, <3>4, FrameFacts DEF Holds
    <3> QED BY <3>5, <3>6, <1>10, <1>16
  <2> QED BY <2>1, <2>2, FrameFacts
<1>20. ASSUME NEW d \in Dirs, e.dir[t][d].write
       PROVE  e.dir[t][d].table # M!NoFrame /\ e.count[e.dir[t][d].table] = 1
  <2>1. u.dir[t][d].table # M!NoFrame /\ u.count[u.dir[t][d].table] = 1 /\ u.dir[t][d].table \in M!Frames
    BY <1>5, <1>16, <1>20 DEF Alone, IsMemory
  <2> QED BY <2>1, <1>10, <1>16
<1>21. Sound(e)
  BY <1>1, <1>16, <1>17, <1>18, <1>19, <1>20, SoundAfter
<1>22. \A w \in Procs, q \in M!Pages : w # t \/ q \notin pages \/ M!Present(s, t, q) =>
         M!EntryOf(e, w, q) = M!EntryOf(s, w, q)
  BY <1>1, <1>3, <1>4, <1>13, <1>16
<1>23. \A q \in pages : ~ M!Present(s, t, q) =>
         LET n == M!EntryOf(e, t, q)
         IN /\ n.write /\ ~ n.shared /\ s.count[n.frame] = 0 /\ e.count[n.frame] = 1
            /\ n.frame # M!NoFrame
  <2> SUFFICES ASSUME NEW q \in new
               PROVE  LET n == M!EntryOf(e, t, q)
                      IN /\ n.write /\ ~ n.shared /\ s.count[n.frame] = 0 /\ e.count[n.frame] = 1
                         /\ n.frame # M!NoFrame
    BY <1>4
  <2>1. M!EntryOf(e, t, q) = es[q]
    BY <1>3, <1>13, <1>16
  <2>2. F(q) \in M!Frames /\ F(q) # M!NoFrame /\ s.count[F(q)] = 0 /\ e.count[F(q)] = 1
    BY <1>1, <1>6, <1>8, <1>10, <1>16
  <2> QED BY <2>1, <2>2, <1>14
<1>24. \A q \in pages : M!Present(e, t, q)
  BY <1>22, <1>23 DEF M!Present
<1>25. ASSUME NEW q \in M!Pages, Own(s, t, q) PROVE Own(e, t, q)
  <2>1. M!TableOf(e, t, q) = M!TableOf(u, t, q)
    BY <1>16 DEF M!TableOf
  <2>2. Own(u, t, q) /\ M!TableOf(u, t, q) \in M!Frames \cup {M!NoFrame}
    BY <1>1, <1>5, <1>25, EntryFacts
  <2> QED BY <2>1, <2>2, <1>10, <1>16 DEF Own
<1> QED BY <1>1, <1>16, <1>21, <1>22, <1>23, <1>24, <1>25 DEF e

LEMMA PutFrames ==
  ASSUME NEW s, IsMemory(s), NEW frames \in SUBSET M!Frames, \A f \in frames : s.count[f] # 0
  PROVE  LET e == M!Put(s, frames)
         IN /\ IsMemory(e) /\ e.dir = s.dir /\ e.halt = s.halt
            /\ \A f \in M!Frames \ frames :
                 e.count[f] = s.count[f] /\ e.data[f] = s.data[f] /\ e.table[f] = s.table[f]
            /\ \A f \in frames : /\ e.count[f] = s.count[f] - 1
                                 /\ e.count[f] # 0 => e.data[f] = s.data[f] /\ e.table[f] = s.table[f]
                                 /\ e.count[f] = 0 => e.data[f] = 0 /\ e.table[f] = M!NoTable
<1> DEFINE e == M!Put(s, frames)
           freed == {f \in frames : s.count[f] = 1}
           count == [f \in M!Frames |-> IF f \in frames THEN s.count[f] - 1 ELSE s.count[f]]
           data  == [f \in M!Frames |-> IF f \in freed THEN 0 ELSE s.data[f]]
           table == [f \in M!Frames |-> IF f \in freed THEN M!NoTable ELSE s.table[f]]
<1>1. e = [[[s EXCEPT !.count = count] EXCEPT !.data = data] EXCEPT !.table = table]
  <2>1. ~ \E f \in frames : s.count[f] = 0
    OBVIOUS
  <2>2. e = [s EXCEPT !.count = [f \in M!Frames |-> IF f \in frames THEN @[f] - 1 ELSE @[f]],
                      !.data  = [f \in M!Frames |-> IF f \in freed THEN 0 ELSE @[f]],
                      !.table = [f \in M!Frames |-> IF f \in freed THEN M!NoTable ELSE @[f]]]
    BY <2>1 DEF M!Put
  <2> QED BY <2>2 DEF IsMemory
<1> HIDE DEF e
<1>2. \A f \in M!Frames : /\ s.count[f] \in Nat /\ s.data[f] \in Procs \cup {0}
                          /\ s.table[f] \in [M!Slots -> Entry]
  BY DEF IsMemory
<1>3. \A f \in frames : s.count[f] - 1 \in Nat /\ (s.count[f] - 1 = 0 <=> f \in freed)
  BY <1>2
<1>4. /\ count \in [M!Frames -> Nat] /\ data \in [M!Frames -> Procs \cup {0}]
      /\ table \in [M!Frames -> [M!Slots -> Entry]]
  <2> HIDE DEF freed
  <2>1. count \in [M!Frames -> Nat]
    BY <1>2, <1>3
  <2>2. data \in [M!Frames -> Procs \cup {0}]
    BY <1>2
  <2>3. table \in [M!Frames -> [M!Slots -> Entry]]
    BY <1>2, NoEntryFacts
  <2> QED BY <2>1, <2>2, <2>3
<1>5. \A f \in M!Frames : /\ count[f] = IF f \in frames THEN s.count[f] - 1 ELSE s.count[f]
                          /\ data[f] = IF f \in freed THEN 0 ELSE s.data[f]
                          /\ table[f] = IF f \in freed THEN M!NoTable ELSE s.table[f]
  OBVIOUS
<1>6. freed \subseteq frames
  OBVIOUS
<1> HIDE DEF count, data, table, freed
<1>7. /\ IsMemory(e) /\ e.dir = s.dir /\ e.halt = s.halt
      /\ e.count = count /\ e.data = data /\ e.table = table
  BY <1>1, <1>4 DEF IsMemory
<1> QED BY <1>3, <1>5, <1>6, <1>7 DEF e

\* unlink_page of pages that are in page tables of the task's own.
LEMMA UnlinkFacts ==
  ASSUME NEW s, Sound(s), NEW t \in Procs, NEW pages \in SUBSET M!Pages,
         \A p \in pages : M!Present(s, t, p) => Own(s, t, p)
  PROVE  LET e == M!UnlinkPages(s, t, pages)
         IN /\ Sound(e) /\ e.dir = s.dir /\ e.halt = s.halt
            /\ \A u \in Procs, q \in M!Pages :
                 M!EntryOf(e, u, q) = IF u = t /\ q \in pages /\ M!Present(s, t, q)
                                      THEN M!NoEntry ELSE M!EntryOf(s, u, q)
            /\ \A f \in M!Frames : e.count[f] # 0 => s.count[f] # 0 /\ e.data[f] = s.data[f]
            /\ \A q \in M!Pages : Own(s, t, q) => Own(e, t, q)
<1> DEFINE had == {p \in pages : M!Present(s, t, p)}
           es == [p \in had |-> M!NoEntry]
           v == M!SetEntries(s, t, es)
           frames == M!FramesOf(s, t, had)
           e == M!UnlinkPages(s, t, pages)
<1>1. IsMemory(s) /\ InPlace(s) /\ Counted(s) /\ Clean(s) /\ Alone(s)
  BY DEF Sound
<1>2. e = M!Put(v, frames)
  BY DEF M!UnlinkPages
<1>3. \A p \in M!Pages : p \in had <=> p \in pages /\ M!Present(s, t, p)
  OBVIOUS
<1>4. had \subseteq M!Pages /\ DOMAIN es = had /\ \A p \in had : es[p] = M!NoEntry
  OBVIOUS
<1> HIDE DEF had, es, e
<1>5. \A f \in frames : f \in M!Frames /\ f.for = "page" /\ f.nr \in had /\ M!EntryOf(s, t, f.nr).frame = f
                        /\ Holds(s, t, f) /\ s.count[f] \in Nat \ {0}
  <2> SUFFICES ASSUME NEW p \in had
               PROVE  LET f == M!EntryOf(s, t, p).frame
                      IN f \in M!Frames /\ f.for = "page" /\ f.nr = p /\ Holds(s, t, f) /\ s.count[f] \in Nat \ {0}
    BY DEF M!FramesOf
  <2> QED BY <1>1, <1>3, <1>4, HeldFacts, CountFacts
<1>6. \A p \in had : M!EntryOf(s, t, p).frame \in frames
  BY <1>3, <1>4 DEF M!FramesOf, M!Present
<1> HIDE DEF frames, v
<1>7. /\ IsMemory(v) /\ InPlace(v)
      /\ v.count = s.count /\ v.data = s.data /\ v.dir = s.dir /\ v.halt = s.halt
      /\ \A u \in Procs, q \in M!Pages :
           M!EntryOf(v, u, q) = IF u = t /\ q \in had THEN M!NoEntry ELSE M!EntryOf(s, u, q)
      /\ \A f \in M!Frames : s.count[f] = 0 => v.table[f] = M!NoTable
  <2>1. \A p \in DOMAIN es : /\ es[p] \in Entry /\ Own(s, t, p) /\ M!TableOf(s, t, p) # M!NoFrame
                             /\ es[p].frame # M!NoFrame => es[p].frame.for = "page" /\ es[p].frame.nr = p
    BY <1>3, <1>4, NoEntryFacts, HeldFacts
  <2>2. /\ IsMemory(v) /\ InPlace(v)
        /\ v.count = s.count /\ v.data = s.data /\ v.dir = s.dir /\ v.halt = s.halt
        /\ \A u \in Procs, q \in M!Pages :
             M!EntryOf(v, u, q) = IF u = t /\ q \in DOMAIN es THEN es[q] ELSE M!EntryOf(s, u, q)
        /\ \A f \in M!Frames : s.count[f] = 0 => v.table[f] = M!NoTable
    BY <1>1, <1>4, <2>1, SetMine DEF v
  <2> QED BY <2>2, <1>4
<1>8. /\ IsMemory(e) /\ e.dir = s.dir /\ e.halt = s.halt
      /\ \A f \in M!Frames \ frames :
           e.count[f] = s.count[f] /\ e.data[f] = s.data[f] /\ e.table[f] = v.table[f]
      /\ \A f \in frames : /\ e.count[f] = s.count[f] - 1
                           /\ e.count[f] # 0 => e.data[f] = s.data[f] /\ e.table[f] = v.table[f]
                           /\ e.count[f] = 0 => e.data[f] = 0 /\ e.table[f] = M!NoTable
  <2>1. frames \in SUBSET M!Frames /\ \A f \in frames : v.count[f] # 0
    BY <1>5, <1>7
  <2> QED BY <1>2, <1>7, <2>1, PutFrames
<1>9. ASSUME NEW u \in Procs, NEW q \in M!Pages
      PROVE  M!EntryOf(e, u, q) = IF u = t /\ q \in had THEN M!NoEntry ELSE M!EntryOf(s, u, q)
  <2>1. M!TableOf(e, u, q) = M!TableOf(v, u, q) /\ M!TableOf(s, u, q) = M!TableOf(v, u, q)
    BY <1>7, <1>8 DEF M!TableOf
  <2>2. M!TableOf(v, u, q) # M!NoFrame => M!TableOf(v, u, q) \in M!Frames \ frames
    BY <2>1, <1>5, HeldFacts
  <2>3. M!EntryOf(e, u, q) = M!EntryOf(v, u, q)
    BY <2>1, <2>2, <1>8 DEF M!EntryOf
  <2> QED BY <2>3, <1>7
<1>10. InPlace(e)
  <2>1. \A u \in Procs, d \in Dirs : e.dir[u][d].table # M!NoFrame =>
          e.dir[u][d].table.for = "table" /\ e.dir[u][d].table.nr = d
    BY <1>1, <1>8 DEF InPlace
  <2>2. \A u \in Procs, p \in M!Pages : M!EntryOf(e, u, p).frame # M!NoFrame =>
          M!EntryOf(e, u, p).frame.for = "page" /\ M!EntryOf(e, u, p).frame.nr = p
    BY <1>1, <1>9, NoEntryFacts DEF InPlace, M!Present
  <2> QED BY <2>1, <2>2 DEF InPlace, M!Present
<1>11. Clean(e)
  <2> SUFFICES ASSUME NEW f \in M!Frames, e.count[f] = 0 PROVE e.table[f] = M!NoTable /\ e.data[f] = 0
    BY DEF Clean
  <2>1. CASE f \in frames
    BY <2>1, <1>8
  <2>2. CASE f \notin frames
    BY <2>2, <1>1, <1>7, <1>8 DEF Clean
  <2> QED BY <2>1, <2>2
<1>12. Others(s, e, t)
  BY <1>8, <1>9 DEF Others
<1>13. Recounts(s, e, t)
  <2> SUFFICES ASSUME NEW f \in M!Frames
               PROVE  /\ (Holds(e, t, f) <=> Holds(s, t, f)) => e.count[f] = s.count[f]
                      /\ Holds(e, t, f) /\ ~ Holds(s, t, f) => s.count[f] = 0 /\ e.count[f] = 1
                      /\ ~ Holds(e, t, f) /\ Holds(s, t, f) => e.count[f] = s.count[f] - 1
    BY DEF Recounts
  <2>1. f \in frames => Holds(s, t, f) /\ ~ Holds(e, t, f)
    <3>1. f \in frames => M!EntryOf(e, t, f.nr) = M!NoEntry
      BY <1>4, <1>5, <1>9
    <3> QED BY <3>1, <1>5, NoEntryFacts, FrameFacts DEF Holds
  <2>2. f \notin frames => (Holds(e, t, f) <=> Holds(s, t, f))
    <3>1. CASE f.for = "table"
      BY <3>1, <1>8 DEF Holds
    <3>2. CASE f.for = "page"
      <4>1. f.nr \in M!Pages
        BY <3>2, FrameFacts
      <4>2. CASE f.nr \in had
        <5>1. M!EntryOf(s, t, f.nr).frame \in frames /\ M!EntryOf(e, t, f.nr).frame = M!NoFrame
          BY <4>1, <4>2, <1>6, <1>9, NoEntryFacts
        <5> QED BY <5>1, <3>2, FrameFacts DEF Holds
      <4>3. CASE f.nr \notin had
        BY <4>1, <4>3, <3>2, <1>9 DEF Holds
      <4> QED BY <4>2, <4>3
    <3> QED BY <3>1, <3>2, FrameFacts
  <2> QED BY <2>1, <2>2, <1>8
<1>14. \A f \in M!Frames : f.for = "table" => e.count[f] = s.count[f]
  BY <1>5, <1>8
<1>15. ASSUME NEW d \in Dirs, e.dir[t][d].write
       PROVE  e.dir[t][d].table # M!NoFrame /\ e.count[e.dir[t][d].table] = 1
  <2>1. s.dir[t][d].table # M!NoFrame /\ s.count[s.dir[t][d].table] = 1 /\ s.dir[t][d].table \in M!Frames
    BY <1>1, <1>8, <1>15 DEF Alone, IsMemory
  <2>2. s.dir[t][d].table.for = "table"
    BY <1>1, <2>1 DEF InPlace
  <2> QED BY <2>1, <2>2, <1>8, <1>14
<1>16. Sound(e)
  BY <1>8, <1>10, <1>11, <1>12, <1>13, <1>15, SoundAfter
<1>17. \A f \in M!Frames : e.count[f] # 0 => s.count[f] # 0 /\ e.data[f] = s.data[f]
  BY <1>5, <1>8
<1>18. ASSUME NEW q \in M!Pages, Own(s, t, q) PROVE Own(e, t, q)
  <2>1. M!TableOf(e, t, q) = M!TableOf(s, t, q)
    BY <1>8 DEF M!TableOf
  <2> QED BY <2>1, <1>14, <1>18, HeldFacts DEF Own
<1> QED BY <1>3, <1>8, <1>9, <1>16, <1>17, <1>18 DEF e

\* copy_on_write of the page table for page p.
LEMMA CowTableFacts ==
  ASSUME NEW s, Sound(s), NEW t \in Procs, NEW p \in M!Pages, M!TableOf(s, t, p) # M!NoFrame
  PROVE  LET e == M!CowTable(s, t, p)
         IN /\ Sound(e) /\ e.data = s.data /\ e.halt = s.halt
            /\ \A u \in Procs \ {t} : e.dir[u] = s.dir[u]
            /\ \A u \in Procs, q \in M!Pages : M!EntryOf(e, u, q) = M!EntryOf(s, u, q)
            /\ M!TableOf(e, t, p) # M!NoFrame /\ Own(e, t, p)
            /\ \A f \in M!Frames : f.for = "page" => e.count[f] = s.count[f]
<1> DEFINE d == M!DirOf(p)
           f == M!FreeFrame(s, "table", d)
           old == M!TableOf(s, t, p)
           e == M!CowTable(s, t, p)
<1>1. IsMemory(s) /\ InPlace(s) /\ Counted(s) /\ Clean(s) /\ Alone(s)
  BY DEF Sound
<1>2. d \in Dirs
  BY PageFacts
<1>3. old \in M!Frames /\ old.for = "table" /\ old.nr = d /\ Holds(s, t, old)
  BY HeldFacts
<1>4. s.dir[t][d].table = old /\ s.dir[t][d] \in [table : M!Frames \cup {M!NoFrame}, write : BOOLEAN]
  BY <1>1, <1>2 DEF M!TableOf, IsMemory
<1>5. CASE s.dir[t][d].write
  <2>1. e = s
    BY <1>5 DEF M!CowTable
  <2>2. s.count[old] = 1
    BY <1>1, <1>2, <1>4, <1>5 DEF Alone
  <2> QED BY <2>1, <2>2 DEF Own
<1>6. CASE ~ s.dir[t][d].write /\ s.count[old] = 1
  <2> DEFINE dir == [s.dir[t] EXCEPT ![d].write = TRUE]
  <2>1. e = [s EXCEPT !.dir = [s.dir EXCEPT ![t] = dir]]
    BY <1>1, <1>4, <1>6 DEF M!CowTable, IsMemory
  <2>2. /\ dir \in [Dirs -> [table : M!Frames \cup {M!NoFrame}, write : BOOLEAN]]
        /\ dir[d].table = old
        /\ \A x \in Dirs : dir[x].table = s.dir[t][x].table /\ (x # d => dir[x] = s.dir[t][x])
    BY <1>1, <1>2, <1>4 DEF IsMemory
  <2> HIDE DEF dir, e
  <2>3. /\ IsMemory(e) /\ e.count = s.count /\ e.data = s.data /\ e.table = s.table /\ e.halt = s.halt
        /\ e.dir[t] = dir /\ \A u \in Procs \ {t} : e.dir[u] = s.dir[u]
    BY <1>1, <2>1, <2>2 DEF IsMemory
  <2>4. \A u \in Procs, x \in Dirs : e.dir[u][x].table = s.dir[u][x].table
    BY <2>2, <2>3
  <2>5. \A u \in Procs, q \in M!Pages : M!TableOf(e, u, q) = M!TableOf(s, u, q)
    BY <2>4, PageFacts DEF M!TableOf
  <2>6. \A u \in Procs, q \in M!Pages : M!EntryOf(e, u, q) = M!EntryOf(s, u, q)
    BY <2>3, <2>5 DEF M!EntryOf
  <2>7. InPlace(e) /\ Clean(e)
    BY <1>1, <2>3, <2>4, <2>6 DEF InPlace, Clean, M!Present
  <2>8. \A g \in M!Frames : Holds(e, t, g) <=> Holds(s, t, g)
    BY <2>4, <2>6, FrameFacts DEF Holds
  <2>9. Recounts(s, e, t) /\ Others(s, e, t)
    BY <2>3, <2>6, <2>8 DEF Recounts, Others
  <2>10. \A x \in Dirs : e.dir[t][x].write => e.dir[t][x].table # M!NoFrame /\ e.count[e.dir[t][x].table] = 1
    <3>1. \A x \in Dirs : x # d /\ dir[x].write => dir[x].table # M!NoFrame /\ s.count[dir[x].table] = 1
      BY <1>1, <2>2 DEF Alone
    <3>2. dir[d].table # M!NoFrame /\ s.count[dir[d].table] = 1
      BY <1>6, <2>2
    <3> QED BY <3>1, <3>2, <2>3
  <2>11. Sound(e)
    BY <2>3, <2>7, <2>9, <2>10, SoundAfter
  <2>12. M!TableOf(e, t, p) # M!NoFrame /\ Own(e, t, p)
    BY <1>6, <2>3, <2>5 DEF Own
  <2> QED BY <2>3, <2>6, <2>11, <2>12 DEF e
<1>7. CASE ~ s.dir[t][d].write /\ s.count[old] # 1
  <2>1. f \in M!Frames /\ f.for = "table" /\ f.nr = d /\ s.count[f] = 0
    <3>1. \A g \in M!Frames : g.for = "table" /\ g.nr = d /\ Holds(s, t, g) => g = old
      BY <1>4 DEF Holds
    <3> QED BY <1>1, <1>2, <1>7, <3>1, FreeFrameFacts
  <2>2. s.count[old] - 1 \in Nat \ {0} /\ f # M!NoFrame /\ f # old
    BY <1>1, <1>3, <1>7, <2>1, CountFacts, FrameFacts
  <2> DEFINE got == [g \in M!Frames |-> IF g \in {f} THEN 1 ELSE s.count[g]]
             count == [got EXCEPT ![old] = @ - 1]
             table == [s.table EXCEPT ![f] = s.table[old]]
             dir == [s.dir[t] EXCEPT ![d] = [table |-> f, write |-> TRUE]]
  <2>3. M!Get(s, {f}) = [s EXCEPT !.count = got]
    BY DEF M!Get
  <2>4. e = [M!Get(s, {f}) EXCEPT !.table[f] = s.table[old], !.count[old] = @ - 1,
                                  !.dir[t][d] = [table |-> f, write |-> TRUE]]
    BY <1>4, <1>7 DEF M!CowTable
  <2> HIDE DEF f, old, d, e, got
  <2>5. e = [[[s EXCEPT !.count = count] EXCEPT !.table = table] EXCEPT !.dir = [s.dir EXCEPT ![t] = dir]]
    BY <2>3, <2>4, <1>1 DEF IsMemory
  <2>6. \A g \in M!Frames : /\ g = f => got[g] = 1
                            /\ g # f => got[g] = s.count[g]
    BY DEF got
  <2>7. got \in [M!Frames -> Nat]
    BY <1>1 DEF got, IsMemory
  <2>8. /\ count \in [M!Frames -> Nat] /\ count[f] = 1 /\ count[old] = s.count[old] - 1
        /\ \A g \in M!Frames \ {f, old} : count[g] = s.count[g]
    BY <1>3, <2>1, <2>2, <2>6, <2>7
  <2>9. /\ table \in [M!Frames -> [M!Slots -> Entry]] /\ table[f] = s.table[old]
        /\ \A g \in M!Frames \ {f} : table[g] = s.table[g]
    BY <1>1, <1>3, <2>1 DEF IsMemory
  <2>10. /\ dir \in [Dirs -> [table : M!Frames \cup {M!NoFrame}, write : BOOLEAN]]
         /\ dir[d].table = f /\ \A x \in Dirs \ {d} : dir[x] = s.dir[t][x]
    BY <1>1, <1>2, <2>1 DEF IsMemory
  <2> HIDE DEF count, table, dir
  <2>11. /\ IsMemory(e) /\ e.count = count /\ e.data = s.data /\ e.table = table /\ e.halt = s.halt
         /\ e.dir[t] = dir /\ \A u \in Procs \ {t} : e.dir[u] = s.dir[u]
    BY <1>1, <2>5, <2>8, <2>9, <2>10 DEF IsMemory
  <2>12. \A u \in Procs, q \in M!Pages : M!TableOf(s, u, q) # f
    BY <1>1, <2>1, <2>2, HeldFacts, FreeHeldByNone
  <2>13. ASSUME NEW u \in Procs, NEW q \in M!Pages PROVE M!EntryOf(e, u, q) = M!EntryOf(s, u, q)
    <3>1. M!DirOf(q) \in Dirs
      BY PageFacts
    <3>2. CASE u = t /\ M!DirOf(q) = d
      <4>1. M!TableOf(e, u, q) = f /\ M!TableOf(s, u, q) = old
        BY <3>1, <3>2, <1>4, <2>10, <2>11 DEF M!TableOf
      <4>2. old # M!NoFrame
        BY DEF old
      <4> QED BY <4>1, <4>2, <2>2, <2>9, <2>11 DEF M!EntryOf
    <3>3. CASE ~ (u = t /\ M!DirOf(q) = d)
      <4>1. M!TableOf(e, u, q) = M!TableOf(s, u, q)
        BY <3>1, <3>3, <2>10, <2>11 DEF M!TableOf
      <4>2. M!TableOf(s, u, q) \in M!Frames \cup {M!NoFrame}
        BY <1>1, EntryFacts
      <4> QED BY <4>1, <4>2, <2>9, <2>11, <2>12 DEF M!EntryOf
    <3> QED BY <3>2, <3>3
  <2>14. InPlace(e)
    <3>1. ASSUME NEW u \in Procs, NEW x \in Dirs, e.dir[u][x].table # M!NoFrame
          PROVE  e.dir[u][x].table.for = "table" /\ e.dir[u][x].table.nr = x
      <4>1. CASE u = t /\ x = d
        BY <4>1, <2>1, <2>10, <2>11
      <4>2. CASE ~ (u = t /\ x = d)
        BY <4>2, <3>1, <1>1, <2>10, <2>11 DEF InPlace
      <4> QED BY <4>1, <4>2
    <3>2. \A u \in Procs, q \in M!Pages : M!Present(e, u, q) =>
            M!EntryOf(e, u, q).frame.for = "page" /\ M!EntryOf(e, u, q).frame.nr = q
      BY <1>1, <2>13 DEF InPlace, M!Present
    <3> QED BY <3>1, <3>2 DEF InPlace
  <2>15. Clean(e)
    <3> SUFFICES ASSUME NEW g \in M!Frames, e.count[g] = 0 PROVE e.table[g] = M!NoTable /\ e.data[g] = 0
      BY DEF Clean
    <3>0. count[old] # 0 /\ count[f] # 0 /\ count[g] = 0
      BY <2>2, <2>8, <2>11
    <3>1. g # f /\ g # old
      BY <3>0
    <3> QED BY <3>1, <1>1, <2>8, <2>9, <2>11 DEF Clean
  <2>16. Recounts(s, e, t)
    <3> SUFFICES ASSUME NEW g \in M!Frames
                 PROVE  /\ (Holds(e, t, g) <=> Holds(s, t, g)) => e.count[g] = s.count[g]
                        /\ Holds(e, t, g) /\ ~ Holds(s, t, g) => s.count[g] = 0 /\ e.count[g] = 1
                        /\ ~ Holds(e, t, g) /\ Holds(s, t, g) => e.count[g] = s.count[g] - 1
      BY DEF Recounts
    <3>1. CASE g = f
      <4>1. ~ Holds(s, t, f) /\ Holds(e, t, f)
        BY <1>1, <2>1, <2>10, <2>11, FreeHeldByNone DEF Holds
      <4> QED BY <3>1, <4>1, <2>1, <2>8, <2>11
    <3>2. CASE g = old
      <4>1. Holds(s, t, old) /\ ~ Holds(e, t, old)
        BY <1>3, <2>2, <2>10, <2>11 DEF Holds
      <4> QED BY <3>2, <4>1, <2>8, <2>11
    <3>3. CASE g # f /\ g # old
      <4>1. CASE g.for = "page"
        BY <4>1, <3>3, <2>8, <2>11, <2>13, FrameFacts DEF Holds
      <4>2. CASE g.for = "table"
        <5>1. g.nr \in Dirs
          BY <4>2, FrameFacts
        <5>2. g.nr = d => ~ Holds(e, t, g) /\ ~ Holds(s, t, g)
          BY <4>2, <3>3, <1>4, <2>10, <2>11 DEF Holds
        <5>3. g.nr # d => (Holds(e, t, g) <=> Holds(s, t, g))
          BY <4>2, <5>1, <2>10, <2>11 DEF Holds
        <5> QED BY <3>3, <5>2, <5>3, <2>8, <2>11
      <4> QED BY <4>1, <4>2, FrameFacts
    <3> QED BY <3>1, <3>2, <3>3
  <2>17. Others(s, e, t)
    BY <2>11, <2>13 DEF Others
  <2>18. ASSUME NEW x \in Dirs, e.dir[t][x].write
         PROVE  e.dir[t][x].table # M!NoFrame /\ e.count[e.dir[t][x].table] = 1
    <3>1. CASE x = d
      BY <3>1, <2>2, <2>8, <2>10, <2>11
    <3>2. CASE x # d
      <4> DEFINE g == s.dir[t][x].table
      <4>1. e.dir[t][x] = s.dir[t][x] /\ s.dir[t][x].write
        BY <3>2, <2>10, <2>11, <2>18
      <4>2. g # M!NoFrame /\ s.count[g] = 1 /\ g \in M!Frames /\ g.nr = x
        BY <4>1, <1>1 DEF Alone, InPlace, IsMemory
      <4>3. g # f /\ g # old
        BY <4>2, <3>2, <1>3, <2>1
      <4> QED BY <4>1, <4>2, <4>3, <2>8, <2>11
    <3> QED BY <3>1, <3>2
  <2>19. Sound(e)
    BY <2>11, <2>14, <2>15, <2>16, <2>17, <2>18, SoundAfter
  <2>20. M!TableOf(e, t, p) # M!NoFrame /\ Own(e, t, p)
    BY <2>2, <2>8, <2>10, <2>11 DEF Own, M!TableOf, d
  <2>21. \A g \in M!Frames : g.for = "page" => e.count[g] = s.count[g]
    BY <1>3, <2>1, <2>8, <2>11
  <2> QED BY <2>11, <2>13, <2>19, <2>20, <2>21 DEF e
<1> QED
  <2> HIDE DEF e
  <2> QED BY <1>5, <1>6, <1>7 DEF e

\* copy_on_write of page p, once its page table is the task's own.
LEMMA CowPageFacts ==
  ASSUME NEW s, Sound(s), NEW t \in Procs, NEW p \in M!Pages, M!Present(s, t, p), Own(s, t, p)
  PROVE  LET e == M!CowPage(s, t, p)
             o == M!EntryOf(s, t, p)
             n == M!EntryOf(e, t, p)
         IN /\ Sound(e) /\ e.dir = s.dir /\ e.halt = s.halt
            /\ \A u \in Procs, q \in M!Pages : u # t \/ q # p => M!EntryOf(e, u, q) = M!EntryOf(s, u, q)
            /\ n.frame # M!NoFrame /\ n.write /\ n.shared = o.shared
            /\ e.data[n.frame] = s.data[o.frame]
            /\ o.write => n = o
            /\ ~ o.write => e.count[n.frame] = 1
            /\ n.frame = o.frame \/ s.count[n.frame] = 0
            /\ \A f \in M!Frames : s.count[f] # 0 => e.data[f] = s.data[f]
            /\ \A q \in M!Pages : Own(s, t, q) => Own(e, t, q)
<1> DEFINE f == M!FreeFrame(s, "page", p)
           e == M!CowPage(s, t, p)
           o == M!EntryOf(s, t, p)
           n == M!EntryOf(e, t, p)
<1>1. IsMemory(s) /\ InPlace(s) /\ Counted(s) /\ Clean(s) /\ Alone(s)
  BY DEF Sound
<1>2. /\ o \in Entry /\ o.frame \in M!Frames /\ o.frame.for = "page" /\ o.frame.nr = p
      /\ Holds(s, t, o.frame) /\ M!TableOf(s, t, p) # M!NoFrame /\ o.frame # M!NoFrame
  BY <1>1, HeldFacts, EntryFacts, FrameFacts
<1>3. CASE o.write
  <2>1. e = s
    BY <1>3 DEF M!CowPage
  <2>2. n = o
    BY <2>1
  <2> HIDE DEF e
  <2> QED BY <1>2, <1>3, <2>1, <2>2 DEF e
<1>4. CASE ~ o.write /\ s.count[o.frame] = 1
  <2> DEFINE es == [q \in {p} |-> [o EXCEPT !.write = TRUE]]
  <2>1. e = M!SetEntries(s, t, es)
    BY <1>4 DEF M!CowPage, M!SetEntry
  <2>2. /\ DOMAIN es = {p} /\ es[p] \in Entry /\ es[p].frame = o.frame
        /\ es[p].write /\ es[p].shared = o.shared
    BY <1>2 DEF Entry
  <2> HIDE DEF es, o, e
  <2>3. /\ IsMemory(e) /\ InPlace(e)
        /\ e.count = s.count /\ e.data = s.data /\ e.dir = s.dir /\ e.halt = s.halt
        /\ \A u \in Procs, q \in M!Pages :
             M!EntryOf(e, u, q) = IF u = t /\ q \in DOMAIN es THEN es[q] ELSE M!EntryOf(s, u, q)
        /\ \A g \in M!Frames : s.count[g] = 0 => e.table[g] = M!NoTable
    <3>1. \A q \in DOMAIN es : /\ es[q] \in Entry /\ Own(s, t, q) /\ M!TableOf(s, t, q) # M!NoFrame
                               /\ es[q].frame # M!NoFrame => es[q].frame.for = "page" /\ es[q].frame.nr = q
      BY <1>2, <2>2
    <3>2. DOMAIN es \subseteq M!Pages
      BY <2>2
    <3> QED BY <1>1, <2>1, <3>1, <3>2, SetMine
  <2>4. M!EntryOf(e, t, p) = es[p]
    BY <2>2, <2>3
  <2>5. \A u \in Procs, q \in M!Pages : /\ u # t \/ q # p => M!EntryOf(e, u, q) = M!EntryOf(s, u, q)
                                        /\ M!EntryOf(e, u, q).frame = M!EntryOf(s, u, q).frame
    BY <2>2, <2>3 DEF o
  <2>6. Clean(e)
    BY <1>1, <2>3 DEF Clean
  <2>7. Others(s, e, t)
    BY <2>3, <2>5 DEF Others
  <2>8. \A g \in M!Frames : Holds(e, t, g) <=> Holds(s, t, g)
    BY <2>3, <2>5, FrameFacts DEF Holds
  <2>9. Recounts(s, e, t)
    BY <2>3, <2>8 DEF Recounts
  <2>10. Sound(e)
    BY <1>1, <2>3, <2>6, <2>7, <2>9, SoundAfter DEF Alone
  <2>11. \A q \in M!Pages : Own(s, t, q) => Own(e, t, q)
    BY <2>3 DEF Own, M!TableOf
  <2>12. n.frame = o.frame /\ n.write /\ n.shared = o.shared
    BY <2>2, <2>4
  <2> QED BY <1>2, <1>4, <2>3, <2>5, <2>10, <2>11, <2>12 DEF e, o
<1>5. CASE ~ o.write /\ s.count[o.frame] # 1
  <2>1. f \in M!Frames /\ f.for = "page" /\ f.nr = p /\ s.count[f] = 0
    <3>1. \A g \in M!Frames : g.for = "page" /\ g.nr = p /\ Holds(s, t, g) => g = o.frame
      BY DEF Holds
    <3> QED BY <1>1, <1>5, <3>1, FreeFrameFacts
  <2>2. s.count[o.frame] - 1 \in Nat \ {0} /\ f # M!NoFrame /\ f # o.frame
    BY <1>1, <1>2, <1>5, <2>1, CountFacts, FrameFacts
  <2> DEFINE got == [g \in M!Frames |-> IF g \in {f} THEN 1 ELSE s.count[g]]
             count == [got EXCEPT ![o.frame] = @ - 1]
             data == [s.data EXCEPT ![f] = s.data[o.frame]]
             v == [[s EXCEPT !.count = count] EXCEPT !.data = data]
             es == [q \in {p} |-> [o EXCEPT !.frame = f, !.write = TRUE]]
  <2>3. M!Get(s, {f}) = [s EXCEPT !.count = got]
    BY DEF M!Get
  <2>4. e = M!SetEntries([M!Get(s, {f}) EXCEPT !.data[f] = s.data[o.frame], !.count[o.frame] = @ - 1], t, es)
    BY <1>5 DEF M!CowPage, M!SetEntry
  <2>5. /\ DOMAIN es = {p} /\ es[p] \in Entry /\ es[p].frame = f
        /\ es[p].write /\ es[p].shared = o.shared
    BY <1>2, <2>1, <2>2 DEF Entry
  <2> HIDE DEF es, o, e, f, got
  <2>6. e = M!SetEntries(v, t, es)
    <3>1. [M!Get(s, {f}) EXCEPT !.data[f] = s.data[o.frame], !.count[o.frame] = @ - 1] = v
      BY <1>1, <2>3 DEF IsMemory
    <3> QED BY <2>4, <3>1
  <2>7. \A g \in M!Frames : /\ g = f => got[g] = 1
                            /\ g # f => got[g] = s.count[g]
    BY DEF got
  <2>8. got \in [M!Frames -> Nat]
    BY <1>1 DEF got, IsMemory
  <2>9. /\ count \in [M!Frames -> Nat] /\ count[f] = 1 /\ count[o.frame] = s.count[o.frame] - 1
        /\ \A g \in M!Frames \ {f, o.frame} : count[g] = s.count[g]
    BY <1>2, <2>1, <2>2, <2>7, <2>8
  <2>10. /\ data \in [M!Frames -> Procs \cup {0}] /\ data[f] = s.data[o.frame]
         /\ \A g \in M!Frames \ {f} : data[g] = s.data[g]
    BY <1>1, <1>2, <2>1 DEF IsMemory
  <2> HIDE DEF count, data
  <2>11. /\ IsMemory(v) /\ v.dir = s.dir /\ v.table = s.table /\ v.count = count /\ v.data = data
         /\ v.halt = s.halt
    BY <1>1, <2>9, <2>10 DEF IsMemory
  <2> HIDE DEF v
  <2>12. /\ IsMemory(e) /\ InPlace(e)
         /\ e.count = v.count /\ e.data = v.data /\ e.dir = s.dir /\ e.halt = v.halt
         /\ \A u \in Procs, q \in M!Pages :
              M!EntryOf(e, u, q) = IF u = t /\ q \in DOMAIN es THEN es[q] ELSE M!EntryOf(s, u, q)
         /\ \A g \in M!Frames : s.count[g] = 0 => e.table[g] = M!NoTable
    <3>1. \A q \in DOMAIN es : /\ es[q] \in Entry /\ Own(s, t, q) /\ M!TableOf(s, t, q) # M!NoFrame
                               /\ es[q].frame # M!NoFrame => es[q].frame.for = "page" /\ es[q].frame.nr = q
      BY <1>2, <2>1, <2>5
    <3>2. DOMAIN es \subseteq M!Pages
      BY <2>5
    <3> QED BY <2>6, <2>11, <3>1, <3>2, SetMine
  <2>13. M!EntryOf(e, t, p) = es[p]
    BY <2>5, <2>12
  <2>14. \A u \in Procs, q \in M!Pages : u # t \/ q # p => M!EntryOf(e, u, q) = M!EntryOf(s, u, q)
    BY <2>5, <2>12
  <2>15. Clean(e)
    <3> SUFFICES ASSUME NEW g \in M!Frames, e.count[g] = 0 PROVE e.table[g] = M!NoTable /\ e.data[g] = 0
      BY DEF Clean
    <3>1. count[o.frame] # 0 /\ count[f] # 0 /\ count[g] = 0
      BY <2>2, <2>9, <2>11, <2>12
    <3>2. g # f /\ g # o.frame
      BY <3>1
    <3>3. s.count[g] = 0
      BY <3>1, <3>2, <2>9
    <3> QED BY <3>2, <3>3, <1>1, <2>10, <2>11, <2>12 DEF Clean
  <2>16. Others(s, e, t)
    BY <2>12, <2>14 DEF Others
  <2>17. Recounts(s, e, t)
    <3> SUFFICES ASSUME NEW g \in M!Frames
                 PROVE  /\ (Holds(e, t, g) <=> Holds(s, t, g)) => e.count[g] = s.count[g]
                        /\ Holds(e, t, g) /\ ~ Holds(s, t, g) => s.count[g] = 0 /\ e.count[g] = 1
                        /\ ~ Holds(e, t, g) /\ Holds(s, t, g) => e.count[g] = s.count[g] - 1
      BY DEF Recounts
    <3>1. CASE g = f
      <4>1. ~ Holds(s, t, f) /\ Holds(e, t, f)
        BY <1>1, <2>1, <2>5, <2>13, FreeHeldByNone DEF Holds
      <4> QED BY <3>1, <4>1, <2>1, <2>9, <2>11, <2>12
    <3>2. CASE g = o.frame
      <4>1. Holds(s, t, g) /\ ~ Holds(e, t, g)
        BY <3>2, <1>2, <2>2, <2>5, <2>13 DEF Holds, o
      <4> QED BY <3>2, <4>1, <2>9, <2>11, <2>12
    <3>3. CASE g # f /\ g # o.frame
      <4>1. CASE g.for = "table"
        <5>1. Holds(e, t, g) <=> Holds(s, t, g)
          BY <4>1, <2>12 DEF Holds
        <5> QED BY <5>1, <3>3, <2>9, <2>11, <2>12
      <4>2. CASE g.for = "page"
        <5>1. g.nr \in M!Pages
          BY <4>2, FrameFacts
        <5>2. g.nr = p => ~ Holds(e, t, g) /\ ~ Holds(s, t, g)
          BY <4>2, <3>3, <2>5, <2>13 DEF Holds, o
        <5>3. g.nr # p => (Holds(e, t, g) <=> Holds(s, t, g))
          BY <4>2, <5>1, <2>14 DEF Holds
        <5> QED BY <3>3, <5>2, <5>3, <2>9, <2>11, <2>12
      <4> QED BY <4>1, <4>2, FrameFacts
    <3> QED BY <3>1, <3>2, <3>3
  <2>18. \A g \in M!Frames : g.for = "table" => e.count[g] = s.count[g]
    BY <1>2, <2>1, <2>9, <2>11, <2>12
  <2>19. ASSUME NEW x \in Dirs, e.dir[t][x].write
         PROVE  e.dir[t][x].table # M!NoFrame /\ e.count[e.dir[t][x].table] = 1
    <3> DEFINE g == s.dir[t][x].table
    <3>1. g # M!NoFrame /\ s.count[g] = 1 /\ g \in M!Frames /\ g.for = "table"
      BY <2>12, <2>19, <1>1 DEF Alone, InPlace, IsMemory
    <3> QED BY <3>1, <2>12, <2>18
  <2>20. Sound(e)
    BY <2>12, <2>15, <2>16, <2>17, <2>19, SoundAfter
  <2>21. ASSUME NEW q \in M!Pages, Own(s, t, q) PROVE Own(e, t, q)
    <3>1. M!TableOf(e, t, q) = M!TableOf(s, t, q)
      BY <2>12 DEF M!TableOf
    <3> QED BY <3>1, <2>18, <2>21, HeldFacts DEF Own
  <2>22. n.frame = f /\ n.write /\ n.shared = o.shared
    BY <2>5, <2>13
  <2>23. \A g \in M!Frames : s.count[g] # 0 => e.data[g] = s.data[g]
    BY <2>1, <2>10, <2>11, <2>12
  <2>24. e.data[f] = s.data[o.frame] /\ e.count[f] = 1
    BY <2>9, <2>10, <2>11, <2>12
  <2>25. e.dir = s.dir /\ e.halt = s.halt
    BY <2>11, <2>12
  <2> QED BY <1>5, <2>1, <2>2, <2>14, <2>20, <2>21, <2>22, <2>23, <2>24, <2>25 DEF e, o
<1> QED
  <2> HIDE DEF e, o
  <2> QED BY <1>3, <1>4, <1>5 DEF e, o

\* A store changes what the frames of the pages hold, and nothing else.
LEMMA StoresFacts ==
  ASSUME NEW s, Sound(s), NEW t \in Procs, NEW pages \in SUBSET M!Pages,
         \A p \in pages : M!Present(s, t, p)
  PROVE  LET e == M!Stores(s, t, pages)
         IN /\ Sound(e) /\ e.dir = s.dir /\ e.count = s.count /\ e.halt = s.halt
            /\ \A u \in Procs, q \in M!Pages : M!EntryOf(e, u, q) = M!EntryOf(s, u, q)
            /\ \A f \in M!Frames : e.data[f] =
                 IF \E p \in pages : M!EntryOf(s, t, p).frame = f /\ ~ M!EntryOf(s, t, p).shared
                 THEN t ELSE s.data[f]
<1> DEFINE Hit(f) == \E p \in pages : M!EntryOf(s, t, p).frame = f /\ ~ M!EntryOf(s, t, p).shared
           data == [f \in M!Frames |-> IF Hit(f) THEN t ELSE s.data[f]]
           e == M!Stores(s, t, pages)
<1>1. IsMemory(s) /\ InPlace(s) /\ Counted(s) /\ Clean(s) /\ Alone(s)
  BY DEF Sound
<1>2. e = [s EXCEPT !.data = data]
  BY DEF M!Stores
<1> HIDE DEF e
<1>3. \A f \in M!Frames : Hit(f) => s.count[f] # 0
  BY <1>1, HeldFacts, CountFacts
<1> HIDE DEF Hit
<1>4. data \in [M!Frames -> Procs \cup {0}] /\ \A f \in M!Frames : data[f] = IF Hit(f) THEN t ELSE s.data[f]
  BY <1>1 DEF IsMemory
<1> HIDE DEF data
<1>5. /\ IsMemory(e) /\ e.dir = s.dir /\ e.count = s.count /\ e.halt = s.halt /\ e.table = s.table
      /\ e.data = data
  BY <1>1, <1>2, <1>4 DEF IsMemory
<1>6. \A u \in Procs, q \in M!Pages : M!EntryOf(e, u, q) = M!EntryOf(s, u, q)
  BY <1>5 DEF M!EntryOf, M!TableOf
<1>7. InPlace(e) /\ Alone(e)
  BY <1>1, <1>5, <1>6 DEF InPlace, Alone, M!Present
<1>8. Clean(e)
  BY <1>1, <1>3, <1>4, <1>5 DEF Clean
<1>9. \A f \in M!Frames : Holders(e, f) = Holders(s, f)
  BY <1>5, <1>6, FrameFacts DEF Holders, Holds
<1>10. Counted(e)
  BY <1>1, <1>5, <1>9 DEF Counted
<1>11. Sound(e)
  BY <1>5, <1>7, <1>8, <1>10 DEF Sound
<1> QED BY <1>4, <1>5, <1>6, <1>11 DEF e, Hit

\* The page tables and the frames of a task are what it holds.
LEMMA HadFacts ==
  ASSUME NEW s, Sound(s), NEW t \in Procs
  PROVE  M!TablesOf(s, t) \cup M!FramesOf(s, t, M!Pages) = {f \in M!Frames : Holds(s, t, f)}
<1>1. IsMemory(s) /\ InPlace(s)
  BY DEF Sound
<1>2. ASSUME NEW f \in M!TablesOf(s, t) PROVE f \in M!Frames /\ Holds(s, t, f)
  <2>1. PICK d \in Dirs : f = s.dir[t][d].table /\ f # M!NoFrame
    BY <1>2 DEF M!TablesOf
  <2>2. f.for = "table" /\ f.nr = d
    BY <1>1, <2>1 DEF InPlace
  <2> QED BY <1>1, <2>1, <2>2 DEF IsMemory, Holds
<1>3. ASSUME NEW f \in M!FramesOf(s, t, M!Pages) PROVE f \in M!Frames /\ Holds(s, t, f)
  <2>1. PICK p \in M!Pages : f = M!EntryOf(s, t, p).frame /\ f # M!NoFrame
    BY <1>3 DEF M!FramesOf
  <2> QED BY <2>1, HeldFacts DEF M!Present
<1>4. ASSUME NEW f \in M!Frames, Holds(s, t, f)
      PROVE  f \in M!TablesOf(s, t) \cup M!FramesOf(s, t, M!Pages)
  BY <1>4, FrameFacts DEF Holds, M!TablesOf, M!FramesOf
<1> QED BY <1>2, <1>3, <1>4

\* copy_pde: parent and child hold the same frames.
LEMMA CopyFacts ==
  ASSUME NEW s, Sound(s), NEW t \in Procs, NEW c \in Procs \ {t}, s.dir[c] = M!NoDir
  PROVE  LET e == M!CopyPde(s, t, c)
         IN /\ Sound(e) /\ e.data = s.data /\ e.halt = s.halt
            /\ \A u \in Procs \ {t, c} : e.dir[u] = s.dir[u]
            /\ \A u \in Procs \ {t, c}, q \in M!Pages :
                 M!EntryOf(e, u, q) \in {M!EntryOf(s, u, q), M!Protect(M!EntryOf(s, u, q))}
            /\ \A q \in M!Pages : /\ M!EntryOf(e, t, q) = M!Protect(M!EntryOf(s, t, q))
                                  /\ M!EntryOf(e, c, q) = M!Protect(M!EntryOf(s, t, q))
            /\ \A f \in M!Frames : e.count[f] = IF Holds(s, t, f) THEN s.count[f] + 1 ELSE s.count[f]
<1> DEFINE dir == [d \in Dirs |-> [s.dir[t][d] EXCEPT !.write = FALSE]]
           had == M!TablesOf(s, t) \cup M!FramesOf(s, t, M!Pages)
           es == [p \in M!Pages |-> M!Protect(M!EntryOf(s, t, p))]
           v == M!SetEntries(s, t, es)
           count == [f \in M!Frames |-> IF f \in had THEN s.count[f] + 1 ELSE s.count[f]]
           dirs == [[s.dir EXCEPT ![t] = dir] EXCEPT ![c] = dir]
           e == M!CopyPde(s, t, c)
<1>1. IsMemory(s) /\ InPlace(s) /\ Counted(s) /\ Clean(s) /\ Alone(s)
  BY DEF Sound
<1>2. had = {f \in M!Frames : Holds(s, t, f)}
  BY HadFacts
<1>3. ASSUME NEW n \in Entry
      PROVE  /\ M!Protect(n) \in Entry /\ M!Protect(n).frame = n.frame /\ M!Protect(n).shared = n.shared
             /\ M!Protect(M!NoEntry) = M!NoEntry
  BY DEF M!Protect, Entry, M!NoEntry
<1>4. DOMAIN es = M!Pages /\ \A p \in M!Pages : es[p] = M!Protect(M!EntryOf(s, t, p))
  OBVIOUS
<1>5. e = [v EXCEPT !.count = [f \in M!Frames |-> IF f \in had THEN @[f] + 1 ELSE @[f]],
                    !.dir[t] = dir, !.dir[c] = dir]
  BY DEF M!CopyPde
<1>6. \A f \in M!Frames : /\ Holds(s, t, f) => count[f] = s.count[f] + 1
                          /\ ~ Holds(s, t, f) => count[f] = s.count[f]
  <2> HIDE DEF had
  <2> QED BY <1>2
<1>7. count \in [M!Frames -> Nat]
  <2> HIDE DEF had
  <2> QED BY <1>1 DEF IsMemory
<1>8. /\ dir \in [Dirs -> [table : M!Frames \cup {M!NoFrame}, write : BOOLEAN]]
      /\ \A d \in Dirs : dir[d].table = s.dir[t][d].table /\ ~ dir[d].write
  <2> DEFINE Cell(d) == [s.dir[t][d] EXCEPT !.write = FALSE]
  <2>1. ASSUME NEW d \in Dirs
        PROVE  /\ Cell(d) \in [table : M!Frames \cup {M!NoFrame}, write : BOOLEAN]
               /\ Cell(d).table = s.dir[t][d].table /\ Cell(d).write = FALSE
    <3>1. s.dir[t][d] \in [table : M!Frames \cup {M!NoFrame}, write : BOOLEAN]
      BY <1>1 DEF IsMemory
    <3> QED BY <3>1
  <2>2. dir = [d \in Dirs |-> Cell(d)]
    OBVIOUS
  <2> HIDE DEF Cell, dir
  <2> QED BY <2>1, <2>2
<1> HIDE DEF es, v, had, dir, e
<1>9. /\ IsMemory(v)
      /\ v.count = s.count /\ v.data = s.data /\ v.dir = s.dir /\ v.halt = s.halt
      /\ \A u \in Procs, q \in M!Pages :
           M!EntryOf(v, u, q) = IF /\ q \in DOMAIN es /\ M!TableOf(s, t, q) # M!NoFrame
                                   /\ M!TableOf(s, u, q) = M!TableOf(s, t, q)
                                THEN es[q] ELSE M!EntryOf(s, u, q)
      /\ \A f \in M!Frames : (\A p \in DOMAIN es : M!TableOf(s, t, p) # f) => v.table[f] = s.table[f]
  <2>1. DOMAIN es \subseteq M!Pages /\ \A p \in DOMAIN es : es[p] \in Entry
    BY <1>1, <1>3, <1>4, EntryFacts
  <2> QED BY <1>1, <2>1, SetFacts DEF v
<1>10. e = [[v EXCEPT !.count = count] EXCEPT !.dir = dirs]
  BY <1>5, <1>9 DEF IsMemory
<1> HIDE DEF count
<1>11. /\ dirs \in [Procs -> [Dirs -> [table : M!Frames \cup {M!NoFrame}, write : BOOLEAN]]]
       /\ dirs[t] = dir /\ dirs[c] = dir /\ \A u \in Procs \ {t, c} : dirs[u] = s.dir[u]
  BY <1>1, <1>8 DEF IsMemory
<1> HIDE DEF dirs
<1>12. /\ IsMemory(e) /\ e.count = count /\ e.data = s.data /\ e.table = v.table /\ e.halt = s.halt
       /\ e.dir[t] = dir /\ e.dir[c] = dir /\ \A u \in Procs \ {t, c} : e.dir[u] = s.dir[u]
  BY <1>7, <1>9, <1>10, <1>11 DEF IsMemory
<1>13. /\ \A u \in Procs \ {c}, d \in Dirs : e.dir[u][d].table = s.dir[u][d].table
       /\ \A d \in Dirs : e.dir[c][d].table = s.dir[t][d].table
  BY <1>8, <1>12
<1>14. /\ \A u \in Procs \ {c}, q \in M!Pages : M!TableOf(e, u, q) = M!TableOf(v, u, q)
       /\ \A q \in M!Pages : M!TableOf(e, c, q) = M!TableOf(v, t, q)
  BY <1>9, <1>13, PageFacts DEF M!TableOf
<1>15. /\ \A u \in Procs \ {c}, q \in M!Pages : M!EntryOf(e, u, q) = M!EntryOf(v, u, q)
       /\ \A q \in M!Pages : M!EntryOf(e, c, q) = M!EntryOf(v, t, q)
  BY <1>12, <1>14 DEF M!EntryOf
<1>16. ASSUME NEW q \in M!Pages PROVE M!EntryOf(v, t, q) = M!Protect(M!EntryOf(s, t, q))
  <2>1. M!TableOf(s, t, q) = M!NoFrame => M!EntryOf(s, t, q) = M!NoEntry
    BY DEF M!EntryOf
  <2> QED BY <1>3, <1>4, <1>9, <2>1, NoEntryFacts
<1>17. ASSUME NEW u \in Procs, NEW q \in M!Pages
       PROVE  M!EntryOf(v, u, q) \in {M!EntryOf(s, u, q), M!Protect(M!EntryOf(s, u, q))}
  <2>1. M!TableOf(s, u, q) = M!TableOf(s, t, q) => M!EntryOf(s, u, q) = M!EntryOf(s, t, q)
    BY DEF M!EntryOf
  <2> QED BY <2>1, <1>4, <1>9
<1>18. /\ \A u \in Procs \ {c}, q \in M!Pages : M!EntryOf(e, u, q).frame = M!EntryOf(s, u, q).frame
       /\ \A q \in M!Pages : M!EntryOf(e, c, q).frame = M!EntryOf(s, t, q).frame
  BY <1>1, <1>3, <1>15, <1>16, <1>17, EntryFacts
<1>19. InPlace(e)
  <2>1. \A u \in Procs, d \in Dirs : e.dir[u][d].table # M!NoFrame =>
          e.dir[u][d].table.for = "table" /\ e.dir[u][d].table.nr = d
    BY <1>1, <1>13 DEF InPlace
  <2>2. \A u \in Procs, q \in M!Pages : M!EntryOf(e, u, q).frame # M!NoFrame =>
          M!EntryOf(e, u, q).frame.for = "page" /\ M!EntryOf(e, u, q).frame.nr = q
    BY <1>1, <1>18 DEF InPlace, M!Present
  <2> QED BY <2>1, <2>2 DEF InPlace, M!Present
<1>20. /\ \A u \in Procs \ {c}, f \in M!Frames : Holds(e, u, f) <=> Holds(s, u, f)
       /\ \A f \in M!Frames : Holds(e, c, f) <=> Holds(s, t, f)
  BY <1>13, <1>18, FrameFacts DEF Holds
<1>21. \A f \in M!Frames : ~ Holds(s, c, f)
  <2>1. \A q \in M!Pages : M!TableOf(s, c, q) = M!NoFrame
    BY PageFacts DEF M!NoDir, M!TableOf
  <2>2. \A q \in M!Pages : M!EntryOf(s, c, q).frame = M!NoFrame
    BY <2>1, NoEntryFacts DEF M!EntryOf
  <2> QED BY <2>2, FrameFacts DEF Holds, M!NoDir
<1>22. Counted(e)
  <2>1. \A f \in M!Frames : /\ (Holds(e, c, f) <=> Holds(s, c, f)) => e.count[f] = s.count[f]
                            /\ Holds(e, c, f) /\ ~ Holds(s, c, f) => e.count[f] = s.count[f] + 1
                            /\ ~ Holds(e, c, f) /\ Holds(s, c, f) => e.count[f] = s.count[f] - 1
    BY <1>6, <1>12, <1>20, <1>21
  <2> QED BY <1>1, <1>20, <2>1, OneTask
<1>23. Clean(e)
  <2> SUFFICES ASSUME NEW f \in M!Frames, e.count[f] = 0 PROVE e.table[f] = M!NoTable /\ e.data[f] = 0
    BY DEF Clean
  <2>1. s.count[f] \in Nat
    BY <1>1 DEF IsMemory
  <2>2. s.count[f] = 0 /\ ~ Holds(s, t, f)
    <3>1. count[f] = 0
      BY <1>12
    <3>2. ~ Holds(s, t, f)
      BY <1>6, <2>1, <3>1
    <3> QED BY <1>6, <3>1, <3>2
  <2>3. \A p \in DOMAIN es : M!TableOf(s, t, p) # f
    BY <1>4, <2>2, HeldFacts, FrameFacts
  <2> QED BY <1>1, <1>9, <1>12, <2>2, <2>3 DEF Clean
<1>24. Alone(e)
  <2> SUFFICES ASSUME NEW u \in Procs, NEW d \in Dirs, e.dir[u][d].write
               PROVE  e.dir[u][d].table # M!NoFrame /\ e.count[e.dir[u][d].table] = 1
    BY DEF Alone
  <2>1. u \notin {t, c}
    BY <1>8, <1>12
  <2> DEFINE f == s.dir[u][d].table
  <2>2. e.dir[u][d].table = f /\ f # M!NoFrame /\ s.count[f] = 1 /\ f \in M!Frames
    BY <1>1, <1>12, <2>1 DEF Alone, IsMemory
  <2>3. Holds(s, u, f)
    BY <1>1, <2>2 DEF Holds, InPlace
  <2>4. ~ Holds(s, t, f)
    BY <1>1, <2>1, <2>2, <2>3, CountFacts
  <2> QED BY <1>6, <1>12, <2>2, <2>4
<1>25. Sound(e)
  BY <1>12, <1>19, <1>22, <1>23, <1>24 DEF Sound
<1>26. \A u \in Procs \ {t, c}, q \in M!Pages :
         M!EntryOf(e, u, q) \in {M!EntryOf(s, u, q), M!Protect(M!EntryOf(s, u, q))}
  BY <1>15, <1>17
<1>27. \A q \in M!Pages : /\ M!EntryOf(e, t, q) = M!Protect(M!EntryOf(s, t, q))
                          /\ M!EntryOf(e, c, q) = M!Protect(M!EntryOf(s, t, q))
  BY <1>15, <1>16
<1> QED BY <1>6, <1>12, <1>25, <1>26, <1>27 DEF e

\* free_pde: what the task held counts less, and what others hold is as it was.
LEMMA FreeFacts ==
  ASSUME NEW s, Sound(s), NEW t \in Procs
  PROVE  LET e == M!FreePde(s, t)
         IN /\ Sound(e) /\ e.halt = s.halt
            /\ e.dir[t] = M!NoDir /\ \A u \in Procs \ {t} : e.dir[u] = s.dir[u]
            /\ \A u \in Procs \ {t}, q \in M!Pages : M!EntryOf(e, u, q) = M!EntryOf(s, u, q)
            /\ \A q \in M!Pages : ~ M!Present(e, t, q)
            /\ \A f \in M!Frames : /\ e.count[f] # 0 => s.count[f] # 0 /\ e.data[f] = s.data[f]
                                   /\ ~ Holds(s, t, f) => e.count[f] = s.count[f]
<1> DEFINE had == M!TablesOf(s, t) \cup M!FramesOf(s, t, M!Pages)
           v == M!Put(s, had)
           e == M!FreePde(s, t)
<1>1. IsMemory(s) /\ InPlace(s) /\ Counted(s) /\ Clean(s) /\ Alone(s)
  BY DEF Sound
<1>2. had = {f \in M!Frames : Holds(s, t, f)}
  BY HadFacts
<1>3. \A f \in M!Frames : Holds(s, t, f) => s.count[f] \in Nat \ {0}
  BY <1>1, CountFacts
<1>4. e = [v EXCEPT !.dir[t] = M!NoDir]
  BY DEF M!FreePde
<1> HIDE DEF had, v, e
<1>5. /\ IsMemory(v) /\ v.dir = s.dir /\ v.halt = s.halt
      /\ \A f \in M!Frames \ had :
           v.count[f] = s.count[f] /\ v.data[f] = s.data[f] /\ v.table[f] = s.table[f]
      /\ \A f \in had : /\ v.count[f] = s.count[f] - 1
                        /\ v.count[f] # 0 => v.data[f] = s.data[f] /\ v.table[f] = s.table[f]
                        /\ v.count[f] = 0 => v.data[f] = 0 /\ v.table[f] = M!NoTable
  <2>1. had \in SUBSET M!Frames /\ \A f \in had : s.count[f] # 0
    BY <1>2, <1>3
  <2> QED BY <1>1, <2>1, PutFrames DEF v
<1>6. M!NoDir \in [Dirs -> [table : M!Frames \cup {M!NoFrame}, write : BOOLEAN]]
  BY DEF M!NoDir
<1>7. /\ IsMemory(e) /\ e.count = v.count /\ e.data = v.data /\ e.table = v.table /\ e.halt = s.halt
      /\ e.dir[t] = M!NoDir /\ \A u \in Procs \ {t} : e.dir[u] = s.dir[u]
  BY <1>4, <1>5, <1>6 DEF IsMemory
<1>8. \A q \in M!Pages : M!TableOf(e, t, q) = M!NoFrame /\ M!EntryOf(e, t, q) = M!NoEntry
  BY <1>7, PageFacts DEF M!NoDir, M!TableOf, M!EntryOf
<1>9. ASSUME NEW u \in Procs \ {t}, NEW f \in M!Frames, Holds(s, u, f)
      PROVE  /\ f \in had => e.count[f] # 0 /\ e.count[f] = s.count[f] - 1
             /\ f \notin had => e.count[f] = s.count[f]
             /\ e.table[f] = s.table[f] /\ e.data[f] = s.data[f]
  <2>1. CASE f \in had
    <3>1. Holds(s, t, f)
      BY <1>2, <2>1
    <3>2. s.count[f] # 1
      BY <1>1, <1>9, <3>1, CountFacts
    <3>3. s.count[f] - 1 \in Nat \ {0}
      BY <1>1, <3>1, <3>2, CountFacts
    <3>4. v.count[f] = s.count[f] - 1 /\ v.count[f] # 0
      BY <1>5, <2>1, <3>3
    <3> QED BY <1>5, <1>7, <2>1, <3>4
  <2>2. CASE f \notin had
    BY <1>5, <1>7, <2>2
  <2> QED BY <2>1, <2>2
<1>10. ASSUME NEW u \in Procs \ {t}, NEW q \in M!Pages PROVE M!EntryOf(e, u, q) = M!EntryOf(s, u, q)
  <2>1. M!TableOf(e, u, q) = M!TableOf(s, u, q)
    BY <1>7 DEF M!TableOf
  <2>2. M!TableOf(s, u, q) # M!NoFrame => e.table[M!TableOf(s, u, q)] = s.table[M!TableOf(s, u, q)]
    BY <1>9, HeldFacts
  <2> QED BY <2>1, <2>2 DEF M!EntryOf
<1>11. InPlace(e)
  <2>1. \A u \in Procs, d \in Dirs : e.dir[u][d].table # M!NoFrame =>
          e.dir[u][d].table.for = "table" /\ e.dir[u][d].table.nr = d
    BY <1>1, <1>7 DEF InPlace, M!NoDir
  <2>2. \A u \in Procs, q \in M!Pages : M!EntryOf(e, u, q).frame # M!NoFrame =>
          M!EntryOf(e, u, q).frame.for = "page" /\ M!EntryOf(e, u, q).frame.nr = q
    BY <1>1, <1>8, <1>10, NoEntryFacts DEF InPlace, M!Present
  <2> QED BY <2>1, <2>2 DEF InPlace, M!Present
<1>12. Clean(e)
  <2> SUFFICES ASSUME NEW f \in M!Frames, e.count[f] = 0 PROVE e.table[f] = M!NoTable /\ e.data[f] = 0
    BY DEF Clean
  <2> QED BY <1>1, <1>5, <1>7 DEF Clean
<1>13. \A f \in M!Frames : ~ Holds(e, t, f)
  BY <1>7, <1>8, NoEntryFacts, FrameFacts DEF Holds, M!NoDir
<1>14. \A u \in Procs \ {t}, f \in M!Frames : Holds(e, u, f) <=> Holds(s, u, f)
  BY <1>7, <1>10, FrameFacts DEF Holds
<1>15. Counted(e)
  <2>1. \A f \in M!Frames : /\ (Holds(e, t, f) <=> Holds(s, t, f)) => e.count[f] = s.count[f]
                            /\ Holds(e, t, f) /\ ~ Holds(s, t, f) => e.count[f] = s.count[f] + 1
                            /\ ~ Holds(e, t, f) /\ Holds(s, t, f) => e.count[f] = s.count[f] - 1
    BY <1>2, <1>5, <1>7, <1>13
  <2> QED BY <1>1, <1>14, <2>1, OneTask
<1>16. Alone(e)
  <2> SUFFICES ASSUME NEW u \in Procs, NEW d \in Dirs, e.dir[u][d].write
               PROVE  e.dir[u][d].table # M!NoFrame /\ e.count[e.dir[u][d].table] = 1
    BY DEF Alone
  <2>1. u # t
    BY <1>7 DEF M!NoDir
  <2> DEFINE f == s.dir[u][d].table
  <2>2. e.dir[u][d].table = f /\ f # M!NoFrame /\ s.count[f] = 1 /\ f \in M!Frames
    BY <1>1, <1>7, <2>1 DEF Alone, IsMemory
  <2>3. Holds(s, u, f)
    BY <1>1, <2>2 DEF Holds, InPlace
  <2>4. ~ Holds(s, t, f)
    BY <1>1, <2>1, <2>2, <2>3, CountFacts
  <2> QED BY <1>2, <1>5, <1>7, <2>2, <2>4
<1>17. Sound(e)
  BY <1>7, <1>11, <1>12, <1>15, <1>16 DEF Sound
<1>18. ASSUME NEW f \in M!Frames
       PROVE  /\ e.count[f] # 0 => s.count[f] # 0 /\ e.data[f] = s.data[f]
              /\ ~ Holds(s, t, f) => e.count[f] = s.count[f]
  BY <1>2, <1>3, <1>5, <1>7
<1> QED BY <1>7, <1>8, <1>10, <1>17, <1>18, NoEntryFacts DEF e, M!Present

LEMMA FailsStops ==
  ASSUME NEW s, IsMemory(s)
  PROVE  ~ Runs(M!Fails(s, "page_fault"))
<1> DEFINE e == [s EXCEPT !.halt = "page_fault"]
<1>1. e.halt = "page_fault"
  BY DEF IsMemory
<1>2. ~ Runs(e)
  BY <1>1 DEF Runs
<1>3. M!Fails(s, "page_fault") = IF Runs(s) THEN e ELSE s
  BY DEF M!Fails, Runs
<1> HIDE DEF e
<1> QED BY <1>2, <1>3

\* page_fault of a page that the task may have.
LEMMA FaultFacts ==
  ASSUME NEW s, Sound(s), Runs(s), NEW t \in Procs, NEW p \in M!Pages,
         M!Present(s, t, p) \/ Own(s, t, p),
         M!Present(s, t, p) \/ p < brk[t] \/ p >= StackAddr
  PROVE  LET e == M!PageFault(s, t, p)
             o == M!EntryOf(s, t, p)
             n == M!EntryOf(e, t, p)
         IN Runs(e) =>
            /\ Sound(e)
            /\ \A u \in Procs \ {t} : e.dir[u] = s.dir[u]
            /\ \A u \in Procs, q \in M!Pages : u # t \/ q # p => M!EntryOf(e, u, q) = M!EntryOf(s, u, q)
            /\ M!Present(e, t, p) /\ n.write /\ (n = o \/ e.count[n.frame] = 1)
            /\ n.frame = o.frame \/ s.count[n.frame] = 0
            /\ M!Present(s, t, p) => n.shared = o.shared /\ e.data[n.frame] = s.data[o.frame]
            /\ ~ M!Present(s, t, p) => ~ n.shared /\ e.count[n.frame] = 1 /\ e.data[n.frame] = 0
            /\ \A f \in M!Frames : f.for = "page" /\ s.count[f] # 0 => e.data[f] = s.data[f]
            /\ \A q \in M!Pages : ~ M!Present(s, t, p) /\ Own(s, t, q) => Own(e, t, q)
<1> DEFINE e == M!PageFault(s, t, p)
           o == M!EntryOf(s, t, p)
           n == M!EntryOf(e, t, p)
<1> SUFFICES ASSUME Runs(e)
             PROVE  /\ Sound(e)
                    /\ \A u \in Procs \ {t} : e.dir[u] = s.dir[u]
                    /\ \A u \in Procs, q \in M!Pages : u # t \/ q # p => M!EntryOf(e, u, q) = M!EntryOf(s, u, q)
                    /\ M!Present(e, t, p) /\ n.write /\ (n = o \/ e.count[n.frame] = 1)
                    /\ n.frame = o.frame \/ s.count[n.frame] = 0
                    /\ M!Present(s, t, p) => n.shared = o.shared /\ e.data[n.frame] = s.data[o.frame]
                    /\ ~ M!Present(s, t, p) => ~ n.shared /\ e.count[n.frame] = 1 /\ e.data[n.frame] = 0
                    /\ \A f \in M!Frames : f.for = "page" /\ s.count[f] # 0 => e.data[f] = s.data[f]
                    /\ \A q \in M!Pages : ~ M!Present(s, t, p) /\ Own(s, t, q) => Own(e, t, q)
  OBVIOUS
<1>1. IsMemory(s) /\ InPlace(s) /\ Counted(s) /\ Clean(s) /\ Alone(s)
  BY DEF Sound
<1>2. CASE M!Present(s, t, p)
  <2> DEFINE v == M!CowTable(s, t, p)
  <2>1. e = M!CowPage(v, t, p)
    <3>1. e = IF o.shared \/ o.readonly THEN M!Fails(s, "page_fault") ELSE M!CowPage(v, t, p)
      BY <1>2 DEF M!PageFault
    <3>2. ~ Runs(M!Fails(s, "page_fault"))
      BY <1>1, FailsStops
    <3> QED BY <3>1, <3>2
  <2>2. /\ Sound(v) /\ v.data = s.data /\ v.halt = s.halt
        /\ \A u \in Procs \ {t} : v.dir[u] = s.dir[u]
        /\ \A u \in Procs, q \in M!Pages : M!EntryOf(v, u, q) = M!EntryOf(s, u, q)
        /\ M!TableOf(v, t, p) # M!NoFrame /\ Own(v, t, p)
        /\ \A f \in M!Frames : f.for = "page" => v.count[f] = s.count[f]
    <3>1. M!TableOf(s, t, p) # M!NoFrame
      BY <1>2, HeldFacts
    <3> QED BY <3>1, CowTableFacts
  <2>3. M!Present(v, t, p) /\ M!EntryOf(v, t, p) = o
    BY <1>2, <2>2 DEF M!Present
  <2> HIDE DEF v, e
  <2>4. /\ Sound(e) /\ e.dir = v.dir
        /\ \A u \in Procs, q \in M!Pages : u # t \/ q # p => M!EntryOf(e, u, q) = M!EntryOf(v, u, q)
        /\ n.frame # M!NoFrame /\ n.write /\ n.shared = M!EntryOf(v, t, p).shared
        /\ e.data[n.frame] = v.data[M!EntryOf(v, t, p).frame]
        /\ M!EntryOf(v, t, p).write => n = M!EntryOf(v, t, p)
        /\ ~ M!EntryOf(v, t, p).write => e.count[n.frame] = 1
        /\ n.frame = M!EntryOf(v, t, p).frame \/ v.count[n.frame] = 0
        /\ \A f \in M!Frames : v.count[f] # 0 => e.data[f] = v.data[f]
        /\ \A q \in M!Pages : Own(v, t, q) => Own(e, t, q)
    BY <2>1, <2>2, <2>3, CowPageFacts
  <2> HIDE DEF o, n
  <2>5. n.frame \in M!Frames /\ n.frame.for = "page"
    BY <2>4, HeldFacts DEF n, M!Present
  <2>6. v.count[n.frame] = s.count[n.frame]
    BY <2>2, <2>5
  <2>7. \A f \in M!Frames : f.for = "page" /\ s.count[f] # 0 => e.data[f] = s.data[f]
    BY <2>2, <2>4
  <2>8. \A u \in Procs, q \in M!Pages : u # t \/ q # p => M!EntryOf(e, u, q) = M!EntryOf(s, u, q)
    BY <2>2, <2>4
  <2>9. n.shared = o.shared /\ e.data[n.frame] = s.data[o.frame] /\ (n = o \/ e.count[n.frame] = 1)
    BY <2>2, <2>3, <2>4
  <2>10. n.frame = o.frame \/ s.count[n.frame] = 0
    BY <2>3, <2>4, <2>6
  <2>11. M!Present(e, t, p)
    BY <2>4 DEF n, M!Present
  <2> QED BY <1>2, <2>2, <2>4, <2>7, <2>8, <2>9, <2>10, <2>11
<1>3. CASE ~ M!Present(s, t, p)
  <2>1. e = M!LinkPages(s, t, {p})
    BY <1>3, Zenon DEF M!PageFault
  <2> HIDE DEF e
  <2>2. /\ Sound(e) /\ e.data = s.data
        /\ \A u \in Procs \ {t} : e.dir[u] = s.dir[u]
        /\ \A u \in Procs, q \in M!Pages : u # t \/ q \notin {p} \/ M!Present(s, t, q) =>
             M!EntryOf(e, u, q) = M!EntryOf(s, u, q)
        /\ \A q \in {p} : ~ M!Present(s, t, q) =>
             LET w == M!EntryOf(e, t, q)
             IN w.write /\ ~ w.shared /\ s.count[w.frame] = 0 /\ e.count[w.frame] = 1
        /\ \A q \in {p} : M!Present(e, t, q)
        /\ \A q \in M!Pages : Own(s, t, q) => Own(e, t, q)
    <3>1. {p} \in SUBSET M!Pages /\ \A q \in {p} : M!Present(s, t, q) \/ Own(s, t, q)
      BY <1>3
    <3> QED BY <2>1, <3>1, LinkFacts
  <2>3. n.write /\ ~ n.shared /\ s.count[n.frame] = 0 /\ e.count[n.frame] = 1 /\ M!Present(e, t, p)
    BY <1>3, <2>2
  <2>4. n.frame \in M!Frames
    BY <2>2, <2>3, HeldFacts
  <2>5. e.data[n.frame] = 0
    BY <1>1, <2>2, <2>3, <2>4 DEF Clean
  <2>6. \A u \in Procs, q \in M!Pages : u # t \/ q # p => M!EntryOf(e, u, q) = M!EntryOf(s, u, q)
    BY <2>2
  <2> QED BY <1>3, <2>2, <2>3, <2>5, <2>6
<1> QED
  <2> HIDE DEF e
  <2> QED BY <1>2, <1>3

\* Tables that are not shared are the task's own.
LEMMA FreeMine ==
  ASSUME NEW s, Sound(s), NEW t \in Procs, NEW p \in M!Pages, ~ M!TableShared(s, t, p)
  PROVE  Own(s, t, p)
<1>1. CASE M!TableOf(s, t, p) = M!NoFrame
  BY <1>1 DEF Own
<1>2. CASE M!TableOf(s, t, p) # M!NoFrame
  <2> DEFINE c == s.count[M!TableOf(s, t, p)]
  <2>1. c \in Nat \ {0}
    BY <1>2, HeldFacts, CountFacts DEF Sound
  <2>2. ~ (c > 1)
    BY <1>2 DEF M!TableShared
  <2>3. c = 1
    BY <2>1, <2>2
  <2> QED BY <2>3 DEF Own
<1> QED BY <1>1, <1>2

Careful == "kernel" \notin Reckless
\* An entry of a private page that may be written is the only one of its frame.
Private(s) == \A t \in Procs, p \in M!Pages :
  M!Present(s, t, p) /\ M!EntryOf(s, t, p).write /\ ~ M!EntryOf(s, t, p).shared =>
    s.count[M!EntryOf(s, t, p).frame] = 1
Content(s, w) == \A t \in Procs, p \in M!Pages :
  M!Present(s, t, p) /\ ~ M!EntryOf(s, t, p).shared => s.data[M!EntryOf(s, t, p).frame] = w[t][p]
\* A task has no page but below its break, in its areas and on its stack.
Layout(s, b, a) == \A t \in Procs, p \in M!Pages :
  M!Present(s, t, p) => p < b[t] \/ p \in a[t] \/ p >= StackAddr
\* What task t has stored differs in these pages only.
Agree(w, x, t, pages) == \A u \in Procs, q \in M!Pages : u # t \/ q \notin pages => x[u][q] = w[u][q]
Idle(s, b) == \A t \in Procs : b[t] = -1 => s.dir[t] = M!NoDir
Mapped(s, b, a, w) == /\ Sound(s) /\ Idle(s, b) /\ Layout(s, b, a)
                      /\ Careful => Private(s) /\ Content(s, w)
MappedTypes ==
  /\ brk \in [Procs -> {-1} \cup 0 .. MmapAddr]
  /\ vmap \in [Procs -> SUBSET (MmapAddr .. StackAddr - 1)]
  /\ wrote \in [Procs -> [M!Pages -> Procs \cup {0}]]
  /\ plan \subseteq M!Pages
MemoryGood == MappedTypes /\ (Runs(m) => Mapped(m, brk, vmap, wrote))

LEMMA StillAlone ==
  ASSUME NEW s, NEW e, Sound(s), Sound(e), NEW f \in M!Frames, NEW u \in Procs,
         Holds(s, u, f), s.count[f] = 1, Holds(e, u, f),
         \A w \in Procs \ {u} : Holds(e, w, f) => Holds(s, w, f)
  PROVE  e.count[f] = 1
<1>1. \A w \in Procs : Holds(s, w, f) => w = u
  BY CountFacts DEF Sound
<1>2. Holders(e, f) = {u}
  BY <1>1 DEF Holders
<1>3. e.count[f] = Cardinality({u})
  BY <1>2 DEF Sound, Counted
<1> QED BY <1>3, FS_Singleton

LEMMA PrivateAfter ==
  ASSUME NEW s, NEW e, Sound(s), Sound(e), Private(s), NEW t \in Procs,
         \A u \in Procs \ {t}, q \in M!Pages : M!EntryOf(e, u, q) = M!EntryOf(s, u, q),
         \A q \in M!Pages :
           LET n == M!EntryOf(e, t, q)
               o == M!EntryOf(s, t, q)
           IN /\ n.frame = o.frame \/ n.frame = M!NoFrame \/ s.count[n.frame] = 0
              /\ n = o \/ n.frame = M!NoFrame \/ n.shared \/ ~ n.write \/ e.count[n.frame] = 1
  PROVE  Private(e)
<1> SUFFICES ASSUME NEW u \in Procs, NEW q \in M!Pages,
                    M!Present(e, u, q), M!EntryOf(e, u, q).write, ~ M!EntryOf(e, u, q).shared,
                    e.count[M!EntryOf(e, u, q).frame] # 1
             PROVE  FALSE
  BY DEF Private
<1> DEFINE f == M!EntryOf(e, u, q).frame
<1>1. M!EntryOf(e, u, q) = M!EntryOf(s, u, q)
  BY DEF M!Present
<1>2. f \in M!Frames /\ f.for = "page" /\ f.nr = q /\ Holds(e, u, f) /\ f # M!NoFrame
  BY HeldFacts, FrameFacts
<1>3. s.count[f] = 1
  BY <1>1 DEF Private, M!Present
<1>4. Holds(s, u, f)
  BY <1>1, <1>2 DEF Holds
<1>5. ASSUME NEW w \in Procs \ {u}, Holds(e, w, f) PROVE Holds(s, w, f)
  <2>1. M!EntryOf(e, w, q).frame = f
    BY <1>2, <1>5 DEF Holds
  <2>2. M!EntryOf(s, w, q).frame = f
    <3>1. CASE w = t
      <4>1. s.count[f] # 0
        BY <1>3
      <4> QED BY <2>1, <3>1, <4>1, <1>2
    <3>2. CASE w # t
      BY <2>1, <3>2
    <3> QED BY <3>1, <3>2
  <2> QED BY <1>2, <2>2 DEF Holds
<1>6. e.count[f] = 1
  BY <1>2, <1>3, <1>4, <1>5, StillAlone
<1> QED BY <1>6

\* What a task may do with page p.
LEMMA TouchedFacts ==
  ASSUME NEW t, NEW p, M!Touched(t, p)
  PROVE  Runs(m) /\ (M!Present(m, t, p) \/ p < brk[t] \/ p >= StackAddr)
BY Zenon DEF M!Touched, Runs

\* What is stored in a page of a task's own is found there, and elsewhere what
\* was there.
LEMMA StoreMaps ==
  ASSUME NEW s, NEW b, NEW a, NEW w, Mapped(s, b, a, w), NEW t \in Procs, NEW pages \in SUBSET M!Pages,
         \A p \in pages : M!Present(s, t, p),
         \A p \in pages : Careful /\ ~ M!EntryOf(s, t, p).shared => s.count[M!EntryOf(s, t, p).frame] = 1,
         NEW x, Agree(w, x, t, pages), \A p \in pages : ~ M!EntryOf(s, t, p).shared => x[t][p] = t
  PROVE  Mapped(M!Stores(s, t, pages), b, a, x)
<1> DEFINE e == M!Stores(s, t, pages)
<1>1. Sound(s) /\ Idle(s, b) /\ Layout(s, b, a)
  BY DEF Mapped
<1>2. /\ Sound(e) /\ e.dir = s.dir /\ e.count = s.count
      /\ \A u \in Procs, q \in M!Pages : M!EntryOf(e, u, q) = M!EntryOf(s, u, q)
      /\ \A f \in M!Frames : e.data[f] =
           IF \E p \in pages : M!EntryOf(s, t, p).frame = f /\ ~ M!EntryOf(s, t, p).shared
           THEN t ELSE s.data[f]
  BY <1>1, StoresFacts
<1>3. /\ \A u \in Procs, q \in M!Pages : u # t \/ q \notin pages => x[u][q] = w[u][q]
      /\ \A q \in pages : ~ M!EntryOf(s, t, q).shared => x[t][q] = t
  BY DEF Agree
<1> HIDE DEF e
<1>4. Idle(e, b) /\ Layout(e, b, a)
  BY <1>1, <1>2 DEF Idle, Layout, M!Present
<1>5. ASSUME Careful PROVE Private(e) /\ Content(e, x)
  <2>1. Private(s) /\ Content(s, w)
    BY <1>5 DEF Mapped
  <2>2. Private(e)
    BY <1>2, <2>1 DEF Private, M!Present
  <2>3. ASSUME NEW u \in Procs, NEW q \in M!Pages, M!Present(e, u, q), ~ M!EntryOf(e, u, q).shared
        PROVE  e.data[M!EntryOf(e, u, q).frame] = x[u][q]
    <3> DEFINE f == M!EntryOf(s, u, q).frame
    <3>1. M!EntryOf(e, u, q) = M!EntryOf(s, u, q) /\ M!Present(s, u, q)
      BY <1>2, <2>3 DEF M!Present
    <3>2. f \in M!Frames /\ f.for = "page" /\ f.nr = q /\ Holds(s, u, f)
      BY <1>1, <3>1, HeldFacts
    <3>3. CASE u = t /\ q \in pages
      <4>1. e.data[f] = t
        BY <1>2, <2>3, <3>1, <3>2, <3>3
      <4> QED BY <4>1, <1>3, <2>3, <3>1, <3>3
    <3>4. CASE ~ (u = t /\ q \in pages)
      <4>1. ASSUME NEW p \in pages, M!EntryOf(s, t, p).frame = f, ~ M!EntryOf(s, t, p).shared PROVE FALSE
        <5>1. p = q /\ Holds(s, t, f) /\ s.count[f] = 1
          BY <1>1, <1>5, <3>2, <4>1, HeldFacts
        <5>2. u = t
          BY <1>1, <3>2, <5>1, CountFacts DEF Sound
        <5> QED BY <3>4, <5>1, <5>2
      <4>2. e.data[f] = s.data[f]
        BY <1>2, <3>2, <4>1
      <4>3. s.data[f] = w[u][q]
        BY <2>1, <2>3, <3>1 DEF Content
      <4>4. x[u][q] = w[u][q]
        BY <1>3, <3>4
      <4> QED BY <3>1, <4>2, <4>3, <4>4
    <3> QED BY <3>3, <3>4
  <2> QED BY <2>2, <2>3 DEF Content
<1> QED BY <1>2, <1>4, <1>5 DEF Mapped, e

\* page_fault changes nothing that a task finds in its pages.
LEMMA FaultMaps ==
  ASSUME NEW s, NEW a, NEW w, Mapped(s, brk, a, w), Runs(s), NEW t \in Procs, brk[t] # -1, NEW p \in M!Pages,
         M!Present(s, t, p) \/ Own(s, t, p),
         M!Present(s, t, p) \/ p < brk[t] \/ p >= StackAddr,
         NEW x, Agree(w, x, t, {p}), x[t][p] = IF M!Present(s, t, p) THEN w[t][p] ELSE 0,
         Runs(M!PageFault(s, t, p))
  PROVE  Mapped(M!PageFault(s, t, p), brk, a, x)
<1> DEFINE e == M!PageFault(s, t, p)
           o == M!EntryOf(s, t, p)
           n == M!EntryOf(e, t, p)
<1>1. Sound(s) /\ Idle(s, brk) /\ Layout(s, brk, a)
  BY DEF Mapped
<1>2. /\ Sound(e)
      /\ \A u \in Procs \ {t} : e.dir[u] = s.dir[u]
      /\ \A u \in Procs, q \in M!Pages : u # t \/ q # p => M!EntryOf(e, u, q) = M!EntryOf(s, u, q)
      /\ M!Present(e, t, p) /\ n.write /\ (n = o \/ e.count[n.frame] = 1)
      /\ n.frame = o.frame \/ s.count[n.frame] = 0
      /\ M!Present(s, t, p) => n.shared = o.shared /\ e.data[n.frame] = s.data[o.frame]
      /\ ~ M!Present(s, t, p) => ~ n.shared /\ e.count[n.frame] = 1 /\ e.data[n.frame] = 0
      /\ \A f \in M!Frames : f.for = "page" /\ s.count[f] # 0 => e.data[f] = s.data[f]
  BY <1>1, FaultFacts
<1>3. /\ \A u \in Procs, q \in M!Pages : u # t \/ q # p => x[u][q] = w[u][q]
      /\ x[t][p] = IF M!Present(s, t, p) THEN w[t][p] ELSE 0
  BY DEF Agree
<1> HIDE DEF e, n, o
<1>4. Idle(e, brk)
  BY <1>1, <1>2 DEF Idle
<1>5. Layout(e, brk, a)
  <2>1. p < brk[t] \/ p \in a[t] \/ p >= StackAddr
    BY <1>1 DEF Layout
  <2> QED BY <1>1, <1>2, <2>1 DEF Layout, M!Present
<1>6. ASSUME Careful PROVE Private(e) /\ Content(e, x)
  <2>1. Private(s) /\ Content(s, w)
    BY <1>6 DEF Mapped
  <2>2. Private(e)
    <3>1. \A u \in Procs \ {t}, q \in M!Pages : M!EntryOf(e, u, q) = M!EntryOf(s, u, q)
      BY <1>2
    <3>2. ASSUME NEW q \in M!Pages
          PROVE  LET y == M!EntryOf(e, t, q)
                     z == M!EntryOf(s, t, q)
                 IN /\ y.frame = z.frame \/ y.frame = M!NoFrame \/ s.count[y.frame] = 0
                    /\ y = z \/ y.frame = M!NoFrame \/ y.shared \/ ~ y.write \/ e.count[y.frame] = 1
      <4>1. CASE q = p
        BY <1>2, <4>1 DEF n, o
      <4>2. CASE q # p
        BY <1>2, <4>2
      <4> QED BY <4>1, <4>2
    <3> QED BY <1>1, <1>2, <2>1, <3>1, <3>2, PrivateAfter
  <2>3. ASSUME NEW u \in Procs, NEW q \in M!Pages, M!Present(e, u, q), ~ M!EntryOf(e, u, q).shared
        PROVE  e.data[M!EntryOf(e, u, q).frame] = x[u][q]
    <3>1. CASE u = t /\ q = p
      <4>1. M!Present(s, t, p) => s.data[o.frame] = w[t][p]
        BY <1>2, <2>1, <2>3, <3>1 DEF Content, n, o
      <4> QED BY <1>2, <1>3, <2>3, <3>1, <4>1 DEF n
    <3>2. CASE ~ (u = t /\ q = p)
      <4> DEFINE f == M!EntryOf(s, u, q).frame
      <4>1. M!EntryOf(e, u, q) = M!EntryOf(s, u, q) /\ M!Present(s, u, q)
        BY <1>2, <2>3, <3>2 DEF M!Present
      <4>2. f \in M!Frames /\ f.for = "page" /\ s.count[f] # 0
        BY <1>1, <4>1, HeldFacts, CountFacts DEF Sound
      <4>3. s.data[f] = w[u][q]
        BY <2>1, <2>3, <4>1 DEF Content
      <4> QED BY <1>2, <1>3, <3>2, <4>1, <4>2, <4>3
    <3> QED BY <3>1, <3>2
  <2> QED BY <2>2, <2>3 DEF Content
<1> QED BY <1>2, <1>4, <1>5, <1>6 DEF Mapped, e

\* Pages go, of tables that no other task uses.
LEMMA UnlinkMaps ==
  ASSUME NEW s, NEW b, NEW a, NEW w, Mapped(s, b, a, w), NEW t \in Procs, NEW pages \in SUBSET M!Pages,
         \A p \in pages : M!Present(s, t, p) => Own(s, t, p),
         NEW c, c[t] # -1, NEW d, \A u \in Procs \ {t} : c[u] = b[u] /\ d[u] = a[u],
         \A q \in M!Pages \ pages : q < b[t] \/ q \in a[t] => q < c[t] \/ q \in d[t],
         NEW x, Agree(w, x, t, pages)
  PROVE  Mapped(M!UnlinkPages(s, t, pages), c, d, x)
<1> DEFINE e == M!UnlinkPages(s, t, pages)
<1>1. Sound(s) /\ Idle(s, b) /\ Layout(s, b, a)
  BY DEF Mapped
<1>2. /\ Sound(e) /\ e.dir = s.dir
      /\ \A u \in Procs, q \in M!Pages :
           M!EntryOf(e, u, q) = IF u = t /\ q \in pages /\ M!Present(s, t, q)
                                THEN M!NoEntry ELSE M!EntryOf(s, u, q)
      /\ \A f \in M!Frames : e.count[f] # 0 => s.count[f] # 0 /\ e.data[f] = s.data[f]
  BY <1>1, UnlinkFacts
<1>3. \A u \in Procs, q \in M!Pages : M!Present(e, u, q) =>
        (u # t \/ q \notin pages) /\ M!EntryOf(e, u, q) = M!EntryOf(s, u, q) /\ M!Present(s, u, q)
  BY <1>2, NoEntryFacts DEF M!Present
<1> HIDE DEF e
<1>4. Idle(e, c)
  BY <1>1, <1>2 DEF Idle
<1>5. Layout(e, c, d)
  BY <1>1, <1>3 DEF Layout
<1>6. ASSUME Careful PROVE Private(e) /\ Content(e, x)
  <2>1. Private(s) /\ Content(s, w)
    BY <1>6 DEF Mapped
  <2>2. Private(e)
    <3>1. \A u \in Procs \ {t}, q \in M!Pages : M!EntryOf(e, u, q) = M!EntryOf(s, u, q)
      BY <1>2
    <3>2. \A q \in M!Pages :
           LET n == M!EntryOf(e, t, q)
               o == M!EntryOf(s, t, q)
           IN /\ n.frame = o.frame \/ n.frame = M!NoFrame \/ s.count[n.frame] = 0
              /\ n = o \/ n.frame = M!NoFrame \/ n.shared \/ ~ n.write \/ e.count[n.frame] = 1
      BY <1>2, NoEntryFacts
    <3> QED BY <1>1, <1>2, <2>1, <3>1, <3>2, PrivateAfter
  <2>3. ASSUME NEW u \in Procs, NEW q \in M!Pages, M!Present(e, u, q), ~ M!EntryOf(e, u, q).shared
        PROVE  e.data[M!EntryOf(e, u, q).frame] = x[u][q]
    <3> DEFINE f == M!EntryOf(e, u, q).frame
    <3>1. (u # t \/ q \notin pages) /\ M!EntryOf(e, u, q) = M!EntryOf(s, u, q) /\ M!Present(s, u, q)
      BY <1>3, <2>3
    <3>2. f \in M!Frames /\ e.count[f] # 0
      BY <1>2, <2>3, HeldFacts, CountFacts DEF Sound
    <3>3. e.data[f] = s.data[f]
      BY <1>2, <3>2
    <3>4. s.data[f] = w[u][q]
      BY <2>1, <2>3, <3>1 DEF Content
    <3>5. x[u][q] = w[u][q]
      BY <3>1 DEF Agree
    <3> QED BY <3>3, <3>4, <3>5
  <2> QED BY <2>2, <2>3 DEF Content
<1> QED BY <1>2, <1>4, <1>5, <1>6 DEF Mapped, e

\* Pages come, in tables that no other task uses; they hold nothing yet.
LEMMA LinkMaps ==
  ASSUME NEW s, NEW b, NEW a, NEW w, Mapped(s, b, a, w), NEW t \in Procs, NEW pages \in SUBSET M!Pages,
         \A p \in pages : ~ M!Present(s, t, p) /\ Own(s, t, p),
         NEW c, c[t] # -1, NEW d, \A u \in Procs \ {t} : c[u] = b[u] /\ d[u] = a[u],
         \A q \in M!Pages : q < b[t] \/ q \in a[t] \/ q \in pages => q < c[t] \/ q \in d[t],
         NEW x, Agree(w, x, t, pages), \A q \in pages : x[t][q] = 0
  PROVE  Mapped(M!LinkPages(s, t, pages), c, d, x)
<1> DEFINE e == M!LinkPages(s, t, pages)
<1>1. Sound(s) /\ Idle(s, b) /\ Layout(s, b, a)
  BY DEF Mapped
<1>2. /\ Sound(e) /\ e.data = s.data
      /\ \A u \in Procs \ {t} : e.dir[u] = s.dir[u]
      /\ \A u \in Procs, q \in M!Pages : u # t \/ q \notin pages \/ M!Present(s, t, q) =>
           M!EntryOf(e, u, q) = M!EntryOf(s, u, q)
      /\ \A q \in pages : ~ M!Present(s, t, q) =>
           LET n == M!EntryOf(e, t, q)
           IN n.write /\ ~ n.shared /\ s.count[n.frame] = 0 /\ e.count[n.frame] = 1
  BY <1>1, LinkFacts
<1>3. /\ \A u \in Procs, q \in M!Pages : u # t \/ q \notin pages => M!EntryOf(e, u, q) = M!EntryOf(s, u, q)
      /\ \A q \in pages : s.count[M!EntryOf(e, t, q).frame] = 0 /\ e.count[M!EntryOf(e, t, q).frame] = 1
  BY <1>2
<1> HIDE DEF e
<1>4. Idle(e, c)
  BY <1>1, <1>2 DEF Idle
<1>5. Layout(e, c, d)
  BY <1>1, <1>3 DEF Layout, M!Present
<1>6. ASSUME Careful PROVE Private(e) /\ Content(e, x)
  <2>1. Private(s) /\ Content(s, w)
    BY <1>6 DEF Mapped
  <2>2. Private(e)
    <3>1. \A u \in Procs \ {t}, q \in M!Pages : M!EntryOf(e, u, q) = M!EntryOf(s, u, q)
      BY <1>2
    <3>2. \A q \in M!Pages :
           LET n == M!EntryOf(e, t, q)
               o == M!EntryOf(s, t, q)
           IN /\ n.frame = o.frame \/ n.frame = M!NoFrame \/ s.count[n.frame] = 0
              /\ n = o \/ n.frame = M!NoFrame \/ n.shared \/ ~ n.write \/ e.count[n.frame] = 1
      BY <1>3
    <3> QED BY <1>1, <1>2, <2>1, <3>1, <3>2, PrivateAfter
  <2>3. ASSUME NEW u \in Procs, NEW q \in M!Pages, M!Present(e, u, q), ~ M!EntryOf(e, u, q).shared
        PROVE  e.data[M!EntryOf(e, u, q).frame] = x[u][q]
    <3> DEFINE f == M!EntryOf(e, u, q).frame
    <3>1. f \in M!Frames /\ e.data[f] = s.data[f]
      BY <1>2, <2>3, HeldFacts
    <3>2. CASE u = t /\ q \in pages
      <4>1. s.count[f] = 0
        BY <1>3, <3>2
      <4>2. s.data[f] = 0
        BY <1>1, <3>1, <4>1 DEF Sound, Clean
      <4> QED BY <3>1, <3>2, <4>2
    <3>3. CASE ~ (u = t /\ q \in pages)
      <4>1. M!EntryOf(e, u, q) = M!EntryOf(s, u, q)
        BY <1>3, <3>3
      <4>2. s.data[f] = w[u][q]
        BY <2>1, <2>3, <4>1 DEF Content, M!Present
      <4>3. x[u][q] = w[u][q]
        BY <3>3 DEF Agree
      <4> QED BY <3>1, <4>2, <4>3
    <3> QED BY <3>2, <3>3
  <2> QED BY <2>2, <2>3 DEF Content
<1> QED BY <1>2, <1>4, <1>5, <1>6 DEF Mapped, e

\* Entries of pages of the task's own change, and keep their frames.
LEMMA FlagMaps ==
  ASSUME NEW s, NEW b, NEW a, NEW w, Mapped(s, b, a, w), NEW t \in Procs, NEW es, DOMAIN es \subseteq M!Pages,
         \A p \in DOMAIN es : /\ es[p] \in Entry /\ Own(s, t, p) /\ M!Present(s, t, p)
                              /\ es[p].frame = M!EntryOf(s, t, p).frame
                              /\ es[p].write => s.count[es[p].frame] = 1
                              /\ ~ es[p].shared => ~ M!EntryOf(s, t, p).shared
  PROVE  Mapped(M!SetEntries(s, t, es), b, a, w)
<1> DEFINE e == M!SetEntries(s, t, es)
<1>1. Sound(s) /\ Idle(s, b) /\ Layout(s, b, a)
  BY DEF Mapped
<1>2. IsMemory(s) /\ InPlace(s) /\ Counted(s) /\ Clean(s) /\ Alone(s)
  BY <1>1 DEF Sound
<1>3. /\ IsMemory(e) /\ InPlace(e)
      /\ e.count = s.count /\ e.data = s.data /\ e.dir = s.dir
      /\ \A u \in Procs, q \in M!Pages :
           M!EntryOf(e, u, q) = IF u = t /\ q \in DOMAIN es THEN es[q] ELSE M!EntryOf(s, u, q)
      /\ \A f \in M!Frames : s.count[f] = 0 => e.table[f] = M!NoTable
  <2>1. \A p \in DOMAIN es : /\ es[p] \in Entry /\ Own(s, t, p) /\ M!TableOf(s, t, p) # M!NoFrame
                             /\ es[p].frame # M!NoFrame => es[p].frame.for = "page" /\ es[p].frame.nr = p
    BY <1>1, HeldFacts
  <2> QED BY <1>1, <1>2, <2>1, SetMine
<1>4. \A u \in Procs, q \in M!Pages : M!EntryOf(e, u, q).frame = M!EntryOf(s, u, q).frame
  BY <1>3
<1> HIDE DEF e
<1>5. \A u \in Procs, f \in M!Frames : Holds(e, u, f) <=> Holds(s, u, f)
  BY <1>3, <1>4, FrameFacts DEF Holds
<1>6. Clean(e) /\ Others(s, e, t) /\ Recounts(s, e, t)
  BY <1>2, <1>3, <1>4, <1>5 DEF Clean, Others, Recounts
<1>7. \A d \in Dirs : e.dir[t][d].write => e.dir[t][d].table # M!NoFrame /\ e.count[e.dir[t][d].table] = 1
  BY <1>2, <1>3 DEF Alone
<1>8. Sound(e)
  BY <1>1, <1>3, <1>6, <1>7, SoundAfter
<1>9. Idle(e, b) /\ Layout(e, b, a)
  BY <1>1, <1>3, <1>4 DEF Idle, Layout, M!Present
<1>10. ASSUME Careful PROVE Private(e) /\ Content(e, w)
  <2>1. Private(s) /\ Content(s, w)
    BY <1>10 DEF Mapped
  <2>2. Private(e)
    <3> SUFFICES ASSUME NEW u \in Procs, NEW q \in M!Pages,
                        M!Present(e, u, q), M!EntryOf(e, u, q).write, ~ M!EntryOf(e, u, q).shared
                 PROVE  e.count[M!EntryOf(e, u, q).frame] = 1
      BY DEF Private
    <3>1. CASE u = t /\ q \in DOMAIN es
      BY <1>3, <3>1
    <3>2. CASE ~ (u = t /\ q \in DOMAIN es)
      <4>1. M!EntryOf(e, u, q) = M!EntryOf(s, u, q)
        BY <1>3, <3>2
      <4> QED BY <1>3, <2>1, <4>1 DEF Private, M!Present
    <3> QED BY <3>1, <3>2
  <2>3. \A u \in Procs, q \in M!Pages : ~ M!EntryOf(e, u, q).shared => ~ M!EntryOf(s, u, q).shared
    BY <1>3
  <2>4. Content(e, w)
    BY <1>3, <1>4, <2>1, <2>3 DEF Content, M!Present
  <2> QED BY <2>2, <2>4
<1> QED BY <1>8, <1>9, <1>10 DEF Mapped, e

\* task_fork: what parent and child share, neither may write.
LEMMA CopyMaps ==
  ASSUME NEW s, NEW b, NEW a, NEW w, Mapped(s, b, a, w), NEW t \in Procs, NEW c \in Procs \ {t},
         b[t] # -1, b[c] = -1,
         NEW bb, NEW aa, NEW x, bb[c] = b[t], aa[c] = a[t], x[c] = w[t],
         \A u \in Procs \ {c} : bb[u] = b[u] /\ aa[u] = a[u] /\ x[u] = w[u]
  PROVE  Mapped(M!CopyPde(s, t, c), bb, aa, x)
<1> DEFINE e == M!CopyPde(s, t, c)
<1>1. Sound(s) /\ Idle(s, b) /\ Layout(s, b, a) /\ s.dir[c] = M!NoDir
  BY DEF Mapped, Idle
<1>2. /\ Sound(e) /\ e.data = s.data
      /\ \A u \in Procs \ {t, c} : e.dir[u] = s.dir[u]
      /\ \A u \in Procs \ {t, c}, q \in M!Pages :
           M!EntryOf(e, u, q) \in {M!EntryOf(s, u, q), M!Protect(M!EntryOf(s, u, q))}
      /\ \A q \in M!Pages : /\ M!EntryOf(e, t, q) = M!Protect(M!EntryOf(s, t, q))
                            /\ M!EntryOf(e, c, q) = M!Protect(M!EntryOf(s, t, q))
      /\ \A f \in M!Frames : e.count[f] = IF Holds(s, t, f) THEN s.count[f] + 1 ELSE s.count[f]
  BY <1>1, CopyFacts
<1> DEFINE From(u) == IF u = c THEN t ELSE u
<1>3. \A u \in Procs : From(u) \in Procs /\ bb[u] = b[From(u)] /\ aa[u] = a[From(u)] /\ x[u] = w[From(u)]
  OBVIOUS
<1>4. \A o \in Entry : M!Protect(o).frame = o.frame /\ M!Protect(o).shared = o.shared
                       /\ (o.frame # M!NoFrame /\ ~ o.shared => ~ M!Protect(o).write)
  BY DEF M!Protect, Entry
<1>5. ASSUME NEW u \in Procs, NEW q \in M!Pages
      PROVE  LET n == M!EntryOf(e, u, q)
                 o == M!EntryOf(s, From(u), q)
             IN n.frame = o.frame /\ n.shared = o.shared /\ (n = o \/ n = M!Protect(o))
  <2>1. M!EntryOf(s, From(u), q) \in Entry
    BY <1>1, <1>3, EntryFacts DEF Sound
  <2>2. M!EntryOf(e, u, q) \in {M!EntryOf(s, From(u), q), M!Protect(M!EntryOf(s, From(u), q))}
    BY <1>2
  <2> HIDE DEF e, From
  <2> QED BY <1>4, <2>1, <2>2
<1> HIDE DEF e
<1>6. Idle(e, bb)
  <2> SUFFICES ASSUME NEW u \in Procs, bb[u] = -1 PROVE e.dir[u] = M!NoDir
    BY DEF Idle
  <2>1. u # t /\ u # c
    OBVIOUS
  <2> QED BY <2>1, <1>1, <1>2 DEF Idle
<1>7. Layout(e, bb, aa)
  <2> HIDE DEF From
  <2> QED BY <1>1, <1>3, <1>5 DEF Layout, M!Present
<1>8. ASSUME Careful PROVE Private(e) /\ Content(e, x)
  <2>1. Private(s) /\ Content(s, w)
    BY <1>8 DEF Mapped
  <2>2. Private(e)
    <3> SUFFICES ASSUME NEW u \in Procs, NEW q \in M!Pages,
                        M!Present(e, u, q), M!EntryOf(e, u, q).write, ~ M!EntryOf(e, u, q).shared
                 PROVE  e.count[M!EntryOf(e, u, q).frame] = 1
      BY DEF Private
    <3> DEFINE n == M!EntryOf(e, u, q)
               o == M!EntryOf(s, From(u), q)
               f == o.frame
    <3>1. o \in Entry
      BY <1>1, <1>3, EntryFacts DEF Sound
    <3>2. n.frame = f /\ f # M!NoFrame /\ ~ o.shared
      BY <1>5 DEF M!Present
    <3>3. n = o /\ n # M!Protect(o)
      BY <1>4, <1>5, <3>1, <3>2
    <3>4. u # t /\ u # c
      BY <1>2, <3>3
    <3>5. s.count[f] = 1 /\ f \in M!Frames /\ Holds(s, u, f)
      BY <1>1, <2>1, <3>2, <3>3, <3>4, HeldFacts DEF Private, M!Present
    <3>6. ~ Holds(s, t, f)
      BY <1>1, <3>4, <3>5, CountFacts DEF Sound
    <3> QED BY <1>2, <3>2, <3>5, <3>6
  <2>3. Content(e, x)
    <3> SUFFICES ASSUME NEW u \in Procs, NEW q \in M!Pages, M!Present(e, u, q), ~ M!EntryOf(e, u, q).shared
                 PROVE  e.data[M!EntryOf(e, u, q).frame] = x[u][q]
      BY DEF Content
    <3> HIDE DEF From
    <3>1. M!EntryOf(e, u, q).frame = M!EntryOf(s, From(u), q).frame /\ ~ M!EntryOf(s, From(u), q).shared
      BY <1>5
    <3>2. M!Present(s, From(u), q)
      BY <3>1 DEF M!Present
    <3>3. s.data[M!EntryOf(s, From(u), q).frame] = w[From(u)][q]
      BY <1>3, <2>1, <3>1, <3>2 DEF Content
    <3> QED BY <1>2, <1>3, <3>1, <3>3
  <2> QED BY <2>2, <2>3
<1> QED BY <1>2, <1>6, <1>7, <1>8 DEF Mapped, e

\* task_exit: the task leaves its memory to those it shared it with.
LEMMA FreeMaps ==
  ASSUME NEW s, NEW b, NEW a, NEW w, Mapped(s, b, a, w), NEW t \in Procs,
         NEW bb, NEW aa, NEW x, \A u \in Procs \ {t} : bb[u] = b[u] /\ aa[u] = a[u] /\ x[u] = w[u]
  PROVE  Mapped(M!FreePde(s, t), bb, aa, x)
<1> DEFINE e == M!FreePde(s, t)
<1>1. Sound(s) /\ Idle(s, b) /\ Layout(s, b, a)
  BY DEF Mapped
<1>2. /\ Sound(e) /\ e.dir[t] = M!NoDir /\ \A u \in Procs \ {t} : e.dir[u] = s.dir[u]
      /\ \A u \in Procs \ {t}, q \in M!Pages : M!EntryOf(e, u, q) = M!EntryOf(s, u, q)
      /\ \A q \in M!Pages : ~ M!Present(e, t, q)
      /\ \A f \in M!Frames : /\ e.count[f] # 0 => s.count[f] # 0 /\ e.data[f] = s.data[f]
                             /\ ~ Holds(s, t, f) => e.count[f] = s.count[f]
  BY <1>1, FreeFacts
<1> HIDE DEF e
<1>3. Idle(e, bb)
  BY <1>1, <1>2 DEF Idle
<1>4. Layout(e, bb, aa)
  BY <1>1, <1>2 DEF Layout, M!Present
<1>5. ASSUME Careful PROVE Private(e) /\ Content(e, x)
  <2>1. Private(s) /\ Content(s, w)
    BY <1>5 DEF Mapped
  <2>2. ASSUME NEW u \in Procs, NEW q \in M!Pages, M!Present(e, u, q), ~ M!EntryOf(e, u, q).shared
        PROVE  /\ M!EntryOf(e, u, q).write => e.count[M!EntryOf(e, u, q).frame] = 1
               /\ e.data[M!EntryOf(e, u, q).frame] = x[u][q]
    <3> DEFINE f == M!EntryOf(e, u, q).frame
    <3>1. u # t /\ M!EntryOf(e, u, q) = M!EntryOf(s, u, q) /\ M!Present(s, u, q)
      BY <1>2, <2>2 DEF M!Present
    <3>2. f \in M!Frames /\ e.count[f] # 0
      BY <1>2, <2>2, HeldFacts, CountFacts DEF Sound
    <3>3. e.data[f] = s.data[f] /\ s.data[f] = w[u][q] /\ x[u][q] = w[u][q]
      BY <1>2, <2>1, <2>2, <3>1, <3>2 DEF Content
    <3>4. Holds(s, u, f)
      BY <1>1, <3>1, HeldFacts
    <3>5. ASSUME M!EntryOf(e, u, q).write PROVE e.count[f] = 1
      <4>1. s.count[f] = 1
        BY <2>1, <2>2, <3>1, <3>5 DEF Private
      <4>2. ~ Holds(s, t, f)
        BY <1>1, <3>1, <3>2, <3>4, <4>1, CountFacts DEF Sound
      <4> QED BY <1>2, <3>2, <4>1, <4>2
    <3> QED BY <3>3, <3>5
  <2> QED BY <2>2 DEF Private, Content
<1> QED BY <1>2, <1>3, <1>4, <1>5 DEF Mapped, e

\* Without shared tables in the way, tables that go or come are the task's own.
LEMMA TablesMine ==
  ASSUME "tables" \notin Reckless, Sound(m), NEW t \in Procs, NEW p \in M!Pages, M!TablesFree(t, p)
  PROVE  Own(m, t, p)
BY FreeMine DEF M!TablesFree

\* A store of the kernel, for a call or for sys_execve, finds or makes a page.
LEMMA KernelMaps ==
  ASSUME "tables" \notin Reckless, Mapped(m, brk, vmap, wrote), Runs(m),
         NEW t \in Procs, brk[t] # -1, wrote \in [Procs -> [M!Pages -> Procs \cup {0}]],
         NEW p \in M!Pages, M!FrameFree(t, p), M!Present(m, t, p) \/ p < brk[t] \/ p >= StackAddr,
         NEW x, Agree(wrote, x, t, {p}), ~ M!EntryOf(m, t, p).shared => x[t][p] = t
  PROVE  LET e == M!Stores(IF M!Present(m, t, p) THEN m ELSE M!PageFault(m, t, p), t, {p})
         IN /\ Mapped(e, brk, vmap, x) /\ Runs(e)
            /\ \A q \in M!Pages : Own(m, t, q) => Own(e, t, q)
            /\ \A q \in M!Pages \ {p} : M!EntryOf(e, t, q) = M!EntryOf(m, t, q)
<1> DEFINE s == IF M!Present(m, t, p) THEN m ELSE M!PageFault(m, t, p)
           y == [wrote EXCEPT ![t] = [wrote[t] EXCEPT ![p] = IF M!Present(m, t, p) THEN wrote[t][p] ELSE 0]]
           e == M!Stores(s, t, {p})
<1>1. Sound(m)
  BY DEF Mapped
<1>2. /\ Mapped(s, brk, vmap, y) /\ Runs(s) /\ M!Present(s, t, p)
      /\ Careful /\ ~ M!EntryOf(s, t, p).shared => s.count[M!EntryOf(s, t, p).frame] = 1
      /\ M!EntryOf(s, t, p).shared = M!EntryOf(m, t, p).shared
      /\ \A q \in M!Pages : Own(m, t, q) => Own(s, t, q)
      /\ \A q \in M!Pages \ {p} : M!EntryOf(s, t, q) = M!EntryOf(m, t, q)
  <2>1. CASE M!Present(m, t, p)
    <3>1. s = m
      BY <2>1
    <3>2. y = wrote
      BY <2>1
    <3> HIDE DEF s, y
    <3>3. ASSUME Careful, ~ M!EntryOf(m, t, p).shared PROVE m.count[M!EntryOf(m, t, p).frame] = 1
      <4>1. M!CanWrite(m, t, p) \/ m.count[M!EntryOf(m, t, p).frame] = 1
        BY <2>1, <3>3 DEF M!FrameFree, Careful
      <4>2. Private(m)
        BY <3>3 DEF Mapped
      <4> QED BY <3>3, <4>1, <4>2 DEF M!CanWrite, Private
    <3> QED BY <2>1, <3>1, <3>2, <3>3
  <2>2. CASE ~ M!Present(m, t, p)
    <3>1. s = M!PageFault(m, t, p)
      BY <2>2
    <3>2. Own(m, t, p)
      BY <1>1, <2>2, TablesMine DEF M!FrameFree
    <3>3. s = M!LinkPages(m, t, {p})
      <4>1. p < brk[t] \/ p >= StackAddr
        BY <2>2
      <4> QED BY <2>2, <3>1, <4>1, Zenon DEF M!PageFault
    <3>4. s.halt = m.halt
      <4>1. {p} \in SUBSET M!Pages /\ \A q \in {p} : M!Present(m, t, q) \/ Own(m, t, q)
        BY <3>2
      <4> HIDE DEF s
      <4> QED BY <1>1, <3>3, <4>1, LinkFacts
    <3>5. Runs(s)
      BY <3>4, Zenon DEF Runs
    <3> DEFINE n == M!EntryOf(s, t, p)
               o == M!EntryOf(m, t, p)
    <3> HIDE DEF s
    <3>6. /\ \A u \in Procs, q \in M!Pages : u # t \/ q # p => M!EntryOf(s, u, q) = M!EntryOf(m, u, q)
          /\ M!Present(s, t, p) /\ ~ n.shared /\ s.count[n.frame] = 1
          /\ \A q \in M!Pages : Own(m, t, q) => Own(s, t, q)
      BY <1>1, <2>2, <3>1, <3>2, <3>5, FaultFacts
    <3>7. Agree(wrote, y, t, {p}) /\ y[t][p] = IF M!Present(m, t, p) THEN wrote[t][p] ELSE 0
      BY DEF Agree
    <3> HIDE DEF y
    <3>8. Mapped(s, brk, vmap, y)
      BY <2>2, <3>1, <3>2, <3>5, <3>7, FaultMaps
    <3>9. ~ o.shared
      <4>1. o \in Entry
        BY <1>1, EntryFacts DEF Sound
      <4> QED BY <2>2, <4>1 DEF Entry, M!Present
    <3>10. n.shared = o.shared
      <4>1. n \in Entry /\ o \in Entry
        BY <1>1, <3>8, EntryFacts DEF Sound, Mapped
      <4> QED BY <3>6, <3>9, <4>1 DEF Entry
    <3>11. \A q \in M!Pages \ {p} : M!EntryOf(s, t, q) = M!EntryOf(m, t, q)
      BY <3>6
    <3> QED BY <3>5, <3>6, <3>8, <3>10, <3>11
  <2> HIDE DEF s, y
  <2> QED BY <2>1, <2>2
<1>3. \A q \in {p} : ~ M!EntryOf(s, t, q).shared => x[t][q] = t
  BY <1>2
<1>4. Agree(y, x, t, {p})
  BY DEF Agree
<1> HIDE DEF s, y
<1>5. Mapped(e, brk, vmap, x)
  BY <1>2, <1>3, <1>4, StoreMaps
<1>6. /\ e.dir = s.dir /\ e.count = s.count /\ e.halt = s.halt
      /\ \A q \in M!Pages : M!EntryOf(e, t, q) = M!EntryOf(s, t, q)
  BY <1>2, StoresFacts DEF Mapped
<1>7. Runs(e)
  BY <1>2, <1>6, Zenon DEF Runs
<1>8. \A q \in M!Pages : Own(s, t, q) => Own(e, t, q)
  BY <1>6 DEF Own, M!TableOf
<1> HIDE DEF e
<1>9. \A q \in M!Pages : Own(m, t, q) => Own(e, t, q)
  BY <1>2, <1>8
<1>10. \A q \in M!Pages \ {p} : M!EntryOf(e, t, q) = M!EntryOf(m, t, q)
  BY <1>2, <1>6
<1> QED BY <1>5, <1>7, <1>9, <1>10 DEF e, s

\* A store of user code, or the fault it begins with.
LEMMA StoreStep ==
  ASSUME "tables" \notin Reckless, MappedTypes, Mapped(m, brk, vmap, wrote), NEW t \in Procs, brk[t] # -1,
         NEW p \in M!Pages, M!Store(t, p), Runs(m')
  PROVE  Mapped(m', brk', vmap', wrote')
<1>1. Sound(m)
  BY DEF Mapped
<1>2. Runs(m) /\ (M!Present(m, t, p) \/ p < brk[t] \/ p >= StackAddr) /\ brk' = brk /\ vmap' = vmap
  BY TouchedFacts, Zenon DEF M!Store
<1>3. CASE M!CanWrite(m, t, p)
  <2>1. m' = M!Stores(m, t, {p}) /\ M!Stored(t, p)
    BY <1>3, Zenon DEF M!Store
  <2>2. Agree(wrote, wrote', t, {p}) /\ wrote'[t][p] = IF M!EntryOf(m, t, p).shared THEN 0 ELSE t
    BY <2>1 DEF MappedTypes, Agree, M!Stored, M!Wants
  <2>3. M!Present(m, t, p)
    BY <1>3 DEF M!CanWrite
  <2>4. Careful /\ ~ M!EntryOf(m, t, p).shared => m.count[M!EntryOf(m, t, p).frame] = 1
    BY <1>3 DEF M!CanWrite, Mapped, Private
  <2> QED BY <1>2, <2>1, <2>2, <2>3, <2>4, StoreMaps
<1>4. CASE ~ M!CanWrite(m, t, p)
  <2>1. /\ M!Faultable(t, p) /\ m' = M!PageFault(m, t, p)
        /\ M!Wants(t, p, IF M!Present(m, t, p) THEN wrote[t][p] ELSE 0)
    BY <1>4, Zenon DEF M!Store
  <2>2. Agree(wrote, wrote', t, {p}) /\ wrote'[t][p] = IF M!Present(m, t, p) THEN wrote[t][p] ELSE 0
    BY <2>1 DEF MappedTypes, Agree, M!Wants
  <2>3. M!Present(m, t, p) \/ Own(m, t, p)
    BY <1>1, <2>1, TablesMine DEF M!Faultable
  <2> QED BY <1>2, <2>1, <2>2, <2>3, FaultMaps
<1> QED BY <1>3, <1>4

\* A store of the kernel.
LEMMA KernelStoreStep ==
  ASSUME "tables" \notin Reckless, MappedTypes, Mapped(m, brk, vmap, wrote), NEW t \in Procs, brk[t] # -1,
         NEW p \in M!Pages, M!KernelStore(t, p)
  PROVE  Mapped(m', brk', vmap', wrote')
<1>1. Runs(m) /\ (M!Present(m, t, p) \/ p < brk[t] \/ p >= StackAddr) /\ brk' = brk /\ vmap' = vmap
  BY TouchedFacts, Zenon DEF M!KernelStore
<1>2. /\ M!FrameFree(t, p) /\ M!Stored(t, p)
      /\ m' = M!Stores(IF M!Present(m, t, p) THEN m ELSE M!PageFault(m, t, p), t, {p})
  BY Zenon DEF M!KernelStore
<1>3. Agree(wrote, wrote', t, {p}) /\ wrote'[t][p] = IF M!EntryOf(m, t, p).shared THEN 0 ELSE t
  BY <1>2 DEF MappedTypes, Agree, M!Stored, M!Wants
<1>4. wrote \in [Procs -> [M!Pages -> Procs \cup {0}]]
  BY DEF MappedTypes
<1> QED BY <1>1, <1>2, <1>3, <1>4, KernelMaps

\* brk.
LEMMA BrkStep ==
  ASSUME "tables" \notin Reckless, MappedTypes, Mapped(m, brk, vmap, wrote), NEW t \in Procs, brk[t] # -1,
         NEW b \in 0 .. MmapAddr, M!Brk(t, b)
  PROVE  Mapped(m', brk', vmap', wrote')
<1> DEFINE pages == {p \in M!Pages : b <= p /\ p < brk[t]}
<1>1. /\ \A p \in pages : M!Present(m, t, p) => M!TablesFree(t, p)
      /\ m' = M!UnlinkPages(m, t, pages) /\ brk' = [brk EXCEPT ![t] = b] /\ vmap' = vmap
      /\ wrote' = [wrote EXCEPT ![t] = [p \in M!Pages |-> IF b <= p /\ p < brk[t] THEN 0 ELSE @[p]]]
  BY Zenon DEF M!Brk, M!SysBrk
<1>2. pages \in SUBSET M!Pages /\ \A q \in M!Pages \ pages : q < b \/ ~ (q < brk[t])
  BY PageFacts, MemoryAssumption DEF MappedTypes
<1>3. Agree(wrote, wrote', t, pages)
  BY <1>1 DEF MappedTypes, Agree
<1>4. brk'[t] = b /\ b # -1 /\ \A u \in Procs \ {t} : brk'[u] = brk[u] /\ vmap'[u] = vmap[u]
  BY <1>1 DEF MappedTypes
<1> HIDE DEF pages
<1>5. \A p \in pages : M!Present(m, t, p) => Own(m, t, p)
  BY <1>1, <1>2, TablesMine DEF Mapped
<1>6. \A q \in M!Pages \ pages : q < brk[t] \/ q \in vmap[t] => q < brk'[t] \/ q \in vmap'[t]
  BY <1>1, <1>2, <1>4
<1>7. brk'[t] # -1
  BY <1>4
<1> QED BY <1>1, <1>2, <1>3, <1>4, <1>5, <1>6, <1>7, UnlinkMaps

\* munmap.
LEMMA MunmapStep ==
  ASSUME "tables" \notin Reckless, MappedTypes, Mapped(m, brk, vmap, wrote), NEW t \in Procs, brk[t] # -1,
         NEW p \in M!Pages, M!Munmap(t, p)
  PROVE  Mapped(m', brk', vmap', wrote')
<1>1. /\ M!TablesFree(t, p) /\ m' = M!UnlinkPages(m, t, {p}) /\ brk' = brk
      /\ vmap' = [vmap EXCEPT ![t] = @ \ {p}] /\ M!Wants(t, p, 0)
  BY Zenon DEF M!Munmap
<1>2. Agree(wrote, wrote', t, {p})
  BY <1>1 DEF MappedTypes, Agree, M!Wants
<1>3. \A q \in {p} : M!Present(m, t, q) => Own(m, t, q)
  BY <1>1, TablesMine DEF Mapped
<1>4. /\ \A u \in Procs \ {t} : brk'[u] = brk[u] /\ vmap'[u] = vmap[u]
      /\ \A q \in M!Pages \ {p} : q < brk[t] \/ q \in vmap[t] => q < brk'[t] \/ q \in vmap'[t]
      /\ brk'[t] # -1
  BY <1>1 DEF MappedTypes
<1>5. {p} \in SUBSET M!Pages
  OBVIOUS
<1> QED BY <1>1, <1>2, <1>3, <1>4, <1>5, UnlinkMaps

\* mmap.
LEMMA MmapStep ==
  ASSUME "tables" \notin Reckless, MappedTypes, Mapped(m, brk, vmap, wrote), NEW t \in Procs, brk[t] # -1,
         NEW p \in M!Pages, p \in MmapAddr .. StackAddr - 1,
         NEW shared \in BOOLEAN, NEW write \in BOOLEAN, M!Mmap(t, p, shared, write)
  PROVE  Mapped(m', brk', vmap', wrote')
<1> DEFINE s == M!LinkPages(m, t, {p})
           n == M!EntryOf(s, t, p)
           es == [q \in {p} |-> [n EXCEPT !.write = write, !.readonly = ~ write, !.shared = shared]]
<1>1. /\ p \notin vmap[t] /\ M!TablesFree(t, p) /\ m' = M!SetEntries(s, t, es) /\ brk' = brk
      /\ vmap' = [vmap EXCEPT ![t] = @ \cup {p}] /\ M!Wants(t, p, 0)
  BY Zenon DEF M!Mmap, M!SetEntry
<1>2. Sound(m) /\ Layout(m, brk, vmap)
  BY DEF Mapped
<1>3. ~ M!Present(m, t, p) /\ Own(m, t, p)
  <2>1. ~ (p < brk[t]) /\ ~ (p >= StackAddr)
    BY MemoryAssumption, PageFacts DEF MappedTypes
  <2> QED BY <1>1, <1>2, <2>1, TablesMine DEF Layout
<1>4. Agree(wrote, wrote', t, {p}) /\ \A q \in {p} : wrote'[t][q] = 0
  BY <1>1 DEF MappedTypes, Agree, M!Wants
<1>5. /\ \A u \in Procs \ {t} : brk'[u] = brk[u] /\ vmap'[u] = vmap[u]
      /\ \A q \in M!Pages : q < brk[t] \/ q \in vmap[t] \/ q \in {p} => q < brk'[t] \/ q \in vmap'[t]
      /\ brk'[t] # -1
  BY <1>1 DEF MappedTypes
<1>6. {p} \in SUBSET M!Pages /\ \A q \in {p} : ~ M!Present(m, t, q) /\ Own(m, t, q)
  BY <1>3
<1>7. Mapped(s, brk', vmap', wrote')
  <2> HIDE DEF s, es, n
  <2> QED BY <1>4, <1>5, <1>6, LinkMaps DEF s
<1>8. ~ n.shared /\ s.count[n.frame] = 1 /\ M!Present(s, t, p) /\ Own(s, t, p)
  BY <1>2, <1>3, <1>6, LinkFacts
<1>9. n \in Entry /\ n.frame # M!NoFrame
  BY <1>7, <1>8, EntryFacts DEF Mapped, Sound, M!Present
<1> HIDE DEF s, n
<1>10. DOMAIN es = {p} /\ es[p] \in Entry /\ es[p].frame = n.frame
  BY <1>9 DEF Entry
<1> HIDE DEF es
<1>11. Mapped(M!SetEntries(s, t, es), brk', vmap', wrote')
  <2>1. \A q \in DOMAIN es : /\ es[q] \in Entry /\ Own(s, t, q) /\ M!Present(s, t, q)
                             /\ es[q].frame = M!EntryOf(s, t, q).frame
                             /\ es[q].write => s.count[es[q].frame] = 1
                             /\ ~ es[q].shared => ~ M!EntryOf(s, t, q).shared
    BY <1>8, <1>10 DEF n
  <2>2. DOMAIN es \subseteq M!Pages
    BY <1>10
  <2> QED BY <1>7, <2>1, <2>2, FlagMaps
<1> QED BY <1>1, <1>11

\* task_fork.
LEMMA ForkStep ==
  ASSUME MappedTypes, Mapped(m, brk, vmap, wrote), NEW t \in Procs, brk[t] # -1, NEW c \in Procs, M!Fork(t, c)
  PROVE  Mapped(m', brk', vmap', wrote')
<1>1. /\ brk[c] = -1 /\ m' = M!CopyPde(m, t, c) /\ brk' = [brk EXCEPT ![c] = brk[t]]
      /\ vmap' = [vmap EXCEPT ![c] = vmap[t]] /\ wrote' = [wrote EXCEPT ![c] = wrote[t]]
  BY Zenon DEF M!Fork
<1>2. /\ c \in Procs \ {t} /\ brk'[c] = brk[t] /\ vmap'[c] = vmap[t] /\ wrote'[c] = wrote[t]
      /\ \A u \in Procs \ {c} : brk'[u] = brk[u] /\ vmap'[u] = vmap[u] /\ wrote'[u] = wrote[u]
  BY <1>1 DEF MappedTypes
<1>3. brk[c] = -1
  BY <1>1
<1>4. Mapped(M!CopyPde(m, t, c), brk', vmap', wrote')
  BY <1>2, <1>3, CopyMaps
<1> QED BY <1>1, <1>4

\* task_exit.
LEMMA ExitStep ==
  ASSUME MappedTypes, Mapped(m, brk, vmap, wrote), NEW t \in Procs, M!Exit(t)
  PROVE  Mapped(m', brk', vmap', wrote')
<1>1. /\ m' = M!FreePde(m, t) /\ brk' = [brk EXCEPT ![t] = -1] /\ vmap' = [vmap EXCEPT ![t] = {}]
      /\ wrote' = [wrote EXCEPT ![t] = [p \in M!Pages |-> 0]]
  BY Zenon DEF M!Exit
<1>2. \A u \in Procs \ {t} : brk'[u] = brk[u] /\ vmap'[u] = vmap[u] /\ wrote'[u] = wrote[u]
  BY <1>1 DEF MappedTypes
<1>3. Mapped(M!FreePde(m, t), brk', vmap', wrote')
  BY <1>2, FreeMaps
<1> QED BY <1>1, <1>3

\* sys_execve: the old program goes and the new one comes.
LEMMA ExecStep ==
  ASSUME "tables" \notin Reckless, MappedTypes, Mapped(m, brk, vmap, wrote), NEW t \in Procs, brk[t] # -1,
         M!Exec(t)
  PROVE  Mapped(m', brk', vmap', wrote')
<1> DEFINE top == M!LastPage
           end == Program.end
           s == M!Stores(IF M!Present(m, t, top) THEN m ELSE M!PageFault(m, t, top), t, {top})
           old == {p \in M!Pages : 0 <= p /\ p < brk[t]}
           prog == 0 .. end - 1
           r == M!UnlinkPages(s, t, old)
           u == M!LinkPages(r, t, prog)
           v == M!Stores(u, t, prog)
           es == [p \in 0 .. Program.text - 1 |->
                    [M!EntryOf(u, t, p) EXCEPT !.write = FALSE, !.readonly = TRUE]]
           x1 == [wrote EXCEPT ![t] = [wrote[t] EXCEPT ![top] = t]]
           x2 == [x1 EXCEPT ![t] = [q \in M!Pages |-> IF q < brk[t] THEN 0 ELSE @[q]]]
           x3 == [x2 EXCEPT ![t] = [q \in M!Pages |-> IF q < end THEN 0 ELSE @[q]]]
           none == [brk EXCEPT ![t] = 0]
<1>1. /\ Runs(m) /\ M!FrameFree(t, top)
      /\ \A p \in M!Pages : p < brk[t] \/ p < end => M!TablesFree(t, p)
      /\ m' = M!SetEntries(v, t, es) /\ brk' = [brk EXCEPT ![t] = end] /\ vmap' = vmap
      /\ wrote' = [wrote EXCEPT ![t] = [p \in M!Pages |-> IF p < end \/ p = top THEN t
                                                         ELSE IF p < brk[t] THEN 0 ELSE @[p]]]
  BY Zenon DEF M!Exec, M!Load, M!SysBrk, Runs
<1> HIDE DEF s, r, u, v, es
<1>2. /\ Sound(m) /\ M!Pages = 0 .. top /\ top \in Nat /\ top \in M!Pages /\ top >= StackAddr
      /\ StackAddr \in Nat /\ MmapAddr \in 0 .. StackAddr /\ end \in 0 .. MmapAddr
      /\ Program.text \in 0 .. end /\ brk[t] \in 0 .. MmapAddr
  <2>1. top \in Nat /\ top \in M!Pages /\ M!Pages = 0 .. top /\ StackAddr \in M!Pages
    BY PageFacts DEF M!Pages
  <2>2. Program.text \in Nat /\ end \in Nat /\ Program.text <= end /\ end <= MmapAddr /\ MmapAddr \in 0 .. StackAddr
    BY MemoryAssumption
  <2>3. brk[t] \in {-1} \cup 0 .. MmapAddr /\ Sound(m)
    BY DEF MappedTypes, Mapped
  <2> HIDE DEF top, end
  <2> QED BY <2>1, <2>2, <2>3
<1> HIDE DEF top, end
<1>3. /\ \A p \in M!Pages : p \in prog <=> p < end
      /\ prog \subseteq M!Pages /\ top \notin prog /\ top \notin old /\ old \subseteq M!Pages
      /\ \A p \in M!Pages : p \in old <=> p < brk[t]
      /\ 0 .. Program.text - 1 \subseteq prog
  BY <1>2
<1> HIDE DEF old, prog
<1>4. /\ \A p \in old \cup prog : Own(m, t, p)
  BY <1>1, <1>2, <1>3, TablesMine
<1>5. wrote \in [Procs -> [M!Pages -> Procs \cup {0}]]
  BY DEF MappedTypes
<1>6. /\ \A w \in Procs, q \in M!Pages : w # t \/ q # top => x1[w][q] = wrote[w][q]
      /\ x1[t][top] = t
      /\ \A w \in Procs, q \in M!Pages : x2[w][q] = IF w = t /\ q < brk[t] THEN 0 ELSE x1[w][q]
      /\ \A w \in Procs, q \in M!Pages : x3[w][q] = IF w = t /\ q < end THEN 0 ELSE x2[w][q]
  BY <1>2, <1>5
<1> HIDE DEF x1, x2, x3
<1>7. /\ \A w \in Procs, q \in M!Pages : w # t => wrote'[w][q] = wrote[w][q]
      /\ \A q \in M!Pages : wrote'[t][q] = IF q < end \/ q = top THEN t
                                           ELSE IF q < brk[t] THEN 0 ELSE wrote[t][q]
  BY <1>1, <1>5
<1>8. /\ none[t] = 0 /\ brk'[t] = end /\ \A w \in Procs \ {t} : none[w] = brk[w] /\ brk'[w] = none[w]
  BY <1>1 DEF MappedTypes
<1> HIDE DEF none
<1>9. /\ Mapped(s, brk, vmap, x1)
      /\ \A q \in M!Pages : Own(m, t, q) => Own(s, t, q)
  <2>1. Agree(wrote, x1, t, {top})
    BY <1>6 DEF Agree
  <2> QED BY <1>1, <1>2, <1>5, <1>6, <2>1, KernelMaps DEF s
<1>10. Mapped(r, none, vmap, x2) /\ \A q \in M!Pages : Own(s, t, q) => Own(r, t, q)
  <2>1. \A p \in old : M!Present(s, t, p) => Own(s, t, p)
    BY <1>3, <1>4, <1>9
  <2>2. Agree(x1, x2, t, old)
    BY <1>3, <1>6 DEF Agree
  <2>3. \A q \in M!Pages \ old : q < brk[t] \/ q \in vmap[t] => q < none[t] \/ q \in vmap[t]
    BY <1>3
  <2>4. Mapped(r, none, vmap, x2)
    <3>1. none[t] # -1 /\ \A w \in Procs \ {t} : none[w] = brk[w] /\ vmap[w] = vmap[w]
      BY <1>8
    <3> QED BY <1>3, <1>9, <2>1, <2>2, <2>3, <3>1, UnlinkMaps DEF r
  <2> QED BY <1>3, <1>9, <2>1, <2>4, UnlinkFacts DEF r, Mapped
<1>11. \A p \in prog : ~ M!Present(r, t, p) /\ Own(r, t, p)
  <2> SUFFICES ASSUME NEW p \in prog PROVE ~ M!Present(r, t, p)
    BY <1>3, <1>4, <1>9, <1>10
  <2>1. p \in M!Pages /\ p < end /\ p \in Nat
    BY <1>2, <1>3
  <2>2. \A q \in vmap[t] : q >= MmapAddr
    BY <1>2 DEF MappedTypes
  <2>3. ~ (p < none[t]) /\ p \notin vmap[t] /\ ~ (p >= StackAddr)
    BY <1>2, <1>8, <2>1, <2>2
  <2> QED BY <1>10, <2>1, <2>3 DEF Mapped, Layout
<1>12. Mapped(u, brk', vmap', x3)
  <2>1. Agree(x2, x3, t, prog) /\ \A q \in prog : x3[t][q] = 0
    BY <1>3, <1>6 DEF Agree
  <2>2. \A q \in M!Pages : q < none[t] \/ q \in vmap[t] \/ q \in prog => q < brk'[t] \/ q \in vmap'[t]
    BY <1>1, <1>2, <1>3, <1>8
  <2>3. brk'[t] # -1 /\ \A w \in Procs \ {t} : brk'[w] = none[w] /\ vmap'[w] = vmap[w]
    BY <1>1, <1>2, <1>8
  <2> QED BY <1>3, <1>10, <1>11, <2>1, <2>2, <2>3, LinkMaps DEF u
<1>13. \A p \in prog : LET n == M!EntryOf(u, t, p)
                       IN ~ n.shared /\ u.count[n.frame] = 1 /\ M!Present(u, t, p) /\ Own(u, t, p)
  <2>1. prog \in SUBSET M!Pages /\ \A p \in prog : M!Present(r, t, p) \/ Own(r, t, p)
    BY <1>3, <1>11
  <2> QED BY <1>3, <1>10, <1>11, <2>1, LinkFacts DEF u, Mapped
<1>14. Mapped(v, brk', vmap', wrote')
  <2>1. \A w \in Procs, q \in M!Pages : w # t => wrote'[w][q] = x3[w][q]
    BY <1>6, <1>7
  <2>2. ~ (top < end) /\ ~ (top < brk[t])
    BY <1>2
  <2>3. wrote'[t][top] = x3[t][top]
    BY <1>2, <1>6, <1>7, <2>2
  <2>4. \A q \in M!Pages \ prog : q # top => wrote'[t][q] = x3[t][q]
    BY <1>3, <1>6, <1>7
  <2>5. \A p \in prog : wrote'[t][p] = t
    BY <1>3, <1>7
  <2>6. Agree(x3, wrote', t, prog)
    BY <2>1, <2>3, <2>4 DEF Agree
  <2> QED BY <1>3, <1>12, <1>13, <2>5, <2>6, StoreMaps DEF v
<1>15. /\ v.dir = u.dir /\ v.count = u.count
       /\ \A p \in M!Pages : M!EntryOf(v, t, p) = M!EntryOf(u, t, p)
  BY <1>3, <1>12, <1>13, StoresFacts DEF v, Mapped
<1>16. \A p \in prog : LET n == M!EntryOf(v, t, p)
                       IN /\ ~ n.shared /\ M!Present(v, t, p) /\ Own(v, t, p)
                          /\ n \in Entry /\ n.frame # M!NoFrame
  BY <1>3, <1>13, <1>14, <1>15, EntryFacts DEF Own, M!TableOf, M!Present, Mapped, Sound
<1>17. Mapped(M!SetEntries(v, t, es), brk', vmap', wrote')
  <2>1. DOMAIN es \subseteq prog /\ DOMAIN es \subseteq M!Pages
    BY <1>3 DEF es
  <2>2. ASSUME NEW p \in DOMAIN es
        PROVE  /\ es[p] \in Entry /\ Own(v, t, p) /\ M!Present(v, t, p)
               /\ es[p].frame = M!EntryOf(v, t, p).frame
               /\ es[p].write => v.count[es[p].frame] = 1
               /\ ~ es[p].shared => ~ M!EntryOf(v, t, p).shared
    <3> DEFINE n == M!EntryOf(v, t, p)
    <3>1. n \in Entry /\ ~ n.shared /\ n.frame # M!NoFrame /\ M!Present(v, t, p) /\ Own(v, t, p)
      BY <1>16, <2>1
    <3>2. es[p] = [n EXCEPT !.write = FALSE, !.readonly = TRUE]
      BY <1>3, <1>15, <2>1, Zenon DEF es
    <3> HIDE DEF n
    <3>3. es[p] \in Entry /\ es[p].frame = n.frame /\ ~ es[p].write
      BY <3>1, <3>2 DEF Entry
    <3> QED BY <3>1, <3>3 DEF n
  <2> QED BY <1>14, <2>1, <2>2, FlagMaps
<1> QED BY <1>1, <1>17

\* Breaks, areas and pages stay what they are.
LEMMA MemoryTypes ==
  ASSUME MappedTypes, M!PagingNext
  PROVE  MappedTypes'
<1>1. /\ \A p \in plan : p \in M!Pages
      /\ Program.end \in 0 .. MmapAddr
  BY MemoryAssumption DEF MappedTypes
<1>2. plan' = plan
  BY DEF M!PagingNext
<1> DEFINE Stays == /\ brk' \in [Procs -> {-1} \cup 0 .. MmapAddr]
                    /\ vmap' \in [Procs -> SUBSET (MmapAddr .. StackAddr - 1)]
                    /\ wrote' \in [Procs -> [M!Pages -> Procs \cup {0}]]
<1>3. PICK t \in M!Live :
       \/ \E p \in plan : M!Store(t, p) \/ M!KernelStore(t, p)
       \/ \E b \in {Program.end} \cup {x \in Program.end + 1 .. MmapAddr : x - 1 \in plan} : M!Brk(t, b)
       \/ \E p \in plan \cap (MmapAddr .. StackAddr - 1) :
            \/ M!Munmap(t, p)
            \/ M!Mmap(t, p, FALSE, TRUE) \/ M!Mmap(t, p, FALSE, FALSE) \/ M!Mmap(t, p, TRUE, TRUE)
       \/ \E c \in Procs : M!Fork(t, c)
       \/ M!Exit(t)
       \/ M!Exec(t)
  BY Zenon DEF M!PagingNext
<1>4. t \in Procs
  BY DEF M!Live
<1>5. ASSUME NEW p, NEW x \in Procs \cup {0}, M!Wants(t, p, x)
      PROVE  wrote' \in [Procs -> [M!Pages -> Procs \cup {0}]]
  BY <1>4, <1>5 DEF M!Wants, MappedTypes
<1>6. ASSUME NEW p, M!Stored(t, p) PROVE wrote' \in [Procs -> [M!Pages -> Procs \cup {0}]]
  BY <1>4, <1>5, <1>6 DEF M!Stored
<1>7. ASSUME NEW p \in plan, M!Store(t, p) PROVE Stays
  <2>1. brk' = brk /\ vmap' = vmap
    BY <1>7, Zenon DEF M!Store
  <2>2. M!Stored(t, p) \/ M!Wants(t, p, IF M!Present(m, t, p) THEN wrote[t][p] ELSE 0)
    BY <1>7, Zenon DEF M!Store
  <2>3. wrote[t][p] \in Procs \cup {0}
    BY <1>1, <1>4, <1>7 DEF MappedTypes
  <2> QED BY <1>5, <1>6, <2>1, <2>2, <2>3 DEF MappedTypes
<1>8. ASSUME NEW p \in plan, M!KernelStore(t, p) PROVE Stays
  <2>1. brk' = brk /\ vmap' = vmap /\ M!Stored(t, p)
    BY <1>8, Zenon DEF M!KernelStore
  <2> QED BY <1>6, <2>1 DEF MappedTypes
<1>9. ASSUME NEW b \in {Program.end} \cup {x \in Program.end + 1 .. MmapAddr : x - 1 \in plan}, M!Brk(t, b)
      PROVE  Stays
  <2>1. /\ brk' = [brk EXCEPT ![t] = b] /\ vmap' = vmap
        /\ wrote' = [wrote EXCEPT ![t] = [p \in M!Pages |-> IF b <= p /\ p < brk[t] THEN 0 ELSE @[p]]]
    BY <1>9, Zenon DEF M!Brk
  <2>2. b \in 0 .. MmapAddr
    BY <1>1, <1>9, MemoryAssumption
  <2> QED BY <1>4, <2>1, <2>2 DEF MappedTypes
<1>10. ASSUME NEW p \in plan \cap (MmapAddr .. StackAddr - 1), M!Munmap(t, p) PROVE Stays
  <2>1. brk' = brk /\ vmap' = [vmap EXCEPT ![t] = @ \ {p}] /\ M!Wants(t, p, 0)
    BY <1>10, Zenon DEF M!Munmap
  <2>2. wrote' \in [Procs -> [M!Pages -> Procs \cup {0}]]
    BY <1>5, <2>1
  <2> QED BY <1>4, <2>1, <2>2 DEF MappedTypes
<1>11. ASSUME NEW p \in plan \cap (MmapAddr .. StackAddr - 1), NEW shared, NEW write, M!Mmap(t, p, shared, write)
       PROVE  Stays
  <2>1. brk' = brk /\ vmap' = [vmap EXCEPT ![t] = @ \cup {p}] /\ M!Wants(t, p, 0)
    BY <1>11, Zenon DEF M!Mmap
  <2>2. wrote' \in [Procs -> [M!Pages -> Procs \cup {0}]]
    BY <1>5, <2>1
  <2> QED BY <1>4, <1>11, <2>1, <2>2 DEF MappedTypes
<1>12. ASSUME NEW c \in Procs, M!Fork(t, c) PROVE Stays
  <2>1. /\ brk' = [brk EXCEPT ![c] = brk[t]]
        /\ vmap' = [vmap EXCEPT ![c] = vmap[t]] /\ wrote' = [wrote EXCEPT ![c] = wrote[t]]
    BY <1>12, Zenon DEF M!Fork
  <2> QED BY <1>4, <2>1 DEF MappedTypes
<1>13. ASSUME M!Exit(t) PROVE Stays
  <2>1. /\ brk' = [brk EXCEPT ![t] = -1] /\ vmap' = [vmap EXCEPT ![t] = {}]
        /\ wrote' = [wrote EXCEPT ![t] = [p \in M!Pages |-> 0]]
    BY <1>13, Zenon DEF M!Exit
  <2> QED BY <1>4, <2>1 DEF MappedTypes
<1>14. ASSUME M!Exec(t) PROVE Stays
  <2>1. /\ brk' = [brk EXCEPT ![t] = Program.end] /\ vmap' = vmap
        /\ wrote' = [wrote EXCEPT ![t] = [p \in M!Pages |-> IF p < Program.end \/ p = M!LastPage THEN t
                                                           ELSE IF p < brk[t] THEN 0 ELSE @[p]]]
    BY <1>14, Zenon DEF M!Exec
  <2> QED BY <1>1, <1>4, <2>1 DEF MappedTypes
<1>15. Stays
  <2> HIDE DEF Stays
  <2> QED BY <1>3, <1>7, <1>8, <1>9, <1>10, <1>11, <1>12, <1>13, <1>14, Zenon
<1> QED BY <1>2, <1>15 DEF MappedTypes

\* No frame is used before the first step.
LEMMA MemoryInit ==
  ASSUME M!PagingInit PROVE MemoryGood
<1>1. \E h \in Stops :
        m = [count |-> [f \in M!Frames |-> 0], data |-> [f \in M!Frames |-> 0],
             table |-> [f \in M!Frames |-> M!NoTable], dir |-> [t \in Procs |-> M!NoDir], halt |-> h]
  <2>1. "" \in Stops
    BY Zenon DEF Stops
  <2>2. m = [count |-> [f \in M!Frames |-> 0], data |-> [f \in M!Frames |-> 0],
             table |-> [f \in M!Frames |-> M!NoTable], dir |-> [t \in Procs |-> M!NoDir], halt |-> ""]
    BY Zenon DEF M!PagingInit
  <2> QED BY <2>1, <2>2, Zenon
<1>2. /\ m.count = [f \in M!Frames |-> 0] /\ m.data = [f \in M!Frames |-> 0]
      /\ m.table = [f \in M!Frames |-> M!NoTable] /\ m.dir = [t \in Procs |-> M!NoDir]
  BY <1>1
<1>3. brk = [t \in Procs |-> IF t = 1 THEN 0 ELSE -1] /\ vmap = [t \in Procs |-> {}]
      /\ wrote = [t \in Procs |-> [p \in M!Pages |-> 0]] /\ plan \in Plans
  BY Zenon DEF M!PagingInit
<1>4. MappedTypes
  <2>1. 0 \in 0 .. MmapAddr
    BY MemoryAssumption, PageFacts
  <2>2. M!Pages = 0 .. Cardinality(Dirs) * PerTable - 1
    BY DEF M!Pages, M!LastPage, M!Cardinality, Cardinality
  <2>3. plan \subseteq M!Pages
    BY <1>3, <2>2, MemoryAssumption
  <2>4. /\ brk \in [Procs -> {-1} \cup 0 .. MmapAddr]
        /\ vmap \in [Procs -> SUBSET (MmapAddr .. StackAddr - 1)]
        /\ wrote \in [Procs -> [M!Pages -> Procs \cup {0}]]
    BY <1>3, <2>1
  <2> QED BY <2>3, <2>4 DEF MappedTypes
<1>5. \A t \in Procs, d \in Dirs : m.dir[t][d].table = M!NoFrame /\ ~ m.dir[t][d].write
  BY <1>2 DEF M!NoDir
<1>6. IsMemory(m)
  <2>1. M!NoDir \in [Dirs -> [table : M!Frames \cup {M!NoFrame}, write : BOOLEAN]]
    BY DEF M!NoDir
  <2> HIDE DEF MemoryGood
  <2> QED BY <1>1, <2>1, NoEntryFacts DEF IsMemory
<1>7. \A t \in Procs, p \in M!Pages : M!EntryOf(m, t, p) = M!NoEntry /\ ~ M!Present(m, t, p)
  <2> SUFFICES ASSUME NEW t \in Procs, NEW p \in M!Pages PROVE M!EntryOf(m, t, p) = M!NoEntry
    BY NoEntryFacts DEF M!Present
  <2>1. M!TableOf(m, t, p) = M!NoFrame
    BY <1>5, PageFacts DEF M!TableOf
  <2> QED BY <2>1 DEF M!EntryOf
<1>8. Counted(m)
  <2> SUFFICES ASSUME NEW f \in M!Frames PROVE m.count[f] = Cardinality(Holders(m, f))
    BY DEF Counted
  <2>1. ASSUME NEW t \in Procs PROVE ~ Holds(m, t, f)
    <3>1. f # M!NoFrame /\ (f.for = "page" => f.nr \in M!Pages) /\ (f.for # "page" => f.nr \in Dirs)
      BY FrameFacts
    <3>2. CASE f.for = "page"
      BY <1>7, <3>1, <3>2, NoEntryFacts DEF Holds
    <3>3. CASE f.for # "page"
      BY <1>5, <3>1, <3>3 DEF Holds
    <3> QED BY <3>2, <3>3
  <2>2. Holders(m, f) = {}
    BY <2>1 DEF Holders
  <2> QED BY <1>2, <2>2, FS_EmptySet
<1>9. InPlace(m) /\ Clean(m) /\ Alone(m)
  BY <1>2, <1>5, <1>7 DEF InPlace, Clean, Alone
<1>10. Sound(m)
  BY <1>6, <1>8, <1>9 DEF Sound
<1>11. Idle(m, brk)
  BY <1>2 DEF Idle
<1>12. Layout(m, brk, vmap) /\ Private(m) /\ Content(m, wrote)
  BY <1>7 DEF Layout, Private, Content
<1> QED BY <1>4, <1>10, <1>11, <1>12 DEF MemoryGood, Mapped

\* Every action leaves memory as it should be.
LEMMA MemoryStep ==
  ASSUME "tables" \notin Reckless, MemoryGood, [M!PagingNext]_(M!mvars)
  PROVE  MemoryGood'
<1>1. CASE UNCHANGED M!mvars
  <2>1. m' = m /\ brk' = brk /\ vmap' = vmap /\ wrote' = wrote /\ plan' = plan
    BY <1>1 DEF M!mvars
  <2>2. MappedTypes'
    BY <2>1 DEF MemoryGood, MappedTypes
  <2>3. Runs(m') => Mapped(m', brk', vmap', wrote')
    BY <2>1 DEF MemoryGood
  <2> QED BY <2>2, <2>3 DEF MemoryGood
<1>2. CASE M!PagingNext
  <2>1. MappedTypes /\ MappedTypes'
    BY <1>2, MemoryTypes DEF MemoryGood
  <2>2. \A p \in plan : p \in M!Pages
    BY <2>1 DEF MappedTypes
  <2> DEFINE Kept == Mapped(m', brk', vmap', wrote')
  <2> SUFFICES ASSUME Runs(m') PROVE Kept
    BY <2>1 DEF MemoryGood
  <2>3. PICK t \in M!Live :
         \/ \E p \in plan : M!Store(t, p) \/ M!KernelStore(t, p)
         \/ \E b \in {Program.end} \cup {x \in Program.end + 1 .. MmapAddr : x - 1 \in plan} : M!Brk(t, b)
         \/ \E p \in plan \cap (MmapAddr .. StackAddr - 1) :
              \/ M!Munmap(t, p)
              \/ M!Mmap(t, p, FALSE, TRUE) \/ M!Mmap(t, p, FALSE, FALSE) \/ M!Mmap(t, p, TRUE, TRUE)
         \/ \E c \in Procs : M!Fork(t, c)
         \/ M!Exit(t)
         \/ M!Exec(t)
    BY <1>2, Zenon DEF M!PagingNext
  <2>4. t \in Procs /\ brk[t] # -1
    BY DEF M!Live
  <2>5. ASSUME Runs(m) PROVE Mapped(m, brk, vmap, wrote)
    BY <2>5 DEF MemoryGood
  <2>6. ASSUME NEW p \in plan, M!Store(t, p) PROVE Kept
    <3>1. Runs(m)
      BY <2>6, Zenon DEF M!Store, M!Touched, Runs
    <3> QED BY <2>1, <2>2, <2>4, <2>5, <2>6, <3>1, StoreStep
  <2>7. ASSUME NEW p \in plan, M!KernelStore(t, p) PROVE Kept
    <3>1. Runs(m)
      BY <2>7, Zenon DEF M!KernelStore, M!Touched, Runs
    <3> QED BY <2>1, <2>2, <2>4, <2>5, <2>7, <3>1, KernelStoreStep
  <2>8. ASSUME NEW b \in {Program.end} \cup {x \in Program.end + 1 .. MmapAddr : x - 1 \in plan}, M!Brk(t, b)
        PROVE  Kept
    <3>1. Runs(m)
      BY <2>8, Zenon DEF M!Brk, Runs
    <3>2. b \in 0 .. MmapAddr
      BY MemoryAssumption
    <3> QED BY <2>1, <2>4, <2>5, <2>8, <3>1, <3>2, BrkStep
  <2>9. ASSUME NEW p \in plan \cap (MmapAddr .. StackAddr - 1), M!Munmap(t, p) PROVE Kept
    <3>1. Runs(m)
      BY <2>9, Zenon DEF M!Munmap, Runs
    <3> QED BY <2>1, <2>2, <2>4, <2>5, <2>9, <3>1, MunmapStep
  <2>10. ASSUME NEW p \in plan \cap (MmapAddr .. StackAddr - 1), NEW shared \in BOOLEAN, NEW write \in BOOLEAN,
                M!Mmap(t, p, shared, write)
         PROVE  Kept
    <3>1. Runs(m)
      BY <2>10, Zenon DEF M!Mmap, Runs
    <3> QED BY <2>1, <2>2, <2>4, <2>5, <2>10, <3>1, MmapStep
  <2>11. ASSUME NEW c \in Procs, M!Fork(t, c) PROVE Kept
    <3>1. Runs(m)
      BY <2>11, Zenon DEF M!Fork, Runs
    <3> QED BY <2>1, <2>4, <2>5, <2>11, <3>1, ForkStep
  <2>12. ASSUME M!Exit(t) PROVE Kept
    <3>1. Runs(m)
      BY <2>12, Zenon DEF M!Exit, Runs
    <3> QED BY <2>1, <2>4, <2>5, <2>12, <3>1, ExitStep
  <2>13. ASSUME M!Exec(t) PROVE Kept
    <3>1. Runs(m)
      BY <2>13, Zenon DEF M!Exec, Runs
    <3> QED BY <2>1, <2>4, <2>5, <2>13, <3>1, ExecStep
  <2> HIDE DEF Kept
  <2> QED BY <2>3, <2>6, <2>7, <2>8, <2>9, <2>10, <2>11, <2>12, <2>13, Zenon
<1> QED BY <1>1, <1>2, Zenon

\* Pairs with one second part are as many as their first parts.
LEMMA PairCount ==
  ASSUME NEW S, IsFiniteSet(S), NEW n
  PROVE  Cardinality({<<x, n>> : x \in S}) = Cardinality(S)
<1> DEFINE T == {<<x, n>> : x \in S}
           g == [x \in S |-> <<x, n>>]
<1>1. g \in [S -> T] /\ \A x \in S : g[x] = <<x, n>>
  OBVIOUS
<1>2. \A y \in T : \E x \in S : g[x] = y
  OBVIOUS
<1>3. \A x, y \in S : g[x] = g[y] => x = y
  OBVIOUS
<1> HIDE DEF g, T
<1>4. g \in Bijection(S, T)
  BY <1>1, <1>2, <1>3 DEF Bijection, Injection, Surjection, IsInjective
<1>5. Cardinality(T) = Cardinality(S)
  BY <1>4, FS_Bijection DEF ExistsBijection
<1> QED BY <1>5 DEF T

\* Sound memory counts as FramesCounted says.
LEMMA CountsFrames ==
  ASSUME MemoryGood PROVE M!FramesCounted
<1> SUFFICES ASSUME Runs(m), NEW f \in M!Frames
             PROVE  m.count[f] = M!Quantify(M!Live \X M!Pages, LAMBDA x : M!EntryOf(m, x[1], x[2]).frame = f)
                               + M!Quantify(M!Live \X Dirs, LAMBDA x : m.dir[x[1]][x[2]].table = f)
  BY Zenon DEF M!FramesCounted, Runs
<1> DEFINE A == {x \in M!Live \X M!Pages : M!EntryOf(m, x[1], x[2]).frame = f}
           B == {x \in M!Live \X Dirs : m.dir[x[1]][x[2]].table = f}
           hs == Holders(m, f)
<1>1. /\ M!Quantify(M!Live \X M!Pages, LAMBDA x : M!EntryOf(m, x[1], x[2]).frame = f) = Cardinality(A)
      /\ M!Quantify(M!Live \X Dirs, LAMBDA x : m.dir[x[1]][x[2]].table = f) = Cardinality(B)
  BY DEF M!Quantify, M!Cardinality, Cardinality
<1>2. Sound(m) /\ Idle(m, brk) /\ InPlace(m)
  BY DEF MemoryGood, Mapped, Sound
<1>3. IsFiniteSet(hs) /\ m.count[f] = Cardinality(hs) /\ Cardinality(hs) \in Nat
  BY <1>2, HolderFacts DEF Sound
<1>4. /\ f # M!NoFrame /\ f.for \in {"page", "table"}
      /\ f.for = "page" => f.nr \in M!Pages
      /\ f.for = "table" => f.nr \in Dirs
  BY FrameFacts
<1>5. hs \subseteq M!Live
  <2> SUFFICES ASSUME NEW t \in Procs, brk[t] = -1, Holds(m, t, f) PROVE FALSE
    BY DEF Holders, M!Live
  <2>1. m.dir[t] = M!NoDir
    BY <1>2 DEF Idle
  <2>2. CASE f.for = "page"
    <3>1. M!DirOf(f.nr) \in Dirs
      BY <1>4, <2>2, PageFacts
    <3>2. M!TableOf(m, t, f.nr) = M!NoFrame
      BY <2>1, <3>1 DEF M!TableOf, M!NoDir
    <3> QED BY <1>4, <2>2, <3>2, NoEntryFacts DEF Holds, M!EntryOf
  <2>3. CASE f.for = "table"
    BY <1>4, <2>1, <2>3 DEF Holds, M!NoDir
  <2> QED BY <1>4, <2>2, <2>3
<1>6. M!Live \subseteq Procs
  BY DEF M!Live
<1>7. CASE f.for = "page"
  <2>1. B = {}
    <3> SUFFICES ASSUME NEW t \in M!Live, NEW d \in Dirs, m.dir[t][d].table = f PROVE FALSE
      OBVIOUS
    <3> QED BY <1>2, <1>4, <1>6, <1>7 DEF InPlace
  <2>2. ASSUME NEW t \in M!Live, NEW p \in M!Pages
        PROVE  M!EntryOf(m, t, p).frame = f <=> p = f.nr /\ t \in hs
    <3>1. M!EntryOf(m, t, p).frame = f => p = f.nr
      BY <1>2, <1>4, <1>6 DEF InPlace, M!Present
    <3>2. t \in hs <=> M!EntryOf(m, t, f.nr).frame = f
      BY <1>6, <1>7 DEF Holders, Holds
    <3> QED BY <3>1, <3>2
  <2> HIDE DEF hs, B
  <2>3. A = {<<t, f.nr>> : t \in hs}
    <3>1. ASSUME NEW x \in A PROVE x \in {<<t, f.nr>> : t \in hs}
      <4>1. PICK t \in M!Live, d \in M!Pages : x = <<t, d>>
        OBVIOUS
      <4>2. t \in hs /\ d = f.nr
        BY <2>2, <4>1
      <4> QED BY <4>1, <4>2
    <3>2. ASSUME NEW t \in hs PROVE <<t, f.nr>> \in A
      <4>1. t \in M!Live /\ f.nr \in M!Pages
        BY <1>4, <1>5, <1>7
      <4> QED BY <2>2, <4>1
    <3> DEFINE T == {<<t, f.nr>> : t \in hs}
    <3> HIDE DEF A
    <3>3. \A y \in T : y \in A
      BY <3>2
    <3>4. \A y \in A : y \in T
      BY <3>1
    <3> HIDE DEF T
    <3>5. A = T
      BY <3>3, <3>4
    <3> QED BY <3>5 DEF T
  <2>4. Cardinality(A) = Cardinality(hs)
    <3>1. Cardinality({<<t, f.nr>> : t \in hs}) = Cardinality(hs)
      BY <1>3, PairCount
    <3> HIDE DEF A
    <3> QED BY <2>3, <3>1, Zenon
  <2>5. Cardinality(B) = 0
    BY <2>1, FS_EmptySet
  <2> HIDE DEF A
  <2> QED BY <1>1, <1>3, <2>4, <2>5, SMTT(60)
<1>8. CASE f.for = "table"
  <2>1. A = {}
    <3> SUFFICES ASSUME NEW t \in M!Live, NEW p \in M!Pages, M!EntryOf(m, t, p).frame = f PROVE FALSE
      OBVIOUS
    <3> QED BY <1>2, <1>4, <1>6, <1>8 DEF InPlace, M!Present
  <2>2. ASSUME NEW t \in M!Live, NEW d \in Dirs
        PROVE  m.dir[t][d].table = f <=> d = f.nr /\ t \in hs
    <3>1. m.dir[t][d].table = f => d = f.nr
      BY <1>2, <1>4, <1>6 DEF InPlace
    <3>2. t \in hs <=> m.dir[t][f.nr].table = f
      BY <1>6, <1>8 DEF Holders, Holds
    <3> QED BY <3>1, <3>2
  <2> HIDE DEF hs, A
  <2>3. B = {<<t, f.nr>> : t \in hs}
    <3>1. ASSUME NEW x \in B PROVE x \in {<<t, f.nr>> : t \in hs}
      <4>1. PICK t \in M!Live, d \in Dirs : x = <<t, d>>
        OBVIOUS
      <4>2. t \in hs /\ d = f.nr
        BY <2>2, <4>1
      <4> QED BY <4>1, <4>2
    <3>2. ASSUME NEW t \in hs PROVE <<t, f.nr>> \in B
      <4>1. t \in M!Live /\ f.nr \in Dirs
        BY <1>4, <1>5, <1>8
      <4> QED BY <2>2, <4>1
    <3> DEFINE T == {<<t, f.nr>> : t \in hs}
    <3> HIDE DEF B
    <3>3. \A y \in T : y \in B
      BY <3>2
    <3>4. \A y \in B : y \in T
      BY <3>1
    <3> HIDE DEF T
    <3>5. B = T
      BY <3>3, <3>4
    <3> QED BY <3>5 DEF T
  <2>4. Cardinality(B) = Cardinality(hs)
    <3>1. Cardinality({<<t, f.nr>> : t \in hs}) = Cardinality(hs)
      BY <1>3, PairCount
    <3> HIDE DEF B
    <3> QED BY <2>3, <3>1, Zenon
  <2>5. Cardinality(A) = 0
    BY <2>1, FS_EmptySet
  <2> HIDE DEF B
  <2> QED BY <1>1, <1>3, <2>4, <2>5, SMTT(60)
<1> QED BY <1>4, <1>7, <1>8

\* Pages of careful tasks hold what MemoryPrivate says.
LEMMA KeepsPrivate ==
  ASSUME MemoryGood, Careful PROVE M!MemoryPrivate
<1> SUFFICES ASSUME Runs(m), NEW t \in M!Live, NEW p \in M!Pages, M!Present(m, t, p), ~ M!EntryOf(m, t, p).shared
             PROVE  m.data[M!EntryOf(m, t, p).frame] = wrote[t][p]
  BY Zenon DEF M!MemoryPrivate, Runs
<1>1. t \in Procs
  BY DEF M!Live
<1> QED BY <1>1 DEF MemoryGood, Mapped, Content

\* So it is always.
LEMMA MemoryAlways == ASSUME "tables" \notin Reckless PROVE System => []MemoryGood
<1>1. Boot => MemoryGood
  BY MemoryInit DEF Boot
<1>2. MemoryGood /\ [Run]_<<part, vars, pvars, mvars, hvars>> => MemoryGood'
  <2>1. [Run]_<<part, vars, pvars, mvars, hvars>> => [M!PagingNext]_(M!mvars)
    BY DEF Run, mvars, M!mvars
  <2> QED
    BY <2>1, MemoryStep
<1> QED
  BY <1>1, <1>2, PTL DEF System

\* get_page, put_page, link_page, unlink_page, copy_on_write, copy_pde, free_pde:
\* for any numbers of tasks, page tables and frames, a frame counts the tasks that
\* reach it, and a page table the directories it is in, as long as no page appears
\* in or goes from a table that is shared.
THEOREM FramesStayCounted ==
  ASSUME "tables" \notin Reckless PROVE System => []FramesCounted
<1>1. MemoryGood => FramesCounted
  BY CountsFrames DEF FramesCounted
<1> QED
  BY <1>1, MemoryAlways, PTL

\* copy_on_write, copy_pde: for any number of tasks, a task finds in its private
\* pages what it stored there or inherited, as long as the kernel, too, stores only
\* into frames that are not shared.
THEOREM MemoryStaysPrivate ==
  ASSUME "tables" \notin Reckless, "kernel" \notin Reckless PROVE System => []MemoryPrivate
<1>1. MemoryGood => MemoryPrivate
  BY KeepsPrivate DEF MemoryPrivate, Careful
<1> QED
  BY <1>1, MemoryAlways, PTL
=============================================================================
