-------------------------------- MODULE Fpu ---------------------------------
(***************************************************************************)
(* Lazy switching of the floating-point unit: src/kernel/fpu.c, with the   *)
(* parts of schedule, task_fork, task_exit and task_waitpid that touch it. *)
(* Every task switch sets CR0.EM and CR0.TS; the first floating-point      *)
(* instruction afterwards traps to fpu_handler, which saves the previous   *)
(* user's registers, if it still has to, and restores those of the task.   *)
(*                                                                         *)
(* What an environment contains is abstracted to a value and whose it is,  *)
(* which is history: the task that computed it, or that inherited it from  *)
(* its parent; Dead, once task_waitpid has freed the page of that task; or *)
(* nobody.  want and haunted are history variables.                        *)
(***************************************************************************)
EXTENDS Integers

CONSTANTS
  Pcbs,     \* places for a task_t
  Started,  \* the tasks there are at first
  Mortal,   \* the tasks that may exit
  Values,   \* what a task may leave in the registers
  None,     \* a null pointer
  Dead      \* a task there was, whose page is free or holds another task

ASSUME FpuAssumption ==
  /\ Started \subseteq Pcbs /\ Started # {} /\ Mortal \subseteq Pcbs
  /\ None \notin Pcbs /\ Dead \notin Pcbs \cup {None}

Environments == ((Pcbs \cup {Dead}) \X Values) \cup {<<None, "fninit">>, <<None, "junk">>}
Fninit == <<None, "fninit">>
Junk   == <<None, "junk">>    \* memory kmalloc has not initialised

VARIABLES
  alive, zombie, \* the tasks, and those that have exited and are not reaped
  running,
  ts,         \* CR0.TS and CR0.EM: the next floating-point instruction traps
  regs,       \* the environment in the unit
  last,       \* last_fpu_task
  enabled,    \* tasks with TASK_FPU_ENABLED
  area,       \* what task->fpu points to, or None
  panicked,   \* an assertion failed
  want,       \* history: the environment each task should see
  haunted     \* history: tasks in a page that last_fpu_task pointed to when they
              \* were made, and the children of those

tasks == <<alive, zombie, running>>
vars  == <<tasks, ts, regs, last, enabled, area, panicked, want, haunted>>
-----------------------------------------------------------------------------
\* fpu_enable saves the last user's registers.
Saves == last # None /\ last \in enabled

BugLoadKeeps(t) == regs

\* What fpu_enable leaves in the registers of a task other than the last user.
Load(t) == IF area[t] = None THEN Fninit ELSE area[t]

\* A floating-point instruction with the trap armed: fpu_handler, fpu_enable.
Trap ==
  /\ ~ panicked /\ ts
  /\ IF last = running
       THEN ts' = FALSE /\ UNCHANGED <<regs, last, enabled, area, panicked>>
     ELSE IF Saves /\ area[last] = None     \* assert(last_fpu_task->fpu)
       THEN panicked' = TRUE /\ UNCHANGED <<ts, regs, last, enabled, area>>
     ELSE
       LET saved == IF Saves THEN [area EXCEPT ![last] = regs] ELSE area
           kept  == IF Saves THEN enabled \ {last} ELSE enabled
           first == area[running] = None
       IN  /\ ts' = FALSE
           /\ last' = running
           /\ regs' = Load(running)
           /\ area' = IF first THEN [saved EXCEPT ![running] = Junk] ELSE saved
           /\ enabled' = IF first THEN kept \cup {running} ELSE kept
           /\ UNCHANGED panicked
  /\ UNCHANGED <<tasks, want, haunted>>

\* A floating-point instruction of the running task leaves e in the registers.
Compute(e) ==
  /\ ~ panicked /\ ~ ts
  /\ regs' = e
  /\ want' = [want EXCEPT ![running] = e]
  /\ UNCHANGED <<tasks, ts, last, enabled, area, panicked, haunted>>

\* schedule finds another task.
Switch(t) ==
  /\ ~ panicked /\ t \in alive /\ t # running
  /\ running' = t
  /\ ts' = TRUE
  /\ UNCHANGED <<alive, zombie, regs, last, enabled, area, panicked, want, haunted>>

\* What was p's is c's as well.
Inherited(e, p, c) == IF e # None /\ e[1] = p THEN <<c, e[2]>> ELSE e

\* task_fork: the child's PCB is a copy, and so is the memory behind its fpu.
\* last_fpu_task stays, also when it points to the page that becomes the child.
Fork(c) ==
  /\ ~ panicked /\ c \notin alive \cup zombie
  /\ alive' = alive \cup {c}
  /\ enabled' = IF running \in enabled THEN enabled \cup {c} ELSE enabled \ {c}
  /\ area' = [area EXCEPT ![c] = Inherited(area[running], running, c)]
  /\ want' = [want EXCEPT ![c] = Inherited(want[running], running, c)]
  /\ haunted' = IF last = c \/ running \in haunted THEN haunted \cup {c} ELSE haunted \ {c}
  /\ UNCHANGED <<zombie, running, ts, regs, last, panicked>>

\* task_exit of the running task, up to the switch to t.
Exit(t) ==
  /\ ~ panicked /\ running \in Mortal /\ t \in alive \ {running}
  /\ alive' = alive \ {running}
  /\ zombie' = zombie \cup {running}
  /\ area' = [area EXCEPT ![running] = None]
  /\ enabled' = enabled \ {running}
  /\ running' = t
  /\ ts' = TRUE
  /\ UNCHANGED <<regs, last, panicked, want, haunted>>

Disowned(e, z) == IF e # None /\ e[1] = z THEN <<Dead, e[2]>> ELSE e

\* task_waitpid frees the page of a dead task, which last_fpu_task may still
\* point to: it may hold anything from then on.  What the task left in the unit
\* stays there.  (A save through a stray fpu pointer would hit memory that is
\* not modelled.)
Reap(z) ==
  /\ ~ panicked /\ z \in zombie
  /\ zombie' = zombie \ {z}
  /\ \E flag \in {{}, {z}} : enabled' = (enabled \ {z}) \cup flag
  /\ \E pointee \in {None, Junk} : area' = [area EXCEPT ![z] = pointee]
  /\ regs' = Disowned(regs, z)
  /\ want' = [want EXCEPT ![z] = Fninit]
  /\ UNCHANGED <<alive, running, ts, last, panicked, haunted>>

Init ==
  /\ alive = Started /\ zombie = {}
  /\ running \in Started
  /\ ts = TRUE /\ regs = Fninit /\ last = None
  /\ enabled = {}
  /\ area = [t \in Pcbs |-> None]
  /\ panicked = FALSE
  /\ want = [t \in Pcbs |-> Fninit]
  /\ haunted = {}

Next ==
  \/ Trap
  \/ \E v \in Values : Compute(<<running, v>>)
  \/ \E t \in Pcbs : Switch(t) \/ Fork(t) \/ Exit(t) \/ Reap(t)

Spec == Init /\ [][Next]_vars
-----------------------------------------------------------------------------
TypeOK ==
  /\ alive \subseteq Pcbs /\ zombie \subseteq Pcbs \ alive /\ running \in alive
  /\ ts \in BOOLEAN /\ panicked \in BOOLEAN
  /\ regs \in Environments
  /\ last \in Pcbs \cup {None}
  /\ enabled \subseteq Pcbs /\ haunted \subseteq Pcbs
  /\ area \in [Pcbs -> Environments \cup {None}]
  /\ want \in [Pcbs -> Environments]

\* The environment task t will find, wherever it is kept now.
Environment(t) ==
  IF last = t THEN regs ELSE IF area[t] = None THEN Fninit ELSE area[t]

\* No task computes with what another one left in the registers, while others
\* are forked, exit and are reaped: it finds what it left itself, what its parent
\* had when it was made, or a fresh environment.  Forked tasks are as safe as the
\* first ones, except in the page of the task that used the unit last, and the
\* children of such a one: for fpu_enable it has not changed, and nothing is restored.
NoLeak == ~ ts /\ running \notin haunted => regs[1] \in {running, None}

\* fpu.c:64, "if there is a process that has used the FPU, keep its floating-
\* point environment": a task always finds the environment it left.
KeepsEnvironment == \A t \in alive : Environment(t) = want[t]
=============================================================================
