---------------------------- MODULE ProcessTable ----------------------------
(***************************************************************************)
(* The life of tasks: fork, exit and waitpid of src/kernel/task.c, signals *)
(* of signal.c, alarms of alarm.c, sessions and groups of system.c.        *)
(*                                                                         *)
(* The kernel is not preempted: a call runs to its end, or to the place    *)
(* where it sleeps, and ends in interrupt_exit, which delivers one signal  *)
(* (TaskSignal).  Which ready task goes on is left open; that choice is    *)
(* the subject of Scheduler.  The operators work on a record [task,        *)
(* timers, halt], the task_table, the timers of alarms and the assertion   *)
(* or panic that has stopped the kernel.                                   *)
(***************************************************************************)
EXTENDS Integers, FiniteSetsExt, Sequences

CONSTANTS
  TaskNr,      \* TASK_NR, slots of task_table from 1 (slot 0 is idle)
  Signals,     \* signal numbers that are sent, those below among them
  Handled,     \* bound: signals whose action is changed
  MaxFrames,   \* bound: handlers of a task that have not returned
  Calls,       \* bound: [groups, tasks], the groups of calls that one behaviour
               \* makes and how many tasks it has
  Files,       \* files a task has open when it exits
  Careless     \* what is allowed of "alarm": fork while an alarm is set

SIGHUP  == 1
SIGKILL == 9
SIGALRM == 14
SIGCHLD == 17
Pids == 1 .. TaskNr
Any  == 0 - 1                \* waitpid(-1)
All  == Signals \cup {0}     \* a mask of all ones
NoTask == [state |-> "none"]

VARIABLES
  procs,   \* the record above
  calls    \* what this behaviour does, one of Calls

pvars == <<procs, calls>>

Bind(result, Rest(_)) == Rest(result)
Stop(s, why)  == IF s.halt = "" THEN [s EXCEPT !.halt = why] ELSE s
Exists(s, t)  == s.task[t].state # "none"
Pending(s, t) == s.task[t].signal \ s.task[t].blocked
Default == [handler |-> "dfl", once |-> FALSE, nomask |-> FALSE]

\* What task_create and task_to_user_mode make: init.
FirstTask == [state |-> "ready", pc |-> "user", ppid |-> 0, sid |-> 0, pgid |-> 0, waitpid |-> 0,
              signal |-> {}, blocked |-> {}, act |-> [x \in Signals |-> Default],
              frames |-> << >>, alarm |-> 0]

\* The default action of a signal ends the task.
Fatal(s, t, sig) == s.task[t].act[sig].handler = "dfl" /\ sig # SIGCHLD
-----------------------------------------------------------------------------
\* task_unblock.
Unblock(s, t) == [s EXCEPT !.task[t].state = "ready"]

\* task_kill_session: the other tasks of a session whose leader exits.
KillSession(s, t) ==
  IF s.task[t].sid # t THEN s
  ELSE [s EXCEPT !.task = [x \in Pids |->
         IF x # t /\ Exists(s, x) /\ s.task[x].sid = t
           THEN [s.task[x] EXCEPT !.signal = @ \cup {SIGHUP}] ELSE s.task[x]]]

\* task_tell_fater.
TellFather(s, t) ==
  LET p == s.task[t].ppid
  IN IF p = 0 THEN s
     ELSE IF ~ Exists(s, p) THEN Stop(s, "No Parent found")
     ELSE [s EXCEPT !.task[p].signal = @ \cup {SIGCHLD}]

BugReparentNone(s, t) == s

\* Children of t, but not init, become children of its parent.
Reparent(s, t) ==
  [s EXCEPT !.task = [x \in Pids |->
     IF x >= 2 /\ Exists(s, x) /\ s.task[x].ppid = t
       THEN [s.task[x] EXCEPT !.ppid = s.task[t].ppid] ELSE s.task[x]]]

BugWakeParentOfAny(s, t) ==
  LET p == s.task[t].ppid
  IN IF p # 0 /\ s.task[p].state = "waiting" /\ s.task[p].waitpid = Any THEN Unblock(s, p) ELSE s

\* The end of task_exit: the parent, if it waits for t.
WakeParent(s, t) ==
  LET p == s.task[t].ppid
  IN IF p # 0 /\ s.task[p].state = "waiting" /\ s.task[p].waitpid \in {Any, t}
       THEN Unblock(s, p) ELSE s

\* What is still read of a task that has exited.
Zombie(task) == [FirstTask EXCEPT !.state = "died", !.ppid = task.ppid, !.sid = task.sid, !.pgid = task.pgid]

\* The signals that are delivered while task_exit closes the files of t, one at
\* the end of each close(): the lowest that are pending.
Delivered(s, t) ==
  {sig \in Pending(s, t) : Cardinality({x \in Pending(s, t) : x < sig}) < Files}

BugExitKeepsTimers(s, t) ==
  IF s.task[t].state # "ready" THEN Stop(s, "task_exit")
  ELSE Bind(TellFather(KillSession([s EXCEPT !.task[t].state = "died"], t), t), LAMBDA u :
    IF \E sig \in Delivered(u, t) : Fatal(u, t, sig) THEN Stop(u, "task_exit")
    ELSE WakeParent(Reparent([u EXCEPT !.task[t] = Zombie(@)], t), t))

\* task_exit.  Closing a file is a system call of its own, made from the
\* kernel, and delivers a signal at its end: one that is fatal enters
\* task_exit again, whose assertion fails.  One that has a handler pushes a
\* frame on the user stack and changes the registers of the task's last entry:
\* the task never goes back there, and the page of the stack has been given back
\* by free_pde, but the directory still maps it, so that the store goes to a frame
\* nobody has.  (It would be somebody's if the exit had slept in iput; see the
\* README.)
TaskExit(s, t) ==
  IF s.task[t].state # "ready" THEN Stop(s, "task_exit")
  ELSE Bind(TellFather(KillSession([s EXCEPT !.task[t].state = "died"], t), t), LAMBDA u :
    IF \E sig \in Delivered(u, t) : Fatal(u, t, sig) THEN Stop(u, "task_exit")
    ELSE WakeParent(Reparent([u EXCEPT !.timers = {m \in @ : m.task # t}, !.task[t] = Zombie(@)], t), t))

\* task_signal: one signal, the lowest that is pending and not blocked.
TaskSignal(s, t) ==
  LET sig == Min(Pending(s, t))
      act == s.task[t].act[sig]
  IN IF s.halt # "" \/ Pending(s, t) = {} THEN s
     ELSE Bind([s EXCEPT !.task[t].signal = @ \ {sig}], LAMBDA u :
       IF act.handler = "ign" \/ (act.handler = "dfl" /\ sig = SIGCHLD) THEN u
       ELSE IF act.handler = "dfl" THEN TaskExit(u, t)
       ELSE [u EXCEPT !.task[t].frames = Append(@, IF act.nomask THEN u.task[t].blocked ELSE All),
                      !.task[t].act[sig].handler = IF act.once THEN "dfl" ELSE @])

\* interrupt_exit: task t goes back to user mode.  Its waitpid is not read
\* again before it waits.
Return(s, t) == TaskSignal([s EXCEPT !.task[t].pc = "user", !.task[t].waitpid = 0], t)

\* task_waitpid from the head of its loop.
Waitpid(s, t, pid) ==
  LET mine == {x \in Pids \ {1} : Exists(s, x) /\ s.task[x].ppid = t /\ pid \in {Any, x}}
      dead == {x \in mine : s.task[x].state = "died"}
  IN IF dead # {} THEN Return([s EXCEPT !.task[Min(dead)] = NoTask], t)
     ELSE IF mine # {} THEN [s EXCEPT !.task[t] = [@ EXCEPT !.waitpid = pid, !.pc = "waitpid",
                                                             !.state = "waiting"]]
     ELSE Return(s, t)

\* sys_kill, of which task_alarm makes use.
SysKill(s, p, sig) ==
  IF p = 1 \/ s.task[p].state \in {"none", "died"} THEN s
  ELSE Bind([s EXCEPT !.task[p].signal = @ \cup {sig}], LAMBDA u :
         IF u.task[p].state \in {"waiting", "sleeping"} THEN Unblock(u, p) ELSE u)

\* timer_put of a timer that has gone is a use of freed memory.
TimerPut(s, id) ==
  IF \E m \in s.timers : m.id = id THEN [s EXCEPT !.timers = {m \in @ : m.id # id}]
  ELSE Stop(s, "timer_put")
FreeId(s) == Min((1 .. TaskNr + 1) \ {m.id : m \in s.timers})
-----------------------------------------------------------------------------
\* A task that others take over from has been interrupted: it is in the
\* kernel, on its way to interrupt_exit.
Switch(s, t) == [s EXCEPT !.task = [x \in Pids |->
  IF x # t /\ Exists(s, x) /\ s.task[x].pc = "user" THEN [s.task[x] EXCEPT !.pc = "return"]
  ELSE s.task[x]]]

\* Task t goes on from pc, with the effect s; an interrupt has the effect s.
Step(t, pc, s) ==
  /\ procs.halt = "" /\ procs.task[t].state = "ready" /\ procs.task[t].pc = pc
  /\ procs' = Switch(s, t) /\ UNCHANGED calls
Call(t, s) == Step(t, "user", Return(s, t))
Irq(s) == procs.halt = "" /\ procs' = Switch(s, 0) /\ UNCHANGED calls

\* task_fork: the child is a copy, pending signals and alarm included.
Fork(t) ==
  LET free == {x \in Pids : ~ Exists(procs, x)}
      child == [procs.task[t] EXCEPT !.ppid = t, !.pc = "return"]
  IN /\ "alarm" \in Careless \/ procs.task[t].alarm = 0
     /\ free = {} \/ TaskNr - Cardinality(free) < calls.tasks
     /\ Call(t, IF free = {} THEN Stop(procs, "No more tasks")
                ELSE [procs EXCEPT !.task[Min(free)] = child])

\* sys_exit.  init does not exit.
Exit(t) == t # 1 /\ Step(t, "user", TaskExit(procs, t))

\* waitpid, and its loop when the task has been woken.
Wait(t, pid) == Step(t, "user", Waitpid(procs, t, pid))
WaitAgain(t) == Step(t, "waitpid", Waitpid(procs, t, procs.task[t].waitpid))

\* Back to user mode: a new task, one that has slept, or been interrupted.
Resume(t) == Step(t, "return", Return(procs, t))

\* task_sleep, and its timer.
Sleep(t) ==
  Step(t, "user", [procs EXCEPT !.task[t] = [@ EXCEPT !.state = "sleeping", !.pc = "return"]])
SleepEnds(t) == procs.task[t].state = "sleeping" /\ Irq(Unblock(procs, t))

Kill(t, p, sig) == Call(t, SysKill(procs, p, sig))

\* An interrupt in user mode that concerns no task.
Interrupt(t) == Call(t, procs)

\* sys_signal and sys_sigaction; the mask of an action is not used.
Handle(t, sig, act) ==
  Call(t, IF sig = SIGKILL THEN procs ELSE [procs EXCEPT !.task[t].act[sig] = act])

\* sys_ssetmask; all ones is refused.
SetMask(t, mask) ==
  Call(t, IF mask = All THEN procs ELSE [procs EXCEPT !.task[t].blocked = mask \ {SIGKILL}])

\* The restorer: ssetmask with the mask of the frame, then the frame goes.
HandlerReturns(t) ==
  LET frames == procs.task[t].frames
      mask   == frames[Len(frames)]
      popped == [procs EXCEPT !.task[t].frames = SubSeq(frames, 1, Len(frames) - 1)]
  IN /\ frames # << >>
     /\ Call(t, IF mask = All THEN popped ELSE [popped EXCEPT !.task[t].blocked = mask \ {SIGKILL}])

\* sys_alarm, and the timer: task_alarm and timer_put.
Alarm(t) ==
  LET old == procs.task[t].alarm
      put == IF old = 0 THEN procs ELSE TimerPut(procs, old)
  IN Call(t, Bind(put, LAMBDA s :
       [s EXCEPT !.timers = @ \cup {[id |-> FreeId(s), task |-> t]}, !.task[t].alarm = FreeId(s)]))
BugAlarmKept(m) == Irq(TimerPut(SysKill(procs, m.task, SIGALRM), m.id))
AlarmRings(m) ==
  Irq(TimerPut(SysKill([procs EXCEPT !.task[m.task].alarm = 0], m.task, SIGALRM), m.id))

\* sys_setsid and sys_setpgid.
SetSid(t) ==
  Call(t, IF procs.task[t].sid = t THEN procs
          ELSE [procs EXCEPT !.task[t] = [@ EXCEPT !.sid = t, !.pgid = t]])
SetPgid(t, p, g) ==
  Call(t, IF ~ Exists(procs, p) \/ procs.task[p].sid = p
             \/ procs.task[p].sid # procs.task[t].sid THEN procs
          ELSE [procs EXCEPT !.task[p].pgid = g])
-----------------------------------------------------------------------------
ProcInit ==
  /\ procs = [task |-> [t \in Pids |-> IF t = 1 THEN FirstTask ELSE NoTask], timers |-> {}, halt |-> ""]
  /\ calls \in Calls

FamilyCalls(t) == Fork(t) \/ Exit(t) \/ (\E pid \in (Pids \ {1}) \cup {Any} : Wait(t, pid))
                  \/ WaitAgain(t) \/ Resume(t)
SleepCalls(t)  == Sleep(t) \/ SleepEnds(t)
SignalCalls(t) ==
  \/ \E p \in Pids, sig \in Signals \ {SIGCHLD, SIGHUP} : Kill(t, p, sig)
  \/ Interrupt(t)
HandlerCalls(t) ==
  \/ \E sig \in Handled, h \in {"dfl", "ign", "fun"}, nomask \in BOOLEAN :
       Handle(t, sig, [handler |-> h, once |-> nomask, nomask |-> nomask])
  \/ \E mask \in {{}, {SIGKILL, SIGALRM}, All} : SetMask(t, mask)
  \/ HandlerReturns(t)
AlarmCalls(t) == Alarm(t) \/ (\E m \in procs.timers : m.task = t /\ AlarmRings(m))
GroupCalls(t) == SetSid(t) \/ (\E p \in Pids : SetPgid(t, p, t))

\* Bound: handlers that have not returned.
FewFrames == \A t \in Pids : Exists(procs, t) => Len(procs.task[t].frames) <= MaxFrames

ProcNext ==
  /\ \E t \in Pids :
       /\ Exists(procs, t)
       /\ \/ FamilyCalls(t)
          \/ "sleep"    \in calls.groups /\ SleepCalls(t)
          \/ "signals"  \in calls.groups /\ SignalCalls(t)
          \/ "handlers" \in calls.groups /\ HandlerCalls(t)
          \/ "alarms"   \in calls.groups /\ AlarmCalls(t)
          \/ "groups"   \in calls.groups /\ GroupCalls(t)
  /\ FewFrames'
-----------------------------------------------------------------------------
\* The parent of every task is there and has not exited: task_exit finds it,
\* to signal and to wake, and somebody can wait for every task.
ParentsLive ==
  procs.halt = "" => \A t \in Pids : Exists(procs, t) /\ procs.task[t].ppid # 0 =>
    procs.task[procs.task[t].ppid].state \notin {"none", "died"}

\* A task that waits for a child has one to wait for, and none of those it
\* waits for has exited: no exit goes unnoticed, also when the child that
\* exits hands its own children on.
WaitsForAReason ==
  procs.halt = "" => \A t \in Pids : procs.task[t].state = "waiting" =>
    LET mine == {x \in Pids \ {1} : /\ Exists(procs, x) /\ procs.task[x].ppid = t
                                    /\ procs.task[t].waitpid \in {Any, x}}
    IN mine # {} /\ \A x \in mine : procs.task[x].state # "died"

\* task.c:543 and timer.c:28: whatever is forked, killed and woken, in
\* whatever order timers ring, the parent of an exiting task is found and no timer
\* is put that has gone.  What stops the kernel is a full table, or an exit inside
\* an exit.
StopsKnown == procs.halt \in {"", "No more tasks", "task_exit"}

\* The assertion of task.c:551, "the current process is not blocked, and is
\* executing": no task that has begun to exit does so again.
ExitsOnce == procs.halt # "task_exit"

\* alarm.c:18: the alarm of a task is a timer of its own that is running,
\* and no timer outlives its task.
AlarmsOwned ==
  procs.halt = "" =>
    /\ \A t \in Pids : procs.task[t].state \notin {"none", "died"} =>
         procs.task[t].alarm = 0 \/ [id |-> procs.task[t].alarm, task |-> t] \in procs.timers
    /\ \A m \in procs.timers : procs.task[m.task].state \notin {"none", "died"}
                               /\ procs.task[m.task].alarm = m.id
=============================================================================
