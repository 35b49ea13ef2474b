------------------------------ MODULE Scheduler ------------------------------
(***************************************************************************)
(* The task scheduler of the kernel: task states, the run queue implied by *)
(* task_table, blocking and waking (src/kernel/task.c), the sorted timer   *)
(* list (timer.c), the clock interrupt (clock.c), alarms (alarm.c) and the *)
(* waking half of sys_kill (signal.c).                                     *)
(*                                                                         *)
(* There is one processor, and every gate of the IDT is an interrupt gate, *)
(* so kernel code runs with interrupts off from its entry to the next call *)
(* of schedule().  Each action is therefore one such stretch of code.  The *)
(* clock interrupt alone is split (Tick, FireTimeout or FireAlarm for each *)
(* due timer, EndTick): `phase' keeps everything else out of the way, as   *)
(* the cleared interrupt flag does.                                        *)
(*                                                                         *)
(* Time is relative: a timer holds the ticks left until task->expires, and *)
(* task->jiffies (the tick at which a task last ran) is kept as a rank,    *)
(* because the code only ever compares two of them.  The wrap of the u32   *)
(* jiffies counter after 497 days is not modelled.                         *)
(*                                                                         *)
(* Definitions named Bug... are not part of the specification: each is a   *)
(* plausible mistake in the definition after it, kept to show that some    *)
(* property notices.                                                       *)
(***************************************************************************)
EXTENDS Integers, FiniteSets, SequencesExt

CONSTANTS
  Slots,      \* used entries of task_table
  Priority,   \* task->priority
  UserTasks,  \* tasks that run in user mode (clock interrupts are taken there)
  Delays      \* timeouts in ticks that sleepers, drivers and alarms ask for

Task == 0 .. (Slots - 1)
Idle == 0             \* task_init creates idle first: slot 0

ASSUME SchedAssumption ==
  /\ Slots \in Nat \ {0}
  /\ Priority \in [Task -> Nat \ {0}]
  /\ UserTasks \subseteq Task \ {Idle}
  /\ Delays \subseteq Nat

TIMELESS == -1        \* "no timeout": task_block arms a timer only when > 0 ms

VARIABLES
  state,    \* task->state
  linked,   \* task->node is in some waiting list
  timer,    \* task->timer # NULL
  alarm,    \* task->alarm # NULL
  pending,  \* a signal bit of the task is set
  ticks,    \* task->ticks
  last,     \* task->jiffies, as a rank
  timers,   \* timer_list, soonest first
  cur,      \* running_task()
  woken,    \* the idle loop has left its hlt: an interrupt came
  phase     \* "run", or "timers" inside clock_handler

vars     == <<state, linked, timer, alarm, pending, ticks, last, timers, cur,
              woken, phase>>

Blocked == {"BLOCKED", "SLEEPING", "WAITING"}
States  == {"READY", "RUNNING"} \cup Blocked
Kinds   == {"timeout", "alarm"}   \* default_timeout, task_alarm
-----------------------------------------------------------------------------
(* Timer list.                                                             *)

\* list_insert_sort: in front of the first entry that expires strictly later.
Insert(list, e) ==
  LET later == {i \in 1 .. Len(list) : list[i].due > e.due}
      at    == IF later = {} THEN Len(list) + 1
               ELSE CHOOSE i \in later : \A j \in later : i <= j
  IN  InsertAt(list, at, e)

\* timer_put of the timer of that kind that task t owns.
Without(list, t, kind) ==
  RemoveFirstMatch(list, LAMBDA e : e.task = t /\ e.kind = kind)

\* timer_add by the running task.
TimerAdd(list, d, kind) == Insert(list, [task |-> cur, due |-> d, kind |-> kind])

Due == timers # <<>> /\ Head(timers).due <= 0
-----------------------------------------------------------------------------
(* task_search and schedule.                                               *)

Others(s) == {t \in Task \ {cur} : s[t] = "READY"}

BugSearchByTicks(s, tk, la) ==
  LET most == {t \in Others(s) : \A u \in Others(s) : tk[u] <= tk[t]}
  IN  IF most = {} THEN Idle ELSE CHOOSE t \in most : \A u \in most : t <= u

\* task_search: one pass over the table; a later task replaces the candidate
\* when it has more ticks left or has run less recently.
Search(s, tk, la) ==
  LET scan[i \in -1 .. Slots - 1] ==
        IF i = -1 THEN -1
        ELSE LET c == scan[i - 1]
             IN  IF /\ i \in Others(s)
                    /\ c = -1 \/ tk[c] < tk[i] \/ la[i] < la[c]
                 THEN i ELSE c
  IN  IF Others(s) = {} THEN Idle ELSE scan[Slots - 1]

\* schedule(), entered with task states s, time slices tk and ranks la.
Schedule(s, tk, la) ==
  LET next == Search(s, tk, la)
      left == [s EXCEPT ![cur] = IF @ = "RUNNING" THEN "READY" ELSE @]
  IN  /\ state' = [left EXCEPT ![next] = "RUNNING"]
      /\ cur' = next

\* task->jiffies = jiffies: the running task becomes the most recent one; the
\* ranks are renumbered from 0 so that they stay bounded.
Touch(la) ==
  LET top == [la EXCEPT ![cur] = Slots + 1]
  IN  [t \in Task |-> Cardinality({top[u] : u \in Task} \cap 0 .. (top[t] - 1))]
-----------------------------------------------------------------------------
(* Operations of the running task.                                         *)

Running == phase = "run"

\* task_yield.  The idle loop calls it each time an interrupt ends its hlt.
Yield ==
  /\ Running
  /\ cur = Idle => woken
  /\ woken' = IF cur = Idle THEN FALSE ELSE woken
  /\ Schedule(state, ticks, last)
  /\ UNCHANGED <<linked, timer, alarm, pending, ticks, last, timers, phase>>

\* task_block of the running task, in the given state and with a timeout.
Block(s, d) ==
  /\ Running /\ cur # Idle
  /\ linked' = [linked EXCEPT ![cur] = TRUE]
  /\ IF d = TIMELESS
       THEN UNCHANGED <<timer, timers>>
       ELSE /\ timer' = [timer EXCEPT ![cur] = TRUE]
            /\ timers' = TimerAdd(timers, d, "timeout")
  /\ Schedule([state EXCEPT ![cur] = s], ticks, last)
  /\ UNCHANGED <<alarm, pending, ticks, last, woken, phase>>

Sleep(d)      == Block("SLEEPING", d)        \* task_sleep; sleep(0) is TIMELESS
DeviceWait(d) == Block("BLOCKED", d)         \* drivers, locks, queues
Wait          == Block("WAITING", TIMELESS)  \* waitpid, network threads

BugUnblockKeepsTimer(t, list) ==
  /\ state'  = [state  EXCEPT ![t] = "READY"]
  /\ linked' = [linked EXCEPT ![t] = FALSE]
  /\ timer'  = [timer  EXCEPT ![t] = FALSE]
  /\ timers' = list

\* The effect of task_unblock on a task that no timer is firing for: unlink
\* it, drop its unexpired timer, make it ready.
Unblock(t, list) ==
  /\ state'  = [state  EXCEPT ![t] = "READY"]
  /\ linked' = [linked EXCEPT ![t] = FALSE]
  /\ timer'  = [timer  EXCEPT ![t] = FALSE]
  /\ timers' = IF timer[t] THEN Without(list, t, "timeout") ELSE list

\* A driver's interrupt handler, a lock release or an exit wakes a waiter.
Wake(t) ==
  /\ Running
  /\ state[t] \in {"BLOCKED", "WAITING"}
  /\ Unblock(t, timers)
  /\ woken' = (woken \/ cur = Idle)
  /\ UNCHANGED <<alarm, pending, ticks, last, cur, phase>>

\* sys_kill: the signal bit, and the wake-up that only WAITING and SLEEPING
\* tasks get.  `list' is the timer list at that moment.
Signal(t, list) ==
  /\ pending' = [pending EXCEPT ![t] = TRUE]
  /\ IF state[t] \in {"WAITING", "SLEEPING"}
       THEN Unblock(t, list)
       ELSE timers' = list /\ UNCHANGED <<state, linked, timer>>

Kill(t) ==
  /\ Running /\ cur \in UserTasks
  /\ t \in UserTasks
  /\ Signal(t, timers)
  /\ UNCHANGED <<alarm, ticks, last, cur, woken, phase>>

\* task_signal on the way back to user mode consumes a pending signal.
TaskSignal ==
  /\ Running
  /\ pending[cur]
  /\ pending' = [pending EXCEPT ![cur] = FALSE]
  /\ UNCHANGED <<state, linked, timer, alarm, ticks, last, timers, cur,
                 woken, phase>>

\* sys_alarm: replaces the task's previous alarm.
Alarm(d) ==
  /\ Running /\ cur \in UserTasks
  /\ LET rest == IF alarm[cur] THEN Without(timers, cur, "alarm") ELSE timers
     IN  timers' = TimerAdd(rest, d, "alarm")
  /\ alarm' = [alarm EXCEPT ![cur] = TRUE]
  /\ UNCHANGED <<state, linked, timer, pending, ticks, last, cur, woken, phase>>
-----------------------------------------------------------------------------
(* clock_handler.                                                          *)

\* jiffies++.  Interrupts are taken in user mode and in the idle loop.
Tick ==
  /\ Running
  /\ cur \in UserTasks \cup {Idle}
  /\ timers' = [i \in DOMAIN timers |-> [timers[i] EXCEPT !.due = @ - 1]]
  /\ phase' = "timers"
  /\ woken' = (woken \/ cur = Idle)
  /\ UNCHANGED <<state, linked, timer, alarm, pending, ticks, last, cur>>

BugFireTimeoutSignals ==
  /\ phase = "timers" /\ Due
  /\ Head(timers).kind = "timeout"
  /\ LET t == Head(timers).task
     IN  IF state[t] \in {"WAITING", "SLEEPING"}
           THEN /\ state'  = [state  EXCEPT ![t] = "READY"]
                /\ linked' = [linked EXCEPT ![t] = FALSE]
                /\ timer'  = [timer  EXCEPT ![t] = FALSE]
           ELSE UNCHANGED <<state, linked, timer>>
  /\ timers' = Tail(timers)
  /\ UNCHANGED <<alarm, pending, ticks, last, cur, woken, phase>>

\* timer_wakeup, one turn of its loop: default_timeout wakes the owner (whose
\* timer is active, so task_unblock leaves it to timer_wakeup to free).
FireTimeout ==
  /\ phase = "timers" /\ Due
  /\ Head(timers).kind = "timeout"
  /\ LET t == Head(timers).task
     IN  /\ state'  = [state  EXCEPT ![t] = "READY"]
         /\ linked' = [linked EXCEPT ![t] = FALSE]
         /\ timer'  = [timer  EXCEPT ![t] = FALSE]
  /\ timers' = Tail(timers)
  /\ UNCHANGED <<alarm, pending, ticks, last, cur, woken, phase>>

\* task_alarm: forgets the alarm and sends SIGALRM to its owner.
FireAlarm ==
  /\ phase = "timers" /\ Due
  /\ Head(timers).kind = "alarm"
  /\ LET t == Head(timers).task
     IN  /\ alarm' = [alarm EXCEPT ![t] = FALSE]
         /\ Signal(t, Tail(timers))
  /\ UNCHANGED <<ticks, last, cur, woken, phase>>

\* The rest of clock_handler: account the tick, and schedule at the end of a
\* time slice.
EndTick ==
  /\ phase = "timers" /\ ~Due
  /\ phase' = "run"
  /\ last' = Touch(last)
  /\ IF ticks[cur] = 1
       THEN LET tk == [ticks EXCEPT ![cur] = Priority[cur]]
            IN  ticks' = tk /\ Schedule(state, tk, last')
       ELSE /\ ticks' = [ticks EXCEPT ![cur] = @ - 1]
            /\ UNCHANGED <<state, cur>>
  /\ UNCHANGED <<linked, timer, alarm, pending, timers, woken>>
-----------------------------------------------------------------------------
\* Every task as task_create leaves it, and the boot context has made its one
\* schedule(): no task has run yet, so the first of the highest priority runs.
Init ==
  /\ cur \in Task
  /\ \A t \in Task : Priority[t] <= Priority[cur]
  /\ \A t \in 0 .. cur - 1 : Priority[t] < Priority[cur]
  /\ state = [t \in Task |-> IF t = cur THEN "RUNNING" ELSE "READY"]
  /\ linked = [t \in Task |-> FALSE]
  /\ timer = [t \in Task |-> FALSE]
  /\ alarm = [t \in Task |-> FALSE]
  /\ pending = [t \in Task |-> FALSE]
  /\ ticks = Priority
  /\ last = [t \in Task |-> 0]
  /\ timers = <<>>
  /\ woken = FALSE
  /\ phase = "run"

Next ==
  \/ Yield
  \/ \E d \in Delays \cup {TIMELESS} : Sleep(d) \/ DeviceWait(d)
  \/ Wait
  \/ \E t \in Task : Wake(t)
  \/ \E t \in Task : Kill(t)
  \/ TaskSignal
  \/ \E d \in Delays : Alarm(d)
  \/ Tick
  \/ FireTimeout
  \/ FireAlarm
  \/ EndTick

Spec == Init /\ [][Next]_vars

\* The clock never stops, its handler runs to its end, and so does the idle
\* loop once it has left its hlt.
Clock == Tick \/ FireTimeout \/ FireAlarm \/ EndTick
IdleYield == cur = Idle /\ Yield
FairSpec == Spec /\ WF_vars(Clock) /\ WF_vars(IdleYield)
-----------------------------------------------------------------------------
(* Properties.                                                             *)

TypeOK ==
  /\ state \in [Task -> States]
  /\ linked \in [Task -> BOOLEAN]
  /\ timer \in [Task -> BOOLEAN]
  /\ alarm \in [Task -> BOOLEAN]
  /\ pending \in [Task -> BOOLEAN]
  /\ ticks \in [Task -> Nat \ {0}]
  /\ last \in [Task -> 0 .. Slots - 1]
  /\ \A i \in DOMAIN timers : timers[i] \in [task : Task, due : Int, kind : Kinds]
  /\ cur \in Task
  /\ woken \in BOOLEAN
  /\ phase \in {"run", "timers"}

\* A timeout in timer_list belongs to a task that is still in the very wait
\* that armed it: its owner is off the run queue, linked and points to it, and
\* no two timeouts have one owner.  Otherwise default_timeout would wake a
\* task out of a later wait, or trip the state assertion of task_unblock.
TimeoutOwned ==
  /\ \A t \in Task : linked[t] <=> state[t] \in Blocked
  /\ \A t \in Task :
       Cardinality({i \in DOMAIN timers : /\ timers[i].task = t
                                          /\ timers[i].kind = "timeout"})
         = IF timer[t] THEN 1 ELSE 0
  /\ \A t \in Task : timer[t] => linked[t]

\* A wait that armed a timeout ends, whatever the other tasks do.  (sleep(0)
\* arms none, and lasts until a signal.)
TimedWaitEnds ==
  \A t \in Task : timer[t] ~> (state[t] \notin Blocked)

\* A task is starved only from behind: one that stays ready is run, unless a task
\* in a later slot gets the processor again and again.  No task in front of it in
\* the table keeps it waiting, however many ticks that one has left and however
\* often it yields, and the task in the last slot is never starved at all.
StarvedFromBehind ==
  \A t \in Task : []<>(state[t] # "READY" \/ cur > t)
=============================================================================
