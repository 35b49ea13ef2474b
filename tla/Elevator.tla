------------------------------ MODULE Elevator ------------------------------
(***************************************************************************)
(* The request queue of a block device: device_request and reguest_nextreq *)
(* of src/kernel/device.c.  Callers queue up by sector number; the caller  *)
(* that finds the queue empty serves itself, and every caller that is done *)
(* hands the drive to the next one in the direction of travel by waking    *)
(* it.  No other state says who may use the drive: a hand-over that goes   *)
(* wrong leaves the queue asleep for good, or two callers in the drive.    *)
(*                                                                         *)
(* A task has one request at a time, so the list is a sequence of tasks.   *)
(* do_request sleeps in the driver and is an interval, from the step that  *)
(* enters it to Finish; partitions share the queue of their disk.          *)
(***************************************************************************)
EXTENDS Integers, SequencesExt

CONSTANTS
  Callers,  \* tasks that use the device
  Sectors,  \* the sectors (request_t.idx) each task asks for
  Nobody    \* no task

ASSUME ElevatorAssumption ==
  /\ Sectors \in [Callers -> SUBSET Nat]
  /\ Nobody \notin Callers

VARIABLES
  list,     \* device->request_list, from head.next to tail.prev
  idx,      \* the sector of each task's request
  direct,   \* device->direct
  at        \* where each task is in device_request

queue == <<list, idx, direct, at>>

QueuePlaces == {"out",      \* not in device_request
                "waiting",  \* in task_block, its request in the list
                "woken",    \* unblocked by the previous caller, not yet in do_request
                "serving"}  \* in do_request
-----------------------------------------------------------------------------
Entry(t) == CHOOSE i \in 1 .. Len(list) : list[i] = t

\* list_insert_sort: the position in front of the first larger sector.
InsertPoint(s) ==
  LET larger == {i \in 1 .. Len(list) : idx[list[i]] > s}
  IN  IF larger = {} THEN Len(list) + 1
      ELSE CHOOSE i \in larger : \A j \in larger : i <= j

BugRequestNoWait(t, s) ==
  /\ at[t] = "out"
  /\ idx' = [idx EXCEPT ![t] = s]
  /\ list' = InsertAt(list, InsertPoint(s), t)
  /\ at' = [at EXCEPT ![t] = "serving"]
  /\ UNCHANGED direct

\* device_request up to its task_block, or up to the driver's first wait.
Request(t, s) ==
  /\ at[t] = "out"
  /\ idx' = [idx EXCEPT ![t] = s]
  /\ list' = InsertAt(list, InsertPoint(s), t)
  /\ at' = [at EXCEPT ![t] = IF list = <<>> THEN "serving" ELSE "waiting"]
  /\ UNCHANGED direct

\* task_block returned: the task goes on to do_request.
Serve(t) ==
  /\ at[t] = "woken"
  /\ at' = [at EXCEPT ![t] = "serving"]
  /\ UNCHANGED <<list, idx, direct>>

BugTurnedNever(i) == direct

\* reguest_nextreq: the direction it leaves in device->direct ...
Turned(i) ==
  IF direct = "up" /\ i = Len(list) THEN "down"
  ELSE IF direct = "down" /\ i = 1 THEN "up"
  ELSE direct

BugNextEntryOldest(i) == IF i = 1 THEN 2 ELSE 1

\* ... and the position of the request it picks, off the list when none is left.
NextEntry(i) == IF Turned(i) = "up" THEN i + 1 ELSE i - 1

BugFinishNoWake(t) ==
  /\ at[t] = "serving"
  /\ direct' = Turned(Entry(t))
  /\ list' = RemoveAt(list, Entry(t))
  /\ at' = [at EXCEPT ![t] = "out"]
  /\ UNCHANGED idx

\* Without the comparison with &list->head and &list->tail.

\* do_request returns: pick the next request, drop this one, wake the next.
Finish(t) ==
  /\ at[t] = "serving"
  /\ LET i == Entry(t)
         j == NextEntry(i)
         left == [at EXCEPT ![t] = "out"]
     IN  /\ direct' = Turned(i)
         /\ list' = RemoveAt(list, i)
         /\ at' = IF j \in 1 .. Len(list) THEN [left EXCEPT ![list[j]] = "woken"]
                                          ELSE left
  /\ UNCHANGED idx

QueueInit ==
  /\ list = <<>>
  /\ idx = [t \in Callers |-> 0]
  /\ direct = "up"
  /\ at = [t \in Callers |-> "out"]

QueueNext ==
  \E t \in Callers : \/ \E s \in Sectors[t] : Request(t, s)
                     \/ Serve(t)
                     \/ Finish(t)

QueueSpec == QueueInit /\ [][QueueNext]_queue

\* A woken task runs eventually and the drive answers.
QueueFair == \A t \in Callers : WF_queue(Serve(t)) /\ WF_queue(Finish(t))
-----------------------------------------------------------------------------
QueueTypes ==
  /\ list \in Seq(Callers)
  /\ idx \in [Callers -> Nat]
  /\ direct \in {"up", "down"}
  /\ at \in [Callers -> QueuePlaces]

\* The list holds exactly the tasks inside device_request, each once.
ListExact ==
  /\ \A i, j \in 1 .. Len(list) : list[i] = list[j] => i = j
  /\ \A t \in Callers : at[t] # "out" <=> \E i \in 1 .. Len(list) : list[i] = t

HasDrive(t) == at[t] \in {"woken", "serving"}

\* The drive is handed on without a gap and without a copy: as long as there
\* are requests, exactly one caller has been given the drive.  So nobody waits
\* for ever on an idle drive and no two callers program it at once.
OneHasDrive ==
  /\ list # <<>> => \E t \in Callers : HasDrive(t)
  /\ \A t, u \in Callers : HasDrive(t) /\ HasDrive(u) => t = u

\* The drive passes from t to u.
PassedOn(t, u) == at[t] = "serving" /\ at'[t] = "out" /\ at[u] = "waiting" /\ at'[u] = "woken"

\* The queue is served in elevator order, whatever is inserted meanwhile: no third
\* request lies strictly between two that are served one after the other, and the
\* arm turns round only when nothing is left in front of it.
InOrder ==
  \A t, u \in Callers : PassedOn(t, u) =>
    \A i \in 1 .. Len(list) :
      LET third == idx[list[i]]
      IN  /\ ~ (idx[t] < third /\ third < idx[u]) /\ ~ (idx[u] < third /\ third < idx[t])
          /\ direct = "up" /\ idx[u] < idx[t] => third <= idx[t]
          /\ direct # "up" /\ idx[u] > idx[t] => third >= idx[t]
ElevatorOrder == [][InOrder]_queue

\* No request is passed over for ever, unless two requests for one sector keep
\* meeting in the queue: those can hold the arm in place and starve the others.
Tie == \E i, j \in 1 .. Len(list) : i # j /\ idx[list[i]] = idx[list[j]]
Served == <>[]~Tie => \A t \in Callers : at[t] = "waiting" ~> at[t] = "serving"

\* The queue implements BlockDevice.
Wanted  == {t \in Callers : at[t] \in {"waiting", "woken"}}
Serving == IF \E t \in Callers : at[t] = "serving"
             THEN CHOOSE t \in Callers : at[t] = "serving" ELSE Nobody
Abstract == INSTANCE BlockDevice WITH Tasks <- Callers, None <- Nobody, wanted <- Wanted, serving <- Serving
ImplementsBlockDevice == Abstract!Spec
=============================================================================
