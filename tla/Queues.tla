------------------------------- MODULE Queues --------------------------------
(***************************************************************************)
(* The two queues in which tasks of the kernel wait for one another: that  *)
(* of a lock and that of a block device.  They share no state, so a        *)
(* behaviour is one of a single part.                                      *)
(***************************************************************************)
EXTENDS Lock, Elevator

VARIABLE part   \* "lock" or "device"

\* Everybody asks for every sector, equal ones included; three sectors, so that
\* a request can lie strictly between two others.
MCSectors == [t \in Callers |-> {0, 1, 2}]

QueuesInit == part \in {"lock", "device"} /\ Init /\ QueueInit

QueuesNext ==
  \/ part = "lock" /\ Next /\ UNCHANGED <<part, queue>>
  \/ part = "device" /\ QueueNext /\ UNCHANGED <<part, vars>>

System == QueuesInit /\ [][QueuesNext]_<<part, vars, queue>> /\ Fair /\ QueueFair
=============================================================================
