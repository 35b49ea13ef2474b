-------------------------- MODULE MCLockOnScheduler --------------------------
EXTENDS LockOnScheduler
\* Idle as task_init makes it (priority 1) and user tasks of priority 2.
MCPriority == [t \in Task |-> IF t = Idle THEN 1 ELSE 2]
=============================================================================
