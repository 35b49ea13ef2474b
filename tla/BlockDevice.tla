----------------------------- MODULE BlockDevice -----------------------------
(***************************************************************************)
(* What device_request promises its callers, whatever order it serves them *)
(* in: requests wait, the drive works on one at a time, and each caller    *)
(* returns once, after its own request was worked on.                      *)
(***************************************************************************)
CONSTANTS Tasks, None

VARIABLES
  wanted,   \* tasks whose request has not been given to the drive
  serving   \* the task whose request the drive is working on, or None

vars == <<wanted, serving>>

Init == wanted = {} /\ serving = None

Submit(t) ==
  /\ t \notin wanted /\ serving # t
  /\ wanted' = wanted \cup {t}
  /\ UNCHANGED serving

Start(t) ==
  /\ serving = None
  /\ serving' = t
  /\ \/ t \in wanted /\ wanted' = wanted \ {t}
     \/ t \notin wanted /\ UNCHANGED wanted    \* submitted and started at once

Finish(t) ==
  /\ serving = t
  /\ serving' = None
  /\ UNCHANGED wanted

Next == \E t \in Tasks : Submit(t) \/ Start(t) \/ Finish(t)

Spec == Init /\ [][Next]_vars
=============================================================================
