------------------------------ MODULE Channel -------------------------------
(***************************************************************************)
(* What a pipe promises: bytes come out in the order they went in, each    *)
(* once, and at most Capacity of them are under way.  Bytes are told apart *)
(* by their position in everything ever written.                           *)
(***************************************************************************)
EXTENDS Integers, Sequences

CONSTANTS Capacity, Total

VARIABLES queue, sent, got

vars == <<queue, sent, got>>

Init == queue = <<>> /\ sent = 0 /\ got = <<>>

Send(n) ==
  /\ Len(queue) + n <= Capacity
  /\ queue' = queue \o [i \in 1 .. n |-> sent + i]
  /\ sent' = sent + n
  /\ UNCHANGED got

Receive(n) ==
  /\ n <= Len(queue)
  /\ got' = got \o SubSeq(queue, 1, n)
  /\ queue' = SubSeq(queue, n + 1, Len(queue))
  /\ UNCHANGED sent

Next == \E n \in 1 .. Total : Send(n) \/ Receive(n)

Spec == Init /\ [][Next]_vars
=============================================================================
