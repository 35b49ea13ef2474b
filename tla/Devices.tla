------------------------------- MODULE Devices ------------------------------
(***************************************************************************)
(* The drivers that sleep for their interrupts: the IDE disk, the floppy   *)
(* disk and the network.  They share no state, so a behaviour is one of a  *)
(* single part and the others are off.                                     *)
(***************************************************************************)
EXTENDS IdeDisk, Floppy, Network

CONSTANT Parts   \* the parts to look at

\* Requests for a cylinder, across the end of it, and for the last sector.
Sectors == {<<0, 2>>, <<1, 2>>, <<1, 3>>, <<5, 1>>}

Init == \E part \in Parts :
  /\ IdeInit(IF part = "ide" THEN "" ELSE "off")
  /\ FdInit(IF part = "floppy" THEN "" ELSE "off")
  /\ NetInit(IF part = "net" THEN "" ELSE "off")
  /\ part # "ide" => ide.scene = CHOOSE scene \in IdeScenes : TRUE
  /\ part # "net" => net.traffic = CHOOSE traffic \in Traffic : TRUE

Next ==
  \/ IdeNext /\ UNCHANGED <<fd, net>>
  \/ FdNext  /\ UNCHANGED <<ide, net>>
  \/ NetNext /\ UNCHANGED <<ide, fd>>

Spec == Init /\ [][Next]_<<ide, fd, net>> /\ IdeFair /\ NetFair
=============================================================================
