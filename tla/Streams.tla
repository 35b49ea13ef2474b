------------------------------ MODULE Streams -------------------------------
(***************************************************************************)
(* What reads and writes characters: a pipe, the keyboard and a serial     *)
(* line, and the console.  They share no state, so a behaviour is one of a *)
(* single part.                                                            *)
(***************************************************************************)
EXTENDS Pipe, Terminal, Console

VARIABLE part   \* "pipe", "line" or "console"

StreamInit == part \in {"pipe", "line", "console"} /\ Init /\ ConsoleInit /\
  TermInit(IF part = "line" THEN {"keyboard", "serial"} ELSE {"keyboard"})

StreamNext ==
  \/ part = "pipe" /\ Next /\ UNCHANGED <<part, line, con>>
  \/ part = "line" /\ TermNext /\ UNCHANGED <<part, con, fifo, rxwaiter, txwaiter, pc, left, sent, got, panicked>>
  \/ part = "console" /\ ConsoleNext /\ UNCHANGED <<part, line, fifo, rxwaiter, txwaiter, pc, left, sent, got, panicked>>

System == StreamInit /\ [][StreamNext]_<<vars, part, line, con>> /\ PipeFair
=============================================================================
