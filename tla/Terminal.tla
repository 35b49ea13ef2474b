------------------------------ MODULE Terminal ------------------------------
(***************************************************************************)
(* An input line: the keyboard (src/kernel/keyboard.c) behind the tty      *)
(* (src/kernel/tty.c), or a serial line (src/kernel/serial.c).  The        *)
(* interrupt handler puts what is typed into a ring buffer and wakes the   *)
(* one waiter; readers take turns by a lock and sleep with it.             *)
(*                                                                         *)
(* Characters are numbered as they are put, from 0 and modulo Numbers.     *)
(* Scan codes are those of two letters, Ctrl, Caps Lock and the prefix     *)
(* "E0"; whether a letter is large or small is left out.                   *)
(***************************************************************************)
EXTENDS Fifo

CONSTANTS
  LineTasks,   \* readers; numbers from 1, 0 is no task
  MaxRead,     \* the largest count of one read
  Numbers      \* bound: numbers of characters, more than Length

ASSUME LineAssumption == 0 \notin LineTasks /\ MaxRead \in Nat /\ Numbers \in Nat \ {0}

VARIABLE
  line   \* [kind, fifo, lock, waiter, call: of each task [pc, left];
         \*  typed: the number of the next character; ext, extcode_state;
         \*  ctrl: the Ctrl keys that are down, without or with the prefix; halt]

LineDo(s) == ~ line.halt /\ line' = s

BugPutChar(s) == [s EXCEPT !.fifo = FifoPut(@, s.typed), !.typed = (@ + 1) % Numbers]

\* fifo_put and the waking of the waiter, at the end of keyboard_handler and in
\* recv_data.
PutChar(s) ==
  [s EXCEPT !.fifo = FifoPut(@, s.typed), !.typed = (@ + 1) % Numbers, !.waiter = 0,
            !.call = IF s.waiter = 0 THEN @ ELSE [@ EXCEPT ![s.waiter].pc = "read"]]

\* tty_rx_notify: with Ctrl a c goes to tty_intr, which leaves the line alone,
\* an l clears the screen and is put as a return, and other keys are dropped.
Notified(key) == line.ctrl # {} /\ key # "l"

\* keyboard_handler with a scan code: the prefix, Ctrl, the release of another
\* key, a key without a character, a letter.
Scan(key, break) ==
  LET s == [line EXCEPT !.ext = FALSE]
  IN /\ line.kind = "keyboard"
     /\ LineDo(CASE key = "E0"   -> [line EXCEPT !.ext = TRUE]
                 [] key = "ctrl" -> [s EXCEPT !.ctrl = IF break THEN @ \ {line.ext} ELSE @ \cup {line.ext}]
                 [] key # "E0" /\ key # "ctrl" -> IF break \/ key = "caps" \/ Notified(key) THEN s ELSE PutChar(s))

\* serial_handler, when there are data.
Received == line.kind = "serial" /\ LineDo(PutChar(line))
-----------------------------------------------------------------------------
\* keyboard_read and serial_read with n characters to go: they take what is
\* there and return or sleep.  serial_read asserts that nobody else sleeps.
ReadLine(s, t, n) ==
  LET k == IF FifoCount(s.fifo) < n THEN FifoCount(s.fifo) ELSE n
  IN IF k = n THEN [s EXCEPT !.fifo = FifoDrop(@, k), !.lock = 0, !.call[t] = [pc |-> "user", left |-> 0]]
     ELSE IF s.kind = "serial" /\ s.waiter # 0 THEN [s EXCEPT !.halt = TRUE]
     ELSE [s EXCEPT !.fifo = FifoDrop(@, k), !.waiter = t, !.call[t] = [pc |-> "asleep", left |-> n - k]]

LineCall(t, n) ==
  line.call[t].pc = "user" /\ LineDo([line EXCEPT !.call[t] = [pc |-> "lock", left |-> n]])

LineEnter(t) ==
  /\ line.call[t].pc = "lock" /\ line.lock = 0
  /\ LineDo(ReadLine([line EXCEPT !.lock = t], t, line.call[t].left))
LineResume(t) == line.call[t].pc = "read" /\ LineDo(ReadLine(line, t, line.call[t].left))

\* keyboard_init, serial_init
TermInit(kinds) ==
  \E kind \in kinds :
    line = [kind |-> kind, fifo |-> FifoInit(0), lock |-> 0, waiter |-> 0,
            call |-> [t \in LineTasks |-> [pc |-> "user", left |-> 0]], typed |-> 0,
            ext |-> FALSE, ctrl |-> {}, halt |-> FALSE]

TermNext ==
  \/ \E key \in {"c", "l", "ctrl", "caps", "E0"}, break \in BOOLEAN : Scan(key, break)
  \/ Received
  \/ \E t \in LineTasks : \/ LineEnter(t) \/ LineResume(t)
                          \/ \E n \in 1 .. MaxRead : LineCall(t, n)
-----------------------------------------------------------------------------
\* A reader sleeps only while nothing is there, and the next character wakes
\* it: the handler wakes one task and several may want to read.  Nobody trips
\* over another reader (serial.c:107, assert(serial->rx_waiter == NULL)).
SleepsForKeys ==
  /\ ~ line.halt
  /\ \A t \in LineTasks : line.call[t].pc = "asleep" => line.waiter = t /\ line.lock = t /\ FifoCount(line.fifo) = 0
=============================================================================
