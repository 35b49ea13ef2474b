------------------------------ MODULE Console -------------------------------
(***************************************************************************)
(* The text console (src/kernel/console.c): a window of Height lines that  *)
(* moves down a larger video memory, the cursor kept twice, as (x, y) and  *)
(* as the position pos in memory, and the parser of escape sequences.      *)
(* console_write runs without interrupts, but a sequence may be spread     *)
(* over several writes: a step is one character.                           *)
(*                                                                         *)
(* A position counts cells from mem_base.  Of a cell the character is kept *)
(* and not the style (csi_m), of a number what fits below ArgMax.          *)
(***************************************************************************)
EXTENDS Integers, SequencesExt

CONSTANTS
  Width, Height,   \* WIDTH, HEIGHT
  MemLines,        \* lines of video memory
  TabStop,         \* 8; a divisor of Width
  ArgNr,           \* ARG_NR, at least 2
  ArgMax,          \* bound: arguments
  Glyphs, Blank,   \* characters that are shown, and the space
  Finals           \* bound: the final characters of CSI sequences

ASSUME ConsoleAssumption ==
  /\ Width \in Nat \ {0} /\ Height \in Nat \ {0} /\ MemLines > Height + 1
  /\ TabStop \in Nat \ {0} /\ Width % TabStop = 0 /\ ArgNr \in Nat \ {0, 1} /\ Blank \notin Glyphs

VARIABLE
  con   \* [screen, pos, x, y, saved: <<x, y>>, state, args, argc, mem]

MemEnd == MemLines * Width
Cells  == 0 .. MemEnd - 1
EraseScreen(c, start, count) ==
  [c EXCEPT !.mem = [p \in Cells |-> IF p \in start .. start + count - 1 THEN Blank ELSE @[p]]]
-----------------------------------------------------------------------------
\* set_xy.  The coordinates are unsigned, so that what is below 0 is too large.
SetXy(c, x, y) ==
  IF x \notin 0 .. Width \/ y \notin 0 .. Height - 1 THEN c
  ELSE [c EXCEPT !.x = x, !.y = y, !.pos = c.screen + y * Width + x]

BugScrollNoCopy(c) ==
  LET wrap == c.screen + (Height + 1) * Width >= MemEnd
      s == IF ~ wrap THEN c ELSE [c EXCEPT !.pos = @ - c.screen, !.screen = 0]
  IN [EraseScreen(s, s.screen + Height * Width, Width) EXCEPT !.screen = @ + Width, !.pos = @ + Width]

\* scroll_up: at the end of the memory the page goes back to its beginning.
ScrollUp(c) ==
  LET wrap == c.screen + (Height + 1) * Width >= MemEnd
      s == IF ~ wrap THEN c
           ELSE [c EXCEPT !.mem = [p \in Cells |-> IF p < Height * Width THEN @[c.screen + p] ELSE @[p]],
                          !.pos = @ - c.screen, !.screen = 0]
  IN [EraseScreen(s, s.screen + Height * Width, Width) EXCEPT !.screen = @ + Width, !.pos = @ + Width]

Lf(c) == IF c.y + 1 < Height THEN [c EXCEPT !.y = @ + 1, !.pos = @ + Width] ELSE ScrollUp(c)
Cr(c) == [c EXCEPT !.pos = @ - c.x, !.x = 0]

\* The column is past the end of the line: the line below.
Wrapped(c) == IF c.x >= Width THEN Lf([c EXCEPT !.x = @ - Width, !.pos = @ - Width]) ELSE c
Tab(c) == LET offset == TabStop - (c.x % TabStop)
          IN Wrapped([c EXCEPT !.x = @ + offset, !.pos = @ + offset])
Bs(c)  == IF c.x = 0 THEN c ELSE [c EXCEPT !.x = @ - 1, !.pos = @ - 1, !.mem[c.pos - 1] = Blank]
Del(c) == [c EXCEPT !.mem[c.pos] = Blank]
Chr(c, ch) == LET w == Wrapped(c) IN [w EXCEPT !.mem[w.pos] = ch, !.pos = @ + 1, !.x = @ + 1]

\* state_normal
StateNormal(c, ch) ==
  CASE ch = "NUL" -> c
    [] ch = "BS"  -> Bs(c)
    [] ch = "HT"  -> Tab(c)
    [] ch = "LF"  -> Cr(Lf(c))
    [] ch = "VT"  -> Lf(c)
    [] ch = "CR"  -> Cr(c)
    [] ch = "DEL" -> Del(c)
    [] ch = "ESC" -> [c EXCEPT !.state = "esc"]
    [] OTHER      -> Chr(c, ch)

\* state_esc: only [ leaves the state.
StateEsc(c, ch) ==
  CASE ch = "[" -> [c EXCEPT !.state = "que"]
    [] ch = "E" -> Cr(Lf(c))
    [] ch = "D" -> Lf(c)
    [] ch = "7" -> [c EXCEPT !.saved = <<c.x, c.y>>]
    [] ch = "8" -> SetXy(c, c.saved[1], c.saved[2])
    [] OTHER    -> c

\* csi_J and csi_K: before, behind or around the cursor.
CsiJ(c, how) ==
  CASE how = 0 -> EraseScreen(c, c.pos, c.screen + Height * Width - c.pos)
    [] how = 1 -> EraseScreen(c, c.screen, c.pos - c.screen)
    [] how = 2 -> EraseScreen(c, c.screen, Height * Width)
    [] OTHER   -> c
CsiK(c, how) ==
  CASE how = 0 -> EraseScreen(c, c.pos, Width - c.x)
    [] how = 1 -> EraseScreen(c, c.pos - c.x, c.x)
    [] how = 2 -> EraseScreen(c, c.pos - c.x, Width)
    [] OTHER   -> c

\* insert_line moves everything down to the end of the memory.
InsertLine(c) ==
  LET start == c.screen + c.y * Width
  IN EraseScreen([c EXCEPT !.mem = [p \in Cells |-> IF p >= start + Width THEN @[p - Width] ELSE @[p]]],
                 start, Width)

\* delete_line: start is a u16 pointer, so that a row size in bytes takes it
\* two lines on, and only every other line is copied, to the one before it.
DeleteLine(c) ==
  LET start == c.screen + c.y * Width
  IN EraseScreen([c EXCEPT !.mem = [p \in Cells |->
                    IF p >= start /\ ((p - start) \div Width) % 2 = 1 /\ p + Width < MemEnd THEN @[p + Width] ELSE @[p]]],
                 MemEnd - Width, Width)

\* delete_char and insert_char, to the end of the line.
DeleteChar(c) ==
  LET last == IF c.x < Width THEN c.pos + Width - c.x - 1 ELSE c.pos
  IN [c EXCEPT !.mem = [p \in Cells |-> IF p = last THEN Blank
                                        ELSE IF p \in c.pos .. last THEN @[p + 1] ELSE @[p]]]
InsertChar(c) ==
  [c EXCEPT !.mem = [p \in Cells |-> IF p = c.pos THEN Blank
                                     ELSE IF p \in c.pos .. c.pos + Width - c.x - 1 THEN @[p - 1] ELSE @[p]]]

\* csi_L, csi_M, csi_P and csi_at: once, or as often as asked for.
Repeat(Op(_), c, n, most) ==
  FoldLeft(LAMBDA d, i : Op(d), c, [i \in 1 .. (IF n > most THEN most ELSE IF n = 0 THEN 1 ELSE n) |-> i])

CsiL(c, n)  == Repeat(InsertLine, c, n, Height)
CsiM(c, n)  == Repeat(DeleteLine, c, n, Height)
CsiP(c, n)  == Repeat(DeleteChar, c, n, Width)
CsiAt(c, n) == Repeat(InsertChar, c, n, Width)

\* state_csi, behind which the arguments are not looked at again.
StateCsi(c, ch) ==
  LET n    == c.args[1]
      less == IF n > 0 THEN n - 1 ELSE 0
      some == IF n = 0 THEN 1 ELSE n
      d == CASE ch = "G" -> SetXy(c, less, c.y)
             [] ch = "A" -> SetXy(c, c.x, c.y - some)
             [] ch = "B" -> SetXy(c, c.x, c.y + some)
             [] ch = "C" -> SetXy(c, c.x + some, c.y)
             [] ch = "D" -> SetXy(c, c.x - some, c.y)
             [] ch = "E" -> SetXy(c, 0, c.y + some)
             [] ch = "F" -> SetXy(c, 0, c.y - some)
             [] ch = "d" -> SetXy(c, c.x, less)
             [] ch = "H" -> SetXy(c, IF c.args[2] > 0 THEN c.args[2] - 1 ELSE 0, less)
             [] ch = "J" -> CsiJ(c, n)
             [] ch = "K" -> CsiK(c, n)
             [] ch = "L" -> CsiL(c, n)
             [] ch = "M" -> CsiM(c, n)
             [] ch = "P" -> CsiP(c, n)
             [] ch = "@" -> CsiAt(c, n)
             [] ch = "s" -> SetXy([c EXCEPT !.saved = <<c.x, c.y>>], c.x, c.y)
             [] ch = "u" -> SetXy(c, c.saved[1], c.saved[2])
             [] OTHER    -> c
  IN [d EXCEPT !.state = "nor", !.args = [i \in 1 .. ArgNr |-> 0], !.argc = 0]

\* state_arg with a digit; with anything else, and state_csi when it is told to
\* go on.  With ARG_NR arguments nothing more is understood.
Digit(c, d) == IF c.argc >= ArgNr THEN c ELSE [c EXCEPT !.args[c.argc + 1] = @ * 10 + d]
StateArg(c, ch) ==
  IF c.argc >= ArgNr THEN c
  ELSE IF ch = ";" THEN [c EXCEPT !.argc = @ + 1]
  ELSE StateCsi([c EXCEPT !.argc = @ + 1], ch)
-----------------------------------------------------------------------------
\* console_write, a character of each kind of state.
WriteNormal(ch) == con.state = "nor" /\ con' = StateNormal(con, ch)
WriteEsc(ch)    == con.state = "esc" /\ con' = StateEsc(con, ch)
WriteQues       == con.state = "que" /\ con' = [con EXCEPT !.state = "arg"]
WriteArg(ch)    == con.state \in {"que", "arg"} /\ con' = StateArg([con EXCEPT !.state = "arg"], ch)
WriteDigit(d) ==
  /\ con.state \in {"que", "arg"}
  /\ con.argc < ArgNr => con.args[con.argc + 1] * 10 + d <= ArgMax
  /\ con' = Digit([con EXCEPT !.state = "arg"], d)

\* console_init
ConsoleInit ==
  con = [screen |-> 0, pos |-> 0, x |-> 0, y |-> 0, saved |-> <<0, 0>>, state |-> "nor",
         args |-> [i \in 1 .. ArgNr |-> 0], argc |-> 0, mem |-> [p \in Cells |-> Blank]]

ConsoleNext ==
  \/ \E ch \in Glyphs \cup {"NUL", "BS", "HT", "LF", "VT", "CR", "DEL", "ESC"} : WriteNormal(ch)
  \/ \E ch \in {"[", "E", "M", "D", "7", "8"} : WriteEsc(ch)
  \/ WriteQues
  \/ \E d \in 0 .. 9 : WriteDigit(d)
  \/ \E ch \in Finals \cup {";"} : WriteArg(ch)
-----------------------------------------------------------------------------
\* The page that is shown is a screen (module Screen), though it wanders
\* through the memory and is copied back at its end.
Page == INSTANCE Screen WITH
  page <- [l \in 0 .. Height - 1 |-> [c \in 0 .. Width - 1 |-> con.mem[con.screen + l * Width + c]]],
  x <- con.x, y <- con.y
ImplementsScreen == Page!Spec
=============================================================================
