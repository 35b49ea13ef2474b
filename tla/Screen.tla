------------------------------- MODULE Screen -------------------------------
(***************************************************************************)
(* What the console promises: a page of Height lines of Width cells and a  *)
(* cursor, without a word about the memory it is kept in.  A cursor at     *)
(* column Width stands behind the last cell of its line.                   *)
(***************************************************************************)
EXTENDS Integers

CONSTANTS Width, Height, Glyphs, Blank

VARIABLES page, x, y

vars == <<page, x, y>>

Lines   == 0 .. Height - 1
Columns == 0 .. Width - 1
NoLine  == [c \in Columns |-> Blank]

\* A line down from (page, y): past the last one the page moves up.
PageBelow == IF y + 1 < Height THEN page
             ELSE [l \in Lines |-> IF l + 1 < Height THEN page[l + 1] ELSE NoLine]
LineBelow == IF y + 1 < Height THEN y + 1 ELSE y

LineFeed(col) == page' = PageBelow /\ x' = col /\ y' = LineBelow

MoveTo(col, line) == x' = col /\ y' = line /\ UNCHANGED page

Show(ch) ==
  IF x < Width
    THEN page' = [page EXCEPT ![y][x] = ch] /\ x' = x + 1 /\ UNCHANGED y
    ELSE page' = [PageBelow EXCEPT ![LineBelow][0] = ch] /\ x' = 1 /\ y' = LineBelow

\* The cells from number a up to and without number b, in reading order, are
\* blank; the cursor goes to column col of its line.
Erase(a, b, col) ==
  /\ page' = [l \in Lines |-> [c \in Columns |-> IF l * Width + c \in a .. b - 1 THEN Blank ELSE page[l][c]]]
  /\ x' = col /\ UNCHANGED y

\* n lines are put in above line y; the lines that leave the page are lost.
InsertLines(n) ==
  /\ page' = [l \in Lines |-> IF l < y THEN page[l] ELSE IF l < y + n THEN NoLine ELSE page[l - n]]
  /\ UNCHANGED <<x, y>>

\* n characters are put in at, or taken away from, the cursor.
InsertChars(n) ==
  /\ page' = [page EXCEPT ![y] = [c \in Columns |-> IF c < x THEN @[c] ELSE IF c < x + n THEN Blank ELSE @[c - n]]]
  /\ UNCHANGED <<x, y>>
DeleteChars(n) ==
  /\ page' = [page EXCEPT ![y] = [c \in Columns |-> IF c < x THEN @[c] ELSE IF c + n < Width THEN @[c + n] ELSE Blank]]
  /\ UNCHANGED <<x, y>>

\* Lines are taken away at line y: nothing is said of what comes up from there.
DeleteLines ==
  /\ \A l \in 0 .. y - 1 : page'[l] = page[l]
  /\ UNCHANGED <<x, y>>

Init == page = [l \in Lines |-> NoLine] /\ x = 0 /\ y = 0

Next ==
  \/ \E ch \in Glyphs : Show(ch)
  \/ \E col \in {0, x} \cup {c \in 0 .. Width : c > x} : LineFeed(col)
  \/ \E col \in 0 .. Width, line \in Lines : MoveTo(col, line)
  \/ x > 0 /\ Erase(y * Width + x - 1, y * Width + x, x - 1)
  \/ \E a, b \in 0 .. Height * Width + 1 : Erase(a, b, x)
  \/ \E n \in 1 .. Height : InsertLines(n)
  \/ \E n \in 1 .. Width : InsertChars(n) \/ DeleteChars(n)
  \/ DeleteLines

Spec == Init /\ [][Next]_vars
=============================================================================
