------------------------------ MODULE WinEdit ------------------------------
(***************************************************************************)
(* The contents of a window and the record of what has changed in it.      *)
(*                                                                         *)
(* Every call that edits a window (addch, insch, delch, insdelln, scroll,  *)
(* clrtoeol, border, copywin ...) writes cells and tells the change record *)
(* of each line, [firstch, lastch] and a dirty flag, what it wrote.        *)
(* wnoutrefresh copies only what the records name to the virtual screen,   *)
(* and doupdate shows only what the records of the virtual screen name: a  *)
(* cell written behind the back of its record is never seen.               *)
(*                                                                         *)
(* There is a window the size of the screen and, in some programs, a       *)
(* subwindow that shares its cells and its [firstch, lastch] but has dirty *)
(* flags of its own.  A cell holds a character, its width (-1 in the second*)
(* column of a wide character) and whether it is highlighted.              *)
(***************************************************************************)
EXTENDS Integers, Sequences, FiniteSets, FiniteSetsExt

CONSTANTS
  H, V,         \* the lines and the columns of the screen and of the window
  SubArea,      \* [y, x, h, v]: where the subwindow is, and its size
  Spots,        \* Spots[w]: the places the program moves the cursor of w to
  Pictures,     \* contents the window may have when the program starts
  Programs,     \* the flags of the windows a program chooses, see Init
  Cases,        \* the calls of an unusual kind the program may make
  MaxEdits      \* the number of calls that edit a window

\* A wide character has room in a line of a window.
ASSUME SizeAssumption ==
  /\ H \in Nat \ {0, 1} /\ V \in Nat \ {0, 1} /\ MaxEdits \in Nat
  /\ SubArea \in [y : Nat, x : Nat, h : Nat \ {0}, v : Nat \ {0, 1}]
  /\ SubArea.y + SubArea.h <= H /\ SubArea.x + SubArea.v <= V

VARIABLES
  st,       \* the windows, the virtual screen and the terminal, see Init
  flags,    \* [sub, scroll, immed, sync]: what the program chose
  edits     \* how many edits were made
vars == <<st, flags, edits>>

Rows == 0 .. H - 1
Columns == 0 .. V - 1
Blank == [ch |-> " ", col |-> 1, hi |-> FALSE]
Wide == {"W"}
Width(c) == IF c \in Wide THEN 2 ELSE 1
Widths == {-1, 1, 2}
Cells == [ch : {" ", "a"} \cup Wide, col : Widths, hi : BOOLEAN]

Area(w) == IF w = "root" THEN [y |-> 0, x |-> 0, h |-> H, v |-> V] ELSE SubArea
Windows == IF flags.sub THEN {"root", "sub"} ELSE {"root"}
AllWindows == {"root", "sub"}
Bottom(s, w) == s.region[w][2]
Less(a, b) == IF a < b THEN a ELSE b
More(a, b) == IF a > b THEN a ELSE b

\* What a program chooses is of its type.
ASSUME ProgramAssumption ==
  /\ Pictures \subseteq [Rows -> [Columns -> Cells]]
  /\ Programs \subseteq [sub : BOOLEAN, scroll : SUBSET AllWindows, immed : SUBSET AllWindows,
                         sync : SUBSET AllWindows, region : {r \in Rows \X Rows : r[1] <= r[2]}]

(***************************************************************************)
(* A line of the root is a line of storage with its record and its flags:  *)
(* s.row tells which one is at each row.  A line of the subwindow keeps    *)
(* its own flags and points into a line of storage, s.subrow.              *)
(***************************************************************************)
Storage(s, w, y) == IF w = "root" THEN s.row[y] ELSE s.subrow[y]
\* the object that holds the flags of line y of w
LineOf(s, w, y) == IF w = "root" THEN s.row[y] ELSE y
StorageOf(s, w, l) == IF w = "root" THEN l ELSE s.subrow[l]

\* the lines of storage under some rows of w, and the row that is on one
Lines(s, w, ys) == {Storage(s, w, y) : y \in ys}
RowAt(s, w, p) == CHOOSE y \in 0 .. Area(w).h - 1 : Storage(s, w, y) = p

\* the cells of line y of w, with those of its storage to the left and right of w
Text(s, w, y) == [x \in -Area(w).x .. V - 1 - Area(w).x |-> s.text[Storage(s, w, y)][x + Area(w).x]]
\* a line of storage with the contents of line written over it
Over(old, w, line) ==
  [x \in Columns |-> IF x - Area(w).x \in DOMAIN line THEN line[x - Area(w).x] ELSE old[x]]
\* lines[y] is written over each row y of w that has one
WriteRows(s, w, lines) ==
  [s EXCEPT !.text = [p \in Rows |-> IF p \in Lines(s, w, DOMAIN lines)
                                     THEN Over(s.text[p], w, lines[RowAt(s, w, p)]) ELSE s.text[p]]]
Write(s, w, y, line) == WriteRows(s, w, [z \in {y} |-> line])

Odd(s, kind, when) == [s EXCEPT !.odd = IF when THEN @ \cup {kind} ELSE @]

(***************************************************************************)
(* The record of a line.                                                   *)
(***************************************************************************)
TellFirst(s, w, l, sx) ==
  [s EXCEPT !.first[StorageOf(s, w, l)] = Less(@, sx + Area(w).x), !.dirty[w][l] = TRUE]
TellLast(s, w, l, ex) == [s EXCEPT !.last[StorageOf(s, w, l)] = More(@, ex + Area(w).x)]

\* _cursesi_touchline_force, of each row y with from[y] and to[y]
TouchRows(s, w, from, to, force) ==
  LET ps == Lines(s, w, DOMAIN from)
      ls == {LineOf(s, w, y) : y \in DOMAIN from}
      a  == Area(w)
  IN  [s EXCEPT !.first = [p \in Rows |-> IF p \in ps THEN Less(@[p], from[RowAt(s, w, p)] + a.x) ELSE @[p]],
                !.last = [p \in Rows |-> IF p \in ps THEN More(@[p], to[RowAt(s, w, p)] + a.x) ELSE @[p]],
                !.dirty[w] = [l \in DOMAIN @ |-> @[l] \/ l \in ls],
                !.forced[w] = [l \in DOMAIN @ |-> @[l] \/ (force /\ l \in ls)]]
TouchLine(s, w, y, sx, ex) == TouchRows(s, w, [z \in {y} |-> sx], [z \in {y} |-> ex], FALSE)
TouchFull(s, w, ys, force) ==
  TouchRows(s, w, [y \in ys |-> 0], [y \in ys |-> Area(w).v - 1], force)
TouchWin(s, w) == TouchFull(s, w, 0 .. Area(w).h - 1, FALSE)
\* wtouchln with changed = 1
TouchLn(s, w, line, n) == TouchFull(s, w, line .. Less(line + n, Area(w).h) - 1, TRUE)
\* wsyncup
SyncUp(s, w) == IF w = "root" THEN TouchWin(s, w) ELSE TouchWin(TouchWin(s, w), "root")

(***************************************************************************)
(* wnoutrefresh: the recorded cells go to the virtual screen.              *)
(***************************************************************************)
Flagged(s, w, l) == s.dirty[w][l] \/ s.forced[w][l]

\* the flags of the subwindow's lines go to the lines of the root at their rows
Gathered(s, flag) ==
  [root |-> [l \in Rows |-> flag["root"][l] \/ \E y \in 0 .. SubArea.h - 1 :
                                                 s.row[y + SubArea.y] = l /\ flag["sub"][y]],
   sub  |-> [y \in 0 .. SubArea.h - 1 |-> FALSE]]
Gather(s) == [s EXCEPT !.dirty = Gathered(s, @), !.forced = Gathered(s, @)]

PlaceCursor(s, w) ==
  LET c == s.cur[w]
      a == Area(w)
  IN  [s EXCEPT !.vcur = << IF c[1] < a.h THEN a.y + c[1] ELSE @[1],
                            IF c[2] < a.v THEN a.x + c[2] ELSE @[2] >>]

\* CLEAROK reaches the virtual screen only from a window that fills it
TakeClear(s, w) ==
  [s EXCEPT !.vclear = @ \/ (s.clear[w] /\ w = "root"), !.clear[w] = FALSE]

\* the rows whose record names cells of the window, and these cells
Copied(s, w) == {y \in 0 .. Area(w).h - 1 :
                   /\ Flagged(s, w, LineOf(s, w, y))
                   /\ s.first[Storage(s, w, y)] < Area(w).v + Area(w).x
                   /\ s.last[Storage(s, w, y)] >= Area(w).x}
Named(s, w, p) == More(Area(w).x, s.first[p]) .. Less(Area(w).x + Area(w).v - 1, s.last[p])

CopyRows(s, w, ys) ==
  LET a == Area(w)
      p(r) == Storage(s, w, r - a.y)
      shown == {r \in Rows : r - a.y \in ys}
  IN  [s EXCEPT !.virt = [r \in Rows |-> IF r \in shown
                            THEN [x \in Columns |-> IF x \in Named(s, w, p(r)) THEN s.text[p(r)][x]
                                                    ELSE s.virt[r][x]]
                            ELSE s.virt[r]],
                !.vflag = [r \in Rows |-> @[r] \/ r \in shown],
                !.vfirst = [r \in Rows |-> IF r \in shown THEN Less(@[r], s.first[p(r)]) ELSE @[r]],
                !.vlast = [r \in Rows |-> IF r \in shown THEN More(@[r], s.last[p(r)]) ELSE @[r]]]

\* mutant: a refresh of the subwindow that forgets the changes to its left
ResetFirstAll(s, w, p) == Area(w).v + Area(w).x

\* the change pointers of a line that was copied, and its flags
ResetFirst(s, w, p) == IF s.first[p] >= Area(w).x THEN Area(w).v + Area(w).x ELSE s.first[p]
ResetLast(s, w, p) == IF s.last[p] < Area(w).v + Area(w).x THEN Area(w).x ELSE s.last[p]
Settled(s, w, p) ==
  LET f == ResetFirst(s, w, p)
      e == ResetLast(s, w, p)
  IN  e < f \/ f >= Area(w).v + Area(w).x \/ e <= Area(w).x

ResetRows(s, w, ys) ==
  LET ps == Lines(s, w, ys)
      settled == {l \in {LineOf(s, w, y) : y \in ys} : Settled(s, w, StorageOf(s, w, l))}
  IN  [s EXCEPT !.first = [p \in Rows |-> IF p \in ps THEN ResetFirst(s, w, p) ELSE @[p]],
                !.last = [p \in Rows |-> IF p \in ps THEN ResetLast(s, w, p) ELSE @[p]],
                !.dirty[w] = [l \in DOMAIN @ |-> @[l] /\ l \notin settled],
                !.forced[w] = [l \in DOMAIN @ |-> @[l] /\ l \notin settled]]

CopyOut(s, w) == ResetRows(CopyRows(s, w, Copied(s, w)), w, Copied(s, w))

NoutRefreshed(s, w) ==
  CopyOut(TakeClear(PlaceCursor(IF w = "root" /\ flags.sub THEN Gather(s) ELSE s, w), w), w)

\* mutant: doupdate leaves the last column of the record out
UpdatedShort(s) ==
  [s EXCEPT !.shown = [y \in Rows |-> [x \in Columns |->
                IF s.vclear \/ (s.vflag[y] /\ x >= s.vfirst[y] /\ x < s.vlast[y])
                THEN s.virt[y][x] ELSE @[y][x]]],
            !.vflag = [y \in Rows |-> FALSE],
            !.vfirst = [y \in Rows |-> V], !.vlast = [y \in Rows |-> 0],
            !.vclear = FALSE]

\* doupdate: the recorded cells of the virtual screen reach the terminal
Updated(s) ==
  [s EXCEPT !.shown = [y \in Rows |-> [x \in Columns |->
                IF s.vclear \/ (s.vflag[y] /\ x \in s.vfirst[y] .. s.vlast[y])
                THEN s.virt[y][x] ELSE @[y][x]]],
            !.vflag = [y \in Rows |-> FALSE],
            !.vfirst = [y \in Rows |-> V], !.vlast = [y \in Rows |-> 0],
            !.vclear = FALSE]

\* wrefresh: the window takes the cursor of the screen
TakeCursor(t, w) ==
  [t EXCEPT !.cur[w] = <<More(0, t.vcur[1] - Area(w).y), More(0, t.vcur[2] - Area(w).x)>>]
Refreshed(s, w) == TakeCursor(Updated(NoutRefreshed(s, w)), w)

\* __sync, at the end of a call that edits
SyncParent(t, w) == IF w \in flags.sync THEN SyncUp(t, w) ELSE t
Sync(s, w) == SyncParent(IF w \in flags.immed THEN Refreshed(s, w) ELSE s, w)

(***************************************************************************)
(* Scrolling, inserting and deleting lines.                                *)
(***************************************************************************)
Erased(s, w, p, xs) == [s EXCEPT !.text[p] = Over(@, w, [x \in xs |-> Blank])]
EraseRows(s, w, ys) == WriteRows(s, w, [y \in ys |-> [x \in 0 .. Area(w).v - 1 |-> Blank]])

\* the root exchanges its lines, a subwindow copies the cells
Exchange(s, w, y, z) ==
  IF w = "root"
    THEN [s EXCEPT !.row[y] = s.row[z], !.row[z] = s.row[y]]
    ELSE LET line == Text(s, w, y) IN Write(s, w, z, [x \in 0 .. SubArea.v - 1 |-> line[x]])

\* round i of the loop of winsdelln, from the last row down or from y up
RowStep(t, w, y, last, k, n, i) ==
  LET z == IF n > 0 THEN last - k - (i - 1) ELSE y + (i - 1)
  IN  IF z < y \/ z + k > last THEN t
      ELSE IF n > 0 THEN Exchange(t, w, z, z + k) ELSE Exchange(t, w, z + k, z)
\* winsdelln: n lines are inserted at the cursor, or -n deleted, k of them in
\* the region
RowsMoved(s, w, y, last, k, n) ==
  LET after[i \in 0 .. H] == IF i = 0 THEN s ELSE RowStep(after[i - 1], w, y, last, k, n, i)
  IN  after[H]

RowsBlanked(s, w, y, last, k, n) ==
  EraseRows(s, w, IF n > 0 THEN y .. y + k - 1 ELSE last - k + 1 .. last)

\* __id_subwins makes the lines of the subwindows point at the rows again
Linked(s, w) ==
  IF w = "root" THEN s
  ELSE [s EXCEPT !.subrow = [z \in 0 .. SubArea.h - 1 |-> s.row[z + SubArea.y]]]

MoveRows(s, w, y, last, k, n) ==
  Sync(Linked(TouchFull(RowsBlanked(RowsMoved(s, w, y, last, k, n), w, y, last, k, n),
                        w, y .. last, FALSE), w), w)

InsDel(s, w, n) ==
  LET y == s.cur[w][1]
      within == y >= s.region[w][1] /\ y <= Bottom(s, w)
      last == IF within THEN Bottom(s, w) ELSE Area(w).h - 1
      k == Less(IF n > 0 THEN n ELSE -n, last + 1 - y)
  IN  IF n = 0 THEN s ELSE MoveRows(Odd(s, "moved", w = "root" /\ flags.sub), w, y, last, k, n)

\* wmove
At(s, w, y, x) ==
  IF y \in 0 .. Area(w).h - 1 /\ x \in 0 .. Area(w).v - 1 THEN [s EXCEPT !.cur[w] = <<y, x>>] ELSE s

\* wscrl, for a window that may scroll
Scroll(s, w, n) ==
  IF n = 0 THEN s
  ELSE At(InsDel(At(s, w, s.region[w][1], 1), w, -n), w, s.cur[w][1], s.cur[w][2])

(***************************************************************************)
(* Erasing.                                                                *)
(***************************************************************************)
ClrToEol(s, w) ==
  LET y == s.cur[w][1]
      x == s.cur[w][2]
  IN  Sync(TouchLine(Erased(s, w, Storage(s, w, y), x .. Area(w).v - 1), w, y, x, Area(w).v - 1), w)

\* a row of wclrtobot is touched only between the cells that change
ClrToBot(s, w) ==
  LET c == s.cur[w]
      Changed(y) == {x \in (IF y = c[1] THEN c[2] ELSE 0) .. Area(w).v - 1 : Text(s, w, y)[x] # Blank}
      ys == {y \in c[1] .. Area(w).h - 1 : Changed(y) # {}}
      t == WriteRows(s, w, [y \in ys |-> [x \in Changed(y) |-> Blank]])
  IN  Sync(TouchRows(t, w, [y \in ys |-> Min(Changed(y))], [y \in ys |-> Max(Changed(y))], FALSE), w)

Erase(s, w) == At(TouchWin(EraseRows(s, w, 0 .. Area(w).h - 1), w), w, 0, 0)
Clear(s, w) == [Erase(s, w) EXCEPT !.clear[w] = TRUE]

(***************************************************************************)
(* _cursesi_addwchar.  An operator on a state and a result: r.s, r.ok.     *)
(***************************************************************************)
Fail(s) == [s |-> s, ok |-> FALSE]
Done(s) == [s |-> s, ok |-> TRUE]
Glyph(c) == [ch |-> c, col |-> Width(c), hi |-> FALSE]
Rest(c) == [ch |-> c, col |-> -1, hi |-> FALSE]
Lit(cell, hi) == [cell EXCEPT !.hi = hi]
Cell(s, w, p, x) == s.text[p][x + Area(w).x]
Put(s, w, p, x, cell) == [s EXCEPT !.text[p][x + Area(w).x] = cell]

\* mutant: no test for the bottom of the scrolling region
NextLineAlways(s, w, y) == [s EXCEPT !.cur[w] = <<y + 1, 0>>]

\* the line after y; below the scrolling region nothing stops at the last line
NextLine(s, w, y) ==
  IF y = Bottom(s, w) THEN [s EXCEPT !.cur[w] = <<y, 0>>]
  ELSE Odd([s EXCEPT !.cur[w] = <<y + 1, 0>>], "below", y + 1 = Area(w).h)

\* the columns after x that belong to the character cut in two by a write
Remainder(s, w, p, x) ==
  {e \in x .. Area(w).v - 1 : \A z \in x .. e : Cell(s, w, p, z).col < 0}

\* the character does not fit between x and the end of the line: the cells
\* are cleared and the cursor goes to the next line
Wrap(s, w, l, sx) ==
  LET Cleared(t, y, x, end) ==
        NextLine(TouchLine(TellLast(TellFirst(Erased(t, w, StorageOf(t, w, l), x .. end), w, l, x),
                                    w, l, end), w, y, sx, end), w, y)
  IN  Cleared(IF s.cur[w][1] = Bottom(s, w) THEN Scroll(s, w, 1) ELSE s,
              s.cur[w][1], s.cur[w][2], Area(w).v - 1)

\* the cells of the character at the cursor
PutCells(s, w, l, p, c, hi) ==
  LET x == s.cur[w][2]
      head == Put(TellFirst(s, w, l, x), w, p, x, Lit(Glyph(c), hi))
  IN  IF Width(c) = 2 THEN Put(head, w, p, x + 1, Lit(Rest(c), hi)) ELSE head

\* the last column is filled: the window scrolls where it may
LineFilled(s, w, l, y, sx) ==
  LET v == Area(w).v
  IN  NextLine(TouchLine(TellLast(IF y = Bottom(s, w) THEN Scroll([s EXCEPT !.cur[w][2] = v], w, 1)
                                  ELSE s, w, l, v - 1), w, y, sx, v - 1), w, y)

\* what is left of a character cut in two goes
Followed(s, w, l, p, y, sx, end, rest) ==
  LET last == end + Cardinality(rest) - 1
  IN  [TouchLine(TellLast(Erased(s, w, p, rest), w, l, last), w, y, sx, last) EXCEPT !.cur[w][2] = end]

\* the character is in its cells, of which the first is taken to be sx; in the
\* corner of a window that does not scroll the record is not told of them
Placed(s, w, l, p, y, sx, end) ==
  IF end = Area(w).v /\ y = Bottom(s, w) /\ w \notin flags.scroll
  THEN Fail(Odd([s EXCEPT !.cur[w][2] = end], "corner", TRUE))
  ELSE Done(Sync(IF end = Area(w).v THEN LineFilled(s, w, l, y, sx)
                 ELSE IF end = 0 THEN [s EXCEPT !.cur[w][2] = 0]
                 ELSE Followed(s, w, l, p, y, sx, end, Remainder(s, w, p, end)), w))

PutAt(s, w, c, hi, sx) ==
  LET y == s.cur[w][1]
      l == LineOf(s, w, y)
      p == StorageOf(s, w, l)
  IN  Placed(PutCells(s, w, l, p, c, hi), w, l, p, y, sx, sx + Width(c))

\* a character of one or two columns
AddSpacing(s, w, c, hi) ==
  LET y == s.cur[w][1]
      x == s.cur[w][2]
      l == LineOf(s, w, y)
      half == Cell(s, w, Storage(s, w, y), x).col < 0
      \* the first column of the character the cursor is in the middle of
      split == Odd(TellFirst(Erased(s, w, Storage(s, w, y), {x - 1} \cap 0 .. x), w, l, x - 1),
                   "half", TRUE)
      begun == IF half THEN split ELSE s
      sx == IF half THEN x - 1 ELSE x
      fits == Width(c) <= Area(w).v - x
  IN  IF x >= Area(w).v \/ y >= Area(w).h THEN Fail(s)
      ELSE IF ~fits /\ y = Bottom(s, w) /\ w \notin flags.scroll THEN Fail(begun)
      ELSE PutAt(IF fits THEN begun ELSE Wrap(begun, w, l, sx), w, c, hi, IF fits THEN sx ELSE 0)

TabSize == 2

\* the blanks of a tab
TabCount(s, w) ==
  LET x == s.cur[w][2]
      n == TabSize - (x % TabSize)
  IN  IF s.cur[w][1] = Bottom(s, w) /\ w \notin flags.scroll THEN Less(n, Area(w).v - x - 1) ELSE n

\* an error ends the blanks of a tab
AddTimes(s, w, c, n) ==
  LET after[i \in 0 .. TabSize] ==
        IF i = 0 THEN Done(s)
        ELSE IF i > n \/ ~after[i - 1].ok THEN after[i - 1]
        ELSE AddSpacing(after[i - 1].s, w, c, FALSE)
  IN  after[TabSize]

\* s: the line is cleared from the cursor on
AddNewline(s, w) ==
  Done(IF s.cur[w][1] # Bottom(s, w) THEN NextLine(s, w, s.cur[w][1])
       ELSE [Scroll(s, w, 1) EXCEPT !.cur[w][2] = 0])

AddChar(s, w, c) ==
  CASE c = "BS" -> Done([s EXCEPT !.cur[w][2] = More(0, @ - 1)])
    [] c = "CR" -> Done([s EXCEPT !.cur[w][2] = 0])
    [] c = "NL" -> IF s.cur[w][1] = Bottom(s, w) /\ w \notin flags.scroll THEN Fail(s)
                   ELSE AddNewline(ClrToEol(s, w), w)
    [] OTHER -> AddTimes(s, w, IF c = "TAB" THEN " " ELSE c, IF c = "TAB" THEN TabCount(s, w) ELSE 1)

\* _cursesi_waddbytes: an error does not stop the rest of the string.  (In the
\* strings here a newline or a tab comes last.)
AddStr(s, w, str) ==
  LET after[i \in 0 .. Len(str)] == IF i = 0 THEN s ELSE AddChar(after[i - 1], w, str[i]).s
  IN  after[Len(str)]

(***************************************************************************)
(* Inserting and deleting characters in a line.                            *)
(***************************************************************************)
\* winsch: the character goes into the cell as it is, whatever it cuts in two
InsCh(s, w, c) ==
  LET y == s.cur[w][1]
      x == s.cur[w][2]
      v == Area(w).v
      line == Text(s, w, y)
      shifted == [z \in x .. v - 1 |-> IF z = x THEN [Glyph(c) EXCEPT !.col = 1] ELSE line[z - 1]]
      t == TouchLine(Write(s, w, y, shifted), w, y, x, v - 1)
      \* the code looks at the last cell too, whose attributes (with the width in
      \* them) never compare equal to those of a blank
      full == w = "root" /\ y = H - 1
  IN  IF full /\ w \in flags.scroll
        THEN LET u == Scroll(Refreshed(t, w), w, 1) IN [u EXCEPT !.cur[w][1] = @ - 1]
        ELSE t

\* the columns of a line from sx on with a character put before them; the
\* character that would be cut by the end of the line is left out
Inserted(line, c, sx, v) ==
  LET cw == Width(c)
      keep == IF line[v - cw].col < 0 THEN v - 1 - cw + line[v - cw].col ELSE v - 1 - cw
  IN  [z \in sx .. v - 1 |->
         CASE z = sx -> Glyph(c)
           [] z \in sx + 1 .. sx + cw - 1 -> Rest(c)
           [] z >= sx + cw /\ z <= keep + cw -> line[z - cw]
           [] OTHER -> IF line[v - cw].col < 0 THEN Blank ELSE line[z]]

\* wins_wch of a character that is not \b, \r, \n or \t
InsWch(s, w, c) ==
  LET y == s.cur[w][1]
      x == s.cur[w][2]
      v == Area(w).v
      line == Text(s, w, y)
      l == LineOf(s, w, y)
      sx == IF line[x].col < 0 THEN x + line[x].col ELSE x
      told == TellLast(TellFirst(Write(s, w, y, Inserted(line, c, sx, v)), w, l, sx), w, l, v - 1)
  IN  IF Width(c) > v - sx THEN s
      ELSE Sync(TouchLine(Odd(told, "half", sx < 0), w, y, sx, v - 1), w)

\* winsnstr of n narrow characters
InsStr(s, w, c, n) ==
  LET y == s.cur[w][1]
      x == s.cur[w][2]
      v == Area(w).v
      line == Text(s, w, y)
      l == LineOf(s, w, y)
      new == [z \in x .. v - 1 |-> IF z < x + n THEN [Glyph(c) EXCEPT !.col = 1] ELSE line[z - n]]
  IN  Sync(TouchLine(TellLast(TellFirst(Write(s, w, y, new), w, l, 0), w, l, v - 1),
                     w, y, x, v - 1), w)

\* wdelch
DelCh(s, w) ==
  LET y == s.cur[w][1]
      x == s.cur[w][2]
      v == Area(w).v
      line == Text(s, w, y)
      sx == IF line[x].col < 0 THEN x + line[x].col ELSE x
      cw == line[sx].col
      new == [z \in sx .. v - 1 |-> IF z + cw < v THEN line[z + cw] ELSE Blank]
  IN  Sync(TouchLine(Odd(Write(s, w, y, new), "half", sx < 0 \/ cw < 0), w, y, sx, v - 1), w)

(***************************************************************************)
(* Lines, borders, attributes, copies.                                     *)
(***************************************************************************)
\* the places of a line of n times c from the cursor to the right, or down
HPlaces(s, w, c, n) ==
  LET y == s.cur[w][1]
      x == s.cur[w][2]
  IN  [i \in 1 .. Less(n, (Area(w).v - x) \div Width(c)) |-> <<y, x + (i - 1) * Width(c)>>]
VPlaces(s, w, n) ==
  LET y == s.cur[w][1]
      x == s.cur[w][2]
  IN  [i \in 1 .. Less(n, Area(w).h - y) |-> <<y + i - 1, x>>]

\* the cursor ends where it was; a horizontal line that has no room does nothing
DrawLine(s, w, c, places) ==
  IF places = <<>> THEN s
  ELSE LET after[i \in 0 .. Len(places)] ==
             IF i = 0 THEN s
             ELSE AddChar(At(after[i - 1], w, places[i][1], places[i][2]), w, c).s
       IN  Sync(At(after[Len(places)], w, s.cur[w][1], s.cur[w][2]), w)

\* wborder_set with characters of one column
BorderRow(s, w, c, y) ==
  LET a == Area(w)
      line == Text(s, w, y)
      endx == a.v - 1
      cut == Remainder(s, w, Storage(s, w, y), 1)
      left == [x \in 0 .. endx |-> IF x = 0 THEN Glyph(c)
                                   ELSE IF x \in cut THEN [line[x] EXCEPT !.ch = " ", !.col = 1]
                                   ELSE line[x]]
      pcw == left[endx - 1].col
      right == IF pcw = 1 THEN {} ELSE IF pcw < 0 THEN endx - 1 + pcw .. endx - 1 ELSE {endx - 1}
  IN  [x \in 0 .. endx |-> IF x = endx THEN Glyph(c) ELSE IF x \in right THEN Blank ELSE left[x]]
BorderEdge(s, w, c, y) ==
  LET endx == Area(w).v - 1
      \* a window that fills a screen that scrolls keeps its corners
      corners == w = "root" /\ w \in flags.scroll
      line == Text(s, w, y)
  IN  [x \in 0 .. endx |-> IF x \in {0, endx} /\ corners THEN line[x] ELSE Glyph(c)]
Border(s, w, c) ==
  LET end == Area(w).h - 1
  IN  TouchWin(WriteRows(s, w, [y \in 0 .. end |-> IF y \in {0, end} THEN BorderEdge(s, w, c, y)
                                                  ELSE BorderRow(s, w, c, y)]), w)

\* mvwchgat: the record is told of one column more than is changed
ChgAt(s, w, y, x, n) ==
  LET l == LineOf(s, w, y)
      count == Less(n, Area(w).v - x)
      line == Text(s, w, y)
      new == [z \in x .. x + count - 1 |-> [line[z] EXCEPT !.hi = TRUE]]
  IN  TellLast(TellFirst(Write(s, w, y, new), w, l, x), w, l, x + count)

\* copywin from the subwindow onto the root at the top left corner: cell i
CopyCell(t, overlay, i) ==
  LET y == (i - 1) \div SubArea.v
      x == (i - 1) % SubArea.v
      cell == Text(t, "sub", y)[x]
  IN  IF overlay /\ cell.ch = " " THEN t
      ELSE AddSpacing(At(t, "root", y, x), "root", cell.ch, cell.hi).s
CopyWin(s, overlay) ==
  LET after[i \in 0 .. SubArea.h * SubArea.v] ==
        IF i = 0 THEN s ELSE CopyCell(after[i - 1], overlay, i)
  IN  TouchWin(after[SubArea.h * SubArea.v], "root")

\* touchoverlap of the root with the subwindow, and of the subwindow with the root
TouchOverlap(s, w) ==
  IF w = "sub"
    THEN TouchWin(s, "sub")
    ELSE LET ys == SubArea.y .. SubArea.y + SubArea.h - 1
         IN  TouchRows(s, w, [y \in ys |-> SubArea.x], [y \in ys |-> SubArea.x + SubArea.v - 1], FALSE)

(***************************************************************************)
(* The program.                                                            *)
(***************************************************************************)
Init ==
  /\ flags \in Programs
  /\ edits = 0
  /\ \E picture \in Pictures :
       st = [text |-> picture, row |-> [y \in Rows |-> y],
             subrow |-> [y \in 0 .. SubArea.h - 1 |-> y + SubArea.y],
             first |-> [p \in Rows |-> V], last |-> [p \in Rows |-> 0],
             dirty |-> [w \in AllWindows |-> [l \in 0 .. Area(w).h - 1 |-> FALSE]],
             forced |-> [w \in AllWindows |-> [l \in 0 .. Area(w).h - 1 |-> FALSE]],
             cur |-> [w \in AllWindows |-> <<0, 0>>],
             clear |-> [w \in AllWindows |-> FALSE],
             region |-> [w \in AllWindows |-> IF w = "root" THEN flags.region
                                              ELSE <<0, SubArea.h - 1>>],
             virt |-> picture, vflag |-> [y \in Rows |-> FALSE],
             vfirst |-> [y \in Rows |-> V], vlast |-> [y \in Rows |-> 0],
             vcur |-> <<0, 0>>, vclear |-> FALSE, shown |-> picture, odd |-> {}]

Edit(t) ==
  /\ edits < MaxEdits
  /\ t.odd \subseteq Cases
  /\ st' = t /\ edits' = edits + 1 /\ UNCHANGED flags

Strings == {<<c>> : c \in {"a", "W", "NL", "TAB", "BS", "CR"}}
             \cup {<<"a", "a">>, <<"a", "NL">>, <<"W", "a">>}

Writes(s, w) ==
  \/ \E str \in Strings : Edit(AddStr(s, w, str))
  \/ \E places \in {HPlaces(s, w, "a", 2), VPlaces(s, w, 2)} : Edit(DrawLine(s, w, "a", places))
Inserts(s, w) ==
  \/ Edit(InsCh(s, w, "a"))
  \/ \E c \in {"a", "W"} : Edit(InsWch(s, w, c))
  \/ Edit(InsStr(s, w, "a", 2))
  \/ Edit(DelCh(s, w))
MovesLines(s, w) ==
  \/ \E n \in {-2, -1, 1, 2} : Edit(InsDel(s, w, n))
  \/ \E n \in {-1, 1} : w \in flags.scroll /\ Edit(Scroll(s, w, n))
Erases(s, w) ==
  \/ Edit(ClrToEol(s, w))
  \/ Edit(ClrToBot(s, w))
Marks(s, w) ==
  \/ \E n \in {1, V} : Edit(ChgAt(s, w, s.cur[w][1], s.cur[w][2], n))
  \/ Edit(TouchLn(s, w, s.cur[w][1], 1))
WholeWindow(w) ==
  \/ Edit(Erase(st, w))
  \/ Edit(Clear(st, w))
  \/ Edit(Border(st, w, "a"))
  \/ Edit(SyncUp(st, w))
Copies ==
  /\ flags.sub
  /\ \/ \E overlay \in BOOLEAN : Edit(CopyWin(st, overlay))
     \/ \E w \in AllWindows : Edit(TouchOverlap(st, w))

EditWindow(w) ==
  \/ \E spot \in Spots[w] :
       LET s == At(st, w, spot[1], spot[2])
       IN  Writes(s, w) \/ Inserts(s, w) \/ MovesLines(s, w) \/ Erases(s, w) \/ Marks(s, w)
  \/ WholeWindow(w)

WNoutRefresh(w) == st' = NoutRefreshed(st, w) /\ UNCHANGED <<flags, edits>>
WRefresh(w) == st' = Refreshed(st, w) /\ UNCHANGED <<flags, edits>>
DoUpdate == st' = Updated(st) /\ UNCHANGED <<flags, edits>>

Next ==
  \/ \E w \in Windows : EditWindow(w) \/ WNoutRefresh(w) \/ WRefresh(w)
  \/ Copies
  \/ DoUpdate
Spec == Init /\ [][Next]_vars

(***************************************************************************)
(* Properties.                                                             *)
(***************************************************************************)
\* Cells, records, flags and cursors have their types, and the root's rows
\* are its lines of storage in some order.
TypeOK ==
  /\ \A grid \in {st.text, st.virt, st.shown} : \A y \in Rows, x \in Columns : grid[y][x] \in Cells
  /\ {st.row[y] : y \in Rows} = Rows
  /\ \A p \in Rows : st.first[p] \in 0 .. V /\ st.last[p] \in 0 .. V
  /\ \A w \in AllWindows : DOMAIN st.dirty[w] = 0 .. Area(w).h - 1
  /\ edits \in 0 .. MaxEdits /\ st.odd \subseteq Cases

\* Whatever calls edited the window and its subwindow, refreshing the window
\* brings every cell that was changed to the virtual screen: no call writes a
\* cell the change record does not name, and no refresh of either window
\* forgets a change the other still has to show.
AllCopied(s) == \A y \in Rows, x \in Columns : s.virt[y][x] = s.text[s.row[y]][x]

NothingLost == AllCopied(NoutRefreshed(st, "root"))

\* Every cell of the virtual screen that differs from the terminal is in the
\* record doupdate reads.
VirtRecorded ==
  \A y \in Rows, x \in Columns :
    st.virt[y][x] # st.shown[y][x] =>
      st.vclear \/ (st.vflag[y] /\ x \in st.vfirst[y] .. st.vlast[y])

\* The cursor of a window stays on a cell of it.
CursorInside ==
  TypeOK /\ \A w \in AllWindows : st.cur[w][1] \in 0 .. Area(w).h - 1 /\ st.cur[w][2] \in 0 .. Area(w).v - 1
=============================================================================
