--------------------------- MODULE DoupdateProofs ---------------------------
(***************************************************************************)
(* doupdate() on terminals of any size, with any characters and colours,   *)
(* after any number of changes and updates.                                *)
(*                                                                         *)
(* Two facts are kept.  The record (RInv): until an update has drawn it, a *)
(* cell that differs from curscr lies in the range its line records; once  *)
(* it has, __virtscr and curscr are alike there.  It holds of every        *)
(* terminal, of updates that give up for typed input and of cursors left   *)
(* anywhere, unless wrefresh(curscr) is called with changes pending.       *)
(*                                                                         *)
(* The terminal (DInv): what it shows is curscr, except where a redraw     *)
(* cleared it and has not come yet; and the cursor is where curses         *)
(* believes it to be, except behind the last column (Off), from where the  *)
(* next motion is an absolute one.  The assumptions of Usual are those     *)
(* that this needs: for each one there is a terminal or a program that     *)
(* writes a cell where curses does not know of it (README, 2.2).           *)
(***************************************************************************)
EXTENDS Doupdate, WellFoundedInduction, TLAPS

\* The terminals and flags this is about: the cursor is not to be left where it
\* is; a terminal with automatic margins has two columns, inserts only if its
\* wrap waits, and otherwise changes its lines without quickch.
Plain(s) ==
  /\ ~s.leave
  /\ s.am => s.cols > 1
  /\ s.am /\ ~s.xenl => ~s.insert
  /\ s.am /\ ~s.insert => s.noqch

\* Programs that leave the cursor before the last column and do not call
\* wrefresh(curscr) between a wnoutrefresh() and its doupdate(), and updates
\* that are not given up.
Usual == /\ ~TypeAhead /\ ~LastColumn /\ ~RedrawPending
         /\ \A s \in Setups : Plain(s)

\* Not in the last column.
Inner(p) == p[2] < W - 1 \/ p = <<0, 0>>

\* There is nothing to draw.
Settled(y, x) == virt[y][x] = cur[y][x] \/ Exempt(y, x)

\* The line records a change of the cell.
InRange(y, x) == line[y].dirty /\ line[y].first <= x /\ x <= line[y].last

\* makech is at work.
InLine == pc \in {"scan", "put", "done"}

\* makech is done with a cell.
Drawn(y, x) ==
  \/ y < wy
  \/ y = wy /\ (pc = "done" \/ (pc \in {"scan", "put"} /\ ~(wx <= x /\ x <= lch)))

\* makech has not come to the cell's line.
Ahead(y) == y > wy \/ (y = wy /\ pc \in {"quick", "line"})

\* A redraw has cleared the cell and not yet drawn it.
Undrawn(y, x) == curwin /\ (y > wy \/ (y = wy /\ (pc = "line" \/ x >= wx)))

\* The terminal waits to wrap, or was left a line above.
Off == at[2] = W - 1 /\ (tty.am \/ (at[1] = L - 1 /\ L > 1))

\* wy is a line wherever makech is at work, and the count of lines between two
\* looks at the input stays below CHECK_INTERVAL.
TypeInv == /\ TypeOK
           /\ changed < CheckInterval
           /\ pc \in {"quick", "scan", "put", "done"} => wy < L

\* Where in doupdate which mode of drawing can be.
Steps ==
  /\ pc \in {"quick", "done"} => ~curwin
  /\ pc = "quick" => ~tty.noqch /\ wy = 0
  /\ ce /\ InLine => ~curwin
  /\ curwin /\ InLine => lch = W - 1

\* Where the cursor is, at each place of doupdate.
CursorInv ==
  /\ Inner(vpos) /\ Inner(cpos)
  /\ \A y \in Rows : ~line[y].past
  /\ pc = "idle" /\ ~vclear => tpos = cpos
  /\ pc = "quick" => tpos = at
  /\ pc = "line" => tpos = at \/ (Off /\ at[1] < wy)
  /\ pc = "scan" => tpos = at \/ (Off /\ (at[1] < wy \/ (at[1] = wy /\ wx = W)))
  /\ pc = "put" => at[1] = wy /\ (wx < W => tpos = <<wy, wx>>)
  /\ pc = "done" => tpos = at \/ (Off /\ at[1] <= wy)

\* The terminal shows curscr, or a blank that a redraw left.
TermInv ==
  /\ pc = "idle" /\ ~vclear => \A y \in Rows, x \in Cols : term[y][x] = cur[y][x] \/ Exempt(y, x)
  /\ pc \notin {"idle", "crashed"} => \A y \in Rows, x \in Cols :
       term[y][x] = (IF Undrawn(y, x) THEN Blank ELSE cur[y][x]) \/ Exempt(y, x)

\* Between updates, in a redraw, and in an update.
RecordInv ==
  /\ pc = "idle" => \A y \in Rows, x \in Cols : Settled(y, x) \/ vclear \/ InRange(y, x)
  /\ pc \notin {"idle", "crashed"} /\ curwin =>
       \A y \in Rows, x \in Cols : Settled(y, x) \/ vclear
  /\ pc \notin {"idle", "crashed"} /\ ~curwin =>
       \A y \in Rows, x \in Cols :
         /\ Drawn(y, x) => Settled(y, x)
         /\ Ahead(y) => Settled(y, x) \/ InRange(y, x)

\* The record, for every terminal.
RInv == TypeInv /\ Steps /\ RecordInv

\* The record, the cursor and the terminal, for the usual ones.
DInv == RInv /\ CursorInv /\ TermInv

-----------------------------------------------------------------------------
(* Sizes and types *)

\* What the types of the state say of the sizes.
LEMMA Sizes ==
  ASSUME TypeOK
  PROVE  /\ tty \in Setup /\ L \in Nat \ {0} /\ W \in Nat \ {0}
         /\ 0 \in Rows /\ 0 \in Cols /\ L - 1 \in Rows /\ W - 1 \in Cols
         /\ Blank \in Cell /\ BlankLine \in [Cols -> Cell]
         /\ Rows \subseteq Nat /\ Cols \subseteq Nat
<1>1. tty \in Setup
  BY DoupdateAssumption DEF TypeOK
<1>2. L \in Nat \ {0} /\ W \in Nat \ {0}
  BY <1>1 DEF Setup, L, W
<1>3. Blank \in Cell
  BY DoupdateAssumption DEF Cell
<1> QED
  BY <1>1, <1>2, <1>3 DEF Rows, Cols, BlankLine

\* The terminal and its size never change.
LEMMA Same ==
  ASSUME tty' = tty
  PROVE  /\ Rows' = Rows /\ Cols' = Cols /\ L' = L /\ W' = W
         /\ Screen' = Screen /\ LineRecord' = LineRecord /\ ScrollWin' = ScrollWin
         /\ Clean' = Clean /\ BlankLine' = BlankLine
  BY DEF Rows, Cols, L, W, Screen, LineRecord, ScrollWin, Clean, BlankLine

\* What the operations on the terminal write is a screen.
LEMMA FilledIn ==
  ASSUME TypeOK, NEW c \in Cell
  PROVE  Filled(c) \in Screen
  BY DEF Filled, Screen

LEMMA LimitIn ==
  ASSUME NEW n \in Int, NEW hi \in Nat
  PROVE  Limit(n, hi) \in 0 .. hi /\ (n \in 0 .. hi => Limit(n, hi) = n)
  BY DEF Limit

LEMMA PrintedIn ==
  ASSUME TypeOK, NEW c \in Cell, NEW pos \in Rows \X (0 .. W)
  PROVE  Printed(term, pos, c).cell \in Screen /\ Printed(term, pos, c).pos \in Rows \X (0 .. W)
<1>0. /\ L \in Nat \ {0} /\ W \in Nat \ {0} /\ BlankLine \in [Cols -> Cell] /\ Blank \in Cell
      /\ Rows = 0 .. L - 1 /\ Cols = 0 .. W - 1
  BY Sizes DEF Rows, Cols
<1>1. \A s \in Screen : ScrollUp(s) \in Screen
  BY <1>0 DEF ScrollUp, Screen
<1>2. PICK p1, p2 : p1 \in Rows /\ p2 \in 0 .. W /\ pos = <<p1, p2>>
  OBVIOUS
<1>3. PICK y \in Rows : y = IF p2 = W /\ p1 < L - 1 THEN p1 + 1 ELSE p1
  BY <1>0, <1>2
<1>4. PICK x \in Cols : x = IF p2 = W THEN 0 ELSE p2
  BY <1>0, <1>2
<1>5. PICK base \in Screen : base = IF p2 = W /\ p1 = L - 1 THEN ScrollUp(term) ELSE term
  BY <1>1 DEF TypeOK
<1>6. PICK done \in Screen : done = [base EXCEPT ![y][x] = c]
  BY DEF Screen
<1>7. Printed(term, pos, c) =
        IF x < W - 1 THEN [cell |-> done, pos |-> <<y, x + 1>>]
        ELSE IF ~tty.am THEN [cell |-> done, pos |-> <<y, x>>]
        ELSE IF tty.xenl THEN [cell |-> done, pos |-> <<y, W>>]
        ELSE IF y < L - 1 THEN [cell |-> done, pos |-> <<y + 1, 0>>]
        ELSE [cell |-> ScrollUp(done), pos |-> <<y, 0>>]
  BY <1>2, <1>3, <1>4, <1>5, <1>6, Zenon DEF Printed
<1>8. ScrollUp(done) \in Screen
  BY <1>1
<1> QED
  BY <1>0, <1>7, <1>8

LEMMA LocalMoveIn ==
  ASSUME TypeOK, NEW pos \in Rows \X (0 .. W), NEW o \in Rows \X Cols, NEW n \in Rows \X Cols
  PROVE  /\ LocalMove(term, pos, o, n).cell \in Screen
         /\ LocalMove(term, pos, o, n).pos \in Rows \X (0 .. W)
<1>0. /\ L \in Nat \ {0} /\ W \in Nat \ {0} /\ Rows = 0 .. L - 1 /\ Cols = 0 .. W - 1
  BY Sizes DEF Rows, Cols
<1>a. /\ pos[1] \in Nat /\ pos[2] \in Nat /\ o[1] \in Nat /\ o[2] \in Nat
      /\ n[1] \in Nat /\ n[2] \in Nat /\ n[1] \in Rows
  BY <1>0
<1>b. ASSUME NEW k \in Int PROVE Limit(k, L - 1) \in Rows /\ Limit(k, W - 1) \in Cols
  BY <1>0 DEF Limit
<1>1. PICK y \in Rows : y = Limit(pos[1] + n[1] - o[1], L - 1)
  BY <1>a, <1>b
<1>2. PICK x \in Cols : x = Limit(pos[2] + n[2] - o[2], W - 1)
  BY <1>a, <1>b
<1>3. PICK from : from = [k \in Cols |-> cur[n[1]][Limit(k + o[2] - pos[2], W - 1)]]
  OBVIOUS
<1>4. from \in [Cols -> Cell]
  <2>1. ASSUME NEW k \in Cols PROVE Limit(k + o[2] - pos[2], W - 1) \in Cols
    <3>1. k + o[2] - pos[2] \in Int
      BY <1>0, <1>a
    <3> QED
      BY ONLY <1>b, <3>1
  <2> QED
    BY <1>3, <1>a, <2>1 DEF TypeOK, Screen
<1>5. PICK row : row = [k \in Cols |-> IF k >= pos[2] /\ k < x /\ from[k].colour = 0
                                      THEN from[k] ELSE term[y][k]]
  OBVIOUS
<1>6. row \in [Cols -> Cell]
  BY <1>4, <1>5 DEF TypeOK, Screen
<1>7. LocalMove(term, pos, o, n) = [cell |-> [term EXCEPT ![y] = row], pos |-> <<y, x>>]
  BY <1>1, <1>2, <1>3, <1>5 DEF LocalMove
<1>8. [term EXCEPT ![y] = row] \in Screen
  BY <1>6 DEF TypeOK, Screen
<1>9. <<y, x>> \in Rows \X (0 .. W)
  BY <1>0
<1> QED
  BY <1>7, <1>8, <1>9

-----------------------------------------------------------------------------
(* quickch *)

\* A set of numbers has a least one, and one of few a greatest one.
LEMMA LeastThere ==
  ASSUME NEW S, S \subseteq Nat, S # {}
  PROVE  \E n \in S : \A y \in S : n <= y
<1>1. S \subseteq Nat /\ S # {}
  OBVIOUS
<1>2. PICK n \in S : \A y \in S : ~(<<y, n>> \in OpToRel(<, Nat))
  BY ONLY <1>1, NatLessThanWellFounded, WFMin
<1>3. \A y \in S : ~(y < n)
  BY <1>1, <1>2 DEF OpToRel
<1> QED
  BY <1>1, <1>3

LEMMA GreatestThere ==
  ASSUME NEW n \in Nat, NEW S, S \subseteq 0 .. n, S # {}
  PROVE  \E m \in S : \A y \in S : y <= m
<1> DEFINE T == {n - x : x \in S}
<1>0. \A x \in S : x \in Int /\ 0 <= x /\ x <= n
  OBVIOUS
<1>1. T \subseteq Nat /\ T # {}
  <2>1. \A x \in S : n - x \in Nat
    BY <1>0
  <2> QED
    BY <2>1
<1>2. PICK k \in T : \A y \in T : k <= y
  BY <1>1, LeastThere
<1>3. PICK m \in S : k = n - m
  BY <1>2
<1>4. \A x \in S : x <= m
  <2> TAKE x \in S
  <2>1. k <= n - x
    BY <1>2
  <2>2. x \in Int /\ m \in Int
    BY <1>0
  <2> QED
    BY <1>3, <2>1, <2>2
<1> QED
  BY <1>4

\* The first and the last line that quickch has to change.
LEMMA TopIs ==
  ASSUME TypeOK, NEW dirty
  PROVE  /\ Top(virt, cur, dirty) \in 0 .. L
         /\ \A y \in 0 .. Top(virt, cur, dirty) - 1 : ~dirty[y] \/ virt[y] = cur[y]
<1> DEFINE S == {y \in Rows : dirty[y] /\ virt[y] # cur[y]}
<1>0. L \in Nat \ {0} /\ Rows = 0 .. L - 1
  BY Sizes DEF Rows
<1>1. \E t \in 0 .. L :
        /\ \A y \in 0 .. t - 1 : ~dirty[y] \/ virt[y] = cur[y]
        /\ t = L \/ (dirty[t] /\ virt[t] # cur[t])
  <2>1. CASE S = {}
    <3>1. \A y \in 0 .. L - 1 : ~dirty[y] \/ virt[y] = cur[y]
      BY <1>0, <2>1
    <3> QED
      BY <1>0, <3>1
  <2>2. CASE S # {}
    <3>1. S \subseteq Nat
      BY <1>0
    <3>2. PICK t \in S : \A y \in S : t <= y
      <4> HIDE DEF S
      <4> QED
        BY <2>2, <3>1, LeastThere
    <3>3. \A y \in 0 .. t - 1 : y \in Rows /\ ~(t <= y)
      BY <1>0, <3>2
    <3> QED
      BY <1>0, <3>2, <3>3
  <2> QED
    BY <2>1, <2>2
<1> DEFINE Is(u) ==
             /\ \A y \in 0 .. u - 1 : ~dirty[y] \/ virt[y] = cur[y]
             /\ u = L \/ (dirty[u] /\ virt[u] # cur[u])
<1>2. PICK k : k = CHOOSE u \in 0 .. L : Is(u)
  OBVIOUS
<1>3. k = Top(virt, cur, dirty)
  BY <1>2 DEF Top
<1>4. \E u \in 0 .. L : Is(u)
  BY <1>1
<1>5. k \in 0 .. L /\ Is(k)
  <2> HIDE DEF Is
  <2> QED
    BY <1>2, <1>4
<1> QED
  BY <1>3, <1>5

LEMMA BotIs ==
  ASSUME TypeOK, NEW dirty
  PROVE  /\ Bot(virt, cur, dirty) \in -1 .. L - 1
         /\ \A y \in Bot(virt, cur, dirty) + 1 .. L - 1 : ~dirty[y] \/ virt[y] = cur[y]
<1> DEFINE S == {y \in Rows : dirty[y] /\ virt[y] # cur[y]}
<1>0. L \in Nat \ {0} /\ Rows = 0 .. L - 1
  BY Sizes DEF Rows
<1>1. \E b \in -1 .. L - 1 :
        /\ \A y \in b + 1 .. L - 1 : ~dirty[y] \/ virt[y] = cur[y]
        /\ b = -1 \/ (dirty[b] /\ virt[b] # cur[b])
  <2>1. CASE S = {}
    <3>1. \A y \in 0 .. L - 1 : ~dirty[y] \/ virt[y] = cur[y]
      BY <1>0, <2>1
    <3>2. -1 \in -1 .. L - 1 /\ -1 + 1 = 0
      BY <1>0
    <3> QED
      BY <3>1, <3>2
  <2>2. CASE S # {}
    <3>1. S \subseteq 0 .. L - 1 /\ L - 1 \in Nat
      BY <1>0
    <3>2. PICK b \in S : \A y \in S : y <= b
      <4> HIDE DEF S
      <4> QED
        BY <2>2, <3>1, GreatestThere
    <3>3. \A y \in b + 1 .. L - 1 : y \in Rows /\ ~(y <= b)
      BY <1>0, <3>2
    <3>4. b \in -1 .. L - 1
      BY <1>0, <3>2
    <3> QED
      BY <3>2, <3>3, <3>4
  <2> QED
    BY <2>1, <2>2
<1> DEFINE Is(u) ==
             /\ \A y \in u + 1 .. L - 1 : ~dirty[y] \/ virt[y] = cur[y]
             /\ u = -1 \/ (dirty[u] /\ virt[u] # cur[u])
<1>2. PICK k : k = CHOOSE u \in -1 .. L - 1 : Is(u)
  OBVIOUS
<1>3. k = Bot(virt, cur, dirty)
  BY <1>2 DEF Bot
<1>4. \E u \in -1 .. L - 1 : Is(u)
  BY <1>1
<1>5. k \in -1 .. L - 1 /\ Is(k)
  <2> HIDE DEF Is
  <2> QED
    BY <1>2, <1>4
<1> QED
  BY <1>3, <1>5

\* The block of lines it picks is one of those it found.
LEMMA BestIn ==
  ASSUME NEW n \in Nat, NEW B, B # {},
         B \subseteq [bsize : 0 .. n, startw : Nat, starts : Nat]
  PROVE  Best(B) \in B
<1> DEFINE Sizes0 == {b.bsize : b \in B}
<1>1. PICK s \in Sizes0 : \A o \in Sizes0 : o <= s
  <2>1. Sizes0 \subseteq 0 .. n /\ Sizes0 # {}
    OBVIOUS
  <2> HIDE DEF Sizes0
  <2> QED
    BY <2>1, GreatestThere
<1> DEFINE Long == {b \in B : b.bsize = s}
           Starts == {b.startw : b \in Long}
<1>2. PICK w \in Starts : \A o \in Starts : w <= o
  <2>1. Starts \subseteq Nat /\ Starts # {}
    BY <1>1
  <2> HIDE DEF Starts
  <2> QED
    BY <2>1, LeastThere
<1> DEFINE High == {b \in Long : b.startw = w}
           Ends == {b.starts : b \in High}
<1>3. PICK t \in Ends : \A o \in Ends : t <= o
  <2>1. Ends \subseteq Nat /\ Ends # {}
    BY <1>2
  <2> HIDE DEF Ends
  <2> QED
    BY <2>1, LeastThere
<1>4. PICK b \in B : b.bsize = s /\ b.startw = w /\ b.starts = t
  BY <1>3
<1>5. \A o \in B :
        \/ b.bsize > o.bsize
        \/ b.bsize = o.bsize /\ b.startw < o.startw
        \/ b.bsize = o.bsize /\ b.startw = o.startw /\ b.starts <= o.starts
  <2> TAKE o \in B
  <2>1. o.bsize \in Nat /\ o.startw \in Nat /\ s \in Nat /\ w \in Nat
    BY <1>4
  <2>2. o.bsize <= s
    BY <1>1
  <2>3. o.bsize = s => w <= o.startw
    BY <1>2
  <2>4. o.bsize = s /\ o.startw = w => t <= o.starts
    BY <1>3
  <2>5. PICK p, q : p = o.bsize /\ q = o.startw
    OBVIOUS
  <2>6. s > p \/ (s = p /\ w < q) \/ (s = p /\ w = q /\ t <= o.starts)
    BY ONLY <2>1, <2>2, <2>3, <2>4, <2>5
  <2> QED
    BY ONLY <1>4, <2>5, <2>6, Zenon
<1> QED
  BY <1>5, Zenon DEF Best

\* The rotation of the line pointers is the scroll of the region.
LEMMA RotationIs ==
  ASSUME TypeOK, NEW c \in Screen, NEW top \in Rows, NEW bot \in Rows, top <= bot,
         NEW n \in Int, n <= bot - top, 0 - n <= bot - top
  PROVE  Rotation(c, top, bot, n) = Scrolled(c, top, bot, n)
<1>0. L \in Nat \ {0} /\ Rows = 0 .. L - 1 /\ top \in Nat /\ bot \in Nat
  BY Sizes DEF Rows
<1>1. ASSUME NEW y \in Rows
      PROVE  /\ y \in Uncovered(top, bot, n) <=> y \in top .. bot /\ y - n \notin top .. bot
             /\ y \in top .. bot /\ y - n \in top .. bot => Rotated(c, top, bot, n)[y] = c[y - n]
             /\ y \notin top .. bot => Rotated(c, top, bot, n)[y] = c[y]
  <2>1. y \in Uncovered(top, bot, n) <=> y \in top .. bot /\ y - n \notin top .. bot
    BY <1>0 DEF Uncovered
  <2>2. ASSUME y \in top .. bot, y - n \in top .. bot
        PROVE  ((y - n - top) % (bot - top + 1)) + top = y - n
    <3>1. PICK k, m \in Nat : k = y - n - top /\ m = bot - top + 1 /\ k < m
      BY <1>0, <2>2
    <3>2. k % m = k
      BY <3>1
    <3>3. (y - n - top) % (bot - top + 1) = k
      BY ONLY <3>1, <3>2
    <3> QED
      BY ONLY <1>0, <3>1, <3>3, n \in Int, y \in Rows
  <2>3. y \in top .. bot /\ y - n \in top .. bot => Rotated(c, top, bot, n)[y] = c[y - n]
    BY <2>2 DEF Rotated
  <2>4. y \notin top .. bot => Rotated(c, top, bot, n)[y] = c[y]
    BY DEF Rotated
  <2> QED
    BY <2>1, <2>3, <2>4
<1>2. \A y \in Rows : (IF y \in Uncovered(top, bot, n) THEN BlankLine ELSE Rotated(c, top, bot, n)[y])
                     = IF y \notin top .. bot THEN c[y]
                       ELSE IF y - n \in top .. bot THEN c[y - n] ELSE BlankLine
  BY <1>1
<1> QED
  BY <1>2, Zenon DEF Rotation, Scrolled

LEMMA ScrolledIn ==
  ASSUME TypeOK, NEW c \in Screen, NEW top \in Rows, NEW bot \in Rows, NEW n \in Int
  PROVE  Scrolled(c, top, bot, n) \in Screen
<1>0. /\ L \in Nat \ {0} /\ Rows = 0 .. L - 1 /\ top \in Nat /\ bot \in Nat
      /\ BlankLine \in [Cols -> Cell]
  BY Sizes DEF Rows
<1>1. \A y \in Rows : y - n \in top .. bot => y - n \in Rows
  BY <1>0
<1> QED
  BY <1>0, <1>1 DEF Scrolled, Screen

\* quickch leaves the terminal as curscr is, and calls a line clean only if
\* nothing is to be drawn there.
LEMMA QuickchIs ==
  ASSUME TypeOK, NEW dirty, NEW q, q = Quickch(virt, cur, term, dirty)
  PROVE  /\ q.cur \in Screen /\ q.term \in Screen
         /\ q.clean \subseteq Rows /\ q.touched \subseteq Rows
         /\ term = cur => q.term = q.cur
         /\ \A y \in Rows : y \in q.clean =>
              virt[y] = q.cur[y] \/ (~dirty[y] /\ q.cur[y] = cur[y])
         /\ \A y \in Rows : y \notin q.clean /\ y \notin q.touched => q.cur[y] = cur[y]
<1>0. L \in Nat \ {0} /\ Rows = 0 .. L - 1 /\ cur \in Screen /\ term \in Screen
  BY Sizes DEF Rows, TypeOK
<1>1. PICK top0 : /\ top0 = Top(virt, cur, dirty) /\ top0 \in 0 .. L
                  /\ \A y \in 0 .. top0 - 1 : ~dirty[y] \/ virt[y] = cur[y]
  BY TopIs
<1>2. PICK bot : /\ bot = Bot(virt, cur, dirty) /\ bot \in -1 .. L - 1
                 /\ \A y \in bot + 1 .. L - 1 : ~dirty[y] \/ virt[y] = cur[y]
  BY BotIs
<1>3. PICK top : /\ top = AfterColour(virt, top0, bot)
                 /\ top = top0 \/ (top = top0 + 1 /\ top < bot)
  BY DEF AfterColour
<1>4. PICK same : same = Rows \ (top0 .. bot)
  OBVIOUS
<1>5. \A y \in Rows : y \in same => ~dirty[y] \/ virt[y] = cur[y]
  <2> TAKE y \in Rows
  <2> HAVE y \in same
  <2>1. y \in 0 .. top0 - 1 \/ y \in bot + 1 .. L - 1
    BY <1>0, <1>1, <1>2, <1>4
  <2> QED
    BY <1>1, <1>2, <2>1
<1>6. PICK found : found = Blocks(virt, cur, top, bot)
  OBVIOUS
<1>7. CASE found = {}
  <2>1. q = [cur |-> cur, term |-> term, clean |-> same, touched |-> {}]
    BY <1>1, <1>2, <1>3, <1>4, <1>6, <1>7, Zenon DEF Quickch
  <2>2. q.cur = cur /\ q.term = term /\ q.clean = same /\ q.touched = {}
    BY ONLY <2>1
  <2>3. \A y \in Rows : y \in same => virt[y] = cur[y] \/ (~dirty[y] /\ cur[y] = cur[y])
    BY <1>5
  <2> QED
    BY <1>0, <1>4, <2>2, <2>3
<1>8. CASE found # {}
  <2>1. PICK b \in found : b = Best(found)
    <3>1. Thresh \in Nat
      BY <1>0 DEF Thresh
    <3>2. found \subseteq [bsize : 0 .. L, startw : Nat, starts : Nat]
      BY <1>0, <1>1, <1>2, <1>3, <1>6, <3>1 DEF Blocks
    <3> QED
      BY <1>0, <1>8, <3>2, BestIn
  <2>2. /\ b.bsize \in Thresh .. bot - top /\ b.startw \in top .. bot /\ b.starts \in top .. bot
        /\ b.startw <= bot - b.bsize /\ b.starts <= bot - b.bsize
        /\ \A i \in 0 .. b.bsize - 1 : virt[b.startw + i] = cur[b.starts + i]
    BY <1>6, <2>1 DEF Blocks
  <2>3. PICK w, t, z \in Nat : w = b.startw /\ t = b.starts /\ z = b.bsize
    <3>1. Thresh \in Nat
      BY <1>0 DEF Thresh
    <3> QED
      BY <1>0, <1>1, <1>2, <1>3, <2>2, <3>1
  <2>4. /\ top \in Rows /\ bot \in Rows /\ top <= bot /\ top0 <= top
        /\ w \in top .. bot /\ t \in top .. bot /\ w <= bot - z /\ t <= bot - z
    BY <1>0, <1>1, <1>2, <1>3, <2>2, <2>3
  <2>5. PICK n \in Int : n = w - t
    OBVIOUS
  <2>6. n <= bot - top /\ 0 - n <= bot - top
    BY <1>0, <2>4, <2>5
  <2>7. PICK block : block = w .. w + z - 1
    OBVIOUS
  <2>8. q = [cur     |-> Rotation(cur, top, bot, n),
             term    |-> Scrolled(term, top, bot, n),
             clean   |-> same \cup block,
             touched |-> Touched(top, bot, block)]
    BY <1>1, <1>2, <1>3, <1>4, <1>6, <1>8, <2>1, <2>3, <2>5, <2>7, Zenon DEF Quickch
  <2>9. /\ q.cur = Scrolled(cur, top, bot, n) /\ q.term = Scrolled(term, top, bot, n)
        /\ q.clean = same \cup block /\ q.touched = (top .. bot) \ block
    <3>1. Rotation(cur, top, bot, n) = Scrolled(cur, top, bot, n)
      BY <1>0, <2>4, <2>6, RotationIs
    <3> QED
      BY ONLY <2>8, <3>1 DEF Touched
  <2>10. q.cur \in Screen /\ q.term \in Screen
    BY <1>0, <2>4, <2>9, ScrolledIn
  <2>11. block \subseteq top .. bot /\ top .. bot \subseteq Rows
    BY <1>0, <2>4, <2>7
  <2>12. ASSUME NEW y \in Rows, y \in block PROVE virt[y] = q.cur[y]
    <3>1. PICK i \in 0 .. z - 1 : y = w + i
      <4>1. y - w \in 0 .. z - 1 /\ y = w + (y - w)
        BY <1>0, <2>7, <2>12
      <4> QED
        BY <4>1
    <3>2. virt[y] = cur[t + i]
      BY <2>2, <2>3, <3>1
    <3>3. y - n = t + i
      BY <2>5, <3>1
    <3>4. y \in top .. bot /\ t + i \in top .. bot
      BY <1>0, <2>4, <2>11, <2>12
    <3>5. q.cur[y] = cur[y - n]
      BY <2>9, <3>3, <3>4 DEF Scrolled
    <3> QED
      BY <3>2, <3>3, <3>5
  <2>13. ASSUME NEW y \in Rows, y \notin top .. bot PROVE q.cur[y] = cur[y]
    BY <2>9, <2>13 DEF Scrolled
  <2>14. \A y \in Rows : y \in same => y \notin top .. bot
    BY <1>0, <1>1, <1>4, <2>4
  <2>15. \A y \in Rows : y \in q.clean => virt[y] = q.cur[y] \/ (~dirty[y] /\ q.cur[y] = cur[y])
    BY <1>5, <2>9, <2>12, <2>13, <2>14
  <2>16. \A y \in Rows : y \notin q.clean /\ y \notin q.touched => q.cur[y] = cur[y]
    BY <2>9, <2>13
  <2>17. q.clean \subseteq Rows /\ q.touched \subseteq Rows
    BY <1>4, <2>9, <2>11
  <2>18. term = cur => q.term = q.cur
    BY <2>9
  <2> QED
    BY ONLY <2>10, <2>15, <2>16, <2>17, <2>18
<1> QED
  BY <1>7, <1>8

-----------------------------------------------------------------------------
(* Types *)

\* The type invariant in the next state, of what is in it.
LEMMA TypeIs ==
  ASSUME tty' = tty, tty \in Setups,
         virt' \in Screen, cur' \in Screen, term' \in Screen,
         line' \in [Rows -> LineRecord],
         vpos' \in Rows \X Cols, cpos' \in Rows \X Cols, at' \in Rows \X Cols,
         tpos' \in Rows \X (0 .. W),
         pc' \in {"idle", "quick", "line", "scan", "put", "done", "crashed"},
         wy' \in 0 .. L, wx' \in 0 .. W, lch' \in Cols, fsp' \in 0 .. W,
         {ce, curwin, cleared, vclear}' \subseteq BOOLEAN,
         changed' \in 0 .. CheckInterval, changed' < CheckInterval, writes' \in 0 .. MaxWrites,
         pc' \in {"quick", "scan", "put", "done"} => wy' < L
  PROVE  TypeInv'
  BY Same DEF TypeInv, TypeOK

\* A motion ends on the screen.
LEMMA MovesIn ==
  ASSUME TypeOK, NEW n \in Rows \X Cols, NEW m \in Moves(term, tpos, at, n)
  PROVE  m.cell \in Screen /\ m.pos \in Rows \X (0 .. W)
<1>1. m \in {[cell |-> term, pos |-> tpos], [cell |-> term, pos |-> n], LocalMove(term, tpos, at, n)}
  BY DEF Moves
<1>2. n \in Rows \X (0 .. W)
  BY Sizes DEF Cols
<1>3. /\ LocalMove(term, tpos, at, n).cell \in Screen
      /\ LocalMove(term, tpos, at, n).pos \in Rows \X (0 .. W)
  BY LocalMoveIn DEF TypeOK
<1> QED
  BY <1>1, <1>2, <1>3 DEF TypeOK

\* The change records that the operations write.
LEMMA RecordsIn ==
  ASSUME TypeOK
  PROVE  /\ \A y \in Rows : line[y] \in LineRecord /\ AllDirty(line[y]) \in LineRecord
         /\ Clean \in LineRecord
         /\ \A o, n : PastCleared(o, n) \in [Rows -> LineRecord]
         /\ \A y \in Rows : Synced(y) \in [Rows -> LineRecord] /\ Reset(y) \in [Rows -> LineRecord]
<1>0. W \in Nat \ {0} /\ line \in [Rows -> LineRecord]
  BY Sizes DEF TypeOK
<1>a. 0 \in 0 .. W /\ W \in 0 .. W /\ W - 1 \in 0 .. W
  BY <1>0
<1>b. ASSUME NEW r \in LineRecord, NEW f \in 0 .. W, NEW l \in 0 .. W
      PROVE  /\ [r EXCEPT !.dirty = TRUE, !.first = f, !.last = l] \in LineRecord
             /\ [r EXCEPT !.first = f, !.last = l] \in LineRecord
  BY DEF LineRecord
<1>1. \A y \in Rows : line[y] \in LineRecord /\ AllDirty(line[y]) \in LineRecord
  BY <1>0, <1>a, <1>b DEF AllDirty
<1>2. Clean \in LineRecord
  BY <1>0 DEF Clean, LineRecord
<1>3. ASSUME NEW o, NEW n
      PROVE  PastCleared(o, n) \in [Rows -> LineRecord]
  <2>1. \A y \in Rows : [line[y] EXCEPT !.past = FALSE] \in LineRecord
    BY <1>0 DEF LineRecord
  <2> QED
    BY <1>0, <2>1 DEF PastCleared
<1>4. ASSUME NEW y \in Rows
      PROVE  Synced(y) \in [Rows -> LineRecord] /\ Reset(y) \in [Rows -> LineRecord]
  <2>1. [line[y] EXCEPT !.first = W, !.last = 0] \in LineRecord
    BY <1>0, <1>a, <1>b
  <2>2. Synced(y) = [line EXCEPT ![y] = [line[y] EXCEPT !.first = W, !.last = 0]]
    BY <1>0 DEF Synced
  <2>3. [Clean EXCEPT !.past = line[y].past] \in LineRecord
    BY <1>0, <1>2 DEF LineRecord
  <2> QED
    BY <1>0, <2>1, <2>2, <2>3 DEF Reset
<1> QED
  BY <1>1, <1>2, <1>3, <1>4

\* What the program does leaves curscr, the terminal and the place in doupdate alone.
LEMMA ProgramIs ==
  ASSUME Program
  PROVE  /\ Change
         /\ vclear => vclear'
         /\ vpos' = vpos \/ \E y \in Rows, x \in Cols : MoveCursor(y, x)
<1>1. ASSUME NEW y, NEW x, NEW c, NEW past, Put(y, x, c, past)
      PROVE  Change /\ vclear' = vclear /\ vpos' = vpos
  BY <1>1 DEF Put
<1>2. ASSUME NEW y, NEW x, MoveCursor(y, x)
      PROVE  Change /\ vclear' = vclear
  BY <1>2 DEF MoveCursor
<1>3. ASSUME NEW y, ForceLine(y)
      PROVE  Change /\ vclear' = vclear /\ vpos' = vpos
  BY <1>3 DEF ForceLine
<1>4. ASSUME ClearOk
      PROVE  Change /\ vclear' /\ vpos' = vpos
  BY <1>4 DEF ClearOk
<1>5. CASE \E y \in Rows, x \in Cols : \E c \in [ch : Glyphs, colour : tty.colours], past \in BOOLEAN :
             Put(y, x, c, past)
  BY <1>1, <1>5, Zenon
<1>6. CASE \E y \in Rows, x \in Cols : MoveCursor(y, x)
  BY <1>2, <1>6, Zenon
<1>7. CASE \E y \in Rows : ForceLine(y)
  BY <1>3, <1>7, Zenon
<1>8. CASE ClearOk
  BY <1>4, <1>8, Zenon
<1> QED
  BY <1>5, <1>6, <1>7, <1>8, Zenon DEF Program

\* The steps keep the types, whichever they are.
LEMMA ProgramType ==
  ASSUME TypeInv, Program
  PROVE  TypeInv'
<1>0. TypeOK /\ changed < CheckInterval /\ W \in Nat \ {0} /\ Cols = 0 .. W - 1
  BY Sizes DEF TypeInv, Cols
<1>a. \/ \E y \in Rows, x \in Cols : \E c \in [ch : Glyphs, colour : tty.colours], past \in BOOLEAN :
           Put(y, x, c, past)
      \/ \E y \in Rows, x \in Cols : MoveCursor(y, x)
      \/ \E y \in Rows : ForceLine(y)
      \/ ClearOk
  BY Zenon DEF Program
<1>b. pc = "idle" /\ pc' = "idle"
  BY ProgramIs DEF Change, loop
<1>1. /\ tty' = tty /\ tty \in Setups /\ cur' \in Screen /\ cpos' \in Rows \X Cols
      /\ term' \in Screen /\ tpos' \in Rows \X (0 .. W) /\ at' \in Rows \X Cols
      /\ writes' \in 0 .. MaxWrites /\ UNCHANGED loop
  <2>1. pc = "idle" /\ writes < MaxWrites /\ writes' = writes + 1
        /\ UNCHANGED <<tty, cur, cpos, term, tpos, at, loop>>
    BY ProgramIs DEF Change, terminal
  <2> QED
    BY <1>0, <2>1, DoupdateAssumption DEF TypeOK
<1>2. virt' \in Screen /\ line' \in [Rows -> LineRecord] /\ vpos' \in Rows \X Cols /\ vclear' \in BOOLEAN
  <2>1. ASSUME NEW y \in Rows, NEW x \in Cols, NEW c \in [ch : Glyphs, colour : tty.colours],
               NEW past \in BOOLEAN, Put(y, x, c, past)
        PROVE  virt' \in Screen /\ line' \in [Rows -> LineRecord]
    <3>1. c \in Cell
      BY <1>0, Sizes DEF Setup, Cell
    <3>2. PICK f, l : /\ f = IF line[y].first > x THEN x ELSE line[y].first
                      /\ l = IF line[y].last < x THEN x ELSE line[y].last
      OBVIOUS
    <3>a. f \in 0 .. W /\ l \in 0 .. W
      <4>1. line[y].first \in 0 .. W /\ line[y].last \in 0 .. W /\ x \in 0 .. W
        BY <1>0, RecordsIn DEF LineRecord
      <4> QED
        BY ONLY <3>2, <4>1
    <3>3. [line[y] EXCEPT !.dirty = TRUE, !.past = past, !.first = f, !.last = l] \in LineRecord
      <4>1. line[y] \in LineRecord
        BY <1>0, RecordsIn
      <4> QED
        BY <3>a, <4>1 DEF LineRecord
    <3>4. line' = [line EXCEPT ![y] = [line[y] EXCEPT !.dirty = TRUE, !.past = past, !.first = f, !.last = l]]
      BY <1>0, <2>1, <3>2 DEF Put, TypeOK
    <3>5. virt' = [virt EXCEPT ![y][x] = c]
      BY <2>1 DEF Put
    <3>6. virt' \in Screen
      BY <1>0, <3>1, <3>5 DEF TypeOK, Screen
    <3> QED
      BY <1>0, <3>3, <3>4, <3>6 DEF TypeOK
  <2>2. ASSUME NEW y \in Rows, ForceLine(y)
        PROVE  line' \in [Rows -> LineRecord]
    <3>1. PICK r \in LineRecord : r = AllDirty(line[y])
      BY <1>0, RecordsIn
    <3>a. [r EXCEPT !.forced = TRUE] \in LineRecord
      BY DEF LineRecord
    <3>2. line' = [line EXCEPT ![y] = [r EXCEPT !.forced = TRUE]]
      BY <1>0, <2>2, <3>1 DEF ForceLine, TypeOK
    <3> QED
      BY <1>0, <3>a, <3>2 DEF TypeOK
  <2>3. CASE \E y \in Rows, x \in Cols : \E c \in [ch : Glyphs, colour : tty.colours], past \in BOOLEAN :
               Put(y, x, c, past)
    <3>1. UNCHANGED <<vpos, vclear>>
      BY <2>3 DEF Put
    <3> QED
      BY <1>0, <2>1, <2>3, <3>1 DEF TypeOK
  <2>4. CASE \E y \in Rows, x \in Cols : MoveCursor(y, x)
    <3>1. UNCHANGED <<virt, line, vclear>> /\ vpos' \in Rows \X Cols
      BY <2>4 DEF MoveCursor
    <3> QED
      BY <1>0, <3>1 DEF TypeOK
  <2>5. CASE \E y \in Rows : ForceLine(y)
    <3>1. UNCHANGED <<virt, vpos, vclear>>
      BY <2>5 DEF ForceLine
    <3> QED
      BY <1>0, <2>2, <2>5, <3>1 DEF TypeOK
  <2>6. CASE ClearOk
    BY <1>0, <2>6 DEF ClearOk, TypeOK
  <2> QED
    BY <1>a, <2>3, <2>4, <2>5, <2>6
<1>3. /\ pc' \in {"idle", "quick", "line", "scan", "put", "done", "crashed"}
      /\ wy' \in 0 .. L /\ wx' \in 0 .. W /\ lch' \in Cols /\ fsp' \in 0 .. W
      /\ {ce, curwin, cleared}' \subseteq BOOLEAN
      /\ changed' \in 0 .. CheckInterval /\ changed' < CheckInterval
  BY <1>0, <1>1 DEF loop, TypeOK
<1>4. pc' \in {"quick", "scan", "put", "done"} => wy' < L
  BY <1>b
<1> QED
  BY <1>1, <1>2, <1>3, <1>4, TypeIs

\* Behind its last ink a row is blank, in the colour to clear to.
LEMMA LastInkIn ==
  ASSUME TypeOK, NEW row, NEW colour
  PROVE  /\ LastInk(row, colour) \in -1 .. W - 1
         /\ \A x \in Cols : x > LastInk(row, colour) => row[x] = [ch |-> Space, colour |-> colour]
<1>0. W \in Nat \ {0} /\ Cols = 0 .. W - 1
  BY Sizes DEF Cols
<1>1. PICK ink : ink = {x \in Cols : row[x] # [ch |-> Space, colour |-> colour]}
  OBVIOUS
<1>2. LastInk(row, colour) = IF ink = {} THEN -1 ELSE CHOOSE x \in ink : \A o \in ink : o <= x
  BY <1>1 DEF LastInk
<1>3. CASE ink = {}
  <2>1. LastInk(row, colour) = -1
    BY <1>2, <1>3
  <2>2. -1 \in -1 .. W - 1
    BY <1>0
  <2>3. \A x \in Cols : row[x] = [ch |-> Space, colour |-> colour]
    BY <1>1, <1>3
  <2> QED
    BY <2>1, <2>2, <2>3
<1>4. CASE ink # {}
  <2>1. ink \subseteq 0 .. W - 1 /\ W - 1 \in Nat
    BY <1>0, <1>1
  <2>2. \E x \in ink : \A o \in ink : o <= x
    BY <1>4, <2>1, GreatestThere
  <2>3. PICK k : k = LastInk(row, colour)
    OBVIOUS
  <2>4. k \in ink /\ \A o \in ink : o <= k
    <3>1. k = CHOOSE x \in ink : \A o \in ink : o <= x
      BY <1>2, <1>4, <2>3
    <3> QED
      BY ONLY <2>2, <3>1
  <2>5. k \in 0 .. W - 1
    BY <2>1, <2>4
  <2>6. ASSUME NEW x \in 0 .. W - 1, x > k
        PROVE  x \notin ink
    <3>1. ~(x <= k)
      BY <2>5, <2>6
    <3> QED
      BY <2>4, <3>1
  <2>7. \A x \in Cols : x \notin ink => row[x] = [ch |-> Space, colour |-> colour]
    BY <1>1
  <2>8. \A x \in Cols : x > k => row[x] = [ch |-> Space, colour |-> colour]
    BY <1>0, <2>6, <2>7
  <2>9. k \in -1 .. W - 1
    BY <1>0, <2>5
  <2> QED
    BY ONLY <2>3, <2>8, <2>9
<1> QED
  BY <1>3, <1>4

LEMMA BeginType ==
  ASSUME TypeInv, NEW redraw \in BOOLEAN, Begin(redraw)
  PROVE  TypeInv'
<1>0. /\ TypeOK /\ W \in Nat \ {0} /\ L \in Nat \ {0} /\ Cols = 0 .. W - 1 /\ Blank \in Cell
      /\ 0 \in Rows /\ 0 \in Cols
  BY Sizes DEF TypeInv, Cols
<1>1. Filled(Blank) \in Screen
  BY <1>0, FilledIn
<1>2. [y \in Rows |-> AllDirty(line[y])] \in [Rows -> LineRecord]
  BY <1>0, RecordsIn
<1>3. /\ cur' \in Screen /\ term' \in Screen /\ line' \in [Rows -> LineRecord]
      /\ cpos' \in Rows \X Cols /\ at' \in Rows \X Cols /\ tpos' \in Rows \X (0 .. W)
      /\ cleared' \in BOOLEAN
  BY <1>0, <1>1, <1>2 DEF Begin, TypeOK
<1>4. /\ tty' = tty /\ tty \in Setups /\ virt' \in Screen /\ vpos' \in Rows \X Cols
      /\ pc' \in {"idle", "quick", "line", "scan", "put", "done", "crashed"}
      /\ wy' \in 0 .. L /\ wx' \in 0 .. W /\ lch' \in Cols /\ fsp' \in 0 .. W
      /\ {ce, curwin, vclear}' \subseteq BOOLEAN
      /\ changed' \in 0 .. CheckInterval /\ changed' < CheckInterval /\ writes' \in 0 .. MaxWrites
  BY <1>0, DoupdateAssumption DEF Begin, TypeOK
<1>5. pc' \in {"quick", "scan", "put", "done"} => wy' < L
  BY <1>0, Same DEF Begin
<1> QED
  BY <1>3, <1>4, <1>5, TypeIs

LEMMA QuickType ==
  ASSUME TypeInv, QuickChange
  PROVE  TypeInv'
<1>0. TypeOK /\ changed < CheckInterval
  BY DEF TypeInv
<1>1. PICK dirty : dirty = [y \in Rows |-> line[y].dirty]
  OBVIOUS
<1>2. PICK q : q = Quickch(virt, cur, term, dirty)
  OBVIOUS
<1>3. q.cur \in Screen /\ q.term \in Screen
  BY <1>0, <1>2, QuickchIs
<1>4. ASSUME NEW y \in Rows
      PROVE  (IF y \in q.clean THEN [line[y] EXCEPT !.dirty = FALSE]
              ELSE IF y \in q.touched THEN AllDirty(line[y]) ELSE line[y]) \in LineRecord
  <2>1. PICK r \in LineRecord : r = line[y]
    BY <1>0, RecordsIn
  <2>2. [r EXCEPT !.dirty = FALSE] \in LineRecord
    BY DEF LineRecord
  <2>3. AllDirty(r) \in LineRecord
    BY <1>0, <2>1, RecordsIn
  <2> QED
    BY <2>1, <2>2, <2>3
<1>5. cur' \in Screen /\ term' \in Screen /\ line' \in [Rows -> LineRecord]
  BY <1>0, <1>1, <1>2, <1>3, <1>4 DEF QuickChange, TypeOK
<1>6. /\ tty' = tty /\ tty \in Setups /\ virt' \in Screen /\ vpos' \in Rows \X Cols
      /\ pc' \in {"idle", "quick", "line", "scan", "put", "done", "crashed"}
      /\ cpos' \in Rows \X Cols /\ at' \in Rows \X Cols /\ tpos' \in Rows \X (0 .. W)
      /\ wy' \in 0 .. L /\ wx' \in 0 .. W /\ lch' \in Cols /\ fsp' \in 0 .. W
      /\ {ce, curwin, cleared, vclear}' \subseteq BOOLEAN
      /\ changed' \in 0 .. CheckInterval /\ changed' < CheckInterval /\ writes' \in 0 .. MaxWrites
  BY <1>0 DEF QuickChange, TypeOK
<1>7. pc' \in {"quick", "scan", "put", "done"} => wy' < L
  BY DEF QuickChange
<1> QED
  BY <1>5, <1>6, <1>7, TypeIs

\* The loops.
LEMMA LoopType ==
  ASSUME TypeInv, SkipLine \/ StartLine \/ SkipCell \/ KeepRest \/ LineDone
  PROVE  TypeInv'
<1>0. /\ TypeOK /\ changed < CheckInterval /\ W \in Nat \ {0} /\ L \in Nat \ {0}
      /\ Cols = 0 .. W - 1 /\ Rows = 0 .. L - 1
  BY Sizes DEF TypeInv, Cols, Rows
<1>1. /\ tty' = tty /\ tty \in Setups /\ virt' \in Screen /\ cur' \in Screen /\ term' \in Screen
      /\ vpos' \in Rows \X Cols /\ cpos' \in Rows \X Cols /\ at' \in Rows \X Cols
      /\ tpos' \in Rows \X (0 .. W) /\ {curwin, cleared, vclear}' \subseteq BOOLEAN
      /\ writes' \in 0 .. MaxWrites
  BY <1>0 DEF SkipLine, StartLine, SkipCell, KeepRest, LineDone, TypeOK, window, terminal
<1>w. L' = L
  BY <1>1, Same
<1>2. wy \in Rows
  <2>1. pc \in {"scan", "put", "done"} \/ wy < L
    BY DEF SkipLine, StartLine, SkipCell, KeepRest, LineDone
  <2>2. wy < L
    BY <2>1 DEF TypeInv
  <2> QED
    BY <1>0, <2>2 DEF TypeOK
<1>3. Synced(wy) \in [Rows -> LineRecord] /\ Reset(wy) \in [Rows -> LineRecord]
  BY <1>0, <1>2, RecordsIn
<1>4. wy + 1 \in 0 .. L
  BY <1>0, <1>2
<1>5. line' \in [Rows -> LineRecord] /\ wy' \in 0 .. L
  <2>1. line' \in {line, Synced(wy), Reset(wy)} /\ wy' \in {wy, wy + 1}
    BY DEF SkipLine, StartLine, SkipCell, KeepRest, LineDone, window
  <2> QED
    BY <1>0, <1>3, <1>4, <2>1 DEF TypeOK
<1>6. wx' \in 0 .. W /\ lch' \in Cols /\ fsp' \in 0 .. W
  <2>1. CASE StartLine
    <3>1. PICK f, l : f = line[wy].first /\ l = line[wy].last /\ f \in 0 .. W /\ l \in 0 .. W
      BY <1>0, <1>2 DEF TypeOK, LineRecord
    <3>2. wx' = (IF curwin THEN 0 ELSE f) /\ fsp' = wx'
      BY <2>1, <3>1 DEF StartLine, First
    <3>3. lch' = IF curwin \/ l > W - 1 THEN W - 1 ELSE l
      BY <2>1, <3>1 DEF StartLine, Last
    <3> QED
      BY ONLY <1>0, <3>1, <3>2, <3>3
  <2>2. CASE SkipCell
    <3>1. wx + 1 \in 0 .. W
      BY <1>0, <2>2 DEF SkipCell, TypeOK
    <3> QED
      BY <1>0, <2>2, <3>1 DEF SkipCell, TypeOK
  <2>3. CASE SkipLine \/ KeepRest \/ LineDone
    BY <1>0, <2>3 DEF SkipLine, KeepRest, LineDone, TypeOK
  <2> QED
    BY <2>1, <2>2, <2>3
<1>7. pc' \in {"idle", "quick", "line", "scan", "put", "done", "crashed"} /\ ce' \in BOOLEAN
  BY <1>0 DEF SkipLine, StartLine, SkipCell, KeepRest, LineDone, TypeOK
<1>8. changed' \in 0 .. CheckInterval /\ changed' < CheckInterval
  <2>1. CheckInterval \in Nat \ {0} /\ changed \in Nat
    BY <1>0, DoupdateAssumption DEF TypeOK
  <2>2. CASE LineDone
    <3>1. changed' = IF (TypeAhead /\ changed + 1 = CheckInterval) \/ ~TypeAhead THEN 0 ELSE changed + 1
      BY <2>2, Zenon DEF LineDone
    <3>2. TypeAhead \in BOOLEAN
      BY DoupdateAssumption
    <3>3. changed' = 0 \/ (changed' = changed + 1 /\ changed + 1 # CheckInterval)
      BY <3>1, <3>2
    <3> QED
      BY ONLY <1>0, <2>1, <3>3
  <2>3. CASE SkipLine \/ StartLine \/ SkipCell \/ KeepRest
    <3>1. changed' = changed
      BY <2>3 DEF SkipLine, StartLine, SkipCell, KeepRest
    <3> QED
      BY <1>0, <3>1 DEF TypeOK
  <2> QED
    BY <2>2, <2>3
<1>9. pc' \in {"quick", "scan", "put", "done"} => wy' < L
  <2>1. CASE SkipLine \/ LineDone
    BY <2>1 DEF SkipLine, LineDone
  <2>2. CASE StartLine \/ SkipCell \/ KeepRest
    BY <1>0, <1>2, <2>2 DEF StartLine, SkipCell, KeepRest
  <2> QED
    BY <2>1, <2>2
<1> QED
  BY <1>1, <1>5, <1>6, <1>7, <1>8, <1>9, TypeIs

LEMMA DifferIn ==
  ASSUME TypeInv, Differs, pc \in {"scan", "put"}
  PROVE  wy \in Rows /\ wx \in Cols /\ wx <= lch /\ Source[wy][wx] \in Cell /\ virt[wy][wx] \in Cell
<1>0. TypeOK /\ W \in Nat \ {0} /\ L \in Nat \ {0} /\ Cols = 0 .. W - 1 /\ Rows = 0 .. L - 1
  BY Sizes DEF TypeInv, Cols, Rows
<1>1. wy \in Rows
  <2>1. wy < L /\ wy \in 0 .. L
    BY DEF TypeInv, TypeOK
  <2> QED
    BY <1>0, <2>1
<1>2. wx <= lch /\ wx \in Cols
  <2>1. wx <= lch /\ wx \in 0 .. W /\ lch \in Cols
    BY DEF Differs, TypeInv, TypeOK
  <2> QED
    BY <1>0, <2>1
<1>3. virt[wy][wx] \in Cell /\ cur[wy][wx] \in Cell
  <2>1. virt \in [Rows -> [Cols -> Cell]] /\ cur \in [Rows -> [Cols -> Cell]]
    BY <1>0 DEF TypeOK, Screen
  <2> QED
    BY ONLY <1>1, <1>2, <2>1
<1> QED
  BY <1>1, <1>2, <1>3 DEF Source

LEMMA GoToType ==
  ASSUME TypeInv, GoTo
  PROVE  TypeInv'
<1>0. TypeOK /\ changed < CheckInterval /\ wy \in Rows /\ wx \in Cols
  BY DifferIn DEF TypeInv, GoTo
<1>1. PICK m \in Moves(term, tpos, at, <<wy, wx>>) : term' = m.cell /\ tpos' = m.pos
  BY DEF GoTo
<1>2. term' \in Screen /\ tpos' \in Rows \X (0 .. W)
  BY <1>0, <1>1, MovesIn
<1>3. line' \in [Rows -> LineRecord]
  BY <1>0, RecordsIn DEF GoTo
<1>4. /\ tty' = tty /\ tty \in Setups /\ virt' \in Screen /\ vpos' \in Rows \X Cols
      /\ cur' \in Screen /\ cpos' \in Rows \X Cols /\ at' \in Rows \X Cols
      /\ pc' \in {"idle", "quick", "line", "scan", "put", "done", "crashed"}
      /\ wy' \in 0 .. L /\ wx' \in 0 .. W /\ lch' \in Cols /\ fsp' \in 0 .. W
      /\ {ce, curwin, cleared, vclear}' \subseteq BOOLEAN
      /\ changed' \in 0 .. CheckInterval /\ changed' < CheckInterval /\ writes' \in 0 .. MaxWrites
  BY <1>0 DEF GoTo, TypeOK
<1>5. pc' \in {"quick", "scan", "put", "done"} => wy' < L
  BY DEF GoTo, TypeInv
<1> QED
  BY <1>2, <1>3, <1>4, <1>5, TypeIs

LEMMA ClearType ==
  ASSUME TypeInv, ClearRest
  PROVE  TypeInv'
<1>0. /\ TypeOK /\ changed < CheckInterval /\ wy \in Rows /\ wx \in Cols
      /\ W \in Nat \ {0} /\ Cols = 0 .. W - 1
  BY DifferIn, Sizes DEF TypeInv, ClearRest, Cols
<1>1. Lspc \in Colours /\ Space \in Glyphs /\ 0 \in Colours
  BY <1>0, DoupdateAssumption DEF Lspc, TypeOK, Screen, Cell
<1>2. PICK b, c \in Cell : b = [ch |-> Space, colour |-> Lspc]
                        /\ c = [ch |-> Space, colour |-> IF tty.bce THEN Lspc ELSE 0]
  <2>1. PICK d \in Colours : d = IF tty.bce THEN Lspc ELSE 0
    BY <1>1
  <2>2. [ch |-> Space, colour |-> Lspc] \in Cell /\ [ch |-> Space, colour |-> d] \in Cell
    BY <1>1 DEF Cell
  <2> QED
    BY <2>1, <2>2
<1>3. PICK to : to = Clsp
  OBVIOUS
<1>4. term' = [term EXCEPT ![tpos[1]] = [x \in Cols |-> IF x >= tpos[2] THEN c ELSE term[tpos[1]][x]]]
  BY <1>0, <1>2 DEF ClearRest, TypeOK, Screen
<1>5. cur' = [cur EXCEPT ![wy] = [x \in Cols |-> IF x \in wx .. to THEN b ELSE cur[wy][x]]]
  BY <1>0, <1>2, <1>3 DEF ClearRest, TypeOK, Screen
<1>6. term' \in Screen /\ cur' \in Screen
  BY <1>0, <1>4, <1>5 DEF TypeOK, Screen
<1>7. /\ tty' = tty /\ tty \in Setups /\ virt' \in Screen /\ vpos' \in Rows \X Cols
      /\ line' \in [Rows -> LineRecord] /\ tpos' \in Rows \X (0 .. W)
      /\ cpos' \in Rows \X Cols /\ at' \in Rows \X Cols
      /\ pc' \in {"idle", "quick", "line", "scan", "put", "done", "crashed"}
      /\ wy' \in 0 .. L /\ wx' \in 0 .. W /\ lch' \in Cols /\ fsp' \in 0 .. W
      /\ {ce, curwin, cleared, vclear}' \subseteq BOOLEAN
      /\ changed' \in 0 .. CheckInterval /\ changed' < CheckInterval /\ writes' \in 0 .. MaxWrites
  BY <1>0 DEF ClearRest, TypeOK, window
<1>8. pc' \in {"quick", "scan", "put", "done"} => wy' < L
  BY DEF ClearRest, TypeInv
<1> QED
  BY <1>6, <1>7, <1>8, TypeIs

LEMMA NotedIn ==
  ASSUME TypeInv, Differs, pc \in {"scan", "put"}
  PROVE  Noted(cur) \in Screen /\ [term EXCEPT ![wy][wx] = virt[wy][wx]] \in Screen
<1>0. TypeOK /\ wy \in Rows /\ wx \in Cols /\ virt[wy][wx] \in Cell
  BY DifferIn DEF TypeInv
<1> QED
  BY <1>0 DEF Noted, TypeOK, Screen

LEMMA PutType ==
  ASSUME TypeInv, PutCell
  PROVE  TypeInv'
<1>0. /\ TypeOK /\ changed < CheckInterval /\ wy \in Rows /\ wx \in Cols
      /\ Source[wy][wx] \in Cell /\ W \in Nat \ {0} /\ Cols = 0 .. W - 1 /\ Differs /\ pc = "put"
  BY DifferIn, Sizes DEF TypeInv, PutCell, Cols
<1>1. Noted(cur) \in Screen
  BY <1>0, NotedIn
<1>2. PICK p : p = Printed(term, tpos, Source[wy][wx])
  OBVIOUS
<1>3. p.cell \in Screen /\ p.pos \in Rows \X (0 .. W)
  BY <1>0, <1>2, PrintedIn DEF TypeOK
<1>4. term' \in Screen /\ tpos' \in Rows \X (0 .. W) /\ cur' \in Screen
  BY <1>0, <1>1, <1>2, <1>3 DEF PutCell, TypeOK, terminal
<1>5. wx' \in 0 .. W
  BY <1>0 DEF PutCell
<1>7. /\ tty' = tty /\ tty \in Setups /\ virt' \in Screen /\ vpos' \in Rows \X Cols
      /\ line' \in [Rows -> LineRecord]
      /\ cpos' \in Rows \X Cols /\ at' \in Rows \X Cols
      /\ pc' \in {"idle", "quick", "line", "scan", "put", "done", "crashed"}
      /\ wy' \in 0 .. L /\ lch' \in Cols /\ fsp' \in 0 .. W
      /\ {ce, curwin, cleared, vclear}' \subseteq BOOLEAN
      /\ changed' \in 0 .. CheckInterval /\ changed' < CheckInterval /\ writes' \in 0 .. MaxWrites
  BY <1>0 DEF PutCell, TypeOK, window
<1>8. pc' \in {"quick", "scan", "put", "done"} => wy' < L
  BY DEF PutCell, TypeInv
<1> QED
  BY <1>4, <1>5, <1>7, <1>8, TypeIs

LEMMA CornerType ==
  ASSUME TypeInv, PutCorner
  PROVE  TypeInv'
<1>0. /\ TypeOK /\ changed < CheckInterval /\ wy \in Rows /\ wx \in Cols
      /\ virt[wy][wx] \in Cell /\ W \in Nat \ {0} /\ Cols = 0 .. W - 1 /\ Differs /\ pc = "put"
      /\ L - 1 \in Rows /\ W - 1 \in Cols /\ Rows = 0 .. L - 1 /\ L \in Nat \ {0}
      /\ wx = W - 1 /\ wy = L - 1
  BY DifferIn, Sizes DEF TypeInv, PutCorner, Cols, Rows, IsCorner
<1>1. Noted(cur) \in Screen
  BY <1>0, NotedIn
<1>2. PICK p : p = Printed(term, tpos, virt[wy][wx])
  OBVIOUS
<1>3. p.cell \in Screen /\ p.pos \in Rows \X (0 .. W)
  BY <1>0, <1>2, PrintedIn DEF TypeOK
<1>4. InCorner(term) \in Screen
  <2>1. CASE ~tty.am \/ tty.toggle
    BY <1>0, <2>1 DEF InCorner, TypeOK, Screen
  <2>2. CASE ~(~tty.am \/ tty.toggle)
    <3>1. InCorner(term) = [term EXCEPT ![L - 1][W - 1] = virt[wy][wx], ![L - 1][W - 2] = virt[wy][W - 2]]
      BY <2>2 DEF InCorner
    <3>2. PICK s \in Screen : s = [term EXCEPT ![L - 1][W - 1] = virt[wy][wx]]
      BY <1>0 DEF TypeOK, Screen
    <3>3. CASE W = 1
      <4>1. W - 2 \notin Cols
        BY <1>0, <3>3
      <4>2. [s EXCEPT ![L - 1][W - 2] = virt[wy][W - 2]] = s
        BY <1>0, <4>1 DEF Screen
      <4>3. InCorner(term) = [s EXCEPT ![L - 1][W - 2] = virt[wy][W - 2]]
        BY <3>1, <3>2
      <4> QED
        BY <4>2, <4>3
    <3>4. CASE W # 1
      <4>1. W - 2 \in Cols
        BY <1>0, <3>4
      <4>2. virt[wy][W - 2] \in Cell
        BY <1>0, <4>1 DEF TypeOK, Screen
      <4>3. InCorner(term) = [s EXCEPT ![L - 1][W - 2] = virt[wy][W - 2]]
        BY <3>1, <3>2
      <4> QED
        BY <1>0, <4>1, <4>2, <4>3 DEF Screen
    <3> QED
      BY <3>3, <3>4
  <2> QED
    BY <2>1, <2>2
<1>5. term' \in Screen /\ tpos' \in Rows \X (0 .. W) /\ cur' \in Screen
  <2>1. <<L - 1, W - 1>> \in Rows \X (0 .. W)
    BY <1>0
  <2> QED
    BY <1>0, <1>1, <1>2, <1>3, <1>4, <2>1 DEF PutCorner, TypeOK, terminal
<1>7. /\ tty' = tty /\ tty \in Setups /\ virt' \in Screen /\ vpos' \in Rows \X Cols
      /\ line' \in [Rows -> LineRecord]
      /\ cpos' \in Rows \X Cols /\ at' \in Rows \X Cols
      /\ pc' \in {"idle", "quick", "line", "scan", "put", "done", "crashed"}
      /\ wy' \in 0 .. L /\ wx' \in 0 .. W /\ lch' \in Cols /\ fsp' \in 0 .. W
      /\ {ce, curwin, cleared, vclear}' \subseteq BOOLEAN
      /\ changed' \in 0 .. CheckInterval /\ changed' < CheckInterval /\ writes' \in 0 .. MaxWrites
  BY <1>0 DEF PutCorner, TypeOK, window
<1>8. pc' \in {"quick", "scan", "put", "done"} => wy' < L
  BY DEF PutCorner, TypeInv
<1> QED
  BY <1>5, <1>7, <1>8, TypeIs

LEMMA EndType ==
  ASSUME TypeInv, EndRun
  PROVE  TypeInv'
<1>0. /\ TypeOK /\ changed < CheckInterval /\ W \in Nat \ {0} /\ Cols = 0 .. W - 1 /\ pc = "put"
      /\ L - 1 \in Rows /\ W - 1 \in Cols /\ Rows = 0 .. L - 1 /\ L \in Nat \ {0}
  BY Sizes DEF TypeInv, EndRun, Cols, Rows
<1>1. Clamped(wx) \in Cols /\ at[1] \in Rows /\ at[2] \in Cols
  BY <1>0 DEF Clamped, TypeOK
<1>2. term' \in Screen
  BY <1>0 DEF EndRun, TypeOK, terminal
<1>3. tpos' \in Rows \X (0 .. W)
  <2>1. Limit(L - 2, L - 1) \in Rows
    BY <1>0 DEF Limit
  <2>2. W - 1 \in 0 .. W
    BY <1>0
  <2>3. \/ tpos' = tpos
        \/ tpos' = <<IF at[1] = L - 1 THEN Limit(L - 2, L - 1) ELSE at[1], W - 1>>
    BY DEF EndRun, terminal
  <2>4. tpos \in Rows \X (0 .. W)
    BY <1>0 DEF TypeOK
  <2> QED
    BY ONLY <1>1, <2>1, <2>2, <2>3, <2>4
<1>4. line' \in [Rows -> LineRecord]
  <2>1. line' = line \/ line' = PastCleared(<<at[1], W>>, at')
    BY Zenon DEF EndRun
  <2> QED
    BY <1>0, <2>1, RecordsIn DEF TypeOK
<1>7. /\ tty' = tty /\ tty \in Setups /\ virt' \in Screen /\ vpos' \in Rows \X Cols
      /\ cur' \in Screen /\ cpos' \in Rows \X Cols /\ at' \in Rows \X Cols
      /\ pc' \in {"idle", "quick", "line", "scan", "put", "done", "crashed"}
      /\ wy' \in 0 .. L /\ wx' \in 0 .. W /\ lch' \in Cols /\ fsp' \in 0 .. W
      /\ {ce, curwin, cleared, vclear}' \subseteq BOOLEAN
      /\ changed' \in 0 .. CheckInterval /\ changed' < CheckInterval /\ writes' \in 0 .. MaxWrites
  BY <1>0, <1>1 DEF EndRun, TypeOK
<1>8. pc' \in {"quick", "scan", "put", "done"} => wy' < L
  BY DEF EndRun, TypeInv
<1> QED
  BY <1>2, <1>3, <1>4, <1>7, <1>8, TypeIs

LEMMA FinishType ==
  ASSUME TypeInv, Finish
  PROVE  TypeInv'
<1>0. TypeOK /\ changed < CheckInterval
  BY DEF TypeInv
<1>1. PICK dest \in Rows \X Cols : dest = IF curwin THEN cpos ELSE vpos
  BY <1>0 DEF TypeOK
<1>2. \/ cpos' = at /\ UNCHANGED <<terminal, line>>
      \/ /\ \E m \in Moves(term, tpos, at, dest) : term' = m.cell /\ tpos' = m.pos
         /\ line' = PastCleared(at, dest)
         /\ cpos' = dest
  BY <1>1, Zenon DEF Finish
<1>3. /\ term' \in Screen /\ tpos' \in Rows \X (0 .. W) /\ line' \in [Rows -> LineRecord]
      /\ cpos' \in Rows \X Cols
  <2>1. CASE cpos' = at /\ UNCHANGED <<terminal, line>>
    BY <1>0, <2>1 DEF TypeOK, terminal
  <2>2. CASE /\ \E m \in Moves(term, tpos, at, dest) : term' = m.cell /\ tpos' = m.pos
             /\ line' = PastCleared(at, dest)
             /\ cpos' = dest
    <3>1. PICK m \in Moves(term, tpos, at, dest) : term' = m.cell /\ tpos' = m.pos
      BY <2>2
    <3> QED
      BY <1>0, <2>2, <3>1, MovesIn, RecordsIn
  <2> QED
    BY <1>2, <2>1, <2>2
<1>7. /\ tty' = tty /\ tty \in Setups /\ virt' \in Screen /\ vpos' \in Rows \X Cols
      /\ cur' \in Screen /\ at' \in Rows \X Cols
      /\ pc' \in {"idle", "quick", "line", "scan", "put", "done", "crashed"}
      /\ wy' \in 0 .. L /\ wx' \in 0 .. W /\ lch' \in Cols /\ fsp' \in 0 .. W
      /\ {ce, curwin, cleared, vclear}' \subseteq BOOLEAN
      /\ changed' \in 0 .. CheckInterval /\ changed' < CheckInterval /\ writes' \in 0 .. MaxWrites
  BY <1>0 DEF Finish, TypeOK
<1>8. pc' \in {"quick", "scan", "put", "done"} => wy' < L
  BY DEF Finish
<1> QED
  BY <1>3, <1>7, <1>8, TypeIs

LEMMA InitType ==
  ASSUME Init
  PROVE  TypeInv
<1>1. tty \in Setup
  BY DoupdateAssumption DEF Init
<1>2. L \in Nat \ {0} /\ W \in Nat \ {0} /\ Rows = 0 .. L - 1 /\ Cols = 0 .. W - 1
  BY <1>1 DEF Setup, L, W, Rows, Cols
<1>3. Blank \in Cell /\ [ch |-> Junk, colour |-> 0] \in Cell
  BY DoupdateAssumption DEF Cell
<1>4. \A c \in Cell : Filled(c) \in Screen
  BY DEF Filled, Screen
<1>5. Clean \in LineRecord
  BY <1>2 DEF Clean, LineRecord
<1>6. virt \in Screen /\ cur \in Screen /\ term \in Screen /\ line \in [Rows -> LineRecord]
  BY <1>3, <1>4, <1>5 DEF Init
<1>7. /\ vpos \in Rows \X Cols /\ cpos \in Rows \X Cols /\ at \in Rows \X Cols
      /\ tpos \in Rows \X (0 .. W)
  BY <1>2 DEF Init
<1>8. /\ wy \in 0 .. L /\ wx \in 0 .. W /\ lch \in Cols /\ fsp \in 0 .. W
      /\ changed \in 0 .. CheckInterval /\ changed < CheckInterval /\ writes \in 0 .. MaxWrites
  BY <1>2, DoupdateAssumption DEF Init
<1>9. {ce, curwin, cleared, vclear} \subseteq BOOLEAN
  BY DEF Init
<1> QED
  BY <1>6, <1>7, <1>8, <1>9 DEF Init, TypeInv, TypeOK

LEMMA TypeStep ==
  ASSUME TypeInv, [Next]_vars
  PROVE  TypeInv'
<1>1. CASE Program
  BY <1>1, ProgramType
<1>2. CASE Update
  <2>1. \/ \E redraw \in BOOLEAN : Begin(redraw)
        \/ QuickChange \/ GoTo \/ ClearRest \/ PutCell \/ PutCorner \/ EndRun \/ Finish
        \/ SkipLine \/ StartLine \/ SkipCell \/ KeepRest \/ LineDone
    BY <1>2, Zenon DEF Update
  <2> QED
    BY <2>1, BeginType, QuickType, GoToType, ClearType, PutType, CornerType, EndType, FinishType,
       LoopType
<1>3. CASE UNCHANGED vars
  BY <1>3, Same DEF vars, TypeInv, TypeOK
<1> QED
  BY <1>1, <1>2, <1>3 DEF Next

\* The screens, the change records, the cursors and the places of doupdate keep
\* their types, on every terminal and in every program.
THEOREM TypeCorrect == Spec => []TypeOK
<1>1. Init => TypeInv
  BY InitType
<1>2. TypeInv /\ [Next]_vars => TypeInv'
  BY TypeStep
<1>3. TypeInv => TypeOK
  BY DEF TypeInv
<1> QED
  BY <1>1, <1>2, <1>3, PTL DEF Spec

-----------------------------------------------------------------------------
(* The record of changes *)

\* RInv, for use in a step.
LEMMA Now ==
  ASSUME RInv
  PROVE  /\ TypeOK
         /\ L \in Nat \ {0} /\ W \in Nat \ {0} /\ Rows = 0 .. L - 1 /\ Cols = 0 .. W - 1
         /\ tty.am \in BOOLEAN /\ tty.insert \in BOOLEAN /\ tty.xenl \in BOOLEAN
         /\ wy \in 0 .. L /\ wx \in 0 .. W /\ lch \in 0 .. W - 1
         /\ curwin \in BOOLEAN /\ vclear \in BOOLEAN
         /\ at \in Rows \X Cols /\ virt \in Screen /\ cur \in Screen /\ term \in Screen
         /\ line \in [Rows -> LineRecord]
<1>1. TypeOK
  BY DEF RInv, TypeInv
<1>2. tty \in Setup /\ L \in Nat \ {0} /\ W \in Nat \ {0}
  BY <1>1, Sizes
<1>3. tty.am \in BOOLEAN /\ tty.insert \in BOOLEAN /\ tty.xenl \in BOOLEAN
  BY <1>2 DEF Setup
<1> QED
  BY <1>1, <1>2, <1>3 DEF TypeOK, Rows, Cols

\* Clearing __ISPASTEOL leaves the ranges alone.
LEMMA PastRange ==
  ASSUME RInv, NEW o, NEW n, NEW y \in Rows
  PROVE  /\ PastCleared(o, n)[y].dirty = line[y].dirty
         /\ PastCleared(o, n)[y].first = line[y].first
         /\ PastCleared(o, n)[y].last = line[y].last
<1>1. PICK r \in LineRecord : r = line[y]
  BY Now
<1>2. PICK s : s = [r EXCEPT !.past = FALSE]
  OBVIOUS
<1>3. s.dirty = r.dirty /\ s.first = r.first /\ s.last = r.last
  BY <1>2 DEF LineRecord
<1>4. PastCleared(o, n)[y] = r \/ PastCleared(o, n)[y] = s
  BY <1>1, <1>2 DEF PastCleared
<1> QED
  BY <1>1, <1>3, <1>4

\* The steps keep the record, whichever they are.
LEMMA InitRecord ==
  ASSUME Init
  PROVE  RInv
<1>1. TypeInv
  BY InitType
<1>2. Steps
  BY DEF Init, Steps, InLine
<1>3. RecordInv
  BY DEF Init, RecordInv
<1> QED
  BY <1>1, <1>2, <1>3 DEF RInv

\* Between updates.
LEMMA IdleRecord ==
  ASSUME TypeInv', tty' = tty, pc' = "idle",
         \A y \in Rows, x \in Cols :
           virt'[y][x] = cur'[y][x] \/ Exempt(y, x) \/ vclear'
           \/ (line'[y].dirty /\ line'[y].first <= x /\ x <= line'[y].last)
  PROVE  RInv'
<1>0. Rows' = Rows /\ Cols' = Cols /\ L' = L /\ W' = W /\ ScrollWin' = ScrollWin
  BY Same
<1>1. Steps'
  BY DEF Steps, InLine
<1>4. RecordInv'
  BY <1>0 DEF RecordInv, Settled, InRange, Exempt
<1> QED
  BY <1>1, <1>4 DEF RInv

\* In an update.
LEMMA BusyRecord ==
  ASSUME RInv, TypeInv', Steps', pc \in {"line", "scan", "put", "done"},
         pc' \in {"line", "scan", "put", "done"},
         UNCHANGED <<tty, virt, vclear, curwin>>,
         curwin => cur' = cur,
         ~curwin => \A y \in Rows, x \in Cols :
           /\ Drawn(y, x)' => virt[y][x] = cur'[y][x] \/ Exempt(y, x)
           /\ Ahead(y)' => /\ Ahead(y) /\ cur'[y] = cur[y]
                           /\ line'[y].dirty = line[y].dirty
                           /\ line'[y].first = line[y].first /\ line'[y].last = line[y].last
  PROVE  RInv'
<1>0. Rows' = Rows /\ Cols' = Cols /\ L' = L /\ W' = W /\ ScrollWin' = ScrollWin
  BY Same
<1>1. ASSUME curwin
      PROVE  \A y \in Rows, x \in Cols : virt'[y][x] = cur'[y][x] \/ Exempt(y, x) \/ vclear'
  BY <1>1 DEF Settled, RInv, RecordInv
<1>2. ASSUME ~curwin, NEW y \in Rows, NEW x \in Cols
      PROVE  /\ Drawn(y, x)' => virt'[y][x] = cur'[y][x] \/ Exempt(y, x)
             /\ Ahead(y)' => virt'[y][x] = cur'[y][x] \/ Exempt(y, x)
                             \/ (line'[y].dirty /\ line'[y].first <= x /\ x <= line'[y].last)
  <2>1. Ahead(y) => Settled(y, x) \/ InRange(y, x)
    BY <1>2 DEF RInv, RecordInv
  <2> QED
    BY <1>2, <2>1 DEF Settled, InRange
<1>3. RecordInv'
  BY <1>0, <1>1, <1>2 DEF RecordInv, Settled, InRange, Exempt
<1> QED
  BY <1>3 DEF RInv

LEMMA ProgramRecord ==
  ASSUME RInv, TypeInv', Program
  PROVE  RInv'
<1>0. /\ L \in Nat \ {0} /\ W \in Nat \ {0} /\ Rows = 0 .. L - 1 /\ Cols = 0 .. W - 1
      /\ virt \in Screen /\ line \in [Rows -> LineRecord]
  BY Now
<1>a. \/ \E y \in Rows, x \in Cols : \E c \in [ch : Glyphs, colour : tty.colours], past \in BOOLEAN :
           Put(y, x, c, past)
      \/ \E y \in Rows, x \in Cols : MoveCursor(y, x)
      \/ \E y \in Rows : ForceLine(y)
      \/ ClearOk
  BY Zenon DEF Program
<1>b. Change
  BY ProgramIs
<1>c. tty' = tty /\ pc' = "idle" /\ pc = "idle" /\ cur' = cur
  BY <1>b DEF Change, loop
<1>d. \A y \in Rows, x \in Cols : virt[y][x] = cur[y][x] \/ Exempt(y, x) \/ vclear
           \/ (line[y].dirty /\ line[y].first <= x /\ x <= line[y].last)
  BY <1>c DEF RInv, RecordInv, Settled, InRange
<1>1. CASE \E y \in Rows, x \in Cols : \E c \in [ch : Glyphs, colour : tty.colours], past \in BOOLEAN :
             Put(y, x, c, past)
  <2>1. PICK y \in Rows, x \in Cols : \E c \in [ch : Glyphs, colour : tty.colours], past \in BOOLEAN :
               Put(y, x, c, past)
    BY <1>1
  <2>2. PICK c \in [ch : Glyphs, colour : tty.colours], past \in BOOLEAN : Put(y, x, c, past)
    BY <2>1
  <2>4. PICK r, f, l : /\ r = line[y] /\ r \in LineRecord
                       /\ f = IF r.first > x THEN x ELSE r.first
                       /\ l = IF r.last < x THEN x ELSE r.last
    BY <1>0
  <2>5. r.first \in Int /\ r.last \in Int /\ x \in Int
    BY <1>0, <2>4 DEF LineRecord
  <2>6. PICK s : s = [r EXCEPT !.dirty = TRUE, !.past = past, !.first = f, !.last = l]
    OBVIOUS
  <2>7. s.dirty = TRUE /\ s.first = f /\ s.last = l
    BY <2>4, <2>6 DEF LineRecord
  <2>8. line' = [line EXCEPT ![y] = s]
    BY <1>0, <2>2, <2>4, <2>6 DEF Put
  <2>9. virt' = [virt EXCEPT ![y][x] = c] /\ UNCHANGED vclear
    BY <2>2 DEF Put
  <2>10. f <= x /\ x <= l /\ f <= r.first /\ r.last <= l
    BY ONLY <2>4, <2>5
  <2>12. ASSUME NEW v \in Rows, NEW u \in Cols
         PROVE  virt'[v][u] = cur'[v][u] \/ Exempt(v, u) \/ vclear'
                \/ (line'[v].dirty /\ line'[v].first <= u /\ u <= line'[v].last)
    <3>1. CASE v # y
      <4>1. virt'[v] = virt[v] /\ line'[v] = line[v]
        BY <1>0, <2>8, <2>9, <3>1 DEF Screen
      <4> QED
        BY <1>c, <1>d, <2>9, <4>1
    <3>2. CASE v = y /\ u = x
      <4>1. line'[v] = s
        BY <1>0, <2>8, <3>2
      <4> QED
        BY <2>7, <2>10, <3>2, <4>1
    <3>3. CASE v = y /\ u # x
      <4>1. line'[v] = s /\ virt'[v][u] = virt[v][u]
        BY <1>0, <2>8, <2>9, <3>3 DEF Screen
      <4>2. r.first <= u => f <= u
        BY <1>0, <2>5, <2>10, <2>4
      <4>3. u <= r.last => u <= l
        BY <1>0, <2>5, <2>10, <2>4
      <4> QED
        BY <1>c, <1>d, <2>4, <2>7, <2>9, <3>3, <4>1, <4>2, <4>3
    <3> QED
      BY <3>1, <3>2, <3>3
  <2> QED
    BY <1>c, <2>12, IdleRecord
<1>2. CASE \E y \in Rows, x \in Cols : MoveCursor(y, x)
  <2>1. UNCHANGED <<virt, line, vclear>>
    BY <1>2 DEF MoveCursor
  <2>2. \A v \in Rows, u \in Cols : virt'[v][u] = cur'[v][u] \/ Exempt(v, u) \/ vclear'
           \/ (line'[v].dirty /\ line'[v].first <= u /\ u <= line'[v].last)
    BY <1>c, <1>d, <2>1
  <2> QED
    BY <1>c, <2>2, IdleRecord
<1>3. CASE \E y \in Rows : ForceLine(y)
  <2>1. PICK y \in Rows : ForceLine(y)
    BY <1>3
  <2>2. PICK r : r = line[y] /\ r \in LineRecord
    BY <1>0
  <2>3. PICK s : s = [AllDirty(r) EXCEPT !.forced = TRUE]
    OBVIOUS
  <2>4. s.dirty = TRUE /\ s.first = 0 /\ s.last = W - 1
    BY <2>2, <2>3 DEF LineRecord, AllDirty
  <2>5. line' = [line EXCEPT ![y] = s] /\ UNCHANGED <<virt, vclear>>
    BY <1>0, <2>1, <2>2, <2>3 DEF ForceLine
  <2>6. \A v \in Rows : line'[v] = IF v = y THEN s ELSE line[v]
    BY <1>0, <2>5
  <2>8. ASSUME NEW v \in Rows, NEW u \in Cols
        PROVE  virt'[v][u] = cur'[v][u] \/ Exempt(v, u) \/ vclear'
                \/ (line'[v].dirty /\ line'[v].first <= u /\ u <= line'[v].last)
    <3>1. CASE v = y
      BY <1>0, <2>4, <2>6, <3>1
    <3>2. CASE v # y
      BY <1>c, <1>d, <2>5, <2>6, <3>2
    <3> QED
      BY <3>1, <3>2
  <2> QED
    BY <1>c, <2>8, IdleRecord
<1>4. CASE ClearOk
  <2>1. vclear' = TRUE
    BY <1>4 DEF ClearOk
  <2> QED
    BY <1>c, <2>1, IdleRecord
<1> QED
  BY <1>a, <1>1, <1>2, <1>3, <1>4

LEMMA BeginRecord ==
  ASSUME ~RedrawPending, RInv, TypeInv', NEW redraw \in BOOLEAN, Begin(redraw)
  PROVE  RInv'
<1>0. /\ L \in Nat \ {0} /\ W \in Nat \ {0} /\ Rows = 0 .. L - 1 /\ Cols = 0 .. W - 1
      /\ virt \in Screen /\ line \in [Rows -> LineRecord] /\ vclear \in BOOLEAN
  BY Now
<1>a. /\ tty' = tty /\ pc = "idle" /\ curwin' = redraw /\ wy' = 0
      /\ vclear' = (redraw /\ vclear) /\ virt' = virt
      /\ pc' = (IF redraw \/ tty.noqch THEN "line" ELSE "quick")
      /\ redraw => \A y \in Rows : ~line[y].dirty
  BY DEF Begin
<1>w. /\ Rows' = Rows /\ Cols' = Cols /\ L' = L /\ W' = W /\ ScrollWin' = ScrollWin
      /\ pc' \notin {"idle", "crashed", "scan", "put", "done"}
  BY <1>a, Same
<1>d. \A y \in Rows, x \in Cols : virt[y][x] = cur[y][x] \/ Exempt(y, x) \/ vclear
           \/ (line[y].dirty /\ line[y].first <= x /\ x <= line[y].last)
  BY <1>a DEF RInv, RecordInv, Settled, InRange
<1>1. Steps'
  BY <1>a DEF Steps, InLine
<1>6. redraw => \A y \in Rows, x \in Cols : virt'[y][x] = cur'[y][x] \/ Exempt(y, x) \/ vclear'
  <2> SUFFICES ASSUME redraw
               PROVE  \A y \in Rows, x \in Cols : virt'[y][x] = cur'[y][x] \/ Exempt(y, x) \/ vclear'
    OBVIOUS
  <2>1. cur' = cur
    BY DEF Begin
  <2> QED
    BY <1>a, <1>d, <2>1
<1>7. ~redraw => \A y \in Rows, x \in Cols :
        virt'[y][x] = cur'[y][x] \/ Exempt(y, x)
        \/ (line'[y].dirty /\ line'[y].first <= x /\ x <= line'[y].last)
  <2>1. CASE ~redraw /\ vclear
    <3>1. line' = [y \in Rows |-> AllDirty(line[y])]
      BY <2>1 DEF Begin
    <3>2. \A y \in Rows : AllDirty(line[y]).dirty = TRUE /\ AllDirty(line[y]).first = 0
                          /\ AllDirty(line[y]).last = W - 1
      BY <1>0 DEF LineRecord, AllDirty
    <3>3. \A x \in Cols : 0 <= x /\ x <= W - 1
      BY <1>0
    <3> QED
      BY <3>1, <3>2, <3>3
  <2>2. CASE ~redraw /\ ~vclear
    <3>1. cur' = cur /\ line' = line
      BY <2>2 DEF Begin
    <3> QED
      BY <1>a, <1>d, <2>2, <3>1
  <2> QED
    BY <1>0, <2>1, <2>2
<1>8. RecordInv'
  <2>1. \A y \in Rows, x \in Cols : ~Drawn(y, x)'
    BY <1>0, <1>a, <1>w DEF Drawn
  <2> QED
    BY <1>6, <1>7, <1>a, <1>w, <2>1 DEF RecordInv, Settled, InRange, Exempt
<1> QED
  BY <1>1, <1>8 DEF RInv

\* quickch: what it takes for clean has become so, or was; what it moved is
\* recorded as changed.
LEMMA QuickRecord ==
  ASSUME RInv, TypeInv', QuickChange
  PROVE  RInv'
<1>0. /\ TypeOK /\ L \in Nat \ {0} /\ W \in Nat \ {0} /\ Rows = 0 .. L - 1 /\ Cols = 0 .. W - 1
      /\ virt \in Screen /\ cur \in Screen /\ line \in [Rows -> LineRecord]
  BY Now
<1>a. /\ tty' = tty /\ pc = "quick" /\ pc' = "line" /\ ~curwin /\ ~curwin' /\ wy = 0 /\ wy' = 0
      /\ virt' = virt
  BY DEF QuickChange, RInv, Steps
<1>w. Rows' = Rows /\ Cols' = Cols /\ L' = L /\ W' = W /\ ScrollWin' = ScrollWin
  BY <1>a, Same
<1>d. \A y \in Rows, x \in Cols : virt[y][x] = cur[y][x] \/ Exempt(y, x)
           \/ (line[y].dirty /\ line[y].first <= x /\ x <= line[y].last)
  <2>1. \A y \in Rows : Ahead(y)
    BY <1>0, <1>a DEF Ahead
  <2> QED
    BY <1>a, <2>1 DEF RInv, RecordInv, Settled, InRange
<1>1. PICK dirty : dirty = [y \in Rows |-> line[y].dirty]
  OBVIOUS
<1>2. PICK q : q = Quickch(virt, cur, term, dirty)
  OBVIOUS
<1>3. /\ \A y \in Rows : y \in q.clean => virt[y] = q.cur[y] \/ (~dirty[y] /\ q.cur[y] = cur[y])
      /\ \A y \in Rows : y \notin q.clean /\ y \notin q.touched => q.cur[y] = cur[y]
  BY <1>0, <1>2, QuickchIs
<1>4. \/ UNCHANGED <<cur, line>>
      \/ /\ cur' = q.cur
         /\ line' = [y \in Rows |-> IF y \in q.clean THEN [line[y] EXCEPT !.dirty = FALSE]
                                    ELSE IF y \in q.touched THEN AllDirty(line[y])
                                    ELSE line[y]]
  BY <1>1, <1>2 DEF QuickChange
<1>6. ASSUME NEW y \in Rows
      PROVE  \A x \in Cols : virt'[y][x] = cur'[y][x] \/ Exempt(y, x)
                  \/ (line'[y].dirty /\ line'[y].first <= x /\ x <= line'[y].last)
  <2>1. CASE UNCHANGED <<cur, line>>
    BY <1>a, <1>d, <2>1
  <2>2. CASE /\ cur' = q.cur
             /\ line' = [v \in Rows |-> IF v \in q.clean THEN [line[v] EXCEPT !.dirty = FALSE]
                                        ELSE IF v \in q.touched THEN AllDirty(line[v])
                                        ELSE line[v]]
    <3>0. PICK r \in LineRecord : r = line[y]
      BY <1>0
    <3>1. CASE y \in q.clean
      <4>1. \A x \in Cols : virt[y][x] = q.cur[y][x] \/ Exempt(y, x)
        BY <1>1, <1>3, <1>d, <3>1
      <4> QED
        BY <1>a, <2>2, <4>1
    <3>2. CASE y \notin q.clean /\ y \in q.touched
      <4>1. line'[y] = AllDirty(r)
        BY <2>2, <3>0, <3>2
      <4>2. line'[y].dirty /\ line'[y].first = 0 /\ line'[y].last = W - 1
        BY <3>0, <4>1 DEF LineRecord, AllDirty
      <4> QED
        BY <1>0, <4>2
    <3>3. CASE y \notin q.clean /\ y \notin q.touched
      <4>1. line'[y] = line[y] /\ cur'[y] = cur[y]
        BY <1>3, <2>2, <3>3
      <4> QED
        BY <1>a, <1>d, <4>1
    <3> QED
      BY <3>1, <3>2, <3>3
  <2> QED
    BY <1>4, <2>1, <2>2
<1>7. Steps'
  BY <1>a DEF Steps, InLine
<1>10. RecordInv'
  <2>1. \A y \in Rows, x \in Cols : ~Drawn(y, x)'
    BY <1>0, <1>a, <1>w DEF Drawn
  <2> QED
    BY <1>6, <1>a, <1>w, <2>1 DEF RecordInv, Settled, InRange, Exempt
<1> QED
  BY <1>7, <1>10 DEF RInv

LEMMA SkipLineRecord ==
  ASSUME RInv, TypeInv', SkipLine
  PROVE  RInv'
<1>0. /\ L \in Nat \ {0} /\ W \in Nat \ {0} /\ Rows = 0 .. L - 1 /\ Cols = 0 .. W - 1
      /\ line \in [Rows -> LineRecord] /\ wy \in Rows
  BY Now DEF SkipLine
<1>a. /\ pc = "line" /\ pc' = "line" /\ ~curwin /\ ~line[wy].dirty /\ wy' = wy + 1
      /\ UNCHANGED <<tty, virt, vclear, cur, curwin>>
  BY Zenon DEF SkipLine, NeedsWork
<1>1. \A y \in Rows : y # wy => line'[y] = line[y]
  BY <1>0 DEF SkipLine, Synced
<1>2. Steps'
  BY <1>a DEF Steps, InLine
<1>3. \A y \in Rows, x \in Cols :
        /\ Drawn(y, x)' => virt[y][x] = cur'[y][x] \/ Exempt(y, x)
        /\ Ahead(y)' => Ahead(y) /\ cur'[y] = cur[y] /\ line'[y] = line[y]
  <2> TAKE y \in Rows, x \in Cols
  <2>1. Drawn(y, x)' => Drawn(y, x) \/ (y = wy /\ Ahead(y))
    BY <1>0, <1>a DEF Drawn, Ahead
  <2>2. y = wy => ~InRange(y, x)
    BY <1>a DEF InRange
  <2>3. Ahead(y)' => y > wy /\ Ahead(y)
    BY <1>0, <1>a DEF Ahead
  <2>4. y > wy => y # wy
    BY <1>0
  <2>5. (Drawn(y, x) => Settled(y, x)) /\ (Ahead(y) => Settled(y, x) \/ InRange(y, x))
    BY <1>a DEF RInv, RecordInv
  <2> QED
    BY <1>1, <1>a, <2>1, <2>2, <2>3, <2>4, <2>5 DEF Settled
<1> QED
  BY <1>a, <1>2, <1>3, BusyRecord

\* What is outside of the range of a line needs no drawing.
LEMMA StartLineRecord ==
  ASSUME RInv, TypeInv', StartLine
  PROVE  RInv'
<1>0. /\ L \in Nat \ {0} /\ W \in Nat \ {0} /\ Rows = 0 .. L - 1 /\ Cols = 0 .. W - 1
      /\ line \in [Rows -> LineRecord] /\ wy \in Rows
  BY Now DEF StartLine
<1>a. /\ pc = "line" /\ wy' = wy /\ wx' = First(wy) /\ lch' = Last(wy)
      /\ pc' = (IF First(wy) >= W THEN "done" ELSE "scan")
      /\ ce' = (tty.el > 0 /\ ~curwin)
      /\ UNCHANGED <<tty, virt, line, vclear, cur, curwin>>
  BY DEF StartLine, window
<1>w. Rows' = Rows /\ Cols' = Cols /\ L' = L /\ W' = W
  BY <1>a, Same
<1>1. PICK f, l \in 0 .. W : f = line[wy].first /\ l = line[wy].last
  BY <1>0 DEF LineRecord
<1>2. /\ curwin => wx' = 0 /\ lch' = W - 1 /\ pc' = "scan"
      /\ ~curwin => wx' = f /\ lch' = (IF l > W - 1 THEN W - 1 ELSE l)
      /\ ~curwin /\ pc' = "done" => f = W
  <2>1. curwin => First(wy) = 0 /\ Last(wy) = W - 1
    BY DEF First, Last
  <2>2. ~curwin => First(wy) = f /\ Last(wy) = (IF l > W - 1 THEN W - 1 ELSE l)
    BY <1>1 DEF First, Last
  <2>3. f >= W => f = W
    BY <1>0, <1>1
  <2>4. curwin => wx' = 0 /\ lch' = W - 1 /\ pc' = "scan"
    BY <1>0, <1>a, <2>1
  <2>5. ~curwin => wx' = f /\ lch' = (IF l > W - 1 THEN W - 1 ELSE l)
    BY <1>a, <2>2
  <2>6. ~curwin /\ pc' = "done" => f = W
    BY <1>a, <2>2, <2>3
  <2> QED
    BY ONLY <2>4, <2>5, <2>6
<1>4. Steps'
  BY <1>a, <1>2, <1>w DEF Steps, InLine
<1>7. ASSUME ~curwin, NEW y \in Rows, NEW x \in Cols
      PROVE  /\ Drawn(y, x)' => virt[y][x] = cur'[y][x] \/ Exempt(y, x)
             /\ Ahead(y)' => Ahead(y) /\ cur'[y] = cur[y] /\ line'[y] = line[y]
  <2>1. Ahead(y)' => Ahead(y)
    BY <1>0, <1>a DEF Ahead
  <2>2. Drawn(y, x)' /\ ~Drawn(y, x) => y = wy /\ ~InRange(y, x)
    <3>1. Drawn(y, x)' /\ ~Drawn(y, x) =>
            y = wy /\ (pc' = "done" \/ ~(wx' <= x /\ x <= lch'))
      BY <1>a DEF Drawn
    <3>2. ASSUME pc' = "done" \/ ~(wx' <= x /\ x <= lch') PROVE ~(f <= x /\ x <= l)
      <4>1. x \in Int /\ 0 <= x /\ x <= W - 1
        BY <1>0
      <4> QED
        BY <1>0, <1>1, <1>2, <1>7, <3>2, <4>1
    <3> QED
      BY <1>1, <3>1, <3>2 DEF InRange
  <2>3. y = wy => Ahead(y)
    BY <1>a DEF Ahead
  <2>4. (Drawn(y, x) => Settled(y, x)) /\ (Ahead(y) => Settled(y, x) \/ InRange(y, x))
    BY <1>7, <1>a DEF RInv, RecordInv
  <2> QED
    BY <1>a, <2>1, <2>2, <2>3, <2>4 DEF Settled
<1>8. pc' \in {"scan", "done"}
  BY <1>a
<1> QED
  BY <1>a, <1>4, <1>7, <1>8, BusyRecord

LEMMA SkipCellRecord ==
  ASSUME RInv, TypeInv', SkipCell
  PROVE  RInv'
<1>0. /\ L \in Nat \ {0} /\ W \in Nat \ {0} /\ Rows = 0 .. L - 1 /\ Cols = 0 .. W - 1
      /\ wy \in 0 .. L /\ wx \in 0 .. W /\ lch \in 0 .. W - 1
  BY Now
<1>a. /\ pc = "scan" /\ pc' = "scan" /\ wy' = wy /\ wx' = wx + 1 /\ wx <= lch /\ ~Differs
      /\ UNCHANGED <<tty, virt, line, vclear, cur, curwin, ce, lch>>
  BY DEF SkipCell, window
<1>w. Rows' = Rows /\ Cols' = Cols /\ L' = L /\ W' = W
  BY <1>a, Same
<1>1. Source[wy][wx] = OnScreen(wy, wx)
  BY <1>a DEF Differs
<1>3. Steps'
  BY <1>a, <1>w DEF RInv, Steps, InLine
<1>6. ASSUME ~curwin, NEW y \in Rows, NEW x \in Cols
      PROVE  /\ Drawn(y, x)' => virt[y][x] = cur'[y][x] \/ Exempt(y, x)
             /\ Ahead(y)' => Ahead(y) /\ cur'[y] = cur[y] /\ line'[y] = line[y]
  <2>1. Ahead(y)' => Ahead(y)
    BY <1>a DEF Ahead
  <2>2. Drawn(y, x)' => Drawn(y, x) \/ (y = wy /\ x = wx)
    BY <1>0, <1>a DEF Drawn
  <2>3. virt[wy][wx] = cur[wy][wx]
    BY <1>1, <1>6 DEF Source, OnScreen
  <2>4. Drawn(y, x) => Settled(y, x)
    BY <1>6, <1>a DEF RInv, RecordInv
  <2> QED
    BY <1>a, <2>1, <2>2, <2>3, <2>4 DEF Settled
<1> QED
  BY <1>a, <1>3, <1>6, BusyRecord

\* Steps that draw nothing and stay in the line.
LEMMA QuietRecord ==
  ASSUME RInv, TypeInv', GoTo \/ KeepRest \/ EndRun
  PROVE  RInv'
<1>a. /\ pc \in {"scan", "put"} /\ pc' \in {"scan", "put"} /\ (ce' => ce)
      /\ UNCHANGED <<tty, virt, vclear, cur, wy, wx, curwin, lch>>
  BY DEF GoTo, KeepRest, EndRun, window
<1>w. Rows' = Rows /\ Cols' = Cols /\ L' = L /\ W' = W
  BY <1>a, Same
<1>1. \E o, n : line' = line \/ line' = PastCleared(o, n)
  BY Zenon DEF GoTo, KeepRest, EndRun, window
<1>2. \A y \in Rows : /\ line'[y].dirty = line[y].dirty
                      /\ line'[y].first = line[y].first /\ line'[y].last = line[y].last
  BY <1>1, PastRange
<1>3. Steps'
  BY <1>a, <1>w DEF RInv, Steps, InLine
<1>6. ASSUME ~curwin, NEW y \in Rows, NEW x \in Cols
      PROVE  /\ Drawn(y, x)' => virt[y][x] = cur'[y][x] \/ Exempt(y, x)
             /\ Ahead(y)' => Ahead(y) /\ cur'[y] = cur[y]
  <2>1. (Drawn(y, x)' <=> Drawn(y, x)) /\ (Ahead(y)' <=> Ahead(y))
    BY <1>a DEF Drawn, Ahead
  <2>2. Drawn(y, x) => Settled(y, x)
    BY <1>6, <1>a DEF RInv, RecordInv
  <2> QED
    BY <1>a, <2>1, <2>2 DEF Settled
<1> QED
  BY <1>a, <1>2, <1>3, <1>6, BusyRecord

\* Clearing to the end of the line leaves the rest of it as it is wanted, on
\* curscr too: beyond its last ink that is blank already.
LEMMA Clears ==
  ASSUME RInv, ClearRest
  PROVE  /\ wy \in Rows /\ wx \in Cols
         /\ \E c : /\ c = [ch |-> Space, colour |-> Lspc]
                   /\ \A x \in Cols : x >= wx => virt[wy][x] = c
                   /\ \A y \in Rows, x \in Cols :
                        cur'[y][x] = IF y = wy /\ x >= wx THEN c ELSE cur[y][x]
                   /\ \A y \in Rows : y # wy => cur'[y] = cur[y]
<1>0. /\ TypeOK /\ L \in Nat \ {0} /\ W \in Nat \ {0} /\ Rows = 0 .. L - 1 /\ Cols = 0 .. W - 1
      /\ cur \in Screen
  BY Now
<1>b. wy \in Rows /\ wx \in Cols
  BY DifferIn DEF RInv, ClearRest
<1>2. PICK c : c = [ch |-> Space, colour |-> Lspc]
  OBVIOUS
<1>3. PICK to : to = Clsp
  OBVIOUS
<1>5. cur' = [cur EXCEPT ![wy] = [x \in Cols |-> IF x \in wx .. to THEN c ELSE cur[wy][x]]]
  BY <1>0, <1>b, <1>2, <1>3 DEF ClearRest, Screen
<1>6. \A x \in Cols : x >= wx => x \in wx .. to \/ cur[wy][x] = c
  <2>1. PICK k : k = LastInk(cur[wy], Lspc) /\ k \in -1 .. W - 1
                 /\ \A x \in Cols : x > k => cur[wy][x] = c
    BY <1>0, <1>2, LastInkIn
  <2>2. k >= wx => to = k
    BY <1>3, <2>1 DEF Clsp
  <2>3. \A x \in Cols : x >= wx => x > k \/ (k >= wx /\ x <= k)
    BY <1>0, <1>b, <2>1
  <2>4. \A x \in Cols : x >= wx /\ x <= k => x \in wx .. k
    BY <1>0, <1>b, <2>1
  <2> QED
    BY <2>1, <2>2, <2>3, <2>4
<1>7. \A x \in Cols : x >= wx => virt[wy][x] = c
  <2>1. PICK k : k = LastInk(virt[wy], Lspc) /\ k \in -1 .. W - 1
                 /\ \A x \in Cols : x > k => virt[wy][x] = c
    BY <1>0, <1>2, LastInkIn
  <2>2. k <= wx
    BY <1>0, <1>b, <2>1 DEF ClearRest, AtRest, Nlsp
  <2>3. virt[wy][wx] = c
    BY <1>2 DEF ClearRest, AtRest
  <2>4. \A x \in Cols : x >= wx => x = wx \/ x > k
    BY <1>0, <1>b, <2>1, <2>2
  <2> QED
    BY <2>1, <2>3, <2>4
<1>8. ASSUME NEW y \in Rows, NEW x \in Cols
      PROVE  cur'[y][x] = IF y = wy /\ x >= wx THEN c ELSE cur[y][x]
  <2>1. CASE y = wy
    <3>2. cur'[y][x] = IF x \in wx .. to THEN c ELSE cur[wy][x]
      BY <1>0, <1>5, <1>b, <2>1 DEF Screen
    <3>3. x \in wx .. to => x >= wx
      BY <1>0, <1>b
    <3> QED
      BY <1>6, <2>1, <3>2, <3>3
  <2>2. CASE y # wy
    BY <1>0, <1>5, <2>2 DEF Screen
  <2> QED
    BY <2>1, <2>2
<1>9. \A y \in Rows : y # wy => cur'[y] = cur[y]
  BY <1>0, <1>5 DEF Screen
<1> QED
  BY <1>b, <1>2, <1>7, <1>8, <1>9

LEMMA ClearRestRecord ==
  ASSUME RInv, TypeInv', ClearRest
  PROVE  RInv'
<1>0. /\ L \in Nat \ {0} /\ W \in Nat \ {0} /\ Rows = 0 .. L - 1 /\ Cols = 0 .. W - 1
  BY Now
<1>a. /\ pc = "put" /\ pc' = "done" /\ ~curwin
      /\ UNCHANGED <<tty, virt, line, vclear, wy, wx, curwin, ce, lch>>
  BY DEF ClearRest, AtRest, window, RInv, Steps, InLine
<1>w. Rows' = Rows /\ Cols' = Cols /\ L' = L /\ W' = W
  BY <1>a, Same
<1>b. wy \in Rows /\ wx \in Cols
  BY Clears
<1>1. PICK c : /\ \A x \in Cols : x >= wx => virt[wy][x] = c
               /\ \A y \in Rows, x \in Cols :
                    cur'[y][x] = IF y = wy /\ x >= wx THEN c ELSE cur[y][x]
               /\ \A y \in Rows : y # wy => cur'[y] = cur[y]
  BY Clears
<1>10. Steps'
  BY <1>a, <1>w DEF RInv, Steps, InLine
<1>13. ASSUME ~curwin, NEW y \in Rows, NEW x \in Cols
       PROVE  /\ Drawn(y, x)' => virt[y][x] = cur'[y][x] \/ Exempt(y, x)
              /\ Ahead(y)' => Ahead(y) /\ cur'[y] = cur[y] /\ line'[y] = line[y]
  <2>1. Ahead(y)' => Ahead(y) /\ y # wy
    BY <1>0, <1>b, <1>a DEF Ahead
  <2>3. Drawn(y, x)' => Drawn(y, x) \/ (y = wy /\ x >= wx)
    BY <1>0, <1>a, <1>b DEF Drawn
  <2>4. Drawn(y, x) => Settled(y, x)
    BY <1>a DEF RInv, RecordInv
  <2> QED
    BY <1>1, <1>a, <2>1, <2>3, <2>4 DEF Settled
<1> QED
  BY <1>a, <1>10, <1>13, BusyRecord

LEMMA PutCellRecord ==
  ASSUME RInv, TypeInv', PutCell
  PROVE  RInv'
<1>0. /\ L \in Nat \ {0} /\ W \in Nat \ {0} /\ Rows = 0 .. L - 1 /\ Cols = 0 .. W - 1
      /\ cur \in Screen
  BY Now
<1>b. wy \in Rows /\ wx \in Cols
  BY DifferIn DEF RInv, PutCell
<1>a. /\ pc = "put" /\ pc' = "put" /\ wx' = wx + 1 /\ (~IsCorner \/ curwin)
      /\ UNCHANGED <<tty, virt, line, vclear, wy, curwin, ce, lch>>
  BY DEF PutCell, window
<1>w. Rows' = Rows /\ Cols' = Cols /\ L' = L /\ W' = W
  BY <1>a, Same
<1>1. curwin => cur' = cur
  BY DEF PutCell, Noted
<1>2. ~curwin => cur' = [cur EXCEPT ![wy][wx] = virt[wy][wx]]
  BY <1>a DEF PutCell, Noted
<1>10. Steps'
  BY <1>a, <1>w DEF RInv, Steps, InLine
<1>13. ASSUME ~curwin, NEW y \in Rows, NEW x \in Cols
       PROVE  /\ Drawn(y, x)' => virt[y][x] = cur'[y][x] \/ Exempt(y, x)
              /\ Ahead(y)' => Ahead(y) /\ cur'[y] = cur[y] /\ line'[y] = line[y]
  <2>1. Ahead(y)' => Ahead(y) /\ y # wy
    BY <1>0, <1>b, <1>a DEF Ahead
  <2>2. y # wy => cur'[y] = cur[y]
    BY <1>0, <1>2, <1>13 DEF Screen
  <2>3. Drawn(y, x)' => Drawn(y, x) \/ (y = wy /\ x = wx)
    BY <1>0, <1>a, <1>b DEF Drawn
  <2>4. Drawn(y, x) => Settled(y, x)
    <3>1. pc \notin {"idle", "crashed"}
      BY <1>a
    <3> QED
      BY <1>13, <3>1, Zenon DEF RInv, RecordInv
  <2>5. cur'[y][x] = IF y = wy /\ x = wx THEN virt[y][x] ELSE cur[y][x]
    <3>1. cur \in [Rows -> [Cols -> Cell]]
      BY <1>0 DEF Screen
    <3> QED
      BY ONLY <1>b, <1>2, <1>13, <3>1
  <2> QED
    BY <1>a, <2>1, <2>2, <2>3, <2>4, <2>5 DEF Settled
<1> QED
  BY <1>a, <1>1, <1>10, <1>13, BusyRecord

LEMMA PutCornerRecord ==
  ASSUME RInv, TypeInv', PutCorner
  PROVE  RInv'
<1>0. /\ L \in Nat \ {0} /\ W \in Nat \ {0} /\ Rows = 0 .. L - 1 /\ Cols = 0 .. W - 1
      /\ cur \in Screen
  BY Now
<1>b. wy \in Rows /\ wx \in Cols /\ wy = L - 1 /\ wx = W - 1
  BY DifferIn DEF RInv, PutCorner, IsCorner
<1>a. /\ pc = "put" /\ pc' \in {"done", "crashed"} /\ ~curwin
      /\ UNCHANGED <<tty, virt, line, vclear, wy, wx, curwin, ce, lch>>
  BY DEF PutCorner, window
<1>w. Rows' = Rows /\ Cols' = Cols /\ L' = L /\ W' = W
  BY <1>a, Same
<1>2. IF ScrollWin THEN cur' = cur ELSE cur' = [cur EXCEPT ![wy][wx] = virt[wy][wx]]
  BY <1>a, Zenon DEF PutCorner, Noted
<1>10. Steps'
  BY <1>a, <1>w DEF RInv, Steps, InLine
<1>13. CASE pc' = "done"
  <2>1. ASSUME ~curwin, NEW y \in Rows, NEW x \in Cols
        PROVE  /\ Drawn(y, x)' => virt[y][x] = cur'[y][x] \/ Exempt(y, x)
               /\ Ahead(y)' => Ahead(y) /\ cur'[y] = cur[y] /\ line'[y] = line[y]
    <3>1. ~Ahead(y)'
      BY <1>0, <1>b, <1>a, <1>13 DEF Ahead
    <3>3. Drawn(y, x)' => Drawn(y, x) \/ (y = wy /\ x = wx)
      BY <1>0, <1>a, <1>b DEF Drawn
    <3>4. Drawn(y, x) => Settled(y, x)
      BY <1>a DEF RInv, RecordInv
    <3>5. CASE ScrollWin
      BY <1>2, <1>b, <3>1, <3>3, <3>4, <3>5 DEF Settled, Exempt
    <3>6. CASE ~ScrollWin
      <4>1. cur'[y][x] = IF y = wy /\ x = wx THEN virt[y][x] ELSE cur[y][x]
        BY <1>0, <1>b, <1>2, <3>6 DEF Screen
      <4> QED
        BY <3>1, <3>3, <3>4, <4>1 DEF Settled
    <3> QED
      BY <3>5, <3>6
  <2> QED
    BY <1>13, <1>a, <1>10, <2>1, BusyRecord
<1>14. CASE pc' = "crashed"
  BY <1>10, <1>14 DEF RInv, RecordInv
<1> QED
  BY <1>a, <1>13, <1>14

\* A line that is done; with input waiting the update ends here.
LEMMA LineDoneRecord ==
  ASSUME RInv, TypeInv', LineDone
  PROVE  RInv'
<1>0. /\ L \in Nat \ {0} /\ W \in Nat \ {0} /\ Rows = 0 .. L - 1 /\ Cols = 0 .. W - 1
      /\ wx \in 0 .. W /\ wy \in 0 .. L /\ lch \in 0 .. W - 1
      /\ line \in [Rows -> LineRecord]
  BY Now
<1>b. wy \in Rows
  BY <1>0 DEF RInv, TypeInv, LineDone
<1>a. /\ pc = "done" \/ (pc = "scan" /\ wx > lch)
      /\ pc' \in {"line", "idle"} /\ wy' = wy + 1 /\ line' = Reset(wy)
      /\ UNCHANGED <<tty, virt, vclear, cur, curwin>>
  BY DEF LineDone
<1>w. Rows' = Rows /\ Cols' = Cols /\ L' = L /\ W' = W
  BY <1>a, Same
<1>1. \A y \in Rows : y # wy => line'[y] = line[y]
  BY <1>0, <1>a DEF Reset, Synced
<1>2. ASSUME ~curwin, NEW y \in Rows, NEW x \in Cols
      PROVE  /\ y < wy + 1 => Settled(y, x)
             /\ y >= wy + 1 => y # wy /\ Ahead(y) /\ (Settled(y, x) \/ InRange(y, x))
  <2>1. y < wy + 1 => Drawn(y, x)
    BY <1>0, <1>a DEF Drawn
  <2>2. y >= wy + 1 => Ahead(y) /\ y # wy
    BY <1>0, <1>a DEF Ahead
  <2>3. (Drawn(y, x) => Settled(y, x)) /\ (Ahead(y) => Settled(y, x) \/ InRange(y, x))
    BY <1>2, <1>a DEF RInv, RecordInv
  <2> QED
    BY <2>1, <2>2, <2>3
<1>3. CASE pc' = "line"
  <2>1. Steps'
    BY <1>3 DEF Steps, InLine
  <2>2. ASSUME ~curwin, NEW y \in Rows, NEW x \in Cols
        PROVE  /\ Drawn(y, x)' => virt[y][x] = cur'[y][x] \/ Exempt(y, x)
               /\ Ahead(y)' => Ahead(y) /\ cur'[y] = cur[y] /\ line'[y] = line[y]
    <3>1. Drawn(y, x)' => y < wy + 1
      BY <1>3, <1>a DEF Drawn
    <3>2. Ahead(y)' => y >= wy + 1
      BY <1>0, <1>3, <1>a DEF Ahead
    <3> QED
      BY <1>1, <1>2, <1>a, <2>2, <3>1, <3>2 DEF Settled
  <2> QED
    BY <1>3, <1>a, <2>1, <2>2, BusyRecord
<1>4. CASE pc' = "idle"
  <2>1. ASSUME NEW y \in Rows, NEW x \in Cols
        PROVE  virt'[y][x] = cur'[y][x] \/ Exempt(y, x) \/ vclear'
               \/ (line'[y].dirty /\ line'[y].first <= x /\ x <= line'[y].last)
    <3>1. CASE curwin
      BY <1>a, <3>1 DEF RInv, RecordInv, Settled
    <3>2. CASE ~curwin
      <4>1. y < wy + 1 \/ y >= wy + 1
        BY <1>0
      <4> QED
        BY <1>1, <1>2, <1>a, <3>2, <4>1 DEF Settled, InRange
    <3> QED
      BY <3>1, <3>2
  <2> QED
    BY <1>4, <1>a, <2>1, IdleRecord
<1> QED
  BY <1>a, <1>3, <1>4

\* An update that has gone through all lines has nothing left to draw.
LEMMA AllDrawn ==
  ASSUME RInv, pc = "line", wy = L
  PROVE  /\ ~curwin => \A y \in Rows, x \in Cols : Settled(y, x)
         /\ curwin => \A y \in Rows, x \in Cols : Settled(y, x) \/ vclear
<1>0. L \in Nat \ {0} /\ Rows = 0 .. L - 1
  BY Now
<1>1. \A y \in Rows, x \in Cols : Drawn(y, x)
  BY <1>0 DEF Drawn
<1> QED
  BY <1>1 DEF RInv, RecordInv

LEMMA FinishRecord ==
  ASSUME RInv, TypeInv', Finish
  PROVE  RInv'
<1>a. pc = "line" /\ wy = L /\ pc' = "idle" /\ UNCHANGED <<tty, virt, vclear, cur>>
  BY DEF Finish
<1>1. \A y \in Rows, x \in Cols : Settled(y, x) \/ vclear
  BY <1>a, AllDrawn
<1> QED
  BY <1>a, <1>1, IdleRecord DEF Settled

LEMMA RecordStep ==
  ASSUME ~RedrawPending, RInv, [Next]_vars
  PROVE  RInv'
<1>0. TypeInv'
  BY TypeStep DEF RInv
<1>1. CASE Program
  BY <1>0, <1>1, ProgramRecord
<1>2. CASE Update
  <2>1. \/ \E redraw \in BOOLEAN : Begin(redraw)
        \/ QuickChange \/ SkipLine \/ StartLine \/ SkipCell \/ GoTo
        \/ ClearRest \/ KeepRest \/ PutCell \/ PutCorner \/ EndRun
        \/ LineDone \/ Finish
    BY <1>2, Zenon DEF Update
  <2> QED
    BY <1>0, <2>1, BeginRecord, QuickRecord, SkipLineRecord, StartLineRecord, SkipCellRecord,
       QuietRecord, ClearRestRecord, PutCellRecord, PutCornerRecord, LineDoneRecord, FinishRecord
<1>3. CASE UNCHANGED vars
  <2>1. /\ UNCHANGED <<tty, virt, line, vclear, cur, pc, wy, wx, lch, ce, curwin>>
    BY <1>3 DEF vars
  <2>w. Rows' = Rows /\ Cols' = Cols /\ L' = L /\ W' = W /\ ScrollWin' = ScrollWin
    BY <2>1, Same
  <2>2. Steps'
    BY <2>1, <2>w DEF RInv, Steps, InLine
  <2>5. RecordInv'
    BY <2>1, <2>w DEF RInv, RecordInv, Settled, Exempt, InRange, Drawn, Ahead
  <2> QED
    BY <1>0, <2>2, <2>5 DEF RInv
<1> QED
  BY <1>1, <1>2, <1>3 DEF Next

\* Between updates a cell of __virtscr that differs from curscr lies in the range
\* of changes its line records, so the next doupdate draws it, unless that is to
\* clear the screen (clearok): on every terminal, after updates given up for typed
\* input and with quickch, in programs that do not call wrefresh(curscr) with
\* changes pending, which clears their records.
THEOREM ChangesCovered ==
  ASSUME ~RedrawPending
  PROVE  Spec => []Covered
<1>1. Init => RInv
  BY InitRecord
<1>2. RInv /\ [Next]_vars => RInv'
  BY RecordStep
<1>3. RInv => Covered
  BY DEF RInv, TypeInv, RecordInv, Settled, InRange, Covered
<1> QED
  BY <1>1, <1>2, <1>3, PTL DEF Spec

-----------------------------------------------------------------------------
(* The operations on the terminal *)

\* DInv and Usual, for use in a step.
LEMMA Here ==
  ASSUME Usual, DInv
  PROVE  RInv /\ Plain(tty)
<1>1. TypeOK
  BY DEF DInv, RInv, TypeInv
<1> QED
  BY <1>1 DEF DInv, Usual, TypeOK

\* No line is marked __ISPASTEOL while the cursor stays before the last column.
LEMMA PastStays ==
  ASSUME Usual, DInv, NEW o, NEW n
  PROVE  PastCleared(o, n) = line
<1>1. line \in [Rows -> LineRecord] /\ \A y \in Rows : ~line[y].past
  BY Here, Now DEF DInv, CursorInv
<1>2. ASSUME NEW y \in Rows PROVE [line[y] EXCEPT !.past = FALSE] = line[y]
  <2>1. PICK r \in LineRecord : r = line[y] /\ r.past = FALSE
    BY <1>1 DEF LineRecord
  <2>2. [r EXCEPT !.past = FALSE] = r
    BY <2>1 DEF LineRecord
  <2> QED
    BY <2>1, <2>2
<1>3. line = [y \in Rows |-> line[y]]
  BY <1>1
<1> QED
  BY <1>2, <1>3 DEF PastCleared

\* A motion from where the cursor is, or one that does not start in the place
\* it goes to, gets there; what it prints is on curscr to the left of it.
LEMMA GoodMove ==
  ASSUME Usual, DInv, NEW n \in Rows \X Cols, NEW m \in Moves(term, tpos, at, n),
         tpos = at \/ (Off /\ at # n)
  PROVE  /\ m.pos = n
         /\ \A y \in Rows, x \in Cols :
              m.cell[y][x] = term[y][x] \/ (m.cell[y][x] = cur[y][x] /\ y = n[1] /\ x < n[2])
<1>0. /\ L \in Nat \ {0} /\ W \in Nat \ {0} /\ Rows = 0 .. L - 1 /\ Cols = 0 .. W - 1
      /\ at \in Rows \X Cols /\ term \in Screen
  BY Here, Now
<1>1. CASE m = [cell |-> term, pos |-> tpos] /\ Still(at, n)
  BY <1>1 DEF Still
<1>2. CASE m = [cell |-> term, pos |-> n]
  BY <1>2
<1>3. CASE m = LocalMove(term, tpos, at, n) /\ ~MustAddress(at)
  <2>1. tpos = at
    BY <1>3 DEF Off, MustAddress
  <2>2. PICK oy, ox, ny, nx : /\ at = <<oy, ox>> /\ oy \in Rows /\ ox \in Cols
                              /\ n = <<ny, nx>> /\ ny \in Rows /\ nx \in Cols
    BY <1>0
  <2>3. Limit(oy + ny - oy, L - 1) = ny /\ Limit(ox + nx - ox, W - 1) = nx
    BY <1>0, <2>2 DEF Limit
  <2>4. \A k \in Cols : Limit(k + ox - ox, W - 1) = k
    BY <1>0, <2>2 DEF Limit
  <2>5. PICK row : row = [k \in Cols |-> IF k >= ox /\ k < nx /\ cur[ny][k].colour = 0
                                        THEN cur[ny][k] ELSE term[ny][k]]
    OBVIOUS
  <2>6. m = [cell |-> [term EXCEPT ![ny] = row], pos |-> <<ny, nx>>]
    BY <1>3, <2>1, <2>2, <2>3, <2>4, <2>5 DEF LocalMove
  <2>7. ASSUME NEW y \in Rows, NEW x \in Cols
        PROVE  m.cell[y][x] = term[y][x] \/ (m.cell[y][x] = cur[y][x] /\ y = ny /\ x < nx)
    BY <1>0, <2>2, <2>5, <2>6 DEF Screen
  <2> QED
    BY <2>2, <2>6, <2>7
<1> QED
  BY <1>1, <1>2, <1>3 DEF Moves

\* A character is written into its cell and nothing else moves, except in the
\* corner of a terminal that scrolls.
LEMMA PrintedHere ==
  ASSUME Usual, DInv, NEW y \in Rows, NEW x \in Cols, tpos = <<y, x>>, NEW c,
         ~(y = L - 1 /\ x = W - 1 /\ ScrollWin)
  PROVE  /\ Printed(term, tpos, c).cell = [term EXCEPT ![y][x] = c]
         /\ x < W - 1 => Printed(term, tpos, c).pos = <<y, x + 1>>
         /\ ~tty.am /\ x = W - 1 => Printed(term, tpos, c).pos = <<y, x>>
<1>0. /\ L \in Nat \ {0} /\ W \in Nat \ {0} /\ Rows = 0 .. L - 1 /\ Cols = 0 .. W - 1
      /\ Plain(tty) /\ tty.am \in BOOLEAN /\ tty.insert \in BOOLEAN /\ tty.xenl \in BOOLEAN
  BY Here, Now
<1>1. x # W /\ x \in Nat /\ y \in Nat
  BY <1>0
<1>2. PICK done : done = [term EXCEPT ![y][x] = c]
  OBVIOUS
<1>3. Printed(term, tpos, c) =
        IF x < W - 1 THEN [cell |-> done, pos |-> <<y, x + 1>>]
        ELSE IF ~tty.am THEN [cell |-> done, pos |-> <<y, x>>]
        ELSE IF tty.xenl THEN [cell |-> done, pos |-> <<y, W>>]
        ELSE IF y < L - 1 THEN [cell |-> done, pos |-> <<y + 1, 0>>]
        ELSE [cell |-> ScrollUp(done), pos |-> <<y, 0>>]
  BY <1>1, <1>2 DEF Printed
<1>4. x < W - 1 \/ ~tty.am \/ tty.xenl \/ y < L - 1
  BY <1>0, <1>1 DEF Plain, ScrollWin
<1>5. x = W - 1 => ~(x < W - 1)
  BY <1>0
<1>6. PICK p : p = Printed(term, tpos, c)
  OBVIOUS
<1>7. \/ x < W - 1 /\ p = [cell |-> done, pos |-> <<y, x + 1>>]
      \/ ~(x < W - 1) /\ ~tty.am /\ p = [cell |-> done, pos |-> <<y, x>>]
      \/ ~(x < W - 1) /\ tty.am /\ p = [cell |-> done, pos |-> <<y, W>>]
      \/ ~(x < W - 1) /\ tty.am /\ p = [cell |-> done, pos |-> <<y + 1, 0>>]
  BY <1>3, <1>4, <1>6, Zenon
<1>8. /\ p.cell = done
      /\ x < W - 1 => p.pos = <<y, x + 1>>
      /\ ~tty.am /\ x = W - 1 => p.pos = <<y, x>>
  BY <1>5, <1>7
<1> QED
  BY ONLY <1>2, <1>6, <1>8

\* The steps keep the cursor and the terminal.
LEMMA InitInv ==
  ASSUME Init
  PROVE  DInv
<1>1. RInv
  BY InitRecord
<1>2. CursorInv
  BY DEF Init, CursorInv, Inner, Clean
<1>3. TermInv
  BY DEF Init, TermInv
<1> QED
  BY <1>1, <1>2, <1>3 DEF DInv

LEMMA ProgramInv ==
  ASSUME Usual, DInv, RInv', Program
  PROVE  DInv'
<1>0. L \in Nat \ {0} /\ W \in Nat \ {0} /\ line \in [Rows -> LineRecord]
  BY Here, Now
<1>a. \/ \E y \in Rows, x \in Cols : \E c \in [ch : Glyphs, colour : tty.colours], past \in BOOLEAN :
           Put(y, x, c, past)
      \/ \E y \in Rows, x \in Cols : MoveCursor(y, x)
      \/ \E y \in Rows : ForceLine(y)
      \/ ClearOk
  BY Zenon DEF Program
<1>b. Change
  BY ProgramIs
<1>c. /\ tty' = tty /\ pc' = "idle" /\ pc = "idle" /\ term' = term /\ cur' = cur /\ tpos' = tpos
      /\ cpos' = cpos
  BY <1>b DEF Change, terminal, loop
<1>w. Rows' = Rows /\ Cols' = Cols /\ L' = L /\ W' = W /\ ScrollWin' = ScrollWin
  BY <1>c, Same
<1>d. Inner(vpos) /\ Inner(cpos) /\ \A y \in Rows : ~line[y].past
  BY DEF DInv, CursorInv
<1>1. vclear => vclear'
  BY ProgramIs
<1>2. Inner(vpos)'
  <2>1. CASE \E y \in Rows, x \in Cols : MoveCursor(y, x)
    BY <1>w, <2>1 DEF MoveCursor, Inner, Usual
  <2>2. CASE vpos' = vpos
    BY <1>d, <1>w, <2>2 DEF Inner
  <2>3. vpos' = vpos \/ \E y \in Rows, x \in Cols : MoveCursor(y, x)
    BY ProgramIs
  <2> QED
    BY <2>1, <2>2, <2>3
<1>3. \A y \in Rows : ~line'[y].past
  <2>1. ASSUME NEW y \in Rows, NEW x \in Cols, NEW c \in [ch : Glyphs, colour : tty.colours],
               NEW past \in BOOLEAN, Put(y, x, c, past)
        PROVE  \A v \in Rows : ~line'[v].past
    <3>1. ~past
      BY <2>1 DEF Put, Usual
    <3>2. PICK r, f, l : /\ r = line[y] /\ r \in LineRecord
                         /\ f = (IF r.first > x THEN x ELSE r.first)
                         /\ l = IF r.last < x THEN x ELSE r.last
      BY <1>0
    <3>3. PICK s : s = [r EXCEPT !.dirty = TRUE, !.past = past, !.first = f, !.last = l]
      OBVIOUS
    <3>4. s.past = past
      BY <3>2, <3>3 DEF LineRecord
    <3>5. line' = [line EXCEPT ![y] = s]
      BY <1>0, <2>1, <3>2, <3>3 DEF Put
    <3> QED
      BY <1>0, <1>d, <3>1, <3>4, <3>5
  <2>2. ASSUME NEW y \in Rows, ForceLine(y)
        PROVE  \A v \in Rows : ~line'[v].past
    <3>1. PICK r : r = line[y] /\ r \in LineRecord
      BY <1>0
    <3>2. PICK s : s = [AllDirty(r) EXCEPT !.forced = TRUE]
      OBVIOUS
    <3>3. s.past = r.past
      BY <3>1, <3>2 DEF LineRecord, AllDirty
    <3>4. line' = [line EXCEPT ![y] = s]
      BY <1>0, <2>2, <3>1, <3>2 DEF ForceLine
    <3> QED
      BY <1>0, <1>d, <3>1, <3>3, <3>4
  <2>3. \/ line' = line
        \/ \E y \in Rows : ForceLine(y)
        \/ \E y \in Rows, x \in Cols : \E c \in [ch : Glyphs, colour : tty.colours], past \in BOOLEAN :
             Put(y, x, c, past)
    BY <1>a DEF MoveCursor, ClearOk
  <2> QED
    BY <1>d, <2>1, <2>2, <2>3
<1>4. Inner(cpos)'
  BY <1>c, <1>d, <1>w DEF Inner
<1>5. CursorInv'
  BY <1>1, <1>2, <1>3, <1>4, <1>c, <1>w DEF DInv, CursorInv
<1>6. TermInv'
  BY <1>1, <1>c, <1>w DEF DInv, TermInv, Exempt
<1> QED
  BY <1>5, <1>6 DEF DInv

-----------------------------------------------------------------------------
(* The start of an update *)

LEMMA BeginInv ==
  ASSUME Usual, DInv, RInv', NEW redraw \in BOOLEAN, Begin(redraw)
  PROVE  DInv'
<1>0. /\ L \in Nat \ {0} /\ W \in Nat \ {0} /\ Rows = 0 .. L - 1 /\ Cols = 0 .. W - 1
      /\ virt \in Screen /\ line \in [Rows -> LineRecord] /\ vclear \in BOOLEAN
  BY Here, Now
<1>a. /\ tty' = tty /\ pc = "idle" /\ curwin' = redraw /\ wy' = 0
      /\ vclear' = (redraw /\ vclear) /\ virt' = virt /\ vpos' = vpos
      /\ pc' = (IF redraw \/ tty.noqch THEN "line" ELSE "quick")
  BY DEF Begin
<1>w. /\ Rows' = Rows /\ Cols' = Cols /\ L' = L /\ W' = W /\ ScrollWin' = ScrollWin
      /\ pc' \notin {"idle", "crashed", "scan", "put", "done"}
  BY <1>a, Same
<1>d. /\ Inner(vpos) /\ Inner(cpos) /\ \A y \in Rows : ~line[y].past
      /\ ~vclear => tpos = cpos
      /\ ~vclear => \A y \in Rows, x \in Cols : term[y][x] = cur[y][x] \/ Exempt(y, x)
  BY <1>a DEF DInv, CursorInv, TermInv
<1>e. \A y \in Rows, x \in Cols : Filled(Blank)[y][x] = Blank
  BY DEF Filled
<1>2. tpos' = at' /\ Inner(cpos)' /\ Inner(vpos)' /\ \A y \in Rows : ~line'[y].past
  <2>1. tpos' = at' /\ cpos' \in {cpos, <<0, 0>>}
    BY <1>0, <1>d DEF Begin
  <2>2. \A y \in Rows : line'[y].past = line[y].past
    <3>1. \A y \in Rows : AllDirty(line[y]).past = line[y].past
      BY <1>0 DEF LineRecord, AllDirty
    <3> QED
      BY <3>1 DEF Begin
  <2>3. Inner(cpos)' /\ Inner(vpos)'
    BY <1>a, <1>d, <1>w, <2>1 DEF Inner
  <2> QED
    BY <1>d, <2>1, <2>2, <2>3
<1>3. CursorInv'
  BY <1>w, <1>2 DEF CursorInv
<1>4. \A y \in Rows, x \in Cols : term'[y][x] = (IF redraw THEN Blank ELSE cur'[y][x]) \/ Exempt(y, x)
  <2>1. CASE vclear \/ redraw
    <3>1. term' = Filled(Blank) /\ (~redraw => cur' = Filled(Blank))
      BY <2>1 DEF Begin
    <3> QED
      BY <1>e, <3>1
  <2>2. CASE ~(vclear \/ redraw)
    <3>1. term' = term /\ cur' = cur
      BY <2>2 DEF Begin
    <3> QED
      BY <1>d, <2>2, <3>1
  <2> QED
    BY <2>1, <2>2
<1>5. TermInv'
  <2>1. \A y \in Rows, x \in Cols : Undrawn(y, x)' <=> redraw
    BY <1>0, <1>a, <1>w DEF Undrawn
  <2> QED
    BY <1>4, <1>w, <2>1 DEF TermInv, Exempt
<1> QED
  BY <1>3, <1>5 DEF DInv

LEMMA QuickInv ==
  ASSUME Usual, DInv, RInv', QuickChange
  PROVE  DInv'
<1>0. /\ TypeOK /\ L \in Nat \ {0} /\ W \in Nat \ {0} /\ Rows = 0 .. L - 1 /\ Cols = 0 .. W - 1
      /\ virt \in Screen /\ cur \in Screen /\ term \in Screen /\ line \in [Rows -> LineRecord]
      /\ Plain(tty)
  BY Here, Now
<1>a. /\ tty' = tty /\ pc = "quick" /\ pc' = "line" /\ ~curwin /\ ~curwin' /\ wy = 0 /\ wy' = 0
      /\ ~tty.noqch
      /\ UNCHANGED <<virt, vpos, vclear, cpos, tpos, at>>
  BY DEF QuickChange, DInv, RInv, Steps
<1>w. Rows' = Rows /\ Cols' = Cols /\ L' = L /\ W' = W /\ ScrollWin' = ScrollWin
  BY <1>a, Same
<1>b. ~ScrollWin
  BY <1>0, <1>a DEF Plain, ScrollWin
<1>d. /\ Inner(vpos) /\ Inner(cpos) /\ tpos = at /\ \A y \in Rows : ~line[y].past
      /\ \A y \in Rows, x \in Cols : term[y][x] = cur[y][x]
  BY <1>a, <1>b DEF DInv, CursorInv, TermInv, Exempt, Undrawn
<1>e. term = cur
  <2>1. ASSUME NEW y \in Rows PROVE term[y] = cur[y]
    <3>1. term[y] \in [Cols -> Cell] /\ cur[y] \in [Cols -> Cell]
      BY <1>0 DEF Screen
    <3> QED
      BY <1>d, <3>1
  <2>2. term \in [Rows -> [Cols -> Cell]] /\ cur \in [Rows -> [Cols -> Cell]]
    BY <1>0 DEF Screen
  <2> QED
    BY <2>1, <2>2
<1>1. PICK dirty : dirty = [y \in Rows |-> line[y].dirty]
  OBVIOUS
<1>2. PICK q : q = Quickch(virt, cur, term, dirty)
  OBVIOUS
<1>3. q.term = q.cur
  BY <1>0, <1>2, <1>e, QuickchIs
<1>4. \/ UNCHANGED <<cur, term, line>>
      \/ /\ cur' = q.cur /\ term' = q.term
         /\ line' = [y \in Rows |-> IF y \in q.clean THEN [line[y] EXCEPT !.dirty = FALSE]
                                    ELSE IF y \in q.touched THEN AllDirty(line[y])
                                    ELSE line[y]]
  BY <1>1, <1>2 DEF QuickChange
<1>5. term' = cur'
  BY <1>3, <1>4, <1>e
<1>6. ASSUME NEW y \in Rows
      PROVE  ~line'[y].past
  <2>1. PICK r \in LineRecord : r = line[y]
    BY <1>0
  <2>2. ~[r EXCEPT !.dirty = FALSE].past /\ ~AllDirty(r).past
    BY <1>d, <2>1 DEF LineRecord, AllDirty
  <2>3. line'[y] \in {r, [r EXCEPT !.dirty = FALSE], AllDirty(r)}
    BY <1>4, <2>1
  <2> QED
    BY <1>d, <2>1, <2>2, <2>3
<1>8. CursorInv'
  BY <1>6, <1>a, <1>d, <1>w DEF CursorInv, Inner
<1>9. TermInv'
  BY <1>5, <1>a DEF TermInv, Undrawn
<1> QED
  BY <1>8, <1>9 DEF DInv

-----------------------------------------------------------------------------
(* The loops *)

\* DInv within an update, and what a step within it has to show.
LEMMA Amid ==
  ASSUME DInv, pc \in {"line", "scan", "put", "done"}
  PROVE  /\ Inner(vpos) /\ Inner(cpos) /\ \A y \in Rows : ~line[y].past
         /\ \A y \in Rows, x \in Cols :
              term[y][x] = (IF Undrawn(y, x) THEN Blank ELSE cur[y][x]) \/ Exempt(y, x)
  BY DEF DInv, CursorInv, TermInv

\* And what it takes for it to be kept.
LEMMA AmidNext ==
  ASSUME DInv, RInv', pc \in {"line", "scan", "put", "done"},
         pc' \in {"line", "scan", "put", "done"},
         UNCHANGED <<tty, vpos, cpos>>,
         \A y \in Rows : ~line'[y].past,
         pc' = "line" => tpos' = at' \/ (Off' /\ at'[1] < wy'),
         pc' = "scan" => tpos' = at' \/ (Off' /\ (at'[1] < wy' \/ (at'[1] = wy' /\ wx' = W))),
         pc' = "put" => at'[1] = wy' /\ (wx' < W => tpos' = <<wy', wx'>>),
         pc' = "done" => tpos' = at' \/ (Off' /\ at'[1] <= wy'),
         \A y \in Rows, x \in Cols :
           term'[y][x] = (IF Undrawn(y, x)' THEN Blank ELSE cur'[y][x]) \/ Exempt(y, x)
  PROVE  DInv'
<1>0. Rows' = Rows /\ Cols' = Cols /\ L' = L /\ W' = W /\ ScrollWin' = ScrollWin
  BY Same
<1>1. CursorInv'
  BY <1>0, Amid DEF CursorInv, Inner
<1>2. TermInv'
  BY <1>0 DEF TermInv, Exempt
<1> QED
  BY <1>1, <1>2 DEF DInv

LEMMA SkipLineInv ==
  ASSUME Usual, DInv, RInv', SkipLine
  PROVE  DInv'
<1>0. /\ L \in Nat \ {0} /\ W \in Nat \ {0} /\ Rows = 0 .. L - 1 /\ Cols = 0 .. W - 1
      /\ line \in [Rows -> LineRecord] /\ wy \in Rows /\ at \in Rows \X Cols
  BY Here, Now DEF SkipLine
<1>a. /\ pc = "line" /\ pc' = "line" /\ ~curwin /\ ~line[wy].dirty /\ wy' = wy + 1
      /\ UNCHANGED <<tty, virt, vpos, vclear, cur, cpos, term, tpos, at, curwin>>
  BY Zenon DEF SkipLine, NeedsWork, terminal
<1>w. Rows' = Rows /\ Cols' = Cols /\ L' = L /\ W' = W
  BY <1>a, Same
<1>1. \A y \in Rows : line'[y].past = line[y].past /\ (y # wy => line'[y] = line[y])
  <2>1. PICK r \in LineRecord : r = line[wy]
    BY <1>0
  <2>2. PICK s : s = [r EXCEPT !.first = W, !.last = 0]
    OBVIOUS
  <2>3. s.past = r.past
    BY <2>2 DEF LineRecord
  <2>4. line' = [line EXCEPT ![wy] = s]
    BY <1>0, <2>1, <2>2 DEF SkipLine, Synced
  <2> QED
    BY <1>0, <2>1, <2>3, <2>4
<1>2. \A y \in Rows : ~line'[y].past
  BY <1>1, <1>a, Amid
<1>4. tpos' = at' \/ (Off' /\ at'[1] < wy')
  <2>1. tpos = at \/ (Off /\ at[1] < wy)
    BY <1>a DEF DInv, CursorInv
  <2> QED
    BY <1>0, <1>a, <1>w, <2>1 DEF Off
<1>5. \A y \in Rows, x \in Cols :
         term'[y][x] = (IF Undrawn(y, x)' THEN Blank ELSE cur'[y][x]) \/ Exempt(y, x)
  BY <1>a, Amid DEF Undrawn
<1> QED
  BY <1>a, <1>2, <1>4, <1>5, AmidNext

LEMMA StartLineInv ==
  ASSUME Usual, DInv, RInv', StartLine
  PROVE  DInv'
<1>0. /\ L \in Nat \ {0} /\ W \in Nat \ {0} /\ Rows = 0 .. L - 1 /\ Cols = 0 .. W - 1
      /\ line \in [Rows -> LineRecord] /\ wy \in Rows /\ at \in Rows \X Cols
  BY Here, Now DEF StartLine
<1>a. /\ pc = "line" /\ wy' = wy /\ wx' = First(wy) /\ lch' = Last(wy)
      /\ pc' = (IF First(wy) >= W THEN "done" ELSE "scan")
      /\ ce' = (tty.el > 0 /\ ~curwin)
      /\ UNCHANGED <<tty, virt, line, vpos, vclear, cur, cpos, term, tpos, at, curwin>>
  BY DEF StartLine, terminal, window
<1>w. Rows' = Rows /\ Cols' = Cols /\ L' = L /\ W' = W
  BY <1>a, Same
<1>1. PICK f, l \in 0 .. W : f = line[wy].first /\ l = line[wy].last
  BY <1>0 DEF LineRecord
<1>2. /\ curwin => wx' = 0 /\ lch' = W - 1 /\ pc' = "scan"
      /\ ~curwin => wx' = f /\ lch' = (IF l > W - 1 THEN W - 1 ELSE l)
      /\ ~curwin /\ pc' = "done" => f = W
  <2>1. curwin => First(wy) = 0 /\ Last(wy) = W - 1
    BY DEF First, Last
  <2>2. ~curwin => First(wy) = f /\ Last(wy) = (IF l > W - 1 THEN W - 1 ELSE l)
    BY <1>1 DEF First, Last
  <2>3. f >= W => f = W
    BY <1>0, <1>1
  <2>4. curwin => wx' = 0 /\ lch' = W - 1 /\ pc' = "scan"
    BY <1>0, <1>a, <2>1
  <2>5. ~curwin => wx' = f /\ lch' = (IF l > W - 1 THEN W - 1 ELSE l)
    BY <1>a, <2>2
  <2>6. ~curwin /\ pc' = "done" => f = W
    BY <1>a, <2>2, <2>3
  <2> QED
    BY ONLY <2>4, <2>5, <2>6
<1>3. \A y \in Rows : ~line'[y].past
  BY <1>a, Amid
<1>5. tpos' = at' \/ (Off' /\ at'[1] < wy')
  <2>1. tpos = at \/ (Off /\ at[1] < wy)
    BY <1>a DEF DInv, CursorInv
  <2> QED
    BY <1>a, <1>w, <2>1 DEF Off
<1>c. at'[1] < wy' => at'[1] <= wy'
  BY <1>0, <1>a
<1>6. \A y \in Rows, x \in Cols :
         term'[y][x] = (IF Undrawn(y, x)' THEN Blank ELSE cur'[y][x]) \/ Exempt(y, x)
  <2> TAKE y \in Rows, x \in Cols
  <2>1. Undrawn(y, x)' <=> Undrawn(y, x)
    BY <1>0, <1>a, <1>2 DEF Undrawn
  <2> QED
    BY <1>a, <2>1, Amid
<1> QED
  BY <1>a, <1>c, <1>3, <1>5, <1>6, AmidNext

LEMMA SkipCellInv ==
  ASSUME Usual, DInv, RInv', SkipCell
  PROVE  DInv'
<1>0. /\ L \in Nat \ {0} /\ W \in Nat \ {0} /\ Rows = 0 .. L - 1 /\ Cols = 0 .. W - 1
      /\ wy \in 0 .. L /\ wx \in 0 .. W /\ lch \in 0 .. W - 1 /\ at \in Rows \X Cols
  BY Here, Now
<1>a. /\ pc = "scan" /\ pc' = "scan" /\ wy' = wy /\ wx' = wx + 1 /\ wx <= lch /\ ~Differs
      /\ UNCHANGED <<tty, virt, line, vpos, vclear, cur, cpos, term, tpos, at, curwin, ce, lch>>
  BY DEF SkipCell, terminal, window
<1>w. Rows' = Rows /\ Cols' = Cols /\ L' = L /\ W' = W
  BY <1>a, Same
<1>1. Source[wy][wx] = OnScreen(wy, wx)
  BY <1>a DEF Differs
<1>2. \A y \in Rows : ~line'[y].past
  BY <1>a, Amid
<1>4. tpos' = at' \/ (Off' /\ (at'[1] < wy' \/ (at'[1] = wy' /\ wx' = W)))
  <2>1. tpos = at \/ (Off /\ (at[1] < wy \/ (at[1] = wy /\ wx = W)))
    BY <1>a DEF DInv, CursorInv
  <2>2. wx # W
    BY <1>0, <1>a
  <2> QED
    BY <1>a, <1>w, <2>1, <2>2 DEF Off
<1>5. \A y \in Rows, x \in Cols :
         term'[y][x] = (IF Undrawn(y, x)' THEN Blank ELSE cur'[y][x]) \/ Exempt(y, x)
  <2> TAKE y \in Rows, x \in Cols
  <2>1. Undrawn(y, x)' => Undrawn(y, x)
    BY <1>0, <1>a DEF Undrawn
  <2>2. ~Undrawn(y, x)' /\ Undrawn(y, x) => curwin /\ y = wy /\ x = wx
    BY <1>0, <1>a DEF Undrawn
  <2>3. curwin => cur[wy][wx] = Blank
    BY <1>1 DEF Source, OnScreen
  <2> QED
    BY <1>a, <2>1, <2>2, <2>3, Amid
<1> QED
  BY <1>a, <1>2, <1>4, <1>5, AmidNext

LEMMA GoToInv ==
  ASSUME Usual, DInv, RInv', GoTo
  PROVE  DInv'
<1>0. /\ L \in Nat \ {0} /\ W \in Nat \ {0} /\ Rows = 0 .. L - 1 /\ Cols = 0 .. W - 1
      /\ at \in Rows \X Cols
  BY Here, Now
<1>b. wy \in Rows /\ wx \in Cols
  BY DifferIn DEF DInv, RInv, GoTo
<1>a. /\ pc = "scan" /\ pc' = "put" /\ at' = <<wy, wx>>
      /\ UNCHANGED <<tty, virt, vpos, vclear, cur, cpos, wy, wx, curwin, ce, lch>>
  BY DEF GoTo
<1>w. Rows' = Rows /\ Cols' = Cols /\ L' = L /\ W' = W
  BY <1>a, Same
<1>1. line' = line
  BY PastStays DEF GoTo
<1>2. PICK m \in Moves(term, tpos, at, <<wy, wx>>) : term' = m.cell /\ tpos' = m.pos
  BY DEF GoTo
<1>3. tpos = at \/ (Off /\ at # <<wy, wx>>)
  <2>1. tpos = at \/ (Off /\ (at[1] < wy \/ (at[1] = wy /\ wx = W)))
    BY <1>a DEF DInv, CursorInv
  <2>2. ~(wy < wy) /\ wx # W
    BY <1>0, <1>b
  <2> QED
    BY <2>1, <2>2
<1>4. /\ m.pos = <<wy, wx>>
      /\ \A y \in Rows, x \in Cols :
              m.cell[y][x] = term[y][x] \/ (m.cell[y][x] = cur[y][x] /\ y = wy /\ x < wx)
  <2>1. PICK n \in Rows \X Cols : n = <<wy, wx>>
    BY <1>b
  <2>2. m \in Moves(term, tpos, at, n) /\ (tpos = at \/ (Off /\ at # n))
    BY <1>3, <2>1
  <2>3. /\ m.pos = n
        /\ \A y \in Rows, x \in Cols :
              m.cell[y][x] = term[y][x] \/ (m.cell[y][x] = cur[y][x] /\ y = n[1] /\ x < n[2])
    BY <2>2, GoodMove
  <2> QED
    BY <2>1, <2>3
<1>5. \A y \in Rows : ~line'[y].past
  BY <1>1, <1>a, Amid
<1>7. at'[1] = wy' /\ (wx' < W => tpos' = <<wy', wx'>>)
  BY <1>2, <1>4, <1>a
<1>8. \A y \in Rows, x \in Cols :
         term'[y][x] = (IF Undrawn(y, x)' THEN Blank ELSE cur'[y][x]) \/ Exempt(y, x)
  <2> TAKE y \in Rows, x \in Cols
  <2>1. Undrawn(y, x)' <=> Undrawn(y, x)
    BY <1>a DEF Undrawn
  <2>2. y = wy /\ x < wx => ~Undrawn(y, x)
    BY <1>0, <1>a, <1>b DEF Undrawn
  <2>3. term[y][x] = (IF Undrawn(y, x) THEN Blank ELSE cur[y][x]) \/ Exempt(y, x)
    BY <1>a, Amid
  <2> QED
    BY <1>2, <1>4, <1>a, <2>1, <2>2, <2>3
<1> QED
  BY <1>a, <1>5, <1>7, <1>8, AmidNext

LEMMA KeepRestInv ==
  ASSUME Usual, DInv, RInv', KeepRest
  PROVE  DInv'
<1>a. /\ pc = "put" /\ pc' = "put" /\ ~ce'
      /\ UNCHANGED <<tty, virt, line, vpos, vclear, cur, cpos, term, tpos, at, wy, wx, curwin, lch>>
  BY DEF KeepRest, terminal, window
<1>w. Rows' = Rows /\ Cols' = Cols /\ L' = L /\ W' = W
  BY <1>a, Same
<1>2. \A y \in Rows : ~line'[y].past
  BY <1>a, Amid
<1>4. at'[1] = wy' /\ (wx' < W => tpos' = <<wy', wx'>>)
  BY <1>a DEF DInv, CursorInv
<1>5. \A y \in Rows, x \in Cols :
         term'[y][x] = (IF Undrawn(y, x)' THEN Blank ELSE cur'[y][x]) \/ Exempt(y, x)
  BY <1>a, Amid DEF Undrawn
<1> QED
  BY <1>a, <1>2, <1>4, <1>5, AmidNext

LEMMA EndRunInv ==
  ASSUME Usual, DInv, RInv', EndRun
  PROVE  DInv'
<1>0. /\ L \in Nat \ {0} /\ W \in Nat \ {0} /\ Rows = 0 .. L - 1 /\ Cols = 0 .. W - 1
      /\ wx \in 0 .. W /\ at \in Rows \X Cols /\ tty.am \in BOOLEAN
  BY Here, Now
<1>a. /\ pc = "put" /\ pc' = "scan" /\ at' = <<at[1], Clamped(wx)>>
      /\ UNCHANGED <<tty, virt, vpos, vclear, cur, cpos, term, wy, wx, curwin, ce, lch>>
  BY Zenon DEF EndRun, terminal
<1>w. Rows' = Rows /\ Cols' = Cols /\ L' = L /\ W' = W
  BY <1>a, Same
<1>1. line' = line
  BY PastStays DEF EndRun
<1>2. \A y \in Rows : ~line'[y].past
  BY <1>1, <1>a, Amid
<1>4. tpos' = at' \/ (Off' /\ (at'[1] < wy' \/ (at'[1] = wy' /\ wx' = W)))
  <2>1. at[1] = wy /\ (wx < W => tpos = <<wy, wx>>) /\ wy \in Rows
    BY <1>0, <1>a DEF DInv, CursorInv
  <2>2. CASE wx < W
    <3>1. Clamped(wx) = wx
      BY <2>2 DEF Clamped
    <3>2. tpos' = tpos
      BY <2>2 DEF EndRun, terminal
    <3> QED
      BY <1>a, <2>1, <2>2, <3>1, <3>2
  <2>3. CASE wx = W
    <3>1. at' = <<wy, W - 1>> /\ ~(wx < W)
      BY <1>0, <1>a, <2>1, <2>3 DEF Clamped
    <3>2. CASE tty.am
      BY <1>a, <1>w, <2>3, <3>1, <3>2 DEF Off
    <3>3. CASE ~tty.am
      <4>1. tpos' = <<IF wy = L - 1 THEN Limit(L - 2, L - 1) ELSE wy, W - 1>>
        BY <2>1, <3>1, <3>3 DEF EndRun
      <4>2. L = 1 => Limit(L - 2, L - 1) = 0
        BY DEF Limit
      <4>3. wy # L - 1 \/ L = 1 => tpos' = at'
        BY <2>1, <3>1, <4>1, <4>2
      <4>4. wy = L - 1 /\ L # 1 => Off'
        BY <1>0, <1>w, <3>1 DEF Off
      <4> QED
        BY <1>a, <2>3, <3>1, <4>3, <4>4
    <3> QED
      BY <3>2, <3>3
  <2> QED
    BY <1>0, <2>2, <2>3
<1>5. \A y \in Rows, x \in Cols :
         term'[y][x] = (IF Undrawn(y, x)' THEN Blank ELSE cur'[y][x]) \/ Exempt(y, x)
  BY <1>a, Amid DEF Undrawn
<1> QED
  BY <1>a, <1>2, <1>4, <1>5, AmidNext

LEMMA LineDoneInv ==
  ASSUME Usual, DInv, RInv', LineDone
  PROVE  DInv'
<1>0. /\ L \in Nat \ {0} /\ W \in Nat \ {0} /\ Rows = 0 .. L - 1 /\ Cols = 0 .. W - 1
      /\ wx \in 0 .. W /\ wy \in 0 .. L /\ lch \in 0 .. W - 1 /\ at \in Rows \X Cols
      /\ line \in [Rows -> LineRecord]
  BY Here, Now
<1>b. wy \in Rows
  BY <1>0 DEF DInv, RInv, TypeInv, LineDone
<1>a. /\ pc = "done" \/ (pc = "scan" /\ wx > lch)
      /\ pc' = "line" /\ wy' = wy + 1 /\ line' = Reset(wy)
      /\ UNCHANGED <<tty, virt, vpos, vclear, cur, cpos, term, tpos, at, wx, curwin, ce, lch>>
  BY DEF LineDone, terminal, Usual
<1>w. Rows' = Rows /\ Cols' = Cols /\ L' = L /\ W' = W
  BY <1>a, Same
<1>1. \A y \in Rows : line'[y].past = line[y].past /\ (y # wy => line'[y] = line[y])
  <2>1. PICK r \in LineRecord : r = line[wy]
    BY <1>0, <1>b
  <2>2. PICK s, t : s = [r EXCEPT !.first = W, !.last = 0] /\ t = [Clean EXCEPT !.past = r.past]
    OBVIOUS
  <2>3. s.past = r.past /\ t.past = r.past
    BY <2>2 DEF LineRecord, Clean
  <2>4. line' = [line EXCEPT ![wy] = s] \/ line' = [line EXCEPT ![wy] = t]
    BY <1>0, <1>a, <1>b, <2>1, <2>2 DEF Reset, Synced
  <2> QED
    BY <1>0, <1>b, <2>1, <2>3, <2>4
<1>2. \A y \in Rows : ~line'[y].past
  BY <1>1, <1>a, Amid
<1>4. tpos' = at' \/ (Off' /\ at'[1] < wy')
  <2>1. tpos = at \/ (Off /\ (at[1] < wy \/ at[1] = wy \/ at[1] <= wy))
    BY <1>a DEF DInv, CursorInv
  <2>2. at[1] < wy \/ at[1] = wy \/ at[1] <= wy => at[1] < wy + 1
    BY <1>0
  <2> QED
    BY <1>a, <1>w, <2>1, <2>2 DEF Off
<1>5. \A y \in Rows, x \in Cols :
         term'[y][x] = (IF Undrawn(y, x)' THEN Blank ELSE cur'[y][x]) \/ Exempt(y, x)
  <2> TAKE y \in Rows, x \in Cols
  <2>1. curwin => pc = "scan" /\ lch = W - 1
    BY <1>a DEF DInv, RInv, Steps, InLine
  <2>2. Undrawn(y, x)' <=> Undrawn(y, x)
    BY <1>0, <1>a, <2>1 DEF Undrawn
  <2> QED
    BY <1>a, <2>2, Amid
<1> QED
  BY <1>a, <1>2, <1>4, <1>5, AmidNext

\* Clearing to the end of the line leaves it as it is wanted: beyond the last
\* ink curscr is blank already.
LEMMA ClearRestInv ==
  ASSUME Usual, DInv, RInv', ClearRest
  PROVE  DInv'
<1>0. /\ TypeOK /\ L \in Nat \ {0} /\ W \in Nat \ {0} /\ Rows = 0 .. L - 1 /\ Cols = 0 .. W - 1
      /\ at \in Rows \X Cols /\ term \in Screen /\ cur \in Screen
  BY Here, Now
<1>c. RInv /\ ClearRest
  BY DEF DInv
<1>b. wy \in Rows /\ wx \in Cols
  BY DifferIn DEF DInv, RInv, ClearRest
<1>a. /\ pc = "put" /\ pc' = "done" /\ at' = <<at[1], wx>> /\ ~curwin
      /\ UNCHANGED <<tty, virt, line, vpos, vclear, cpos, tpos, wy, wx, curwin, ce, lch>>
  BY DEF ClearRest, AtRest, window, DInv, RInv, Steps, InLine
<1>w. Rows' = Rows /\ Cols' = Cols /\ L' = L /\ W' = W
  BY <1>a, Same
<1>1. at[1] = wy /\ tpos = <<wy, wx>>
  BY <1>0, <1>b, <1>a DEF DInv, CursorInv
<1>2. PICK c : /\ c = [ch |-> Space, colour |-> Lspc]
               /\ \A y \in Rows, x \in Cols :
                    cur'[y][x] = IF y = wy /\ x >= wx THEN c ELSE cur[y][x]
  BY <1>c, Clears
<1>4. term' = [term EXCEPT ![wy] = [x \in Cols |-> IF x >= wx THEN c ELSE term[wy][x]]]
  <2>1. c = [ch |-> Space, colour |-> IF tty.bce THEN Lspc ELSE 0]
    BY <1>2 DEF ClearRest, Worth
  <2> QED
    BY <1>0, <1>1, <1>b, <2>1 DEF ClearRest, Screen
<1>8. \A y \in Rows, x \in Cols :
        term'[y][x] = IF y = wy /\ x >= wx THEN c ELSE term[y][x]
  BY <1>0, <1>4, <1>b DEF Screen
<1>9. \A y \in Rows : ~line'[y].past
  BY <1>a, Amid
<1>11. tpos' = at' \/ (Off' /\ at'[1] <= wy')
  BY <1>1, <1>a
<1>12. \A y \in Rows, x \in Cols :
         term'[y][x] = (IF Undrawn(y, x)' THEN Blank ELSE cur'[y][x]) \/ Exempt(y, x)
  BY <1>2, <1>8, <1>a, Amid DEF Undrawn
<1> QED
  BY <1>a, <1>9, <1>11, <1>12, AmidNext

LEMMA PutCellInv ==
  ASSUME Usual, DInv, RInv', PutCell
  PROVE  DInv'
<1>0. /\ TypeOK /\ L \in Nat \ {0} /\ W \in Nat \ {0} /\ Rows = 0 .. L - 1 /\ Cols = 0 .. W - 1
      /\ at \in Rows \X Cols /\ term \in Screen /\ cur \in Screen
  BY Here, Now
<1>b. wy \in Rows /\ wx \in Cols
  BY DifferIn DEF DInv, RInv, PutCell
<1>a. /\ pc = "put" /\ pc' = "put" /\ wx' = wx + 1 /\ (~IsCorner \/ curwin)
      /\ UNCHANGED <<tty, virt, line, vpos, vclear, cpos, at, wy, curwin, ce, lch>>
  BY DEF PutCell, window
<1>w. Rows' = Rows /\ Cols' = Cols /\ L' = L /\ W' = W
  BY <1>a, Same
<1>1. at[1] = wy /\ tpos = <<wy, wx>>
  BY <1>0, <1>b, <1>a DEF DInv, CursorInv
<1>2. PICK c : c = Source[wy][wx]
  OBVIOUS
<1>3. \/ IsCorner /\ ScrollWin /\ term' = term /\ cur' = cur
      \/ /\ ~(IsCorner /\ ScrollWin)
         /\ term' = [term EXCEPT ![wy][wx] = c]
         /\ wx < W - 1 => tpos' = <<wy, wx + 1>>
         /\ cur' = IF curwin THEN cur ELSE [cur EXCEPT ![wy][wx] = c]
  <2>1. CASE IsCorner /\ ScrollWin
    BY <2>1 DEF PutCell, terminal
  <2>2. CASE ~(IsCorner /\ ScrollWin)
    <3>1. ~(wy = L - 1 /\ wx = W - 1 /\ ScrollWin)
      BY <2>2 DEF IsCorner
    <3>2. /\ Printed(term, tpos, c).cell = [term EXCEPT ![wy][wx] = c]
          /\ wx < W - 1 => Printed(term, tpos, c).pos = <<wy, wx + 1>>
      BY <1>1, <1>b, <3>1, PrintedHere
    <3>3. /\ term' = Printed(term, tpos, c).cell /\ tpos' = Printed(term, tpos, c).pos
          /\ cur' = Noted(cur)
      BY <1>2, <2>2 DEF PutCell
    <3>4. ~curwin => c = virt[wy][wx]
      BY <1>2 DEF Source
    <3> QED
      BY <2>2, <3>2, <3>3, <3>4 DEF Noted
  <2> QED
    BY <2>1, <2>2
<1>4. \A y \in Rows, x \in Cols : ~(y = wy /\ x = wx) =>
        term'[y][x] = term[y][x] /\ cur'[y][x] = cur[y][x]
  BY <1>0, <1>3 DEF Screen
<1>5. Exempt(wy, wx) \/ (term'[wy][wx] = c /\ cur'[wy][wx] = (IF curwin THEN cur[wy][wx] ELSE c))
  BY <1>0, <1>b, <1>3 DEF Screen, Exempt, IsCorner
<1>6. /\ curwin => c = cur[wy][wx] /\ cur' = cur
      /\ ~curwin => c = virt[wy][wx]
  BY <1>2, <1>3 DEF Source
<1>9. \A y \in Rows : ~line'[y].past
  BY <1>a, Amid
<1>11. at'[1] = wy' /\ (wx' < W => tpos' = <<wy', wx'>>)
  <2>1. wx' < W => wx < W - 1 /\ ~IsCorner
    BY <1>0, <1>a, <1>b DEF IsCorner
  <2> QED
    BY <1>1, <1>3, <1>a, <2>1
<1>12. \A y \in Rows, x \in Cols :
         term'[y][x] = (IF Undrawn(y, x)' THEN Blank ELSE cur'[y][x]) \/ Exempt(y, x)
  <2> TAKE y \in Rows, x \in Cols
  <2>1. ~(y = wy /\ x = wx) => (Undrawn(y, x)' <=> Undrawn(y, x))
    BY <1>0, <1>a, <1>b DEF Undrawn
  <2>2. y = wy /\ x = wx => ~Undrawn(y, x)'
    BY <1>0, <1>a, <1>b DEF Undrawn
  <2>3. CASE y = wy /\ x = wx
    BY <1>5, <1>6, <2>2, <2>3
  <2>4. CASE ~(y = wy /\ x = wx)
    <3>1. term[y][x] = (IF Undrawn(y, x) THEN Blank ELSE cur[y][x]) \/ Exempt(y, x)
      BY <1>a, Amid
    <3> QED
      BY <1>4, <2>1, <2>4, <3>1
  <2> QED
    BY <2>3, <2>4
<1> QED
  BY <1>a, <1>6, <1>9, <1>11, <1>12, AmidNext

LEMMA PutCornerInv ==
  ASSUME Usual, DInv, RInv', PutCorner
  PROVE  DInv'
<1>0. /\ TypeOK /\ L \in Nat \ {0} /\ W \in Nat \ {0} /\ Rows = 0 .. L - 1 /\ Cols = 0 .. W - 1
      /\ at \in Rows \X Cols /\ term \in Screen /\ cur \in Screen /\ virt \in Screen
      /\ Plain(tty) /\ tty.am \in BOOLEAN /\ tty.insert \in BOOLEAN
  BY Here, Now
<1>b. wy \in Rows /\ wx \in Cols /\ wy = L - 1 /\ wx = W - 1
  BY DifferIn DEF DInv, RInv, PutCorner, IsCorner
<1>a. /\ pc = "put" /\ pc' \in {"done", "crashed"} /\ ~curwin /\ at' = <<wy, wx>>
      /\ UNCHANGED <<tty, virt, line, vpos, vclear, cpos, wy, wx, curwin, ce, lch>>
  BY <1>b DEF PutCorner, window
<1>w. Rows' = Rows /\ Cols' = Cols /\ L' = L /\ W' = W
  BY <1>a, Same
<1>1. at[1] = wy /\ tpos = <<wy, wx>>
  BY <1>0, <1>b, <1>a DEF DInv, CursorInv
<1>2. PICK c : c = virt[wy][wx]
  OBVIOUS
<1>3. \A y \in Rows, x \in Cols : ~(y = wy /\ x = wx) =>
        /\ cur'[y][x] = cur[y][x]
        /\ term'[y][x] = term[y][x] \/ term'[y][x] = cur[y][x] \/ Exempt(y, x)
  <2>1. CASE ScrollWin
    BY <2>1 DEF PutCorner, terminal
  <2>2. CASE ~ScrollWin /\ tty.scroll
    <3>1. term' = Printed(term, tpos, c).cell /\ cur' = Noted(cur)
      BY <1>2, <2>2 DEF PutCorner
    <3>2. Printed(term, tpos, c).cell = [term EXCEPT ![wy][wx] = c]
      BY <1>1, <1>b, <2>2, PrintedHere
    <3> QED
      BY <1>0, <3>1, <3>2 DEF Noted, Screen
  <2>3. CASE ~ScrollWin /\ ~tty.scroll
    <3>1. term' = InCorner(term) /\ cur' = Noted(cur)
      BY <2>3 DEF PutCorner
    <3>2. \A y \in Rows, x \in Cols : ~(y = wy /\ x = wx) => cur'[y][x] = cur[y][x]
      BY <1>0, <3>1 DEF Noted, Screen
    <3>3. CASE ~tty.am \/ tty.toggle
      <4>1. term' = [term EXCEPT ![wy][wx] = c]
        BY <1>b, <1>2, <3>1, <3>3 DEF InCorner
      <4> QED
        BY <1>0, <3>2, <4>1 DEF Screen
    <3>4. CASE ~(~tty.am \/ tty.toggle)
      <4>1. term' = [term EXCEPT ![L - 1][W - 1] = virt[wy][wx], ![L - 1][W - 2] = virt[wy][W - 2]]
        BY <3>1, <3>4 DEF InCorner
      <4>2. W - 2 \in Cols /\ W - 2 # W - 1 /\ ~(wx <= W - 2)
        BY <1>0, <1>b, <3>4 DEF Plain, W
      <4>3. virt[wy][W - 2] = cur[wy][W - 2]
        <5>1. Drawn(wy, W - 2)
          BY <1>a, <4>2 DEF Drawn
        <5>2. ~Exempt(wy, W - 2)
          BY <4>2 DEF Exempt
        <5>3. Settled(wy, W - 2)
          BY <1>a, <1>b, <4>2, <5>1 DEF DInv, RInv, RecordInv
        <5> QED
          BY <5>2, <5>3 DEF Settled
      <4>4. PICK d, u : d = virt[wy][W - 2] /\ u = W - 2
        OBVIOUS
      <4>5. PICK s : s = [term EXCEPT ![wy][wx] = c]
        OBVIOUS
      <4>6. term' = [s EXCEPT ![wy][u] = d]
        BY <1>b, <1>2, <4>1, <4>4, <4>5
      <4>7. s \in [Rows -> [Cols -> Cell]]
        <5>1. c \in Cell
          BY <1>0, <1>b, <1>2 DEF Screen
        <5> QED
          BY <1>0, <4>5, <5>1 DEF Screen
      <4>8. ASSUME NEW y \in Rows, NEW x \in Cols, ~(y = wy /\ x = wx)
            PROVE  term'[y][x] = term[y][x] \/ term'[y][x] = cur[y][x]
        <5>1. s[y][x] = term[y][x]
          BY <1>0, <4>5, <4>8 DEF Screen
        <5>2. term'[y][x] = IF y = wy /\ x = u THEN d ELSE s[y][x]
          BY <4>6, <4>7
        <5> QED
          BY <4>3, <4>4, <5>1, <5>2
      <4> QED
        BY <3>2, <4>8
    <3> QED
      BY <3>3, <3>4
  <2> QED
    BY <2>1, <2>2, <2>3
<1>4. Exempt(wy, wx) \/ (term'[wy][wx] = c /\ cur'[wy][wx] = c)
  <2>1. CASE ScrollWin
    BY <1>b, <2>1 DEF Exempt
  <2>2. CASE ~ScrollWin
    <3>1. cur' = Noted(cur)
      BY <2>2 DEF PutCorner
    <3>2. cur'[wy][wx] = c
      BY <1>0, <1>2, <1>a, <1>b, <3>1 DEF Noted, Screen
    <3>3. CASE tty.scroll
      <4>1. term' = Printed(term, tpos, c).cell
        BY <1>2, <2>2, <3>3 DEF PutCorner
      <4>2. Printed(term, tpos, c).cell = [term EXCEPT ![wy][wx] = c]
        BY <1>1, <1>b, <2>2, PrintedHere
      <4> QED
        BY <1>0, <1>b, <3>2, <4>1, <4>2 DEF Screen
    <3>4. CASE ~tty.scroll
      <4>1. term' = InCorner(term)
        BY <2>2, <3>4 DEF PutCorner
      <4>2. \/ term' = [term EXCEPT ![wy][wx] = c]
            \/ term' = [term EXCEPT ![wy][wx] = c, ![wy][W - 2] = virt[wy][W - 2]]
        BY <1>2, <1>b, <4>1 DEF InCorner
      <4>3. W - 2 # wx
        BY <1>0, <1>b
      <4> QED
        BY <1>0, <1>b, <3>2, <4>2, <4>3 DEF Screen
    <3> QED
      BY <3>3, <3>4
  <2> QED
    BY <2>1, <2>2
<1>9. \A y \in Rows : ~line'[y].past
  BY <1>a, Amid
<1>11. tpos' = at' \/ (Off' /\ at'[1] <= wy')
  <2>1. CASE ScrollWin \/ ~tty.scroll
    BY <1>1, <1>a, <1>b, <2>1 DEF PutCorner, terminal
  <2>2. CASE ~ScrollWin /\ tty.scroll /\ ~tty.am
    <3>1. tpos' = Printed(term, tpos, c).pos
      BY <1>2, <2>2 DEF PutCorner
    <3>2. Printed(term, tpos, c).pos = <<wy, wx>>
      BY <1>1, <1>b, <2>2, PrintedHere
    <3> QED
      BY <1>a, <3>1, <3>2
  <2>3. CASE ~ScrollWin /\ tty.scroll /\ tty.am
    BY <1>0, <1>a, <1>b, <1>w, <2>3 DEF Off
  <2> QED
    BY <1>0, <2>1, <2>2, <2>3
<1>12. \A y \in Rows, x \in Cols : term'[y][x] = cur'[y][x] \/ Exempt(y, x)
  <2> TAKE y \in Rows, x \in Cols
  <2>1. term[y][x] = cur[y][x] \/ Exempt(y, x)
    BY <1>a, Amid DEF Undrawn
  <2> QED
    BY <1>3, <1>4, <2>1
<1>14. CASE pc' = "done"
  <2>1. \A y \in Rows, x \in Cols :
          term'[y][x] = (IF Undrawn(y, x)' THEN Blank ELSE cur'[y][x]) \/ Exempt(y, x)
    BY <1>12, <1>a DEF Undrawn
  <2> QED
    BY <1>14, <1>a, <1>9, <1>11, <2>1, AmidNext
<1>15. CASE pc' = "crashed"
  <2>1. CursorInv'
    BY <1>15, <1>9, <1>a, <1>w, Amid DEF CursorInv, Inner
  <2>2. TermInv'
    BY <1>15 DEF TermInv
  <2> QED
    BY <2>1, <2>2 DEF DInv
<1> QED
  BY <1>a, <1>14, <1>15

\* The last motion: it is not taken from a place the cursor may not be in to
\* that same place.
LEMMA FinishMoves ==
  ASSUME Usual, DInv, Finish
  PROVE  /\ tpos' = cpos' /\ cpos' = (IF curwin THEN cpos ELSE vpos)
         /\ line' = line
         /\ \A y \in Rows, x \in Cols : term'[y][x] = cur[y][x] \/ Exempt(y, x)
<1>0. /\ L \in Nat \ {0} /\ W \in Nat \ {0} /\ Rows = 0 .. L - 1 /\ Cols = 0 .. W - 1
      /\ at \in Rows \X Cols /\ term \in Screen /\ cur \in Screen /\ TypeOK /\ Plain(tty)
      /\ tty.am \in BOOLEAN
  BY Here, Now
<1>a. pc = "line" /\ wy = L /\ ~tty.leave
  BY <1>0 DEF Finish, Plain
<1>1. PICK dest : dest = (IF curwin THEN cpos ELSE vpos) /\ dest \in Rows \X Cols
  BY <1>0 DEF TypeOK
<1>2. /\ \E m \in Moves(term, tpos, at, dest) : term' = m.cell /\ tpos' = m.pos
      /\ line' = PastCleared(at, dest)
      /\ cpos' = dest
  BY <1>1, <1>a, Zenon DEF Finish
<1>3. Inner(dest)
  BY <1>1, <1>a, Amid
<1>4. tpos = at \/ (Off /\ at # dest)
  <2>1. tpos = at \/ (Off /\ at[1] < wy)
    BY <1>a DEF DInv, CursorInv
  <2>2. Off => at # dest
    <3>1. CASE dest[2] < W - 1
      BY <1>0, <3>1 DEF Off
    <3>2. CASE dest = <<0, 0>>
      <4>1. tty.am => W > 1
        BY <1>0 DEF Plain, W
      <4> QED
        BY <1>0, <3>2, <4>1 DEF Off
    <3> QED
      BY <1>3, <3>1, <3>2 DEF Inner
  <2> QED
    BY <2>1, <2>2
<1>5. PICK m \in Moves(term, tpos, at, dest) : term' = m.cell /\ tpos' = m.pos
  BY <1>2
<1>6. /\ m.pos = dest
      /\ \A y \in Rows, x \in Cols :
              m.cell[y][x] = term[y][x] \/ (m.cell[y][x] = cur[y][x] /\ y = dest[1] /\ x < dest[2])
  BY <1>1, <1>4, GoodMove
<1>7. \A y \in Rows, x \in Cols : term[y][x] = cur[y][x] \/ Exempt(y, x)
  <2>1. \A y \in Rows, x \in Cols : ~Undrawn(y, x)
    BY <1>0, <1>a DEF Undrawn
  <2> QED
    BY <1>a, <2>1, Amid
<1>8. line' = line
  BY <1>2, PastStays
<1> QED
  BY <1>1, <1>2, <1>5, <1>6, <1>7, <1>8

LEMMA FinishInv ==
  ASSUME Usual, DInv, RInv', Finish
  PROVE  DInv'
<1>a. /\ pc = "line" /\ wy = L /\ pc' = "idle"
      /\ UNCHANGED <<tty, virt, vpos, vclear, cur>>
  BY DEF Finish
<1>w. Rows' = Rows /\ Cols' = Cols /\ L' = L /\ W' = W /\ ScrollWin' = ScrollWin
  BY <1>a, Same
<1>b. /\ tpos' = cpos' /\ cpos' = (IF curwin THEN cpos ELSE vpos)
      /\ line' = line
      /\ \A y \in Rows, x \in Cols : term'[y][x] = cur[y][x] \/ Exempt(y, x)
  BY FinishMoves
<1>2. CursorInv'
  <2>1. Inner(vpos) /\ Inner(cpos) /\ \A y \in Rows : ~line[y].past
    BY <1>a, Amid
  <2>2. Inner(vpos)' /\ Inner(cpos)'
    BY <1>a, <1>b, <1>w, <2>1 DEF Inner
  <2> QED
    BY <1>a, <1>b, <1>w, <2>1, <2>2 DEF CursorInv
<1>3. TermInv'
  BY <1>a, <1>b, <1>w DEF TermInv, Exempt
<1> QED
  BY <1>2, <1>3 DEF DInv

\* Every step keeps the invariant.
LEMMA StepInv ==
  ASSUME Usual, DInv, [Next]_vars
  PROVE  DInv'
<1>0. RInv'
  BY RecordStep DEF DInv, Usual
<1>1. CASE Program
  BY <1>0, <1>1, ProgramInv
<1>2. CASE Update
  <2>1. \/ \E redraw \in BOOLEAN : Begin(redraw)
        \/ QuickChange \/ SkipLine \/ StartLine \/ SkipCell \/ GoTo
        \/ ClearRest \/ KeepRest \/ PutCell \/ PutCorner \/ EndRun
        \/ LineDone \/ Finish
    BY <1>2, Zenon DEF Update
  <2> QED
    BY <1>0, <2>1, BeginInv, QuickInv, SkipLineInv, StartLineInv, SkipCellInv, GoToInv,
       ClearRestInv, KeepRestInv, PutCellInv, PutCornerInv, EndRunInv, LineDoneInv, FinishInv
<1>3. CASE UNCHANGED vars
  <2>1. UNCHANGED <<tty, line, vpos, vclear, cur, cpos, term, tpos, at, pc, wy, wx, curwin>>
    BY <1>3 DEF vars
  <2>w. Rows' = Rows /\ Cols' = Cols /\ L' = L /\ W' = W /\ ScrollWin' = ScrollWin
    BY <2>1, Same
  <2>2. CursorInv'
    BY <2>1, <2>w DEF DInv, CursorInv, Inner, Off
  <2>3. TermInv'
    BY <2>1, <2>w DEF DInv, TermInv, Undrawn, Exempt
  <2> QED
    BY <1>0, <2>2, <2>3 DEF DInv
<1> QED
  BY <1>1, <1>2, <1>3 DEF Next

-----------------------------------------------------------------------------

\* The record, the terminal and the cursor, through every loop of doupdate and
\* makech.
THEOREM UpdateInvariant ==
  ASSUME Usual
  PROVE  Spec => []DInv
<1>1. Init => DInv
  BY InitInv
<1>2. DInv /\ [Next]_vars => DInv'
  BY StepInv
<1> QED
  BY <1>1, <1>2, PTL DEF Spec

\* Between updates the terminal shows what curscr says.
THEOREM TerminalKnown ==
  ASSUME Usual
  PROVE  Spec => []TerminalIsCurscr
<1>1. DInv => TerminalIsCurscr
  BY DEF DInv, TermInv, TerminalIsCurscr
<1> QED
  BY <1>1, UpdateInvariant, PTL

\* Between updates the cursor is where curscr says.
THEOREM CursorIsKnown ==
  ASSUME Usual
  PROVE  Spec => []CursorKnown
<1>1. DInv => CursorKnown
  BY DEF DInv, CursorInv, CursorKnown
<1> QED
  BY <1>1, UpdateInvariant, PTL

\* An update that comes to its end leaves on the terminal what the program drew,
\* except in a corner that cannot be written.
THEOREM UpdateIsShown ==
  ASSUME Usual
  PROVE  Spec => UpdateShows
<1>1. DInv /\ [Next]_vars => [(Finish /\ ~curwin) => Shown']_vars
  <2> SUFFICES ASSUME DInv, Finish, ~curwin
               PROVE  Shown'
    BY Zenon
  <2>a. pc = "line" /\ wy = L /\ UNCHANGED <<tty, virt, cur>>
    BY DEF Finish
  <2>w. Rows' = Rows /\ Cols' = Cols /\ L' = L /\ W' = W /\ ScrollWin' = ScrollWin
    BY <2>a, Same
  <2>1. \A y \in Rows, x \in Cols : term'[y][x] = cur[y][x] \/ Exempt(y, x)
    BY FinishMoves
  <2>2. \A y \in Rows, x \in Cols : virt[y][x] = cur[y][x] \/ Exempt(y, x)
    BY <2>a, AllDrawn DEF DInv, Settled
  <2> QED
    BY <2>1, <2>2, <2>a, <2>w DEF Shown, Exempt
<1> QED
  BY <1>1, UpdateInvariant, PTL DEF Spec, UpdateShows
=============================================================================
