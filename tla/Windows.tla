------------------------------ MODULE Windows -------------------------------
(***************************************************************************)
(* Windows and subwindows of lib/libcurses: newwin.c, delwin.c, mvwin.c,   *)
(* resize.c and the exchange of lines of insdelln.c.                       *)
(*                                                                         *)
(* A window has an array of pointers to line records (alines); a record    *)
(* points to its first cell (line) and to a change record (firstchp and    *)
(* lastchp).  A window made by newwin owns its cells; a subwindow's        *)
(* records point into the cells and the change records of its parent.      *)
(* rows[w][i] is the record that alines[i - 1] points to: its own address  *)
(* `at', <<window, place in lspace>>; `line', <<window, row, column>> of   *)
(* wspace; and `mark', the record that holds its change pointers.  A       *)
(* pointer to storage that was freed, moved or never part of an array is   *)
(* Wild.                                                                   *)
(*                                                                         *)
(* A window and all its descendants are linked in one ring (nextp); ring[w]*)
(* is the window the ring of w starts with, the only one without parent.   *)
(***************************************************************************)
EXTENDS Integers, Sequences, FiniteSets

CONSTANTS
  Window,           \* the windows the program may create
  NULL,
  Lines, Cols,      \* LINES and COLS, the size of the screen
  Heights, Widths,  \* the lines and columns the program asks for
  Tops,             \* bound: the windows without parent at a time
  Cases             \* what the program does besides, see Unusual

\* nested    subwindows of subwindows
\* scrolled  lines inserted in, deleted from or scrolled in a window that has
\*           subwindows
\* moved     mvwin of a subwindow to a place that is not inside its parent
\* edge      wresize of a window when a subwindow begins just behind its new
\*           last line or column, or a subwindow is cut at the right in a
\*           window that does not begin on the screen's diagonal
\* no memory realloc fails in wresize, but not the first of its reallocs
Unusual == {"nested", "scrolled", "moved", "edge", "no memory"}

ASSUME WindowsAssumption ==
  /\ NULL \notin Window
  /\ Lines \in Nat \ {0} /\ Cols \in Nat \ {0}
  /\ Heights \subseteq Int /\ Widths \subseteq Int
  /\ Tops \in Nat
  /\ Cases \subseteq Unusual

VARIABLES
  live,             \* the windows allocated
  orig,             \* the parent of a window, or NULL
  ring,             \* the first window of its ring
  geom,             \* begin, size and requested size of a window
  rows              \* the line records in the order of alines

vars == <<live, orig, ring, geom, rows>>

Nowhere == [begy |-> 0, begx |-> 0, maxy |-> 0, maxx |-> 0, reqy |-> 0, reqx |-> 0]

Tree(r) == {w \in live : ring[w] = r}

Subs(w) == {s \in live : orig[s] = w}

-----------------------------------------------------------------------------
(* Pointers *)

Wild == <<NULL, 0, 0>>

Right(p, n) == IF p = Wild THEN Wild ELSE <<p[1], p[2], p[3] + n>>

\* __makenew, __resizewin: the line records of a window that owns its cells.
OwnRows(w, n) ==
  [i \in 1 .. n |-> [at |-> <<w, i>>, line |-> <<w, i, 0>>, mark |-> <<w, i>>]]

SubRowsByRecord(g, up, o, w) ==  \* mutant: finds the parent's lines by lspace
  LET dy == g[w].begy - g[o].begy
      dx == g[w].begx - g[o].begx
  IN  [i \in 1 .. g[w].maxy |->
         [at   |-> <<w, i>>,
          line |-> IF dy + i \in DOMAIN up THEN <<o, dy + i, dx>> ELSE Wild,
          mark |-> IF dy + i \in DOMAIN up THEN <<o, dy + i>> ELSE Wild]]

SubRowsOwnMarks(g, up, o, w) ==  \* mutant: change pointers of its own
  LET dy == g[w].begy - g[o].begy
      dx == g[w].begx - g[o].begx
  IN  [i \in 1 .. g[w].maxy |->
         [at   |-> <<w, i>>,
          line |-> IF dy + i \in DOMAIN up THEN Right(up[dy + i].line, dx) ELSE Wild,
          mark |-> <<w, i>>]]

\* __set_subwin: w takes its cells and change records from the rows `up' of o.
SubRows(g, up, o, w) ==
  LET dy == g[w].begy - g[o].begy
      dx == g[w].begx - g[o].begx
  IN  [i \in 1 .. g[w].maxy |->
         [at   |-> <<w, i>>,
          line |-> IF dy + i \in DOMAIN up THEN Right(up[dy + i].line, dx) ELSE Wild,
          mark |-> IF dy + i \in DOMAIN up THEN up[dy + i].at ELSE Wild]]

\* The records of other windows that had their change pointers in the lspace
\* of w, after it was reallocated.
Unmarked(w, row) ==
  IF row.mark # Wild /\ row.mark[1] = w THEN [row EXCEPT !.mark = Wild] ELSE row

-----------------------------------------------------------------------------
(* Sizes *)

\* A length asked for, counted from the far end when it is not positive.
Length(n, rest) == IF n > 0 THEN n ELSE n + rest

BoundedLax(beg, n, end, back, far) ==   \* mutant: one too many is let pass
  LET b == IF beg > end THEN back ELSE beg
      m == IF b + n > end + 1 THEN 0 ELSE n
      l == IF m <= 0 THEN m + far - b ELSE m
  IN  [beg |-> b, len |-> IF l < 1 THEN 1 ELSE l]

\* wresize, __resizewin: a begin and a length that fit before `end'.
Bounded(beg, n, end, back, far) ==
  LET b == IF beg > end THEN back ELSE beg
      m == IF b + n > end THEN 0 ELSE n
      l == IF m <= 0 THEN m + far - b ELSE m
  IN  [beg |-> b, len |-> IF l < 1 THEN 1 ELSE l]

Placed(g, y, x) ==
  [g EXCEPT !.begy = y.beg, !.maxy = y.len, !.begx = x.beg, !.maxx = x.len]

\* wresize: the size w gets when n lines and m columns are asked for.
Wanted(w, n, m) ==
  LET g    == geom[w]
      endy == geom[orig[w]].begy + geom[orig[w]].maxy
      endx == geom[orig[w]].begx + geom[orig[w]].maxx
  IN  IF orig[w] = NULL
      THEN Placed(g, Bounded(g.begy, n, Lines, 0, Lines), Bounded(g.begx, m, Cols, 0, Cols))
      ELSE Placed(g, Bounded(g.begy, n, endy, endy - 1, endy),
                     Bounded(g.begx, m, endx, endx - 1, endx))

\* __resizewin: the size of a subwindow s in a ring whose first window has
\* become top; for the columns the code adds top.begy where it means begx.
Refitted(top, s) ==
  LET endy == top.begy + top.maxy
      endx == top.begx + top.maxx
  IN  Placed(s, Bounded(s.begy, s.reqy, endy, endy - 1, endy),
                Bounded(s.begx, s.reqx, endx, endx - 1, top.begy + top.maxx))

\* The case "edge".
AtEdge(top, s) ==
  \/ s.begy = top.begy + top.maxy
  \/ s.begx = top.begx + top.maxx
  \/ /\ s.reqx <= 0 \/ s.begx + s.reqx > top.begx + top.maxx
     /\ top.begy # top.begx

-----------------------------------------------------------------------------
Init == /\ live = {}
        /\ orig = [w \in Window |-> NULL]
        /\ ring = [w \in Window |-> w]
        /\ geom = [w \in Window |-> Nowhere]
        /\ rows = [w \in Window |-> <<>>]

NewWin(w, n, m, by, bx) ==
  LET maxy == Length(n, Lines - by)
      maxx == Length(m, Cols - bx)
  IN  /\ w \notin live
      /\ Cardinality({x \in live : orig[x] = NULL}) < Tops
      /\ maxy > 0 /\ maxx > 0
      /\ live' = live \cup {w}
      /\ geom' = [geom EXCEPT ![w] = [begy |-> by, begx |-> bx, maxy |-> maxy,
                                      maxx |-> maxx, reqy |-> n, reqx |-> m]]
      /\ rows' = [rows EXCEPT ![w] = OwnRows(w, maxy)]
      /\ UNCHANGED <<orig, ring>>

\* subwin and derwin.
SubWin(w, o, n, m, by, bx) ==
  LET p    == geom[o]
      maxy == Length(n, p.maxy + p.begy - by)
      maxx == Length(m, p.maxx + p.begx - bx)
      g    == [geom EXCEPT ![w] = [begy |-> by, begx |-> bx, maxy |-> maxy,
                                   maxx |-> maxx, reqy |-> n, reqx |-> m]]
  IN  /\ w \notin live /\ o \in live
      /\ "nested" \in Cases \/ orig[o] = NULL
      /\ by >= p.begy /\ bx >= p.begx
      /\ by + maxy <= p.maxy + p.begy
      /\ bx + maxx <= p.maxx + p.begx
      /\ maxy > 0 /\ maxx > 0
      /\ live' = live \cup {w}
      /\ orig' = [orig EXCEPT ![w] = o]
      /\ ring' = [ring EXCEPT ![w] = ring[o]]
      /\ geom' = g
      /\ rows' = [rows EXCEPT ![w] = SubRows(g, rows[o], o, w)]

\* A window takes its whole ring with it, a subwindow only itself; the program
\* deletes the subwindows of a subwindow first.
DelWin(w) ==
  LET gone == IF orig[w] = NULL THEN Tree(w) ELSE {w}
      Clear(f, d(_)) == [x \in Window |-> IF x \in gone THEN d(x) ELSE f[x]]
  IN  /\ w \in live
      /\ orig[w] = NULL \/ Subs(w) = {}
      /\ live' = live \ gone
      /\ orig' = Clear(orig, LAMBDA x : NULL)
      /\ ring' = Clear(ring, LAMBDA x : x)
      /\ geom' = Clear(geom, LAMBDA x : Nowhere)
      /\ rows' = Clear(rows, LAMBDA x : <<>>)

\* The window moves with its ring.  A subwindow moves in its parent; dy and dx
\* are how far it goes, which the code tests as if they were offsets in the
\* parent.
MvWin(w, by, bx) ==
  LET o  == orig[w]
      dy == by - geom[w].begy
      dx == bx - geom[w].begx
      g  == [x \in Window |->
               IF (IF o = NULL THEN x \in Tree(w) ELSE x = w)
               THEN [geom[x] EXCEPT !.begy = @ + dy, !.begx = @ + dx]
               ELSE geom[x]]
  IN  /\ w \in live
      /\ by + geom[w].maxy <= Lines /\ bx + geom[w].maxx <= Cols
      /\ o # NULL =>
           /\ by >= geom[o].begy /\ geom[w].maxy + dy <= geom[o].maxy
           /\ bx >= geom[o].begx /\ geom[w].maxx + dx <= geom[o].maxx
           /\ \/ "moved" \in Cases
              \/ /\ by + geom[w].maxy <= geom[o].begy + geom[o].maxy
                 /\ bx + geom[w].maxx <= geom[o].begx + geom[o].maxx
      /\ geom' = g
      /\ rows' = IF o = NULL THEN rows
                 ELSE [rows EXCEPT ![w] = SubRows(g, rows[o], o, w)]
      /\ UNCHANGED <<live, orig, ring>>

WResizeTopOnly(w, n, m) ==       \* mutant: the ring is left as it is
  LET top == [Wanted(w, n, m) EXCEPT !.reqy = n, !.reqx = m]
  IN  /\ w \in live /\ orig[w] = NULL
      /\ geom' = [geom EXCEPT ![w] = top]
      /\ rows' = [rows EXCEPT ![w] = OwnRows(w, top.maxy)]
      /\ UNCHANGED <<live, orig, ring>>

\* wresize of a window without parent: new storage, then the whole ring is cut
\* to the new size and its pointers are renewed, parents first.
WResizeTop(w, n, m) ==
  LET top  == [Wanted(w, n, m) EXCEPT !.reqy = n, !.reqx = m]
      g    == [x \in Window |-> IF x = w THEN top
                                ELSE IF x \in Tree(w) THEN Refitted(top, geom[x])
                                ELSE geom[x]]
      fresh[x \in Tree(w)] ==
        IF x = w THEN OwnRows(w, top.maxy)
        ELSE SubRows(g, fresh[orig[x]], orig[x], x)
  IN  /\ w \in live /\ orig[w] = NULL
      /\ "edge" \in Cases \/ \A s \in Subs(w) : ~AtEdge(top, geom[s])
      /\ geom' = g
      /\ rows' = [x \in Window |-> IF x \in Tree(w) THEN fresh[x] ELSE rows[x]]
      /\ UNCHANGED <<live, orig, ring>>

\* wresize of a subwindow.
WResizeSub(w, n, m) ==
  LET o == orig[w]
      g == [geom EXCEPT ![w] = [Wanted(w, n, m) EXCEPT !.reqy = n, !.reqx = m]]
  IN  /\ w \in live /\ o # NULL
      /\ geom' = g
      /\ rows' = [x \in Window |->
                    IF x = w THEN SubRows(g, rows[o], o, w)
                    ELSE IF x \in Tree(ring[w])
                    THEN [i \in DOMAIN rows[x] |-> Unmarked(w, rows[x][i])]
                    ELSE rows[x]]
      /\ UNCHANGED <<live, orig, ring>>

\* What is left of the records of w when realloc fails in __resizewin: all, when
\* alines fails; those that alines, already cut, still holds, when lspace fails;
\* none, when wspace fails after lspace has moved.
Left(w, g, damage) ==
  LET wild == [at |-> Wild, line |-> Wild, mark |-> Wild]
  IN  CASE damage = "none"  -> rows
        [] damage = "cut"   -> [rows EXCEPT ![w] = [i \in DOMAIN @ |->
                                  IF i <= g.maxy THEN @[i] ELSE wild]]
        [] damage = "moved" -> [x \in Window |-> [i \in DOMAIN rows[x] |->
                                  IF x = w THEN wild ELSE Unmarked(w, rows[x][i])]]

\* wresize returns ERR; the window keeps its old size.
WResizeFails(w, n, m) ==
  LET g == Wanted(w, n, m)
  IN  /\ w \in live
      /\ geom' = [geom EXCEPT ![w].begy = g.begy, ![w].begx = g.begx]
      /\ \E damage \in {"none", "cut", "moved"} :
           /\ damage = "moved" => orig[w] = NULL
           /\ "no memory" \in Cases \/ damage = "none"
           /\ rows' = Left(w, g, damage)
      /\ UNCHANGED <<live, orig, ring>>

-----------------------------------------------------------------------------
(* insdelln.c *)

\* The pointers to lines after n lines were inserted at line c, or deleted from
\* line c on, in lines c to last.  The exchanges of every n-th line, one after
\* the other, rotate these lines.
Inserted(s, c, n, last) ==
  [i \in DOMAIN s |->
     IF i \notin c .. last THEN s[i]
     ELSE IF i >= c + n THEN s[i - n] ELSE s[i + n * ((last - i) \div n)]]

Deleted(s, c, n, last) ==
  [i \in DOMAIN s |->
     IF i \notin c .. last THEN s[i]
     ELSE IF i + n <= last THEN s[i + n] ELSE s[i - n * ((i - c) \div n)]]

\* __id_subwins, called with the parent: every window of the ring is pointed
\* at the lines of the parent.
IdSubwins(o) ==
  [x \in Window |->
     IF x \in Tree(ring[o]) \ {o}
     THEN LET oy  == geom[x].begy - geom[o].begy
              off == IF orig[x] = NULL THEN 0 ELSE geom[x].begx - geom[orig[x]].begx
          IN  [i \in DOMAIN rows[x] |->
                 [rows[x][i] EXCEPT !.line = IF oy + i \in DOMAIN rows[o]
                                             THEN Right(rows[o][oy + i].line, off)
                                             ELSE Wild]]
     ELSE rows[x]]

InsDelLnCopies(w, c, n, last) == \* mutant: pointers are copied, not exchanged
  /\ w \in live /\ orig[w] = NULL /\ Subs(w) = {}
  /\ 1 <= c /\ c <= last /\ last <= geom[w].maxy
  /\ 1 <= n /\ n <= last - c + 1
  /\ rows' = [rows EXCEPT ![w] = [i \in DOMAIN @ |->
                IF i \in c + n .. last THEN @[i - n] ELSE @[i]]]
  /\ UNCHANGED <<live, orig, ring, geom>>

\* winsdelln, and scrolling, with the cursor in line c and n lines; `last' is
\* the last line of the scrolling region, or of the window.
InsDelLn(w, c, n, last) ==
  /\ w \in live
  /\ 1 <= c /\ c <= last /\ last <= geom[w].maxy
  /\ 1 <= n /\ n <= last - c + 1
  /\ "scrolled" \in Cases \/ Subs(w) = {}
  /\ IF orig[w] = NULL
     THEN \/ rows' = [rows EXCEPT ![w] = Inserted(@, c, n, last)]
          \/ rows' = [rows EXCEPT ![w] = Deleted(@, c, n, last)]
     ELSE rows' = IdSubwins(orig[w])
  /\ UNCHANGED <<live, orig, ring, geom>>

-----------------------------------------------------------------------------
Next ==
  \/ \E w \in Window, n \in Heights, m \in Widths :
       \/ \E by \in 0 .. Lines - 1, bx \in 0 .. Cols - 1 :
            \/ NewWin(w, n, m, by, bx)
            \/ \E o \in Window : SubWin(w, o, n, m, by, bx)
       \/ WResizeTop(w, n, m)
       \/ WResizeSub(w, n, m)
       \/ WResizeFails(w, n, m)
  \/ \E w \in Window :
       \/ DelWin(w)
       \/ \E by \in 0 .. Lines - 1, bx \in 0 .. Cols - 1 : MvWin(w, by, bx)
       \/ \E c, n, last \in 1 .. Lines : InsDelLn(w, c, n, last)

Spec == Init /\ [][Next]_vars

-----------------------------------------------------------------------------
(* Properties *)

Size == [begy : Int, begx : Int, maxy : Int, maxx : Int, reqy : Int, reqx : Int]

Record == (Window \X Nat) \cup {Wild}

Row == [at : Record, line : ((Window \cup {NULL}) \X Int \X Int), mark : Record]

TypeOK ==
  /\ live \in SUBSET Window
  /\ orig \in [Window -> Window \cup {NULL}]
  /\ ring \in [Window -> Window]
  /\ geom \in [Window -> Size]
  /\ rows \in [Window -> Seq(Row)]
  /\ \A w \in live :
       /\ DOMAIN rows[w] = 1 .. geom[w].maxy
       /\ orig[w] # NULL => orig[w] \in live
       /\ ring[w] = IF orig[w] = NULL THEN w ELSE ring[orig[w]]

\* newwin.c: "Make sure window fits inside the original one".
Inside(w, o) ==
  /\ geom[o].begy <= geom[w].begy
  /\ geom[w].begy + geom[w].maxy <= geom[o].begy + geom[o].maxy
  /\ geom[o].begx <= geom[w].begx
  /\ geom[w].begx + geom[w].maxx <= geom[o].begx + geom[o].maxx

\* A subwindow stays inside its parent, whichever of them moves or changes its
\* size ("subwins must fit inside the parent", resize.c).
SubsInside == \A w \in live : orig[w] # NULL => Inside(w, orig[w])

\* Every line of a window lies in the cells of the first window of its ring,
\* and its change pointers in a record of it: no operation leaves a pointer to
\* storage that it or another one released.
LinesInStorage ==
  \A w \in live : \A i \in 1 .. geom[w].maxy :
    LET r == ring[w]
        p == rows[w][i].line
    IN  /\ p # Wild /\ rows[w][i].mark # Wild
        /\ p[1] = r /\ p[2] \in 1 .. geom[r].maxy
        /\ p[3] >= 0 /\ p[3] + geom[w].maxx <= geom[r].maxx
        /\ rows[w][i].mark[1] = r /\ rows[w][i].mark[2] \in 1 .. geom[r].maxy

\* A subwindow shows the part of its parent that it covers, also when lines of
\* the parent have been exchanged before.
ShowsParent ==
  \A w \in live : orig[w] # NULL =>
    LET o  == orig[w]
        dy == geom[w].begy - geom[o].begy
        dx == geom[w].begx - geom[o].begx
    IN  \A i \in 1 .. geom[w].maxy :
          /\ dy + i \in DOMAIN rows[o]
          /\ rows[w][i].line = Right(rows[o][dy + i].line, dx)

\* curses_window.3: the subwindow "will be refreshed when the parent window is
\* refreshed": a change is recorded where the refresh of the parent looks.
SharesRecord ==
  \A w \in live : orig[w] # NULL =>
    LET o  == orig[w]
        dy == geom[w].begy - geom[o].begy
    IN  \A i \in 1 .. geom[w].maxy :
          /\ dy + i \in DOMAIN rows[o]
          /\ rows[w][i].mark = rows[o][dy + i].mark

\* No two lines of a window share cells or a change record, however often they
\* were exchanged.
RowsApart ==
  \A w \in live : \A i, j \in 1 .. geom[w].maxy : i # j =>
    /\ rows[w][i].line # rows[w][j].line
    /\ rows[w][i].at # rows[w][j].at
    /\ rows[w][i].mark # rows[w][j].mark
=============================================================================
