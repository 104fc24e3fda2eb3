--------------------------- MODULE WindowsProofs ----------------------------
(***************************************************************************)
(* Subwindows stay inside their parents and share their lines, on screens  *)
(* of any size, with any number of windows and any sizes asked for, in     *)
(* programs that do none of the things in Unusual.                         *)
(*                                                                         *)
(* What Windows.tla states is not inductive by itself: a subwindow is cut  *)
(* and re-pointed correctly because its parent is the first window of the  *)
(* ring and begins on the screen, and because the rows of a subwindow are  *)
(* always those that __set_subwin would compute again (SubOf), while those *)
(* of other windows are their own, in any order (Top).                     *)
(***************************************************************************)
EXTENDS Windows, TLAPS

OwnRow(w, k) == [at |-> <<w, k>>, line |-> <<w, k, 0>>, mark |-> <<w, k>>]

\* A window without parent.
Top(w) == /\ ring[w] = w
          /\ geom[w].begy <= Lines /\ geom[w].begx <= Cols
          /\ \A i \in 1 .. geom[w].maxy :
               \E k \in 1 .. geom[w].maxy : rows[w][i] = OwnRow(w, k)

\* A subwindow of o.
SubOf(w, o) == /\ o \in live /\ orig[o] = NULL /\ ring[w] = o
               /\ Inside(w, o)
               /\ rows[w] = SubRows(geom, rows[o], o, w)

Good(w) == /\ DOMAIN rows[w] = 1 .. geom[w].maxy
           /\ geom[w].maxy >= 1 /\ geom[w].maxx >= 1
           /\ orig[w] = NULL => Top(w)
           /\ orig[w] # NULL => SubOf(w, orig[w])

Types == /\ live \in SUBSET Window
         /\ orig \in [Window -> Window \cup {NULL}]
         /\ ring \in [Window -> Window]
         /\ geom \in [Window -> Size]
         /\ rows \in [Window -> Seq(Row)]

Fresh == \A w \in Window : w \notin live => orig[w] = NULL /\ ring[w] = w

IInv == Types /\ Fresh /\ \A w \in live : Good(w)

-----------------------------------------------------------------------------
(* Facts about the operators *)

\* What Bounded returns lies between start and end, when the begin is not just
\* behind the end and the rest is counted from the end.
LEMMA BoundedFits ==
  ASSUME NEW start \in Int, NEW beg \in Int, NEW n \in Int, NEW end \in Int, NEW far \in Int,
         start <= beg, start < end, beg # end,
         n <= 0 \/ beg + n > end => far = end
  PROVE  LET b == Bounded(beg, n, end, end - 1, far)
         IN  /\ b.beg \in Int /\ b.len \in Int
             /\ start <= b.beg /\ b.len >= 1 /\ b.beg + b.len <= end
BY DEF Bounded

\* The lines that insertion and deletion put in a place were in the window.
LEMMA Rotates ==
  ASSUME NEW i \in Nat, NEW n \in Nat, n >= 1, NEW last \in Nat, i <= last
  PROVE  n * ((last - i) \div n) \in 0 .. last - i
BY Z3

LEMMA InsertedKeeps ==
  ASSUME NEW s, NEW len \in Nat, DOMAIN s = 1 .. len,
         NEW c \in 1 .. len, NEW last \in c .. len, NEW n \in 1 .. last - c + 1,
         NEW i \in 1 .. len, NEW a, a = Inserted(s, c, n, last)[i]
  PROVE  \E j \in 1 .. len : a = s[j]
<1>1. CASE i \notin c .. last
  BY <1>1 DEF Inserted
<1>2. CASE i \in c .. last
  <2>1. n * ((last - i) \div n) \in 0 .. last - i
    BY <1>2, Rotates
  <2>2. a = IF i >= c + n THEN s[i - n] ELSE s[i + n * ((last - i) \div n)]
    BY <1>2 DEF Inserted
  <2> QED BY <1>2, <2>1, <2>2
<1> QED BY <1>1, <1>2

LEMMA DeletedKeeps ==
  ASSUME NEW s, NEW len \in Nat, DOMAIN s = 1 .. len,
         NEW c \in 1 .. len, NEW last \in c .. len, NEW n \in 1 .. last - c + 1,
         NEW i \in 1 .. len, NEW a, a = Deleted(s, c, n, last)[i]
  PROVE  \E j \in 1 .. len : a = s[j]
<1>1. CASE i \notin c .. last
  BY <1>1 DEF Deleted
<1>2. CASE i \in c .. last
  <2>1. n * ((i - c) \div n) \in 0 .. i - c
    BY <1>2, Rotates
  <2>2. a = IF i + n <= last THEN s[i + n] ELSE s[i - n * ((i - c) \div n)]
    BY <1>2 DEF Deleted
  <2> QED BY <1>2, <2>1, <2>2
<1> QED BY <1>1, <1>2

LEMMA OwnRowsTyped ==
  ASSUME NEW w \in Window, NEW n \in Nat
  PROVE  /\ OwnRows(w, n) \in Seq(Row)
         /\ DOMAIN OwnRows(w, n) = 1 .. n
         /\ \A i \in 1 .. n : OwnRows(w, n)[i] = OwnRow(w, i)
BY DEF OwnRows, OwnRow, Row, Record

LEMMA SubRowsTyped ==
  ASSUME NEW g \in [Window -> Size], NEW up \in Seq(Row), NEW o \in Window,
         NEW w \in Window, g[w].maxy \in Nat
  PROVE  /\ SubRows(g, up, o, w) \in Seq(Row)
         /\ DOMAIN SubRows(g, up, o, w) = 1 .. g[w].maxy
<1> DEFINE dy == g[w].begy - g[o].begy
           dx == g[w].begx - g[o].begx
           S == SubRows(g, up, o, w)
<1>1. dy \in Int /\ dx \in Int
  BY DEF Size
<1>2. ASSUME NEW i \in 1 .. g[w].maxy PROVE S[i] \in Row
  <2>1. S[i] = [at   |-> <<w, i>>,
                line |-> IF dy + i \in DOMAIN up THEN Right(up[dy + i].line, dx) ELSE Wild,
                mark |-> IF dy + i \in DOMAIN up THEN up[dy + i].at ELSE Wild]
    BY DEF SubRows
  <2>2. CASE dy + i \in DOMAIN up
    <3>1. up[dy + i] \in Row
      BY <2>2
    <3>2. Right(up[dy + i].line, dx) \in (Window \cup {NULL}) \X Int \X Int
      BY <1>1, <3>1, SMTT(30) DEF Row, Right, Wild
    <3> QED BY <2>1, <2>2, <3>1, <3>2 DEF Row, Record
  <2>3. CASE dy + i \notin DOMAIN up
    BY <2>1, <2>3 DEF Row, Record, Wild
  <2> QED BY <2>2, <2>3
<1>3. S \in [1 .. g[w].maxy -> Row]
  BY <1>2 DEF SubRows
<1>4. [1 .. g[w].maxy -> Row] \subseteq Seq(Row)
  OBVIOUS
<1> QED BY <1>3, <1>4

\* Rows depend on the sizes of the two windows and on the distance between them.
LEMMA SubRowsSame ==
  ASSUME NEW g \in [Window -> Size], NEW h \in [Window -> Size], NEW up,
         NEW o \in Window, NEW w \in Window,
         h[w].maxy = g[w].maxy,
         h[w].begy - h[o].begy = g[w].begy - g[o].begy,
         h[w].begx - h[o].begx = g[w].begx - g[o].begx
  PROVE  SubRows(h, up, o, w) = SubRows(g, up, o, w)
BY DEF SubRows

-----------------------------------------------------------------------------
(* Every step keeps the invariant *)

LEMMA InitIInv == Init => IInv
BY WindowsAssumption DEF Init, IInv, Types, Fresh, Nowhere, Size

\* A step that changes neither a window nor its parent.
LEMMA Frame ==
  ASSUME Types, Types', NEW w \in live, Good(w),
         orig'[w] = orig[w], ring'[w] = ring[w], geom'[w] = geom[w], rows'[w] = rows[w],
         orig[w] # NULL =>
           LET o == orig[w]
           IN  o \in live' /\ orig'[o] = orig[o] /\ geom'[o] = geom[o] /\ rows'[o] = rows[o]
  PROVE  Good(w)'
<1>1. orig[w] = NULL => Top(w)'
  BY DEF Good, Top
<1>2. ASSUME orig[w] # NULL PROVE SubOf(w, orig[w])'
  <2> DEFINE o == orig[w]
  <2>1. /\ o \in Window /\ w \in Window
        /\ geom \in [Window -> Size] /\ geom' \in [Window -> Size]
        /\ geom'[w] = geom[w] /\ geom'[o] = geom[o]
        /\ rows'[o] = rows[o] /\ o \in live' /\ orig'[o] = orig[o]
    BY <1>2 DEF Types
  <2>2. SubRows(geom', rows[o], o, w) = SubRows(geom, rows[o], o, w)
    BY ONLY <2>1, SubRowsSame
  <2> QED BY <1>2, <2>1, <2>2 DEF Good, SubOf, Inside
<1> QED BY <1>1, <1>2 DEF Good

LEMMA NewWinIInv ==
  ASSUME Cases = {}, IInv, NEW w \in Window, NEW n \in Heights, NEW m \in Widths,
         NEW by \in 0 .. Lines - 1, NEW bx \in 0 .. Cols - 1, NewWin(w, n, m, by, bx)
  PROVE  IInv'
<1> USE WindowsAssumption
<1>0. Types /\ Fresh
  BY DEF IInv
<1> DEFINE maxy == Length(n, Lines - by)
           maxx == Length(m, Cols - bx)
<1>1. /\ maxy \in Nat /\ maxx \in Nat
      /\ maxy >= 1 /\ maxx >= 1
      /\ geom' = [geom EXCEPT ![w] = [begy |-> by, begx |-> bx, maxy |-> maxy,
                                      maxx |-> maxx, reqy |-> n, reqx |-> m]]
      /\ rows' = [rows EXCEPT ![w] = OwnRows(w, maxy)]
  <2>1. Length(n, Lines - by) \in Int /\ Length(m, Cols - bx) \in Int
    BY DEF Length
  <2>2. /\ Length(n, Lines - by) > 0 /\ Length(m, Cols - bx) > 0
        /\ geom' = [geom EXCEPT ![w] =
                      [begy |-> by, begx |-> bx, maxy |-> Length(n, Lines - by),
                       maxx |-> Length(m, Cols - bx), reqy |-> n, reqx |-> m]]
        /\ rows' = [rows EXCEPT ![w] = OwnRows(w, Length(n, Lines - by))]
    BY DEF NewWin
  <2> QED BY ONLY <2>1, <2>2
<1> HIDE DEF maxy, maxx
<1>2. /\ w \notin live /\ live' = live \cup {w} /\ orig' = orig /\ ring' = ring
      /\ orig[w] = NULL /\ ring[w] = w
  BY <1>0 DEF NewWin, Fresh
<1>3. Types'
  <2>1. geom' \in [Window -> Size]
    <3>1. [begy |-> by, begx |-> bx, maxy |-> maxy, maxx |-> maxx,
           reqy |-> n, reqx |-> m] \in Size
      BY <1>1 DEF Size
    <3>2. geom \in [Window -> Size]
      BY <1>0 DEF Types
    <3> QED BY ONLY <3>1, <3>2, <1>1
  <2>2. rows' \in [Window -> Seq(Row)]
    <3>1. OwnRows(w, maxy) \in Seq(Row)
      BY <1>1, OwnRowsTyped
    <3>2. rows \in [Window -> Seq(Row)]
      BY <1>0 DEF Types
    <3> QED BY ONLY <3>1, <3>2, <1>1
  <2> QED BY <1>0, <1>2, <2>1, <2>2 DEF Types
<1>4. Fresh'
  BY <1>0, <1>2 DEF Fresh
<1>5. Good(w)'
  <2>1. /\ geom'[w].begy = by /\ geom'[w].begx = bx /\ geom'[w].maxy = maxy
        /\ geom'[w].maxx = maxx /\ rows'[w] = OwnRows(w, maxy)
    BY <1>0, <1>1 DEF Types
  <2>2. /\ DOMAIN rows'[w] = 1 .. maxy
        /\ \A i \in 1 .. maxy : rows'[w][i] = OwnRow(w, i)
    BY <1>1, <2>1, OwnRowsTyped
  <2>3. Top(w)'
    BY <1>2, <2>1, <2>2 DEF Top, OwnRow
  <2> QED BY <1>1, <1>2, <2>1, <2>2, <2>3 DEF Good
<1>6. ASSUME NEW x \in live PROVE Good(x)'
  <2>1. Good(x) /\ x \in Window /\ x # w
    BY <1>0, <1>2 DEF IInv, Types
  <2>2. orig[x] # NULL => orig[x] \in live
    BY <2>1 DEF Good, SubOf
  <2>3. \A y \in live : geom'[y] = geom[y] /\ rows'[y] = rows[y]
    BY <1>0, <1>1, <1>2 DEF Types
  <2> QED BY <1>0, <1>2, <1>3, <2>1, <2>2, <2>3, Frame
<1> QED BY <1>2, <1>3, <1>4, <1>5, <1>6 DEF IInv

LEMMA SubWinIInv ==
  ASSUME Cases = {}, IInv, NEW w \in Window, NEW o \in Window, NEW n \in Heights,
         NEW m \in Widths, NEW by \in 0 .. Lines - 1, NEW bx \in 0 .. Cols - 1,
         SubWin(w, o, n, m, by, bx)
  PROVE  IInv'
<1> USE WindowsAssumption
<1>0. /\ Types /\ Fresh /\ o \in live /\ orig[o] = NULL /\ Good(o) /\ w \notin live
      /\ geom[o] \in Size
  BY DEF IInv, SubWin, Types
<1> PICK maxy \in Int : maxy = Length(n, geom[o].maxy + geom[o].begy - by)
  BY <1>0 DEF Length, Size
<1> PICK maxx \in Int : maxx = Length(m, geom[o].maxx + geom[o].begx - bx)
  BY <1>0 DEF Length, Size
<1>1. /\ maxy \in Nat /\ maxx \in Nat
      /\ maxy >= 1 /\ maxx >= 1
      /\ by >= geom[o].begy /\ by + maxy <= geom[o].maxy + geom[o].begy
      /\ bx >= geom[o].begx /\ bx + maxx <= geom[o].maxx + geom[o].begx
      /\ geom' = [geom EXCEPT ![w] = [begy |-> by, begx |-> bx, maxy |-> maxy,
                                      maxx |-> maxx, reqy |-> n, reqx |-> m]]
      /\ rows' = [rows EXCEPT ![w] = SubRows(geom', rows[o], o, w)]
  BY DEF SubWin
<1>2. /\ live' = live \cup {w}
      /\ orig' = [orig EXCEPT ![w] = o]
      /\ ring' = [ring EXCEPT ![w] = ring[o]]
      /\ ring[o] = o
  BY <1>0 DEF SubWin, Good, Top
<1>3. geom' \in [Window -> Size] /\ geom'[w].maxy = maxy
  BY <1>0, <1>1 DEF Types, Size
<1>4. /\ SubRows(geom', rows[o], o, w) \in Seq(Row)
      /\ DOMAIN SubRows(geom', rows[o], o, w) = 1 .. maxy
  <2>1. rows[o] \in Seq(Row) /\ geom'[w].maxy \in Nat
    BY <1>0, <1>1, <1>3 DEF Types
  <2>2. /\ SubRows(geom', rows[o], o, w) \in Seq(Row)
        /\ DOMAIN SubRows(geom', rows[o], o, w) = 1 .. geom'[w].maxy
    BY <1>3, <2>1, SubRowsTyped
  <2> QED BY <1>3, <2>2
<1>5. Types'
  BY <1>0, <1>1, <1>2, <1>3, <1>4 DEF Types
<1>6. Fresh'
  BY <1>0, <1>2 DEF Fresh, Types
<1>7. \A y \in live : /\ y # w /\ geom'[y] = geom[y] /\ rows'[y] = rows[y]
                      /\ orig'[y] = orig[y] /\ ring'[y] = ring[y]
  BY <1>0, <1>1, <1>2 DEF Types
<1>8. Good(w)'
  <2>1. /\ geom'[w].begy = by /\ geom'[w].begx = bx /\ geom'[w].maxy = maxy
        /\ geom'[w].maxx = maxx /\ rows'[w] = SubRows(geom', rows[o], o, w)
        /\ orig'[w] = o /\ ring'[w] = o
    BY <1>0, <1>1, <1>2 DEF Types
  <2>2. Inside(w, o)'
    <3>1. geom'[o] = geom[o] /\ geom[o] \in Size
      BY <1>0, <1>7 DEF Types
    <3> QED BY <1>1, <2>1, <3>1 DEF Inside, Size
  <2>4. SubOf(w, o)'
    BY <1>0, <1>2, <1>7, <2>1, <2>2 DEF SubOf
  <2>3. o # NULL
    OBVIOUS
  <2> QED BY <1>1, <1>4, <2>1, <2>4, <2>3 DEF Good
<1>9. ASSUME NEW x \in live PROVE Good(x)'
  <2>1. Good(x) /\ (orig[x] # NULL => orig[x] \in live)
    BY DEF IInv, Good, SubOf
  <2> QED BY <1>0, <1>2, <1>5, <1>7, <2>1, Frame
<1> QED BY <1>2, <1>5, <1>6, <1>8, <1>9 DEF IInv

LEMMA DelWinIInv ==
  ASSUME IInv, NEW w \in Window, DelWin(w)
  PROVE  IInv'
<1> DEFINE gone == IF orig[w] = NULL THEN Tree(w) ELSE {w}
<1>0. Types /\ Fresh
  BY DEF IInv
<1>1. /\ live' = live \ gone
      /\ orig' = [x \in Window |-> IF x \in gone THEN NULL ELSE orig[x]]
      /\ ring' = [x \in Window |-> IF x \in gone THEN x ELSE ring[x]]
      /\ geom' = [x \in Window |-> IF x \in gone THEN Nowhere ELSE geom[x]]
      /\ rows' = [x \in Window |-> IF x \in gone THEN <<>> ELSE rows[x]]
      /\ w \in live
      /\ orig[w] = NULL \/ Subs(w) = {}
  BY DEF DelWin
<1>2. Types'
  BY <1>0, <1>1 DEF Types, Nowhere, Size
<1>3. Fresh'
  BY <1>0, <1>1 DEF Fresh
<1>4. ASSUME NEW x \in live' PROVE Good(x)'
  <2>1. x \in live /\ x \notin gone /\ Good(x) /\ x \in Window
    BY <1>0, <1>1, <1>4 DEF IInv, Types
  <2>2. ASSUME orig[x] # NULL PROVE orig[x] \in live \ gone
    <3>1. orig[x] \in live /\ ring[x] = orig[x] /\ orig[orig[x]] = NULL
      BY <2>1, <2>2 DEF Good, SubOf
    <3>2. CASE orig[w] = NULL
      <4>1. ring[orig[x]] = orig[x]
        BY <3>1 DEF IInv, Good, Top
      <4> QED BY <2>1, <3>1, <3>2, <4>1 DEF Tree
    <3>3. CASE orig[w] # NULL
      BY <1>1, <2>1, <3>1, <3>3 DEF Subs
    <3> QED BY <3>2, <3>3
  <2>3. \A y \in live \ gone : /\ geom'[y] = geom[y] /\ rows'[y] = rows[y]
                               /\ orig'[y] = orig[y] /\ ring'[y] = ring[y]
    BY <1>0, <1>1 DEF Types
  <2> HIDE DEF gone
  <2> QED BY <1>0, <1>1, <1>2, <2>1, <2>2, <2>3, Frame
<1> QED BY <1>2, <1>3, <1>4 DEF IInv

LEMMA MvWinIInv ==
  ASSUME Cases = {}, IInv, NEW w \in Window,
         NEW by \in 0 .. Lines - 1, NEW bx \in 0 .. Cols - 1, MvWin(w, by, bx)
  PROVE  IInv'
<1> USE WindowsAssumption
<1>0. /\ Types /\ Fresh /\ w \in live /\ Good(w)
      /\ live' = live /\ orig' = orig /\ ring' = ring
      /\ geom \in [Window -> Size] /\ live \subseteq Window /\ rows \in [Window -> Seq(Row)]
      /\ geom[w] \in Size
  BY DEF MvWin, IInv, Types
<1> PICK dy \in Int : dy = by - geom[w].begy
  BY <1>0 DEF Size
<1> PICK dx \in Int : dx = bx - geom[w].begx
  BY <1>0 DEF Size
<1> PICK moved \in SUBSET Window : moved = IF orig[w] = NULL THEN Tree(w) ELSE {w}
  BY <1>0 DEF Tree
<1> PICK o : o = orig[w]
  OBVIOUS
<1>1. /\ geom' = [x \in Window |->
                    IF x \in moved THEN [geom[x] EXCEPT !.begy = @ + dy, !.begx = @ + dx]
                    ELSE geom[x]]
      /\ rows' = IF o = NULL THEN rows
                 ELSE [rows EXCEPT ![w] = SubRows(geom', rows[o], o, w)]
      /\ o # NULL => /\ by >= geom[o].begy /\ bx >= geom[o].begx
                     /\ by + geom[w].maxy <= geom[o].begy + geom[o].maxy
                     /\ bx + geom[w].maxx <= geom[o].begx + geom[o].maxx
  BY <1>0 DEF MvWin
<1>2. ASSUME NEW x \in Window
      PROVE  /\ geom[x] \in Size /\ geom'[x] \in Size
             /\ geom'[x].maxy = geom[x].maxy /\ geom'[x].maxx = geom[x].maxx
             /\ geom'[x].begy = IF x \in moved THEN geom[x].begy + dy ELSE geom[x].begy
             /\ geom'[x].begx = IF x \in moved THEN geom[x].begx + dx ELSE geom[x].begx
  <2>1. /\ geom'[x] = IF x \in moved THEN [geom[x] EXCEPT !.begy = @ + dy, !.begx = @ + dx]
                      ELSE geom[x]
        /\ geom[x] \in Size
        /\ dy \in Int /\ dx \in Int
    BY <1>1, <1>0
  <2>2. CASE x \in moved
    <3>1. geom'[x] = [geom[x] EXCEPT !.begy = @ + dy, !.begx = @ + dx]
      BY <2>1, <2>2
    <3> PICK a \in Int, b \in Int : a = geom[x].begy + dy /\ b = geom[x].begx + dx
      BY <2>1 DEF Size
    <3>2. geom'[x] = [geom[x] EXCEPT !.begy = a, !.begx = b]
      BY <3>1
    <3>3. /\ geom'[x] \in Size
          /\ geom'[x].maxy = geom[x].maxy /\ geom'[x].maxx = geom[x].maxx
          /\ geom'[x].begy = a /\ geom'[x].begx = b
      BY <2>1, <3>2 DEF Size
    <3> QED BY <2>1, <2>2, <3>3
  <2>3. CASE x \notin moved
    BY ONLY <2>1, <2>3
  <2> QED BY <2>2, <2>3
<1>3. geom' \in [Window -> Size]
  BY <1>1, <1>2
<1>4. geom'[w].begy = by /\ geom'[w].begx = bx
  <2>1. w \in moved
    BY <1>0 DEF Tree, Good, Top
  <2>2. geom[w].begy \in Int /\ geom[w].begx \in Int
    BY <1>0 DEF Size
  <2>3. geom'[w].begy = geom[w].begy + dy /\ geom'[w].begx = geom[w].begx + dx
    BY <1>2, <2>1
  <2> QED BY <2>2, <2>3
<1>5. CASE o = NULL
  <2>1. rows' = rows /\ moved = Tree(w) /\ orig[w] = NULL
    BY <1>1, <1>5
  <2>2. Types'
    BY <1>0, <1>3, <2>1 DEF Types
  <2>3. ASSUME NEW x \in live PROVE Good(x)'
    <3>1. Good(x) /\ x \in Window
      BY <1>0 DEF IInv
    <3>2. geom'[x].maxy = geom[x].maxy /\ geom'[x].maxx = geom[x].maxx
      BY <1>2, <3>1
    <3>3. CASE orig[x] = NULL
      <4>1. ring[x] = x /\ geom[x].begy <= Lines /\ geom[x].begx <= Cols
        BY <3>1, <3>3 DEF Good, Top
      <4>2. CASE x = w
        <5>1. geom'[x].begy <= Lines /\ geom'[x].begx <= Cols
          BY <1>4, <4>2
        <5> QED BY <1>0, <2>1, <3>1, <3>2, <3>3, <5>1 DEF Good, Top
      <4>3. CASE x # w
        <5>1. x \notin moved
          BY <2>1, <4>1, <4>3 DEF Tree
        <5>2. geom'[x] = geom[x]
          BY <1>1, <3>1, <5>1
        <5> QED BY <1>0, <2>1, <3>1, <3>3, <5>2 DEF Good, Top
      <4> QED BY <4>2, <4>3
    <3>4. CASE orig[x] # NULL
      <4> PICK p \in live : p = orig[x]
        BY <3>1, <3>4 DEF Good, SubOf
      <4>1. /\ p \in Window /\ SubOf(x, p) /\ ring[x] = p
            /\ orig[p] = NULL /\ ring[p] = p
        BY <1>0, <3>1, <3>4 DEF Good, SubOf, IInv, Top
      <4>2. x \in moved <=> p \in moved
        BY <2>1, <4>1, <3>1 DEF Tree
      <4>3. /\ geom'[x].begy - geom'[p].begy = geom[x].begy - geom[p].begy
            /\ geom'[x].begx - geom'[p].begx = geom[x].begx - geom[p].begx
            /\ geom'[x].maxy = geom[x].maxy /\ geom'[x].maxx = geom[x].maxx
            /\ geom'[p].maxy = geom[p].maxy /\ geom'[p].maxx = geom[p].maxx
        <5>1. /\ geom'[x].begy = IF x \in moved THEN geom[x].begy + dy ELSE geom[x].begy
              /\ geom'[x].begx = IF x \in moved THEN geom[x].begx + dx ELSE geom[x].begx
              /\ geom'[p].begy = IF p \in moved THEN geom[p].begy + dy ELSE geom[p].begy
              /\ geom'[p].begx = IF p \in moved THEN geom[p].begx + dx ELSE geom[p].begx
              /\ geom'[x].maxy = geom[x].maxy /\ geom'[x].maxx = geom[x].maxx
              /\ geom'[p].maxy = geom[p].maxy /\ geom'[p].maxx = geom[p].maxx
              /\ geom[x] \in Size /\ geom[p] \in Size
              /\ dy \in Int /\ dx \in Int
          BY <1>2, <3>1, <4>1
        <5> QED BY ONLY <4>2, <5>1 DEF Size
      <4>4. SubRows(geom', rows[p], p, x) = SubRows(geom, rows[p], p, x)
        <5>1. geom \in [Window -> Size]
          BY <1>0
        <5> QED BY ONLY <1>3, <3>1, <4>1, <4>3, <5>1, SubRowsSame
      <4>5. Inside(x, p)'
        <5>1. /\ geom[x] \in Size /\ geom[p] \in Size /\ geom'[x] \in Size /\ geom'[p] \in Size
              /\ Inside(x, p)
          BY <1>0, <1>3, <3>1, <4>1 DEF SubOf
        <5> QED BY ONLY <4>3, <5>1 DEF Inside, Size
      <4>6. SubOf(x, p)'
        BY <1>0, <2>1, <4>1, <4>4, <4>5 DEF SubOf
      <4> QED BY <1>0, <2>1, <3>1, <3>2, <3>4, <4>6 DEF Good
    <3> QED BY <3>3, <3>4
  <2> QED BY <1>0, <2>2, <2>3 DEF IInv, Fresh
<1>6. CASE o # NULL
  <2>1. /\ o \in live /\ o \in Window /\ orig[o] = NULL /\ ring[w] = o /\ o # w
        /\ rows' = [rows EXCEPT ![w] = SubRows(geom', rows[o], o, w)]
        /\ rows[o] \in Seq(Row) /\ moved = {w} /\ orig[w] # NULL
    BY <1>0, <1>1, <1>6 DEF Good, SubOf
  <2>2. /\ geom'[w].maxy = geom[w].maxy /\ geom'[w].maxx = geom[w].maxx
        /\ geom[w].maxy \in Nat /\ geom'[w].maxy \in Nat
        /\ geom[w].maxy >= 1 /\ geom[w].maxx >= 1
    BY <1>0, <1>2 DEF Good, Size
  <2>3. /\ SubRows(geom', rows[o], o, w) \in Seq(Row)
        /\ DOMAIN SubRows(geom', rows[o], o, w) = 1 .. geom[w].maxy
    BY <1>3, <2>1, <2>2, SubRowsTyped
  <2>4. Types'
    BY <1>0, <1>3, <2>1, <2>3 DEF Types
  <2>5. \A y \in live : y # w => geom'[y] = geom[y] /\ rows'[y] = rows[y]
    BY <1>1, <1>0, <2>1
  <2>6. Good(w)'
    <3>1. Inside(w, o)'
      <4>1. geom'[o] = geom[o] /\ geom[o] \in Size
        BY <1>0, <2>1, <2>5
      <4>2. /\ by >= geom[o].begy /\ bx >= geom[o].begx
            /\ by + geom[w].maxy <= geom[o].begy + geom[o].maxy
            /\ bx + geom[w].maxx <= geom[o].begx + geom[o].maxx
        BY <1>1, <1>6
      <4> QED BY ONLY <1>4, <2>2, <4>1, <4>2 DEF Inside
    <3>2. SubOf(w, o)'
      BY <1>0, <2>1, <2>5, <3>1 DEF SubOf
    <3>3. DOMAIN rows'[w] = 1 .. geom[w].maxy
      BY <1>0, <2>1, <2>3
    <3> QED BY <1>0, <2>1, <2>2, <3>2, <3>3 DEF Good
  <2>7. ASSUME NEW x \in live, x # w PROVE Good(x)'
    <3>1. Good(x) /\ (orig[x] # NULL => orig[x] \in live /\ orig[x] # w)
      BY <2>1, <2>7 DEF IInv, Good, SubOf
    <3> QED BY <1>0, <2>4, <2>5, <2>7, <3>1, Frame
  <2> QED BY <1>0, <2>4, <2>6, <2>7 DEF IInv, Fresh
<1> QED BY <1>5, <1>6

\* In a ring every window but the first is a subwindow of the first.
LEMMA Ring ==
  ASSUME IInv, NEW w \in live, orig[w] = NULL
  PROVE  /\ w \in Tree(w) /\ Tree(w) \subseteq live /\ Tree(w) \subseteq Window
         /\ \A x \in Tree(w) : x # w => x \in Subs(w) /\ SubOf(x, w)
         /\ \A x \in live \ Tree(w) : orig[x] # NULL => orig[x] \in live \ Tree(w)
<1>1. \A x \in live : orig[x] = NULL => ring[x] = x
  BY DEF IInv, Good, Top
<1>2. \A x \in live : orig[x] # NULL => ring[x] = orig[x] /\ SubOf(x, orig[x])
  BY DEF IInv, Good, SubOf
<1>3. \A x \in live : orig[x] # NULL => orig[x] \in live /\ orig[orig[x]] = NULL
  BY <1>2 DEF SubOf
<1> QED BY <1>1, <1>2, <1>3 DEF Tree, Subs, IInv, Types

\* The begin of a window is never behind its bounds, so a new size leaves it
\* where it is; a subwindow is cut at the end of its parent.
LEMMA WantedFits ==
  ASSUME Types, NEW w \in live, Good(w), NEW n \in Int, NEW m \in Int,
         NEW g, g = Wanted(w, n, m),
         orig[w] # NULL => Good(orig[w])
  PROVE  /\ g \in Size
         /\ g.begy = geom[w].begy /\ g.begx = geom[w].begx
         /\ g.maxy >= 1 /\ g.maxx >= 1
         /\ orig[w] # NULL =>
              LET p == geom[orig[w]]
              IN  g.begy + g.maxy <= p.begy + p.maxy /\ g.begx + g.maxx <= p.begx + p.maxx
<1> USE WindowsAssumption
<1> PICK s \in Size : s = geom[w]
  BY DEF Types
<1> DEFINE Fits(endy, endx, backy, backx) ==
      /\ g = Placed(s, Bounded(s.begy, n, endy, backy, endy),
                       Bounded(s.begx, m, endx, backx, endx))
      /\ s.begy <= endy /\ s.begx <= endx
      /\ orig[w] # NULL =>
           /\ s.begy < endy /\ s.begx < endx
           /\ endy = geom[orig[w]].begy + geom[orig[w]].maxy
           /\ endx = geom[orig[w]].begx + geom[orig[w]].maxx
<1>1. \E endy, endx, backy, backx \in Int : Fits(endy, endx, backy, backx)
  <2>1. CASE orig[w] = NULL
    <3>1. Fits(Lines, Cols, 0, 0)
      BY <2>1 DEF Wanted, Good, Top
    <3> HIDE DEF Fits
    <3> QED BY <3>1
  <2>2. CASE orig[w] # NULL
    <3> PICK p \in Size : p = geom[orig[w]]
      BY <2>2 DEF Types, Good, SubOf
    <3> PICK endy \in Int, endx \in Int : endy = p.begy + p.maxy /\ endx = p.begx + p.maxx
      BY DEF Size
    <3>1. s.begy < endy /\ s.begx < endx /\ s.begy <= endy /\ s.begx <= endx
      <4>1. /\ s.begy + s.maxy <= endy /\ s.begx + s.maxx <= endx
            /\ s.maxy >= 1 /\ s.maxx >= 1
        BY <2>2 DEF Good, SubOf, Inside
      <4> QED BY <4>1 DEF Size
    <3>2. Fits(endy, endx, endy - 1, endx - 1)
      BY <2>2, <3>1 DEF Wanted
    <3> HIDE DEF Fits
    <3> QED BY <3>2
  <2> QED BY <2>1, <2>2
<1> PICK endy \in Int, endx \in Int, backy \in Int, backx \in Int : Fits(endy, endx, backy, backx)
  BY <1>1
<1> PICK y : y = Bounded(s.begy, n, endy, backy, endy)
  OBVIOUS
<1> PICK x : x = Bounded(s.begx, m, endx, backx, endx)
  OBVIOUS
<1>2. g = [s EXCEPT !.begy = y.beg, !.maxy = y.len, !.begx = x.beg, !.maxx = x.len]
  BY DEF Placed
<1>3. s.begy \in Int /\ s.begx \in Int /\ s.begy <= endy /\ s.begx <= endx
  BY DEF Size
<1>6. orig[w] # NULL => /\ s.begy < endy /\ s.begx < endx
                        /\ endy = geom[orig[w]].begy + geom[orig[w]].maxy
                        /\ endx = geom[orig[w]].begx + geom[orig[w]].maxx
  OBVIOUS
<1> HIDE DEF Fits
<1>4. y.beg = s.begy /\ y.len \in Int /\ y.len >= 1 /\ (s.begy < endy => y.beg + y.len <= endy)
  BY <1>3 DEF Bounded
<1>5. x.beg = s.begx /\ x.len \in Int /\ x.len >= 1 /\ (s.begx < endx => x.beg + x.len <= endx)
  BY <1>3 DEF Bounded
<1> QED BY <1>2, <1>3, <1>4, <1>5, <1>6 DEF Size

\* A subwindow that is cut to a new size of its parent fits.
LEMMA RefittedFits ==
  ASSUME NEW top \in Size, NEW s \in Size, top.maxy >= 1, top.maxx >= 1,
         top.begy <= s.begy, top.begx <= s.begx, ~AtEdge(top, s),
         NEW h, h = Refitted(top, s)
  PROVE  /\ h \in Size /\ h.maxy >= 1 /\ h.maxx >= 1
         /\ top.begy <= h.begy /\ h.begy + h.maxy <= top.begy + top.maxy
         /\ top.begx <= h.begx /\ h.begx + h.maxx <= top.begx + top.maxx
<1> PICK endy \in Int : endy = top.begy + top.maxy
  BY DEF Size
<1> PICK endx \in Int : endx = top.begx + top.maxx
  BY DEF Size
<1> PICK far \in Int : far = top.begy + top.maxx
  BY DEF Size
<1> PICK y : y = Bounded(s.begy, s.reqy, endy, endy - 1, endy)
  OBVIOUS
<1> PICK x : x = Bounded(s.begx, s.reqx, endx, endx - 1, far)
  OBVIOUS
<1>1. h = [s EXCEPT !.begy = y.beg, !.maxy = y.len, !.begx = x.beg, !.maxx = x.len]
  BY DEF Refitted, Placed
<1>2. /\ s.begy \in Int /\ s.begx \in Int /\ s.reqy \in Int /\ s.reqx \in Int
      /\ top.begy \in Int /\ top.begx \in Int
      /\ top.begy < endy /\ top.begx < endx
      /\ s.begy # endy /\ s.begx # endx
      /\ s.reqx <= 0 \/ s.begx + s.reqx > endx => far = endx
  BY DEF Size, AtEdge
<1>3. y.beg \in Int /\ y.len \in Int /\ top.begy <= y.beg /\ y.len >= 1 /\ y.beg + y.len <= endy
  BY <1>2, BoundedFits, ZenonT(60)
<1>4. x.beg \in Int /\ x.len \in Int /\ top.begx <= x.beg /\ x.len >= 1 /\ x.beg + x.len <= endx
  BY <1>2, BoundedFits, ZenonT(60)
<1> QED BY <1>1, <1>3, <1>4, ZenonT(60) DEF Size

\* The rows of the ring that WResizeTop computes, parents first.
LEMMA FreshRows ==
  ASSUME IInv, NEW w \in live, NEW n, NEW m, WResizeTop(w, n, m)
  PROVE  /\ rows'[w] = OwnRows(w, geom'[w].maxy)
         /\ \A x \in Subs(w) : rows'[x] = SubRows(geom', rows'[w], w, x)
         /\ \A x \in Window \ Tree(w) : rows'[x] = rows[x]
<1> DEFINE top == [Wanted(w, n, m) EXCEPT !.reqy = n, !.reqx = m]
           g == [x \in Window |-> IF x = w THEN top
                                  ELSE IF x \in Tree(w) THEN Refitted(top, geom[x])
                                  ELSE geom[x]]
           Rec(f) == [x \in Tree(w) |-> IF x = w THEN OwnRows(w, top.maxy)
                                        ELSE SubRows(g, f[orig[x]], orig[x], x)]
           f == CHOOSE f : f = Rec(f)
<1>1. /\ orig[w] = NULL /\ geom' = g
      /\ rows' = [x \in Window |-> IF x \in Tree(w) THEN f[x] ELSE rows[x]]
  BY DEF WResizeTop
<1>2. /\ w \in Tree(w) /\ Tree(w) \subseteq Window
      /\ \A x \in Tree(w) : x # w => orig[x] = w
      /\ \A x \in Subs(w) : x \in Tree(w) /\ x # w /\ orig[x] = w
  <2>1. \A x \in Subs(w) : x \in Tree(w) /\ x # w
    <3>1. w # NULL /\ orig[w] = NULL
      BY <1>1, WindowsAssumption DEF IInv, Types
    <3> QED BY <3>1 DEF IInv, Good, SubOf, Subs, Tree
  <2> QED BY <1>1, <2>1, Ring DEF Subs
<1>3. f = Rec(f)
  <2> DEFINE h == [x \in Tree(w) |-> IF x = w THEN OwnRows(w, top.maxy)
                                     ELSE SubRows(g, OwnRows(w, top.maxy), w, x)]
  <2>1. h = Rec(h)
    <3> HIDE DEF top, g
    <3>1. h[w] = OwnRows(w, top.maxy)
      BY <1>2
    <3>2. \A x \in Tree(w) : x # w => h[orig[x]] = OwnRows(w, top.maxy)
      BY <1>2, <3>1
    <3>3. \A x \in Tree(w) : h[x] = IF x = w THEN OwnRows(w, top.maxy)
                                    ELSE SubRows(g, h[orig[x]], orig[x], x)
      <4>1. \A x \in Tree(w) : h[x] = IF x = w THEN OwnRows(w, top.maxy)
                                      ELSE SubRows(g, OwnRows(w, top.maxy), w, x)
        OBVIOUS
      <4> HIDE DEF h
      <4> QED BY <1>2, <3>2, <4>1
    <3> QED BY <3>3
  <2>2. \E k : k = Rec(k)
    <3> HIDE DEF h, Rec
    <3> QED BY <2>1
  <2> HIDE DEF Rec
  <2> QED BY <2>2
<1>4. \A x \in Tree(w) : f[x] = IF x = w THEN OwnRows(w, top.maxy)
                                ELSE SubRows(g, f[orig[x]], orig[x], x)
  <2> HIDE DEF f, top, g
  <2> QED BY <1>3
<1>5. geom'[w] = top
  <2> HIDE DEF top
  <2> QED BY <1>1, <1>2
<1> HIDE DEF f, top, g
<1> QED BY <1>1, <1>2, <1>4, <1>5

LEMMA WResizeTopIInv ==
  ASSUME Cases = {}, IInv, NEW w \in Window, NEW n \in Heights, NEW m \in Widths,
         WResizeTop(w, n, m)
  PROVE  IInv'
<1> USE WindowsAssumption
<1>1. /\ Types /\ Fresh /\ w \in live /\ orig[w] = NULL /\ w # NULL
      /\ live' = live /\ orig' = orig /\ ring' = ring
      /\ n \in Int /\ m \in Int /\ Good(w)
      /\ geom \in [Window -> Size] /\ live \subseteq Window /\ rows \in [Window -> Seq(Row)]
  BY DEF WResizeTop, IInv, Types
<1> PICK top : top = [Wanted(w, n, m) EXCEPT !.reqy = n, !.reqx = m]
  OBVIOUS
<1>2. /\ geom' = [x \in Window |-> IF x = w THEN top
                                   ELSE IF x \in Tree(w) THEN Refitted(top, geom[x])
                                   ELSE geom[x]]
      /\ \A s \in Subs(w) : ~AtEdge(top, geom[s])
  BY DEF WResizeTop
<1>3. /\ top \in Size /\ top.begy = geom[w].begy /\ top.begx = geom[w].begx
      /\ top.maxy >= 1 /\ top.maxx >= 1
  <2> PICK g : g = Wanted(w, n, m)
    OBVIOUS
  <2>1. /\ g \in Size /\ g.begy = geom[w].begy /\ g.begx = geom[w].begx
        /\ g.maxy >= 1 /\ g.maxx >= 1
    BY <1>1, WantedFits
  <2> QED BY <1>1, <2>1 DEF Size
<1>4. /\ w \in Tree(w) /\ Tree(w) \subseteq live
      /\ \A x \in Tree(w) : x # w => x \in Subs(w) /\ SubOf(x, w)
      /\ \A x \in live \ Tree(w) : orig[x] # NULL => orig[x] \in live \ Tree(w)
  BY <1>1, Ring
<1>5. /\ rows'[w] = OwnRows(w, geom'[w].maxy)
      /\ \A x \in Subs(w) : rows'[x] = SubRows(geom', rows'[w], w, x)
      /\ \A x \in Window \ Tree(w) : rows'[x] = rows[x]
  BY <1>1, FreshRows
<1>6. geom'[w] = top /\ \A x \in Window \ Tree(w) : geom'[x] = geom[x]
  BY <1>1, <1>2, <1>4
<1>7. ASSUME NEW s \in Tree(w), s # w
      PROVE  /\ s \in Window /\ s \in Subs(w) /\ orig[s] = w /\ ring[s] = w
             /\ geom'[s] \in Size /\ geom'[s].maxy >= 1 /\ geom'[s].maxx >= 1
             /\ Inside(s, w)'
  <2>1. s \in Window /\ s \in Subs(w) /\ SubOf(s, w) /\ orig[s] = w /\ ring[s] = w
    BY <1>1, <1>4, <1>7 DEF Subs, SubOf
  <2> PICK g \in Size : g = geom[s]
    BY <1>1, <2>1
  <2> PICK h : h = Refitted(top, g)
    OBVIOUS
  <2>2. ~AtEdge(top, g) /\ top.begy <= g.begy /\ top.begx <= g.begx
    BY <1>2, <1>3, <2>1 DEF SubOf, Inside
  <2>3. /\ h \in Size /\ h.maxy >= 1 /\ h.maxx >= 1
        /\ top.begy <= h.begy /\ h.begy + h.maxy <= top.begy + top.maxy
        /\ top.begx <= h.begx /\ h.begx + h.maxx <= top.begx + top.maxx
    BY <1>3, <2>2, RefittedFits
  <2>4. geom'[s] = h
    BY <1>2, <1>7, <2>1
  <2> QED BY <1>6, <2>1, <2>3, <2>4 DEF Inside
<1>8. ASSUME NEW x \in Window PROVE geom'[x] \in Size
  BY <1>1, <1>3, <1>6, <1>7
<1>9. geom' \in [Window -> Size]
  BY <1>2, <1>8
<1>10. /\ rows'[w] \in Seq(Row) /\ DOMAIN rows'[w] = 1 .. top.maxy
       /\ \A i \in 1 .. top.maxy : rows'[w][i] = OwnRow(w, i)
  <2>1. top.maxy \in Nat
    BY ONLY <1>3 DEF Size
  <2> QED BY <1>5, <1>6, <2>1, OwnRowsTyped
<1>11. ASSUME NEW s \in Tree(w), s # w
       PROVE  rows'[s] \in Seq(Row) /\ DOMAIN rows'[s] = 1 .. geom'[s].maxy
  <2>1. /\ s \in Window /\ s \in Subs(w) /\ geom'[s].maxy \in Nat
        /\ rows'[s] = SubRows(geom', rows'[w], w, s)
    BY <1>5, <1>7, <1>11 DEF Size
  <2>2. /\ SubRows(geom', rows'[w], w, s) \in Seq(Row)
        /\ DOMAIN SubRows(geom', rows'[w], w, s) = 1 .. geom'[s].maxy
    BY <1>9, <1>10, <2>1, SubRowsTyped
  <2> QED BY <2>1, <2>2
<1>12. Types'
  <2>1. rows' = [x \in Window |-> rows'[x]]
    BY DEF WResizeTop
  <2>2. \A x \in Window : rows'[x] \in Seq(Row)
    BY <1>1, <1>5, <1>10, <1>11
  <2> QED BY <1>1, <1>9, <2>1, <2>2 DEF Types
<1>13. Good(w)'
  <2>1. ring[w] = w /\ geom[w].begy <= Lines /\ geom[w].begx <= Cols
    BY <1>1 DEF Good, Top
  <2>2. Top(w)'
    BY <1>1, <1>3, <1>6, <1>10, <2>1 DEF Top, OwnRow
  <2> QED BY <1>1, <1>3, <1>6, <1>10, <2>2 DEF Good
<1>14. ASSUME NEW s \in Tree(w), s # w PROVE Good(s)'
  <2>1. SubOf(s, w)'
    BY <1>1, <1>5, <1>7, <1>14 DEF SubOf
  <2> QED BY <1>1, <1>7, <1>11, <1>14, <2>1 DEF Good
<1>15. ASSUME NEW x \in live \ Tree(w) PROVE Good(x)'
  <2>1. \A y \in live \ Tree(w) : geom'[y] = geom[y] /\ rows'[y] = rows[y]
    BY <1>1, <1>5, <1>6
  <2>2. Good(x)
    BY DEF IInv
  <2> QED BY <1>1, <1>4, <1>12, <2>1, <2>2, Frame
<1> QED BY <1>1, <1>12, <1>13, <1>14, <1>15 DEF IInv, Fresh

\* The change records of a window are those of the first window of its ring.
LEMMA MarksOfRing ==
  ASSUME IInv, NEW x \in live, NEW i \in DOMAIN rows[x]
  PROVE  rows[x][i].mark = Wild \/ rows[x][i].mark[1] = ring[x]
<1>1. Good(x)
  BY DEF IInv
<1>2. CASE orig[x] = NULL
  <2>1. /\ ring[x] = x
        /\ \E k \in 1 .. geom[x].maxy : rows[x][i] = OwnRow(x, k)
    BY <1>1, <1>2 DEF Good, Top
  <2> QED BY <2>1 DEF OwnRow
<1>3. CASE orig[x] # NULL
  <2> PICK o \in live : o = orig[x]
    BY <1>1, <1>3 DEF Good, SubOf
  <2> DEFINE dy == geom[x].begy - geom[o].begy
  <2>1. /\ Good(o) /\ orig[o] = NULL /\ ring[x] = o
        /\ rows[x] = SubRows(geom, rows[o], o, x)
    BY <1>1, <1>3 DEF Good, SubOf, IInv
  <2>2. i \in 1 .. geom[x].maxy
    BY <1>1 DEF Good
  <2>3. rows[x][i].mark = IF dy + i \in DOMAIN rows[o] THEN rows[o][dy + i].at ELSE Wild
    <3>1. SubRows(geom, rows[o], o, x)[i].mark =
            IF dy + i \in DOMAIN rows[o] THEN rows[o][dy + i].at ELSE Wild
      BY <2>2 DEF SubRows
    <3> QED BY <2>1, <3>1
  <2>4. \A k \in DOMAIN rows[o] : rows[o][k].at[1] = o
    <3>1. \A k \in DOMAIN rows[o] : \E j \in 1 .. geom[o].maxy : rows[o][k] = OwnRow(o, j)
      BY <2>1 DEF Good, Top
    <3>2. ASSUME NEW k \in DOMAIN rows[o] PROVE rows[o][k].at[1] = o
      <4> PICK j \in 1 .. geom[o].maxy : rows[o][k] = OwnRow(o, j)
        BY <3>1
      <4> QED BY DEF OwnRow
    <3> QED BY <3>2
  <2> HIDE DEF dy
  <2> QED BY <2>1, <2>3, <2>4
<1> QED BY <1>2, <1>3

LEMMA WResizeSubIInv ==
  ASSUME IInv, NEW w \in Window, NEW n \in Heights, NEW m \in Widths, WResizeSub(w, n, m)
  PROVE  IInv'
<1> USE WindowsAssumption
<1>1. /\ Types /\ Fresh /\ w \in live /\ orig[w] # NULL
      /\ live' = live /\ orig' = orig /\ ring' = ring
      /\ n \in Int /\ m \in Int /\ Good(w)
      /\ geom \in [Window -> Size] /\ live \subseteq Window /\ rows \in [Window -> Seq(Row)]
  BY DEF WResizeSub, IInv, Types
<1> PICK o \in live : o = orig[w]
  BY <1>1 DEF Good, SubOf
<1> PICK g : g = [Wanted(w, n, m) EXCEPT !.reqy = n, !.reqx = m]
  OBVIOUS
<1>2. /\ o \in Window /\ Good(o) /\ orig[o] = NULL /\ o # w /\ ring[w] = o /\ Inside(w, o)
  BY <1>1 DEF Good, SubOf, IInv
<1>3. /\ g \in Size /\ g.begy = geom[w].begy /\ g.begx = geom[w].begx
      /\ g.maxy >= 1 /\ g.maxx >= 1
      /\ g.begy + g.maxy <= geom[o].begy + geom[o].maxy
      /\ g.begx + g.maxx <= geom[o].begx + geom[o].maxx
  <2> PICK k : k = Wanted(w, n, m)
    OBVIOUS
  <2>1. /\ k \in Size /\ k.begy = geom[w].begy /\ k.begx = geom[w].begx
        /\ k.maxy >= 1 /\ k.maxx >= 1
        /\ k.begy + k.maxy <= geom[o].begy + geom[o].maxy
        /\ k.begx + k.maxx <= geom[o].begx + geom[o].maxx
    BY <1>1, <1>2, WantedFits
  <2> QED BY <1>1, <2>1 DEF Size
<1>4. /\ geom' = [geom EXCEPT ![w] = g]
      /\ rows' = [x \in Window |->
                    IF x = w THEN SubRows(geom', rows[o], o, w)
                    ELSE IF x \in Tree(ring[w])
                    THEN [i \in DOMAIN rows[x] |-> Unmarked(w, rows[x][i])]
                    ELSE rows[x]]
  BY DEF WResizeSub
<1>5. geom' \in [Window -> Size] /\ geom'[w] = g /\ geom'[o] = geom[o] /\ g.maxy \in Nat
  <2>1. g.maxy \in Nat
    BY ONLY <1>3 DEF Size
  <2> QED BY <1>1, <1>2, <1>3, <1>4, <2>1
<1>6. ASSUME NEW x \in Window, x # w PROVE rows'[x] = rows[x] /\ geom'[x] = geom[x]
  <2>1. CASE x \in Tree(ring[w])
    <3>1. x \in live /\ ring[x] = o /\ o # w
      BY <1>2, <2>1 DEF Tree
    <3>2. ASSUME NEW i \in DOMAIN rows[x] PROVE Unmarked(w, rows[x][i]) = rows[x][i]
      BY <3>1, MarksOfRing DEF Unmarked
    <3>3. rows[x] = [i \in DOMAIN rows[x] |-> rows[x][i]]
      BY <1>1
    <3> QED BY <1>1, <1>4, <1>6, <2>1, <3>2, <3>3
  <2>2. CASE x \notin Tree(ring[w])
    BY <1>1, <1>4, <1>6, <2>2
  <2> QED BY <2>1, <2>2
<1>7. rows'[w] = SubRows(geom', rows[o], o, w)
  BY <1>4
<1>8. /\ SubRows(geom', rows[o], o, w) \in Seq(Row)
      /\ DOMAIN SubRows(geom', rows[o], o, w) = 1 .. g.maxy
  <2>1. /\ rows[o] \in Seq(Row) /\ geom'[w].maxy \in Nat
        /\ geom' \in [Window -> Size] /\ o \in Window
    BY <1>1, <1>2, <1>5
  <2>2. /\ SubRows(geom', rows[o], o, w) \in Seq(Row)
        /\ DOMAIN SubRows(geom', rows[o], o, w) = 1 .. geom'[w].maxy
    BY <2>1, SubRowsTyped
  <2> QED BY <1>5, <2>2
<1>9. Types'
  <2>1. rows' = [x \in Window |-> rows'[x]]
    BY <1>4
  <2>2. \A x \in Window : rows'[x] \in Seq(Row)
    BY <1>1, <1>6, <1>7, <1>8
  <2> QED BY <1>1, <1>5, <2>1, <2>2 DEF Types
<1>10. Good(w)'
  <2>1. Inside(w, o)'
    BY <1>2, <1>3, <1>5 DEF Inside
  <2>2. SubOf(w, o)'
    BY <1>1, <1>2, <1>6, <1>7, <2>1 DEF SubOf
  <2> QED BY <1>1, <1>3, <1>5, <1>7, <1>8, <2>2 DEF Good
<1>11. ASSUME NEW x \in live, x # w PROVE Good(x)'
  <2>1. Good(x) /\ x \in Window /\ (orig[x] # NULL => orig[x] \in live /\ orig[x] # w)
    BY <1>1, <1>11 DEF IInv, Good, SubOf
  <2> QED BY <1>1, <1>6, <1>9, <1>11, <2>1, Frame
<1> QED BY <1>1, <1>9, <1>10, <1>11 DEF IInv, Fresh

\* Nothing has changed.
LEMMA Stutter == IInv /\ UNCHANGED vars => IInv'
BY DEF vars, IInv, Types, Fresh, Good, Top, SubOf, Inside

LEMMA WResizeFailsIInv ==
  ASSUME Cases = {}, IInv, NEW w \in Window, NEW n \in Heights, NEW m \in Widths,
         WResizeFails(w, n, m)
  PROVE  IInv'
<1> USE WindowsAssumption
<1>1. /\ Types /\ w \in live /\ Good(w) /\ n \in Int /\ m \in Int
      /\ orig[w] # NULL => Good(orig[w])
      /\ geom \in [Window -> Size] /\ geom[w] \in Size
  BY DEF WResizeFails, IInv, Types, Good, SubOf
<1> PICK g : g = Wanted(w, n, m)
  OBVIOUS
<1>2. g.begy = geom[w].begy /\ g.begx = geom[w].begx
  BY <1>1, WantedFits
<1>3. geom' = [geom EXCEPT ![w].begy = g.begy, ![w].begx = g.begx]
  BY DEF WResizeFails
<1>4. geom' = geom
  <2>1. [geom[w] EXCEPT !.begy = g.begy, !.begx = g.begx] = geom[w]
    BY <1>1, <1>2 DEF Size
  <2> QED BY <1>1, <1>3, <2>1
<1>5. rows' = rows /\ live' = live /\ orig' = orig /\ ring' = ring
  BY DEF WResizeFails, Left
<1> QED BY <1>4, <1>5, Stutter DEF vars

LEMMA InsDelLnIInv ==
  ASSUME Cases = {}, IInv, NEW w \in Window, NEW c \in 1 .. Lines, NEW n \in 1 .. Lines,
         NEW last \in 1 .. Lines, InsDelLn(w, c, n, last)
  PROVE  IInv'
<1> USE WindowsAssumption
<1>1. /\ Types /\ Fresh /\ w \in live /\ Good(w) /\ Subs(w) = {}
      /\ live' = live /\ orig' = orig /\ ring' = ring /\ geom' = geom
      /\ rows \in [Window -> Seq(Row)]
      /\ geom[w].maxy \in Nat /\ DOMAIN rows[w] = 1 .. geom[w].maxy
      /\ c \in 1 .. geom[w].maxy /\ last \in c .. geom[w].maxy /\ n \in 1 .. last - c + 1
  BY SMTT(30) DEF InsDelLn, IInv, Types, Good, Size
<1>2. CASE orig[w] = NULL
  <2> PICK s : s = rows[w]
    OBVIOUS
  <2> PICK t : /\ t = Inserted(s, c, n, last) \/ t = Deleted(s, c, n, last)
               /\ rows' = [rows EXCEPT ![w] = t]
    BY <1>2 DEF InsDelLn
  <2>1. /\ t = [i \in 1 .. geom[w].maxy |-> t[i]]
        /\ \A i \in 1 .. geom[w].maxy : \E j \in 1 .. geom[w].maxy : t[i] = s[j]
    <3> PICK len \in Nat : len = geom[w].maxy
      BY <1>1
    <3>1. /\ DOMAIN s = 1 .. len /\ c \in 1 .. len /\ last \in c .. len
          /\ n \in 1 .. last - c + 1
      BY <1>1
    <3>2. t = [i \in 1 .. len |-> t[i]]
      BY <3>1 DEF Inserted, Deleted
    <3>3. ASSUME NEW i \in 1 .. len PROVE \E j \in 1 .. len : t[i] = s[j]
      <4> PICK a : a = t[i]
        OBVIOUS
      <4>1. len \in Nat /\ i \in 1 .. len
        OBVIOUS
      <4>2. CASE t = Inserted(s, c, n, last)
        <5>1. a = Inserted(s, c, n, last)[i]
          BY <4>2
        <5>2. \E j \in 1 .. len : a = s[j]
          BY ONLY <3>1, <4>1, <5>1, InsertedKeeps
        <5> QED BY <5>2
      <4>3. CASE t = Deleted(s, c, n, last)
        <5>1. a = Deleted(s, c, n, last)[i]
          BY <4>3
        <5>2. \E j \in 1 .. len : a = s[j]
          BY ONLY <3>1, <4>1, <5>1, DeletedKeeps
        <5> QED BY <5>2
      <4> QED BY <4>2, <4>3
    <3> QED BY <3>2, <3>3
  <2>2. t \in Seq(Row)
    <3>1. \A i \in 1 .. geom[w].maxy : t[i] \in Row
      BY <1>1, <2>1, SMTT(30)
    <3>2. t \in [1 .. geom[w].maxy -> Row]
      BY <2>1, <3>1
    <3>3. [1 .. geom[w].maxy -> Row] \subseteq Seq(Row)
      BY <1>1
    <3> QED BY <3>2, <3>3
  <2>3. Types'
    BY <1>1, <2>2 DEF Types
  <2>4. rows'[w] = t /\ \A x \in Window : x # w => rows'[x] = rows[x]
    BY <1>1
  <2>5. Good(w)'
    <3>1. DOMAIN t = 1 .. geom[w].maxy
      BY <2>1
    <3>2. \A i \in 1 .. geom[w].maxy : \E k \in 1 .. geom[w].maxy : t[i] = OwnRow(w, k)
      BY <1>1, <1>2, <2>1 DEF Good, Top
    <3>3. Top(w)'
      BY <1>1, <1>2, <2>4, <3>2 DEF Good, Top, OwnRow
    <3> QED BY <1>1, <1>2, <2>4, <3>1, <3>3 DEF Good
  <2>6. ASSUME NEW x \in live, x # w PROVE Good(x)'
    <3>1. /\ Good(x) /\ x \in Window /\ orig[x] # w
          /\ orig[x] # NULL => orig[x] \in live /\ orig[x] \in Window
      BY <1>1, <2>6 DEF IInv, Good, SubOf, Subs, Types
    <3> QED BY <1>1, <2>3, <2>4, <2>6, <3>1, Frame
  <2> QED BY <1>1, <2>3, <2>5, <2>6 DEF IInv, Fresh
<1>3. CASE orig[w] # NULL
  <2> PICK o \in live : o = orig[w]
    BY <1>1, <1>3 DEF Good, SubOf
  <2>1. rows' = IdSubwins(o)
    BY <1>3 DEF InsDelLn
  <2>2. /\ orig[o] = NULL /\ o \in Window /\ ring[o] = o
        /\ \A x \in Tree(o) : x # o => x \in Window /\ orig[x] = o /\ SubOf(x, o) /\ Good(x)
    <3>1. orig[o] = NULL
      BY <1>1, <1>3 DEF Good, SubOf
    <3> QED BY <3>1, Ring DEF IInv, Good, Top, Subs, Types
  <2>3. ASSUME NEW x \in Window PROVE rows'[x] = rows[x]
    <3>1. CASE x \in Tree(o) \ {o}
      <4> DEFINE oy == geom[x].begy - geom[o].begy
                 off == geom[x].begx - geom[o].begx
      <4>1. rows'[x] = [i \in DOMAIN rows[x] |->
                          [rows[x][i] EXCEPT !.line =
                             IF oy + i \in DOMAIN rows[o]
                             THEN Right(rows[o][oy + i].line, off) ELSE Wild]]
        <5>1. o # NULL /\ orig[x] = o /\ ring[o] = o
          BY <2>2, <3>1
        <5> QED BY <2>1, <3>1, <5>1 DEF IdSubwins
      <4>2. ASSUME NEW i \in DOMAIN rows[x]
            PROVE  /\ rows[x][i].line = IF oy + i \in DOMAIN rows[o]
                                        THEN Right(rows[o][oy + i].line, off) ELSE Wild
                   /\ rows[x][i] \in Row
        <5>1. /\ rows[x] = SubRows(geom, rows[o], o, x) /\ DOMAIN rows[x] = 1 .. geom[x].maxy
              /\ rows[x] \in Seq(Row)
          BY <1>1, <2>2, <3>1 DEF SubOf, Good
        <5>2. i \in 1 .. geom[x].maxy
          BY <5>1
        <5>3. SubRows(geom, rows[o], o, x)[i].line =
                IF oy + i \in DOMAIN rows[o]
                THEN Right(rows[o][oy + i].line, off) ELSE Wild
          BY <5>2 DEF SubRows
        <5>4. rows[x][i] \in Row
          <6> HIDE DEF oy, off
          <6> PICK r \in Seq(Row) : r = rows[x]
            BY <5>1
          <6> QED OBVIOUS
        <5> HIDE DEF oy, off
        <5> QED BY <5>1, <5>3, <5>4
      <4>3. ASSUME NEW i \in DOMAIN rows[x]
            PROVE  [rows[x][i] EXCEPT !.line = rows[x][i].line] = rows[x][i]
        BY <4>2 DEF Row
      <4>4. rows[x] = [i \in DOMAIN rows[x] |-> rows[x][i]]
        BY <1>1
      <4> HIDE DEF oy, off
      <4>5. rows'[x] = [i \in DOMAIN rows[x] |-> [rows[x][i] EXCEPT !.line = rows[x][i].line]]
        BY <4>1, <4>2
      <4> QED BY <4>3, <4>4, <4>5
    <3>2. CASE x \notin Tree(o) \ {o}
      BY <2>1, <2>2, <3>2 DEF IdSubwins
    <3> QED BY <3>1, <3>2
  <2>4. rows' = rows
    <3>1. rows' = [x \in Window |-> rows'[x]]
      BY <2>1 DEF IdSubwins
    <3> QED BY <1>1, <2>3, <3>1
  <2> QED BY <1>1, <2>4, Stutter DEF vars
<1> QED BY <1>2, <1>3

LEMMA NextIInv == Cases = {} /\ IInv /\ [Next]_vars => IInv'
<1> SUFFICES ASSUME Cases = {}, IInv, [Next]_vars PROVE IInv'
  OBVIOUS
<1>1. CASE UNCHANGED vars
  BY <1>1, Stutter
<1>2. ASSUME NEW w \in Window, NEW n \in Heights, NEW m \in Widths,
             \/ \E by \in 0 .. Lines - 1, bx \in 0 .. Cols - 1 :
                  NewWin(w, n, m, by, bx) \/ \E o \in Window : SubWin(w, o, n, m, by, bx)
             \/ WResizeTop(w, n, m) \/ WResizeSub(w, n, m) \/ WResizeFails(w, n, m)
      PROVE  IInv'
  BY <1>2, NewWinIInv, SubWinIInv, WResizeTopIInv, WResizeSubIInv, WResizeFailsIInv
<1>3. ASSUME NEW w \in Window,
             \/ DelWin(w)
             \/ \E by \in 0 .. Lines - 1, bx \in 0 .. Cols - 1 : MvWin(w, by, bx)
             \/ \E c, n, last \in 1 .. Lines : InsDelLn(w, c, n, last)
      PROVE  IInv'
  BY <1>3, DelWinIInv, MvWinIInv, InsDelLnIInv
<1> QED BY <1>1, <1>2, <1>3 DEF Next

LEMMA AlwaysIInv == Cases = {} => (Spec => []IInv)
<1> SUFFICES ASSUME Cases = {} PROVE Spec => []IInv
  OBVIOUS
<1>1. IInv /\ [Next]_vars => IInv'
  BY NextIInv
<1> QED BY <1>1, InitIInv, PTL DEF Spec

-----------------------------------------------------------------------------
(* What the invariant says of the lines of a subwindow *)

LEMMA SubLine ==
  ASSUME IInv, NEW w \in live, orig[w] # NULL, NEW i \in 1 .. geom[w].maxy,
         NEW o, o = orig[w], NEW dy, dy = geom[w].begy - geom[o].begy,
         NEW dx, dx = geom[w].begx - geom[o].begx
  PROVE  /\ o \in live /\ orig[o] = NULL /\ ring[w] = o /\ ring[o] = o
         /\ dy \in Nat /\ dx \in Nat
         /\ dy + i \in 1 .. geom[o].maxy /\ dy + i \in DOMAIN rows[o]
         /\ dx + geom[w].maxx <= geom[o].maxx /\ geom[w].maxx \in Int /\ geom[o].maxx \in Int
         /\ rows[w][i].line = Right(rows[o][dy + i].line, dx)
         /\ rows[w][i].mark = rows[o][dy + i].at
         /\ \E k \in 1 .. geom[o].maxy : rows[o][dy + i] = OwnRow(o, k)
<1>1. /\ SubOf(w, o) /\ Good(o) /\ Top(o) /\ o \in live /\ orig[o] = NULL
      /\ geom[w] \in Size /\ geom[o] \in Size
  BY DEF IInv, Good, SubOf, Types
<1>2. /\ dy \in Nat /\ dx \in Nat /\ dy + i \in 1 .. geom[o].maxy
      /\ dx + geom[w].maxx <= geom[o].maxx
      /\ geom[w].maxx \in Int /\ geom[o].maxx \in Int
  BY <1>1 DEF SubOf, Inside, Size
<1>3. dy + i \in DOMAIN rows[o] /\ DOMAIN rows[o] = 1 .. geom[o].maxy
  BY <1>1, <1>2 DEF Good
<1>4. /\ SubRows(geom, rows[o], o, w)[i].line = Right(rows[o][dy + i].line, dx)
      /\ SubRows(geom, rows[o], o, w)[i].mark = rows[o][dy + i].at
  BY <1>3 DEF SubRows
<1>5. rows[w] = SubRows(geom, rows[o], o, w) /\ ring[w] = o
  BY <1>1 DEF SubOf
<1>6. ring[o] = o /\ \E k \in 1 .. geom[o].maxy : rows[o][dy + i] = OwnRow(o, k)
  BY <1>1, <1>2 DEF Top
<1> QED BY <1>1, <1>2, <1>3, <1>4, <1>5, <1>6

LEMMA IInvTypeOK == IInv => TypeOK
BY DEF IInv, Types, Good, Top, SubOf, TypeOK

LEMMA IInvSubsInside == IInv => SubsInside
BY DEF IInv, Good, SubOf, SubsInside

LEMMA IInvShowsParent == IInv => ShowsParent
BY SubLine DEF ShowsParent

LEMMA IInvSharesRecord == IInv => SharesRecord
<1> SUFFICES ASSUME IInv, NEW w \in live, orig[w] # NULL, NEW i \in 1 .. geom[w].maxy
             PROVE  LET o  == orig[w]
                        dy == geom[w].begy - geom[o].begy
                    IN  /\ dy + i \in DOMAIN rows[o]
                        /\ rows[w][i].mark = rows[o][dy + i].mark
  BY DEF SharesRecord
<1> PICK o : o = orig[w]
  OBVIOUS
<1> PICK dy, dx : dy = geom[w].begy - geom[o].begy /\ dx = geom[w].begx - geom[o].begx
  OBVIOUS
<1>1. /\ dy + i \in DOMAIN rows[o]
      /\ rows[w][i].mark = rows[o][dy + i].at
      /\ \E k \in 1 .. geom[o].maxy : rows[o][dy + i] = OwnRow(o, k)
  BY SubLine
<1>2. rows[o][dy + i].at = rows[o][dy + i].mark
  BY <1>1 DEF OwnRow
<1> QED BY <1>1, <1>2

LEMMA IInvLinesInStorage == IInv => LinesInStorage
<1> SUFFICES ASSUME IInv, NEW w \in live, NEW i \in 1 .. geom[w].maxy
             PROVE  LET r == ring[w]
                        p == rows[w][i].line
                    IN  /\ p # Wild /\ rows[w][i].mark # Wild
                        /\ p[1] = r /\ p[2] \in 1 .. geom[r].maxy
                        /\ p[3] >= 0 /\ p[3] + geom[w].maxx <= geom[r].maxx
                        /\ rows[w][i].mark[1] = r /\ rows[w][i].mark[2] \in 1 .. geom[r].maxy
  BY DEF LinesInStorage
<1>1. Good(w) /\ geom[w] \in Size /\ \A x \in live : x # NULL
  BY WindowsAssumption DEF IInv, Types
<1>2. CASE orig[w] = NULL
  <2>1. ring[w] = w /\ geom[w].maxx \in Int
    BY <1>1, <1>2 DEF Good, Top, Size
  <2> PICK k \in 1 .. geom[w].maxy : rows[w][i] = OwnRow(w, k)
    BY <1>1, <1>2 DEF Good, Top
  <2> QED BY <1>1, <2>1 DEF OwnRow, Wild
<1>3. CASE orig[w] # NULL
  <2> PICK o : o = orig[w]
    OBVIOUS
  <2> PICK dy, dx : dy = geom[w].begy - geom[o].begy /\ dx = geom[w].begx - geom[o].begx
    OBVIOUS
  <2>1. /\ o \in live /\ ring[w] = o /\ dx \in Nat
        /\ dx + geom[w].maxx <= geom[o].maxx
        /\ rows[w][i].line = Right(rows[o][dy + i].line, dx)
        /\ rows[w][i].mark = rows[o][dy + i].at
        /\ \E k \in 1 .. geom[o].maxy : rows[o][dy + i] = OwnRow(o, k)
    BY <1>3, SubLine
  <2> PICK k \in 1 .. geom[o].maxy : rows[o][dy + i] = OwnRow(o, k)
    BY <2>1
  <2>2. o # NULL
    BY <1>1, <2>1
  <2>3. rows[w][i].line = <<o, k, dx>> /\ rows[w][i].mark = <<o, k>>
    BY <2>1, <2>2 DEF OwnRow, Right, Wild
  <2> QED BY <2>1, <2>2, <2>3 DEF Wild
<1> QED BY <1>2, <1>3

-----------------------------------------------------------------------------
(* Theorems *)

\* A subwindow always has a living parent, whose ring it is in, and as many
\* line pointers as lines.
THEOREM WindowsTypeCorrect == Cases = {} => (Spec => []TypeOK)
BY AlwaysIInv, IInvTypeOK, PTL

\* Creating, moving, resizing and deleting windows leaves every subwindow
\* inside its parent.
THEOREM SubsStayInside == Cases = {} => (Spec => []SubsInside)
BY AlwaysIInv, IInvSubsInside, PTL

\* No pointer of a line record is left to storage that was released or is
\* too small.
THEOREM PointersStayValid == Cases = {} => (Spec => []LinesInStorage)
BY AlwaysIInv, IInvLinesInStorage, PTL

\* A subwindow shows the cells of its parent that it covers.
THEOREM SubsShowTheirParent == Cases = {} => (Spec => []ShowsParent)
BY AlwaysIInv, IInvShowsParent, PTL

\* What is changed in a subwindow is recorded where the refresh of its parent
\* looks.
THEOREM SubsShareRecords == Cases = {} => (Spec => []SharesRecord)
BY AlwaysIInv, IInvSharesRecord, PTL

-----------------------------------------------------------------------------
(***************************************************************************)
(* No two lines of a window share cells or a change record, on screens of  *)
(* any size and after any number of exchanges of lines.                    *)
(*                                                                         *)
(* IInv lets the lines of a window be its own in any order, with           *)
(* repetitions; that the exchanges of insdelln.c repeat none is kept here  *)
(* (Apart), and that they rotate the lines of the region (InsertedFrom,    *)
(* DeletedFrom) is what it rests on.                                       *)
(***************************************************************************)

\* The line records of a window without parent are different ones.
Apart(w) == orig[w] = NULL =>
              \A i, j \in 1 .. geom[w].maxy : i # j => rows[w][i].at # rows[w][j].at

AInv == \A w \in live : Apart(w)

-----------------------------------------------------------------------------
(* The exchanges are rotations *)

LEMMA Multiple ==
  ASSUME NEW n \in Nat, n >= 1, NEW a \in Int, NEW b \in Int,
         n * a - n * b < n, n * b - n * a < n
  PROVE  a = b
<1>1. CASE a >= b + 1
  <2>1. n * (a - b) >= n * 1
    BY <1>1, Z3
  <2>2. n * (a - b) = n * a - n * b
    BY Z3
  <2> QED BY <2>1, <2>2, Z3
<1>2. CASE b >= a + 1
  <2>1. n * (b - a) >= n * 1
    BY <1>2, Z3
  <2>2. n * (b - a) = n * b - n * a
    BY Z3
  <2> QED BY <2>1, <2>2, Z3
<1> QED BY <1>1, <1>2

\* The last place that is a multiple of n away.
LEMMA LastPlace ==
  ASSUME NEW i \in Nat, NEW n \in Nat, n >= 1, NEW last \in Nat, i <= last
  PROVE  /\ (last - i) \div n \in Nat
         /\ i + n * ((last - i) \div n) \in Nat
         /\ i + n * ((last - i) \div n) <= last
         /\ i + n * ((last - i) \div n) > last - n
BY Z3

\* The place that the line in place i comes from.
InsertedFrom(i, c, n, last) ==
  IF i \notin c .. last THEN i
  ELSE IF i >= c + n THEN i - n ELSE i + n * ((last - i) \div n)

DeletedFrom(i, c, n, last) ==
  IF i \notin c .. last THEN i
  ELSE IF i + n <= last THEN i + n ELSE i - n * ((i - c) \div n)

LEMMA InsertedOnce ==
  ASSUME NEW len \in Nat, NEW c \in 1 .. len, NEW last \in c .. len,
         NEW n \in 1 .. last - c + 1, NEW i \in 1 .. len, NEW j \in 1 .. len, i # j
  PROVE  /\ InsertedFrom(i, c, n, last) \in 1 .. len
         /\ InsertedFrom(i, c, n, last) # InsertedFrom(j, c, n, last)
<1>1. ASSUME NEW k \in c .. last, k < c + n
      PROVE  /\ InsertedFrom(k, c, n, last) = k + n * ((last - k) \div n)
             /\ InsertedFrom(k, c, n, last) \in Nat
             /\ (last - k) \div n \in Nat
             /\ InsertedFrom(k, c, n, last) > last - n
             /\ InsertedFrom(k, c, n, last) <= last
  <2>1. InsertedFrom(k, c, n, last) = k + n * ((last - k) \div n)
    BY <1>1 DEF InsertedFrom
  <2>2. k \in Nat /\ n \in Nat /\ n >= 1 /\ last \in Nat /\ k <= last
    OBVIOUS
  <2> QED BY ONLY <2>1, <2>2, LastPlace
<1>2. ASSUME NEW k \in c .. last, k >= c + n
      PROVE  InsertedFrom(k, c, n, last) = k - n
  BY <1>2 DEF InsertedFrom
<1>3. ASSUME NEW k \in 1 .. len, k \notin c .. last
      PROVE  InsertedFrom(k, c, n, last) = k
  BY <1>3 DEF InsertedFrom
<1>4. ASSUME NEW k \in c .. last PROVE InsertedFrom(k, c, n, last) \in c .. last
  BY <1>1, <1>2
<1>5. InsertedFrom(i, c, n, last) \in 1 .. len
  BY <1>3, <1>4
<1>6. ASSUME i \in c .. last, j \in c .. last, i < c + n, j < c + n
      PROVE  InsertedFrom(i, c, n, last) # InsertedFrom(j, c, n, last)
  <2> SUFFICES ASSUME InsertedFrom(i, c, n, last) = InsertedFrom(j, c, n, last)
               PROVE  FALSE
    OBVIOUS
  <2> PICK a \in Nat : a = (last - i) \div n
    BY <1>1, <1>6
  <2> PICK b \in Nat : b = (last - j) \div n
    BY <1>1, <1>6
  <2>1. i + n * a = j + n * b
    BY <1>1, <1>6
  <2>2. n * a \in Int /\ n * b \in Int
    OBVIOUS
  <2>3. n * a - n * b = j - i /\ n * b - n * a = i - j
    BY <2>1, <2>2
  <2>4. j - i < n /\ i - j < n
    BY <1>6
  <2>5. a = b
    BY <2>3, <2>4, Multiple
  <2> QED BY <2>1, <2>5
<1>7. InsertedFrom(i, c, n, last) # InsertedFrom(j, c, n, last)
  <2>1. CASE i \notin c .. last \/ j \notin c .. last
    BY <1>3, <1>4, <2>1
  <2>2. CASE i \in c .. last /\ j \in c .. last
    BY <1>1, <1>2, <1>6, <2>2
  <2> QED BY <2>1, <2>2
<1> QED BY <1>5, <1>7

LEMMA DeletedOnce ==
  ASSUME NEW len \in Nat, NEW c \in 1 .. len, NEW last \in c .. len,
         NEW n \in 1 .. last - c + 1, NEW i \in 1 .. len, NEW j \in 1 .. len, i # j
  PROVE  /\ DeletedFrom(i, c, n, last) \in 1 .. len
         /\ DeletedFrom(i, c, n, last) # DeletedFrom(j, c, n, last)
<1>1. ASSUME NEW k \in c .. last, k + n > last
      PROVE  /\ DeletedFrom(k, c, n, last) = k - n * ((k - c) \div n)
             /\ DeletedFrom(k, c, n, last) \in Int
             /\ (k - c) \div n \in Nat
             /\ DeletedFrom(k, c, n, last) < c + n
             /\ DeletedFrom(k, c, n, last) >= c
  <2>1. DeletedFrom(k, c, n, last) = k - n * ((k - c) \div n)
    BY <1>1 DEF DeletedFrom
  <2>2. k \in Nat /\ n \in Nat /\ n >= 1 /\ c \in Nat /\ c <= k
    OBVIOUS
  <2> PICK q : q = (k - c) \div n
    OBVIOUS
  <2>3. q \in Nat /\ c + n * q <= k /\ c + n * q > k - n /\ n * q \in Int
    <3>1. /\ (k - c) \div n \in Nat
          /\ c + n * ((k - c) \div n) <= k
          /\ c + n * ((k - c) \div n) > k - n
      BY ONLY <2>2, LastPlace
    <3> QED BY <2>2, <3>1
  <2> QED BY ONLY <2>1, <2>2, <2>3, q = (k - c) \div n
<1>2. ASSUME NEW k \in c .. last, k + n <= last
      PROVE  DeletedFrom(k, c, n, last) = k + n
  BY <1>2 DEF DeletedFrom
<1>3. ASSUME NEW k \in 1 .. len, k \notin c .. last
      PROVE  DeletedFrom(k, c, n, last) = k
  BY <1>3 DEF DeletedFrom
<1>4. ASSUME NEW k \in c .. last PROVE DeletedFrom(k, c, n, last) \in c .. last
  BY <1>1, <1>2
<1>5. DeletedFrom(i, c, n, last) \in 1 .. len
  BY <1>3, <1>4
<1>6. ASSUME i \in c .. last, j \in c .. last, i + n > last, j + n > last
      PROVE  DeletedFrom(i, c, n, last) # DeletedFrom(j, c, n, last)
  <2> SUFFICES ASSUME DeletedFrom(i, c, n, last) = DeletedFrom(j, c, n, last)
               PROVE  FALSE
    OBVIOUS
  <2> PICK a \in Nat : a = (i - c) \div n
    BY <1>1, <1>6
  <2> PICK b \in Nat : b = (j - c) \div n
    BY <1>1, <1>6
  <2>1. i - n * a = j - n * b
    BY <1>1, <1>6
  <2>2. n * a \in Int /\ n * b \in Int
    OBVIOUS
  <2>3. n * a - n * b = i - j /\ n * b - n * a = j - i
    BY <2>1, <2>2
  <2>4. j - i < n /\ i - j < n
    BY <1>6
  <2>5. a = b
    BY <2>3, <2>4, Multiple
  <2> QED BY <2>1, <2>5
<1>7. DeletedFrom(i, c, n, last) # DeletedFrom(j, c, n, last)
  <2>1. CASE i \notin c .. last \/ j \notin c .. last
    BY <1>3, <1>4, <2>1
  <2>2. CASE i \in c .. last /\ j \in c .. last
    BY <1>1, <1>2, <1>6, <2>2
  <2> QED BY <2>1, <2>2
<1> QED BY <1>5, <1>7
-----------------------------------------------------------------------------
(* Every step keeps the lines apart *)

\* A window that a step leaves as it is, or gives new lines.
LEMMA StaysApart ==
  ASSUME NEW x, Apart(x), orig'[x] = orig[x], geom'[x].maxy = geom[x].maxy,
         rows'[x] = rows[x]
  PROVE  Apart(x)'
BY DEF Apart

LEMMA RenewedApart ==
  ASSUME NEW x, geom'[x].maxy \in Int, rows'[x] = OwnRows(x, geom'[x].maxy)
  PROVE  Apart(x)'
BY DEF Apart, OwnRows

LEMMA NewWinApart ==
  ASSUME IInv, AInv, NEW w \in Window, NEW n \in Heights, NEW m \in Widths,
         NEW by \in 0 .. Lines - 1, NEW bx \in 0 .. Cols - 1, NewWin(w, n, m, by, bx)
  PROVE  AInv'
<1> PICK maxy : maxy = Length(n, Lines - by)
  OBVIOUS
<1> PICK maxx : maxx = Length(m, Cols - bx)
  OBVIOUS
<1>1. /\ geom' = [geom EXCEPT ![w] = [begy |-> by, begx |-> bx, maxy |-> maxy,
                                      maxx |-> maxx, reqy |-> n, reqx |-> m]]
      /\ rows' = [rows EXCEPT ![w] = OwnRows(w, maxy)]
      /\ w \notin live /\ live' = live \cup {w} /\ orig' = orig
  BY DEF NewWin
<1>2. /\ geom \in [Window -> Size] /\ rows \in [Window -> Seq(Row)] /\ live \subseteq Window
      /\ maxy \in Int
  BY WindowsAssumption DEF IInv, Types, Length
<1>3. Apart(w)'
  BY <1>1, <1>2, RenewedApart
<1>4. ASSUME NEW x \in live PROVE Apart(x)'
  BY <1>1, <1>2, StaysApart DEF AInv
<1> QED BY <1>1, <1>3, <1>4 DEF AInv

LEMMA SubWinApart ==
  ASSUME IInv, AInv, NEW w \in Window, NEW o \in Window, NEW n \in Heights,
         NEW m \in Widths, NEW by \in 0 .. Lines - 1, NEW bx \in 0 .. Cols - 1,
         SubWin(w, o, n, m, by, bx)
  PROVE  AInv'
<1>1. /\ \E g : geom' = [geom EXCEPT ![w] = g]
      /\ \E r : rows' = [rows EXCEPT ![w] = r]
      /\ w \notin live /\ o \in live /\ live' = live \cup {w} /\ orig' = [orig EXCEPT ![w] = o]
  BY DEF SubWin
<1>2. /\ geom \in [Window -> Size] /\ rows \in [Window -> Seq(Row)] /\ live \subseteq Window
      /\ orig \in [Window -> Window \cup {NULL}] /\ o # NULL
  BY WindowsAssumption DEF IInv, Types
<1>3. Apart(w)'
  BY <1>1, <1>2 DEF Apart
<1>4. ASSUME NEW x \in live PROVE Apart(x)'
  <2>1. x # w /\ orig'[x] = orig[x] /\ geom'[x] = geom[x] /\ rows'[x] = rows[x]
    BY <1>1, <1>2
  <2> QED BY <2>1, StaysApart DEF AInv
<1> QED BY <1>1, <1>3, <1>4 DEF AInv

LEMMA DelWinApart ==
  ASSUME IInv, AInv, NEW w \in Window, DelWin(w)
  PROVE  AInv'
<1> DEFINE gone == IF orig[w] = NULL THEN Tree(w) ELSE {w}
<1>1. /\ live' = live \ gone
      /\ orig' = [x \in Window |-> IF x \in gone THEN NULL ELSE orig[x]]
      /\ geom' = [x \in Window |-> IF x \in gone THEN Nowhere ELSE geom[x]]
      /\ rows' = [x \in Window |-> IF x \in gone THEN <<>> ELSE rows[x]]
  BY DEF DelWin
<1> HIDE DEF gone
<1>2. ASSUME NEW x \in live \ gone PROVE Apart(x)'
  <2>1. orig'[x] = orig[x] /\ geom'[x] = geom[x] /\ rows'[x] = rows[x]
    BY <1>1 DEF IInv, Types
  <2> QED BY <2>1, StaysApart DEF AInv
<1> QED BY <1>1, <1>2 DEF AInv

LEMMA MvWinApart ==
  ASSUME IInv, AInv, NEW w \in Window,
         NEW by \in 0 .. Lines - 1, NEW bx \in 0 .. Cols - 1, MvWin(w, by, bx)
  PROVE  AInv'
<1>1. /\ w \in live /\ live' = live /\ orig' = orig
      /\ geom \in [Window -> Size] /\ live \subseteq Window
      /\ rows \in [Window -> Seq(Row)]
  BY DEF MvWin, IInv, Types
<1>2. ASSUME NEW x \in Window PROVE geom'[x].maxy = geom[x].maxy
  <2> PICK a : a = geom[x].begy + (by - geom[w].begy)
    OBVIOUS
  <2> PICK b : b = geom[x].begx + (bx - geom[w].begx)
    OBVIOUS
  <2>1. geom'[x] = geom[x] \/ geom'[x] = [geom[x] EXCEPT !.begy = a, !.begx = b]
    BY DEF MvWin
  <2>2. [geom[x] EXCEPT !.begy = a, !.begx = b].maxy = geom[x].maxy
    BY <1>1 DEF Size
  <2> QED BY <2>1, <2>2
<1>3. ASSUME NEW x \in live, orig[x] = NULL PROVE rows'[x] = rows[x]
  BY <1>1, <1>3 DEF MvWin
<1>4. ASSUME NEW x \in live PROVE Apart(x)'
  <2>1. CASE orig[x] = NULL
    BY <1>1, <1>2, <1>3, <2>1, StaysApart DEF AInv
  <2>2. CASE orig[x] # NULL
    BY <1>1, <2>2 DEF Apart
  <2> QED BY <2>1, <2>2
<1> QED BY <1>1, <1>4 DEF AInv

LEMMA WResizeTopApart ==
  ASSUME Cases = {}, IInv, AInv, NEW w \in Window, NEW n \in Heights, NEW m \in Widths,
         WResizeTop(w, n, m)
  PROVE  AInv'
<1>1. /\ w \in live /\ orig[w] = NULL /\ live' = live /\ orig' = orig /\ live \subseteq Window
  BY DEF WResizeTop, IInv, Types
<1>2. /\ \A x \in Tree(w) : x # w => x \in Subs(w)
      /\ w \in Tree(w) /\ w # NULL
  BY <1>1, Ring, WindowsAssumption
<1>3. /\ rows'[w] = OwnRows(w, geom'[w].maxy)
      /\ \A x \in Window \ Tree(w) : rows'[x] = rows[x]
  BY <1>1, FreshRows
<1>4. Apart(w)'
  <2>1. geom'[w].maxy \in Int
    BY <1>1, WResizeTopIInv DEF IInv, Types, Size
  <2> QED BY <1>3, <2>1, RenewedApart
<1>5. ASSUME NEW x \in live, x # w PROVE Apart(x)'
  <2>1. CASE x \in Tree(w)
    BY <1>1, <1>2, <1>5, <2>1 DEF Apart, Subs
  <2>2. CASE x \notin Tree(w)
    <3>1. geom'[x] = geom[x]
      BY <1>1, <1>5, <2>2 DEF WResizeTop
    <3> QED BY <1>1, <1>3, <2>2, <3>1, StaysApart DEF AInv
  <2> QED BY <2>1, <2>2
<1> QED BY <1>1, <1>4, <1>5 DEF AInv

LEMMA WResizeSubApart ==
  ASSUME IInv, AInv, NEW w \in Window, NEW n \in Heights, NEW m \in Widths,
         WResizeSub(w, n, m)
  PROVE  AInv'
<1>1. /\ w \in live /\ orig[w] # NULL /\ live' = live /\ orig' = orig /\ live \subseteq Window
      /\ geom \in [Window -> Size] /\ rows \in [Window -> Seq(Row)]
      /\ \E g : geom' = [geom EXCEPT ![w] = g]
  BY DEF WResizeSub, IInv, Types
<1>2. ASSUME NEW x \in live, x # w
      PROVE  rows'[x] = rows[x] \/ rows'[x] = [i \in DOMAIN rows[x] |-> Unmarked(w, rows[x][i])]
  BY <1>1, <1>2 DEF WResizeSub
<1>3. ASSUME NEW x \in live PROVE Apart(x)'
  <2>1. CASE x = w
    BY <1>1, <2>1 DEF Apart
  <2>2. CASE x # w
    <3>1. geom'[x] = geom[x] /\ orig'[x] = orig[x] /\ Apart(x)
      BY <1>1, <2>2 DEF AInv
    <3>2. ASSUME NEW i \in 1 .. geom[x].maxy PROVE rows'[x][i].at = rows[x][i].at
      <4>1. rows[x][i] \in Row /\ i \in DOMAIN rows[x]
        <5>1. DOMAIN rows[x] = 1 .. geom[x].maxy /\ rows[x] \in Seq(Row)
          BY <1>1 DEF IInv, Good
        <5> PICK s \in Seq(Row) : s = rows[x]
          BY <5>1
        <5>2. i \in DOMAIN s
          BY <5>1
        <5>3. s[i] \in Row
          BY ONLY <5>2, s \in Seq(Row)
        <5> QED BY <5>2, <5>3
      <4>2. Unmarked(w, rows[x][i]).at = rows[x][i].at
        BY <4>1 DEF Unmarked, Row
      <4> QED BY <1>2, <2>2, <4>1, <4>2
    <3> QED BY <3>1, <3>2 DEF Apart
  <2> QED BY <2>1, <2>2
<1> QED BY <1>1, <1>3 DEF AInv

LEMMA WResizeFailsApart ==
  ASSUME Cases = {}, IInv, AInv, NEW w \in Window, NEW n \in Heights, NEW m \in Widths,
         WResizeFails(w, n, m)
  PROVE  AInv'
<1>1. /\ w \in live /\ live' = live /\ orig' = orig /\ rows' = rows /\ live \subseteq Window
      /\ geom \in [Window -> Size]
  BY DEF WResizeFails, Left, IInv, Types
<1>2. ASSUME NEW x \in live PROVE geom'[x].maxy = geom[x].maxy
  <2> PICK g : g = Wanted(w, n, m)
    OBVIOUS
  <2>1. geom' = [geom EXCEPT ![w] = [geom[w] EXCEPT !.begy = g.begy, !.begx = g.begx]]
    BY <1>1 DEF WResizeFails
  <2>2. [geom[w] EXCEPT !.begy = g.begy, !.begx = g.begx].maxy = geom[w].maxy
    BY <1>1 DEF Size
  <2> QED BY <1>1, <2>1, <2>2
<1>3. ASSUME NEW x \in live PROVE Apart(x)'
  BY <1>1, <1>2, StaysApart DEF AInv
<1> QED BY <1>1, <1>3 DEF AInv
LEMMA InsDelLnApart ==
  ASSUME Cases = {}, IInv, AInv, NEW w \in Window, NEW c \in 1 .. Lines,
         NEW n \in 1 .. Lines, NEW last \in 1 .. Lines, InsDelLn(w, c, n, last)
  PROVE  AInv'
<1>1. /\ w \in live /\ live' = live /\ orig' = orig /\ geom' = geom /\ live \subseteq Window
      /\ rows \in [Window -> Seq(Row)]
      /\ geom[w].maxy \in Nat /\ DOMAIN rows[w] = 1 .. geom[w].maxy
      /\ c \in 1 .. geom[w].maxy /\ last \in c .. geom[w].maxy /\ n \in 1 .. last - c + 1
  BY WindowsAssumption DEF InsDelLn, IInv, Types, Good, Size
<1>2. CASE orig[w] = NULL
  <2> PICK len \in Nat : len = geom[w].maxy
    BY <1>1
  <2> PICK s : s = rows[w]
    OBVIOUS
  <2> PICK t : /\ t = Inserted(s, c, n, last) \/ t = Deleted(s, c, n, last)
               /\ rows' = [rows EXCEPT ![w] = t]
    BY <1>2 DEF InsDelLn
  <2>1. /\ DOMAIN s = 1 .. len /\ c \in 1 .. len /\ last \in c .. len
        /\ n \in 1 .. last - c + 1
    BY <1>1
  <2>2. ASSUME NEW i \in 1 .. len, NEW j \in 1 .. len, i # j
        PROVE  \E k, l \in 1 .. len : k # l /\ t[i] = s[k] /\ t[j] = s[l]
    <3>1. CASE t = Inserted(s, c, n, last)
      <4>1. ASSUME NEW k \in 1 .. len PROVE t[k] = s[InsertedFrom(k, c, n, last)]
        BY <2>1, <3>1 DEF Inserted, InsertedFrom
      <4>2. /\ InsertedFrom(i, c, n, last) \in 1 .. len
            /\ InsertedFrom(j, c, n, last) \in 1 .. len
            /\ InsertedFrom(i, c, n, last) # InsertedFrom(j, c, n, last)
        BY ONLY len \in Nat, <2>1, <2>2, InsertedOnce
      <4> QED BY <4>1, <4>2
    <3>2. CASE t = Deleted(s, c, n, last)
      <4>1. ASSUME NEW k \in 1 .. len PROVE t[k] = s[DeletedFrom(k, c, n, last)]
        BY <2>1, <3>2 DEF Deleted, DeletedFrom
      <4>2. /\ DeletedFrom(i, c, n, last) \in 1 .. len
            /\ DeletedFrom(j, c, n, last) \in 1 .. len
            /\ DeletedFrom(i, c, n, last) # DeletedFrom(j, c, n, last)
        BY ONLY len \in Nat, <2>1, <2>2, DeletedOnce
      <4> QED BY <4>1, <4>2
    <3> QED BY <3>1, <3>2
  <2>3. \A k, l \in 1 .. len : k # l => s[k].at # s[l].at
    BY <1>1, <1>2 DEF AInv, Apart
  <2>4. Apart(w)'
    <3>1. rows'[w] = t /\ geom'[w].maxy = len
      BY <1>1
    <3>2. ASSUME NEW i \in 1 .. len, NEW j \in 1 .. len, i # j PROVE t[i].at # t[j].at
      <4> PICK k \in 1 .. len, l \in 1 .. len : k # l /\ t[i] = s[k] /\ t[j] = s[l]
        BY <2>2, <3>2
      <4> QED BY <2>3
    <3> QED BY <3>1, <3>2 DEF Apart
  <2>5. ASSUME NEW x \in live, x # w PROVE Apart(x)'
    BY <1>1, <2>5, StaysApart DEF AInv
  <2> QED BY <1>1, <2>4, <2>5 DEF AInv
<1>3. CASE orig[w] # NULL
  <2>1. rows' = IdSubwins(orig[w])
    BY <1>3 DEF InsDelLn
  <2>2. ASSUME NEW x \in live, NEW i \in 1 .. geom[x].maxy
        PROVE  rows'[x][i].at = rows[x][i].at
    <3>1. /\ DOMAIN rows[x] = 1 .. geom[x].maxy /\ rows[x] \in Seq(Row)
      BY <1>1 DEF IInv, Good
    <3>2. rows[x][i] \in Row
      <4> PICK s \in Seq(Row) : s = rows[x]
        BY <3>1
      <4>1. i \in DOMAIN s
        BY <3>1
      <4>2. s[i] \in Row
        BY ONLY <4>1, s \in Seq(Row)
      <4> QED BY <4>2
    <3>3. rows'[x] = rows[x] \/ \E line : rows'[x][i] = [rows[x][i] EXCEPT !.line = line]
      BY <1>1, <2>1, <3>1 DEF IdSubwins
    <3> QED BY <3>2, <3>3 DEF Row
  <2>3. ASSUME NEW x \in live, orig[x] = NULL,
               NEW i \in 1 .. geom[x].maxy, NEW j \in 1 .. geom[x].maxy, i # j
        PROVE  rows'[x][i].at # rows'[x][j].at
    <3>1. rows[x][i].at # rows[x][j].at
      BY <2>3 DEF AInv, Apart
    <3> QED BY <2>2, <3>1
  <2>4. ASSUME NEW x \in live PROVE Apart(x)'
    BY <1>1, <2>3 DEF Apart
  <2> QED BY <1>1, <2>4 DEF AInv
<1> QED BY <1>2, <1>3

LEMMA NextAInv == Cases = {} /\ IInv /\ AInv /\ [Next]_vars => AInv'
<1> SUFFICES ASSUME Cases = {}, IInv, AInv, [Next]_vars PROVE AInv'
  OBVIOUS
<1>1. CASE UNCHANGED vars
  BY <1>1 DEF vars, AInv, Apart
<1>2. ASSUME NEW w \in Window, NEW n \in Heights, NEW m \in Widths,
             \/ \E by \in 0 .. Lines - 1, bx \in 0 .. Cols - 1 :
                  NewWin(w, n, m, by, bx) \/ \E o \in Window : SubWin(w, o, n, m, by, bx)
             \/ WResizeTop(w, n, m) \/ WResizeSub(w, n, m) \/ WResizeFails(w, n, m)
      PROVE  AInv'
  BY <1>2, NewWinApart, SubWinApart, WResizeTopApart, WResizeSubApart, WResizeFailsApart
<1>3. ASSUME NEW w \in Window,
             \/ DelWin(w)
             \/ \E by \in 0 .. Lines - 1, bx \in 0 .. Cols - 1 : MvWin(w, by, bx)
             \/ \E c, n, last \in 1 .. Lines : InsDelLn(w, c, n, last)
      PROVE  AInv'
  BY <1>3, DelWinApart, MvWinApart, InsDelLnApart
<1> QED BY <1>1, <1>2, <1>3 DEF Next

-----------------------------------------------------------------------------
(* What this says of the lines of a window *)

LEMMA OwnRowsApart ==
  ASSUME NEW o, NEW r, NEW s, NEW k, NEW l, r = OwnRow(o, k), s = OwnRow(o, l),
         r.at # s.at
  PROVE  k # l /\ r.line # s.line /\ r.mark # s.mark
BY DEF OwnRow

LEMMA IInvRowsApart == IInv /\ AInv => RowsApart
<1> SUFFICES ASSUME IInv, AInv, NEW w \in live,
                    NEW i \in 1 .. geom[w].maxy, NEW j \in 1 .. geom[w].maxy, i # j
             PROVE  /\ rows[w][i].line # rows[w][j].line
                    /\ rows[w][i].at # rows[w][j].at
                    /\ rows[w][i].mark # rows[w][j].mark
  BY DEF RowsApart
<1>1. CASE orig[w] = NULL
  <2>1. rows[w][i].at # rows[w][j].at
    BY <1>1 DEF AInv, Apart
  <2>2. \A h \in 1 .. geom[w].maxy : \E k : rows[w][h] = OwnRow(w, k)
    BY <1>1, ZenonT(60) DEF IInv, Good, Top
  <2> PICK k : rows[w][i] = OwnRow(w, k)
    BY <2>2
  <2> PICK l : rows[w][j] = OwnRow(w, l)
    BY <2>2
  <2> QED BY <2>1, OwnRowsApart
<1>2. CASE orig[w] # NULL
  <2> PICK o : o = orig[w]
    OBVIOUS
  <2> PICK dy, dx : dy = geom[w].begy - geom[o].begy /\ dx = geom[w].begx - geom[o].begx
    OBVIOUS
  <2>1. ASSUME NEW k \in 1 .. geom[w].maxy
        PROVE  /\ o \in live /\ orig[o] = NULL /\ dy \in Nat
               /\ dy + k \in 1 .. geom[o].maxy
               /\ rows[w][k].line = Right(rows[o][dy + k].line, dx)
               /\ rows[w][k].mark = rows[o][dy + k].at
               /\ \E l : rows[o][dy + k] = OwnRow(o, l)
    BY <1>2, SubLine
  <2> PICK r, s : r = rows[o][dy + i] /\ s = rows[o][dy + j]
    OBVIOUS
  <2>2. r.at # s.at /\ o # NULL
    <3>1. /\ o \in live /\ orig[o] = NULL /\ dy \in Nat
          /\ dy + i \in 1 .. geom[o].maxy /\ dy + j \in 1 .. geom[o].maxy
      BY <2>1
    <3>2. dy + i # dy + j
      BY <3>1
    <3> QED BY <3>1, <3>2, WindowsAssumption DEF AInv, Apart, IInv, Types
  <2> PICK k : r = OwnRow(o, k)
    BY <2>1
  <2> PICK l : s = OwnRow(o, l)
    BY <2>1
  <2>3. k # l
    BY <2>2 DEF OwnRow
  <2>4. /\ rows[w][i].line = <<o, k, 0 + dx>> /\ rows[w][j].line = <<o, l, 0 + dx>>
        /\ rows[w][i].mark = <<o, k>> /\ rows[w][j].mark = <<o, l>>
    <3>1. /\ rows[w][i].line = Right(r.line, dx) /\ rows[w][i].mark = r.at
          /\ rows[w][j].line = Right(s.line, dx) /\ rows[w][j].mark = s.at
      BY <2>1
    <3>2. /\ r.line = <<o, k, 0>> /\ r.at = <<o, k>>
          /\ s.line = <<o, l, 0>> /\ s.at = <<o, l>>
      BY DEF OwnRow
    <3>3. \A h : Right(<<o, h, 0>>, dx) = <<o, h, 0 + dx>>
      BY <2>2 DEF Right, Wild
    <3> QED BY <3>1, <3>2, <3>3
  <2>5. rows[w][i].at = <<w, i>> /\ rows[w][j].at = <<w, j>>
    <3>1. rows[w] = SubRows(geom, rows[o], o, w)
      BY <1>2 DEF IInv, Good, SubOf
    <3>2. \A h \in 1 .. geom[w].maxy : SubRows(geom, rows[o], o, w)[h].at = <<w, h>>
      BY DEF SubRows
    <3> QED BY <3>1, <3>2
  <2> QED BY <2>3, <2>4, <2>5
<1> QED BY <1>1, <1>2

\* However often the lines of a window are exchanged by insdelln and scrolling,
\* no two of them share cells or a change record.
THEOREM RowsStayApart == Cases = {} => (Spec => []RowsApart)
<1> SUFFICES ASSUME Cases = {} PROVE Spec => []RowsApart
  OBVIOUS
<1>1. Init => AInv
  BY DEF Init, AInv
<1>2. IInv /\ AInv /\ [Next]_vars => AInv'
  BY NextAInv
<1>3. Spec => []IInv
  BY AlwaysIInv
<1> QED BY <1>1, <1>2, <1>3, IInvRowsApart, PTL DEF Spec
=============================================================================
