------------------------------ MODULE MenuGrid ------------------------------
(***************************************************************************)
(* How libmenu lays n items out in a grid and links each to its four       *)
(* neighbours: _menui_stitch_items and _menui_calc_neighbours of           *)
(* lib/libmenu/internals.c.                                                *)
(*                                                                         *)
(* Items are the indices 0 .. n - 1 of the array.  A form of the grid is   *)
(* a record [n, cols, byRow, cyclic].                                      *)
(***************************************************************************)
EXTENDS Integers

Nowhere == -1        \* a neighbour that is a null pointer

\* menu->item_rows: the rows it takes to hold n items.
ItemRows(g) == g.n \div g.cols + (IF g.n > (g.n \div g.cols) * g.cols THEN 1 ELSE 0)

RowOf(g, i) == IF g.byRow THEN i \div g.cols ELSE i % ItemRows(g)

ColOf(g, i) == IF g.byRow THEN i % g.cols ELSE i \div ItemRows(g)

\* items[k]: behind the last item the array ends with a null pointer.  (What
\* is read further behind it is not a link of a grid either.)
Nth(g, k) == IF k < g.n THEN k ELSE Nowhere

\* A link over the edge of the grid is kept in cyclic menus only.
Edge(g, atEdge, k) == IF atEdge /\ ~g.cyclic THEN Nowhere ELSE Nth(g, k)

\* A menu that is one row or one column is linked along the array.
Before(g, i) == IF i = 0 THEN Edge(g, TRUE, g.n - 1) ELSE i - 1
After(g, i)  == IF i = g.n - 1 THEN Edge(g, TRUE, 0) ELSE i + 1
Itself(g, i) == Edge(g, TRUE, i)

Short(g, k, less) == IF k >= g.n THEN k - less ELSE k

Up(g, i) ==
  LET R == ItemRows(g)
      top == RowOf(g, i) = 0
  IN  IF R < 2 THEN Itself(g, i)
      ELSE IF g.cols < 2 THEN Before(g, i)
      ELSE IF ~top THEN IF g.byRow THEN i - g.cols ELSE i - 1
      ELSE IF g.byRow THEN Edge(g, TRUE, Short(g, (R - 1) * g.cols + ColOf(g, i), g.cols))
      ELSE LET k == R * ColOf(g, i) + R - 1
           IN  Edge(g, TRUE, IF k >= g.n THEN g.n - 1 ELSE k)

\* mutant: a short column is not wrapped
DownNoShort(g, i) ==
  LET R == ItemRows(g)
      start == IF g.byRow THEN ColOf(g, i) ELSE ColOf(g, i) * R
      next  == IF g.byRow THEN i + g.cols ELSE i + 1
  IN  IF R < 2 THEN Itself(g, i)
      ELSE IF g.cols < 2 THEN After(g, i)
      ELSE IF RowOf(g, i) = R - 1 THEN Edge(g, TRUE, start)
      ELSE Edge(g, FALSE, next)

Down(g, i) ==
  LET R == ItemRows(g)
      start == IF g.byRow THEN ColOf(g, i) ELSE ColOf(g, i) * R
      next  == IF g.byRow THEN i + g.cols ELSE i + 1
  IN  IF R < 2 THEN Itself(g, i)
      ELSE IF g.cols < 2 THEN After(g, i)
      ELSE IF RowOf(g, i) = R - 1 \/ next >= g.n THEN Edge(g, TRUE, start)
      ELSE next

Left(g, i) ==
  LET R == ItemRows(g)
      last == IF g.byRow
              THEN IF i + g.cols - 1 >= g.n THEN g.n - 1 ELSE i + g.cols - 1
              ELSE Short(g, R * (g.cols - 1) + RowOf(g, i), R)
  IN  IF g.cols < 2 THEN Itself(g, i)
      ELSE IF R < 2 THEN Before(g, i)
      ELSE IF ColOf(g, i) = 0 THEN Edge(g, TRUE, last)
      ELSE IF g.byRow THEN i - 1 ELSE i - R

Right(g, i) ==
  LET R == ItemRows(g)
      start == IF g.byRow THEN RowOf(g, i) * g.cols ELSE RowOf(g, i)
      next  == IF g.byRow THEN i + 1 ELSE i + R
  IN  IF g.cols < 2 THEN Itself(g, i)
      ELSE IF R < 2 THEN After(g, i)
      ELSE IF ColOf(g, i) = g.cols - 1 \/ next >= g.n THEN Edge(g, TRUE, start)
      ELSE next

Links(g) == [i \in 0 .. g.n - 1 |->
               [row |-> RowOf(g, i), col |-> ColOf(g, i), up |-> Up(g, i),
                down |-> Down(g, i), left |-> Left(g, i), right |-> Right(g, i)]]

-----------------------------------------------------------------------------
(* What the links should be: the neighbour in the item's row or column,    *)
(* going round at the ends.                                                *)

RowMates(g, i) == {k \in 0 .. g.n - 1 : RowOf(g, k) = RowOf(g, i)}
ColMates(g, i) == {k \in 0 .. g.n - 1 : ColOf(g, k) = ColOf(g, i)}

Least(S)    == CHOOSE k \in S : \A o \in S : k <= o
Greatest(S) == CHOOSE k \in S : \A o \in S : k >= o

\* The next member of S after i, and the one before it, of any two an order
\* of the array: rows and columns are filled in that order.
NextIn(S, i) == IF \E k \in S : k > i THEN Least({k \in S : k > i}) ELSE Least(S)
PrevIn(S, i) == IF \E k \in S : k < i THEN Greatest({k \in S : k < i}) ELSE Greatest(S)

IsLink(g, i, k, mates, way) ==
  LET target == IF way = "on" THEN NextIn(mates, i) ELSE PrevIn(mates, i)
      round  == IF way = "on" THEN target <= i ELSE target >= i
  IN  k = IF round /\ ~g.cyclic THEN Nowhere ELSE target

\* A grid whose links are those of its rows and columns.
Grid(g, links) ==
  \A i \in 0 .. g.n - 1 :
    /\ IsLink(g, i, links[i].up,    ColMates(g, i), "back")
    /\ IsLink(g, i, links[i].down,  ColMates(g, i), "on")
    /\ IsLink(g, i, links[i].left,  RowMates(g, i), "back")
    /\ IsLink(g, i, links[i].right, RowMates(g, i), "on")

\* A menu filled by columns may have columns without items.  One such column
\* is taken into account when the left link of the first column goes round.
ColumnsUsed(g) ==
  \/ ~g.cyclic \/ g.byRow \/ g.cols < 2 \/ ItemRows(g) < 2
  \/ ItemRows(g) * (g.cols - 2) + ItemRows(g) - 1 < g.n
=============================================================================
