----------------------------- MODULE MenuProofs -----------------------------
(***************************************************************************)
(* The calls of Menu.tla keep the links, the current item and the window   *)
(* of a menu together, for all arrays of items and formats.                *)
(*                                                                         *)
(* A request moves the current item and the window between its hooks, each *)
(* of which may call the menu again.  The invariant keeps where the        *)
(* request goes in the record of the call that waits: while it waits it is *)
(* an item of the menu, in sight from the row it scrolls to, and each hook *)
(* has moved the part that comes before it.                                *)
(*                                                                         *)
(* What the window shows has an invariant of its own, Drawing: the window  *)
(* is a picture of the menu except while a request that scrolls waits for  *)
(* the hooks before its redraw (Stale).                                    *)
(***************************************************************************)
EXTENDS Menu, WellFoundedInduction, SequenceTheorems, TLAPS

(***************************************************************************)
(* The grid of the items.                                                  *)
(***************************************************************************)
\* Division with remainder.
LEMMA DivMod ==
  ASSUME NEW k \in Nat, NEW m \in Nat \ {0}
  PROVE  /\ k \div m \in Nat
         /\ k % m \in 0 .. m - 1
         /\ k = m * (k \div m) + (k % m)
  BY SMT

LEMMA MoreRows ==
  ASSUME NEW a \in Int, NEW b \in Int, NEW m \in Nat, a < b
  PROVE  m * a + m <= m * b
<1>1. (b - a - 1) * m >= 0
  BY SMT
<1> QED
  BY <1>1, SMT

LEMMA DivModOf ==
  ASSUME NEW q \in Nat, NEW m \in Nat \ {0}, NEW r \in 0 .. m - 1
  PROVE  /\ (m * q + r) \div m = q
         /\ (m * q + r) % m = r
<1>0. m * q \in Nat
  BY SMT
<1> DEFINE k == m * q + r
<1>1. k \in Nat
  BY <1>0
<1>2. /\ k \div m \in Nat /\ k % m \in 0 .. m - 1 /\ k = m * (k \div m) + (k % m)
  BY <1>1, DivMod
<1>3. k \div m = q
  <2>1. ASSUME k \div m < q PROVE FALSE
    BY <1>0, <1>2, <2>1, MoreRows
  <2>2. ASSUME q < k \div m PROVE FALSE
    BY <1>0, <1>2, <2>2, MoreRows
  <2> QED
    BY <1>2, <2>1, <2>2
<1> QED
  BY <1>2, <1>3

\* What makes an element the least or the greatest.
LEMMA LeastIs ==
  ASSUME NEW S, S \subseteq Int, NEW x \in S, \A o \in S : x <= o
  PROVE  Least(S) = x
<1>1. \A y \in S : (\A o \in S : y <= o) => y = x
  OBVIOUS
<1> QED
  BY <1>1 DEF Least

LEMMA GreatestIs ==
  ASSUME NEW S, S \subseteq Int, NEW x \in S, \A o \in S : x >= o
  PROVE  Greatest(S) = x
<1>1. \A y \in S : (\A o \in S : y >= o) => y = x
  OBVIOUS
<1> QED
  BY <1>1 DEF Greatest

\* The next and the former element of a set, which goes round at its ends.
LEMMA NextIs ==
  ASSUME NEW S, S \subseteq Int, NEW i \in Int, NEW x \in S, x > i,
         \A o \in S : o > i => x <= o
  PROVE  NextIn(S, i) = x
<1> DEFINE T == {k \in S : k > i}
<1>0. T \subseteq Int /\ x \in T /\ \A o \in T : x <= o
  OBVIOUS
<1>1. Least(T) = x
  BY ONLY <1>0, LeastIs
<1> QED
  BY <1>1 DEF NextIn

LEMMA NextRound ==
  ASSUME NEW S, S \subseteq Int, NEW i \in Int, NEW x \in S,
         \A o \in S : o <= i /\ x <= o
  PROVE  NextIn(S, i) = x
<1>1. Least(S) = x
  BY LeastIs
<1> QED
  BY <1>1 DEF NextIn

LEMMA PrevIs ==
  ASSUME NEW S, S \subseteq Int, NEW i \in Int, NEW x \in S, x < i,
         \A o \in S : o < i => x >= o
  PROVE  PrevIn(S, i) = x
<1> DEFINE T == {k \in S : k < i}
<1>0. T \subseteq Int /\ x \in T /\ \A o \in T : x >= o
  OBVIOUS
<1>1. Greatest(T) = x
  BY ONLY <1>0, GreatestIs
<1> QED
  BY <1>1 DEF PrevIn

LEMMA PrevRound ==
  ASSUME NEW S, S \subseteq Int, NEW i \in Int, NEW x \in S,
         \A o \in S : o >= i /\ x >= o
  PROVE  PrevIn(S, i) = x
<1>1. Greatest(S) = x
  BY GreatestIs
<1> QED
  BY <1>1 DEF PrevIn

\* The items of the array that are a multiple of m away, and those that are
\* not m or more.
Apart(n, m, i) == {k \in 0 .. n - 1 : k % m = i % m}
Block(n, m, i) == {k \in 0 .. n - 1 : k \div m = i \div m}

\* Two of the former are at least m apart.
LEMMA ApartBy ==
  ASSUME NEW m \in Nat \ {0}, NEW i \in Nat, NEW k \in Nat, k % m = i % m, i < k
  PROVE  i + m <= k
<1>a. i = m * (i \div m) + (i % m) /\ i \div m \in Nat /\ i % m \in 0 .. m - 1
  BY DivMod
<1>b. k = m * (k \div m) + (i % m) /\ k \div m \in Nat
  BY DivMod
<1>1. PICK q, r, p : /\ q \in Nat /\ r \in 0 .. m - 1 /\ p \in Nat
                     /\ i = m * q + r /\ k = m * p + r
  BY ONLY <1>a, <1>b
<1>2. m * q \in Nat /\ m * p \in Nat
  BY <1>1, SMT
<1>3. q < p
  <2>1. CASE p < q
    BY <1>1, <1>2, <2>1, MoreRows
  <2>2. CASE p = q
    BY <1>1, <1>2, <2>2
  <2> QED
    BY <1>1, <2>1, <2>2
<1> QED
  BY <1>1, <1>2, <1>3, MoreRows

\* A step of m stays among them, and moves to the next multiple of m.
LEMMA StepApart ==
  ASSUME NEW m \in Nat \ {0}, NEW i \in Nat
  PROVE  /\ (i + m) % m = i % m
         /\ i >= m => i - m \in Nat /\ (i - m) % m = i % m
         /\ (i % m) % m = i % m
         /\ i % m <= i
<1>1. PICK q, r : q \in Nat /\ r \in 0 .. m - 1 /\ i = m * q + r /\ i % m = r
  BY DivMod
<1>2. (m * (q + 1) + r) % m = r /\ m * (q + 1) = m * q + m /\ m * q \in Nat
  BY <1>1, DivModOf, SMT
<1>3. (m * 0 + r) % m = r /\ m * 0 = 0
  BY <1>1, DivModOf, SMT
<1>4. i >= m => q >= 1
  BY <1>1, SMT
<1>5. ASSUME i >= m PROVE (m * (q - 1) + r) % m = r /\ m * (q - 1) = m * q - m
  BY <1>1, <1>4, <1>5, DivModOf, SMT
<1> QED
  BY <1>1, <1>2, <1>3, <1>5

LEMMA StepOver ==
  ASSUME NEW m \in Nat \ {0}, NEW i \in Nat
  PROVE  /\ (i + m) \div m = i \div m + 1
         /\ i >= m => (i - m) \div m = i \div m - 1
<1>1. PICK q, r : q \in Nat /\ r \in 0 .. m - 1 /\ i = m * q + r /\ i \div m = q
  BY DivMod
<1>2. (m * (q + 1) + r) \div m = q + 1 /\ m * (q + 1) = m * q + m /\ m * q \in Nat
  BY <1>1, DivModOf, SMT
<1>4. i >= m => q >= 1
  BY <1>1, SMT
<1>5. ASSUME i >= m PROVE (m * (q - 1) + r) \div m = q - 1 /\ m * (q - 1) = m * q - m
  BY <1>1, <1>4, <1>5, DivModOf, SMT
<1> QED
  BY <1>1, <1>2, <1>5

\* The next and the former one of the items m apart, and of m items together.
LEMMA NextApart ==
  ASSUME NEW n \in Nat, NEW m \in Nat \ {0}, NEW i \in 0 .. n - 1
  PROVE  NextIn(Apart(n, m, i), i) = IF i + m < n THEN i + m ELSE i % m
<1>0. i \in Nat /\ i % m \in Nat /\ Apart(n, m, i) \subseteq Int
  BY DivMod DEF Apart
<1>a. Apart(n, m, i) \subseteq Nat /\ \A o \in Apart(n, m, i) : o % m = i % m /\ o < n
  BY DEF Apart
<1>1. \A o \in Apart(n, m, i) : o > i => i + m <= o
  BY ONLY <1>0, <1>a, ApartBy, m \in Nat \ {0}
<1>b. \A o \in Apart(n, m, i) : o % m <= o
  BY ONLY <1>a, StepApart, m \in Nat \ {0}
<1>2. \A o \in Apart(n, m, i) : i % m <= o
  BY ONLY <1>a, <1>b
<1>3. CASE i + m < n
  <2>0. (i + m) % m = i % m
    BY <1>0, StepApart
  <2>1. i + m \in Apart(n, m, i)
    BY <1>0, <1>3, <2>0 DEF Apart
  <2> QED
    BY <1>0, <1>1, <1>3, <2>1, NextIs
<1>4. CASE ~(i + m < n)
  <2>1. i % m \in Apart(n, m, i)
    BY <1>0, StepApart DEF Apart
  <2>2. \A o \in Apart(n, m, i) : o <= i
    BY <1>0, <1>1, <1>4, <1>a
  <2> QED
    BY <1>0, <1>2, <1>4, <2>1, <2>2, NextRound
<1> QED
  BY <1>3, <1>4

LEMMA PrevApart ==
  ASSUME NEW n \in Nat, NEW m \in Nat \ {0}, NEW i \in 0 .. n - 1,
         NEW x \in Apart(n, m, i), i < m => x + m >= n, i >= m => x = i - m
  PROVE  PrevIn(Apart(n, m, i), i) = x
<1>0. i \in Nat /\ Apart(n, m, i) \subseteq Int
  BY DEF Apart
<1>a. Apart(n, m, i) \subseteq Nat /\ \A o \in Apart(n, m, i) : o % m = i % m /\ o < n
  BY DEF Apart
<1>b. \A o \in Apart(n, m, i) : o < i => o + m <= i
  BY ONLY <1>0, <1>a, ApartBy, m \in Nat \ {0}
<1>c. \A o \in Apart(n, m, i) : o > x => x + m <= o
  BY ONLY <1>0, <1>a, ApartBy, m \in Nat \ {0}, x \in Apart(n, m, i)
<1>1. CASE i >= m
  <2> QED
    BY <1>0, <1>1, <1>b, PrevIs
<1>2. CASE i < m
  <2>2. \A o \in Apart(n, m, i) : o >= i
    BY <1>0, <1>2, <1>a, <1>b
  <2>4. \A o \in Apart(n, m, i) : x >= o
    BY <1>0, <1>2, <1>a, <1>c
  <2> QED
    BY <1>0, <2>2, <2>4, PrevRound
<1> QED
  BY <1>0, <1>1, <1>2

LEMMA BlockIs ==
  ASSUME NEW n \in Nat, NEW m \in Nat \ {0}, NEW i \in 0 .. n - 1
  PROVE  \E b \in Nat : /\ b = m * (i \div m) /\ i = b + (i % m)
                        /\ b <= i /\ i < b + m
                        /\ \A k : k \in Block(n, m, i) <=> k \in 0 .. n - 1 /\ b <= k /\ k < b + m
<1>0. i \in Nat
  OBVIOUS
<1>1. i = m * (i \div m) + (i % m) /\ i \div m \in Nat /\ i % m \in 0 .. m - 1
  BY <1>0, DivMod
<1>2. PICK b \in Nat : b = m * (i \div m)
  BY <1>1, SMT
<1>3. ASSUME NEW k \in 0 .. n - 1
      PROVE  k \div m = i \div m <=> b <= k /\ k < b + m
  <2>0. k \in Nat
    OBVIOUS
  <2>1. k = m * (k \div m) + (k % m) /\ k \div m \in Nat /\ k % m \in 0 .. m - 1
    BY <2>0, DivMod
  <2>2. CASE k \div m < i \div m
    BY <1>1, <1>2, <2>1, <2>2, MoreRows
  <2>3. CASE i \div m < k \div m
    BY <1>1, <1>2, <2>1, <2>3, MoreRows
  <2>4. CASE k \div m = i \div m
    BY <1>1, <1>2, <2>1, <2>4
  <2> QED
    BY <1>1, <2>1, <2>2, <2>3, <2>4
<1> QED
  BY <1>1, <1>2, <1>3 DEF Block

LEMMA NextBlock ==
  ASSUME NEW n \in Nat, NEW m \in Nat \ {0}, NEW i \in 0 .. n - 1
  PROVE  NextIn(Block(n, m, i), i)
           = IF i % m # m - 1 /\ i + 1 < n THEN i + 1 ELSE m * (i \div m)
<1> DEFINE B == Block(n, m, i)
<1>1. PICK b \in Nat : /\ b = m * (i \div m) /\ i = b + (i % m)
                       /\ b <= i /\ i < b + m
                       /\ \A k : k \in B <=> k \in 0 .. n - 1 /\ b <= k /\ k < b + m
  BY BlockIs
<1>2. i % m \in 0 .. m - 1
  BY DivMod
<1> HIDE DEF B
<1>3. B \subseteq Int
  BY <1>1
<1>4. CASE i % m # m - 1 /\ i + 1 < n
  <2>1. i + 1 \in B /\ \A o \in B : o > i => i + 1 <= o
    BY <1>1, <1>2, <1>4
  <2>2. PICK x \in B : x = i + 1 /\ x > i /\ \A o \in B : o > i => x <= o
    BY <2>1
  <2>3. NextIn(B, i) = x
    BY ONLY <1>3, <2>2, NextIs, i \in Int
  <2> QED
    BY <1>4, <2>2, <2>3 DEF B
<1>5. CASE ~(i % m # m - 1 /\ i + 1 < n)
  <2>1. b \in B /\ \A o \in B : o <= i /\ b <= o
    BY <1>1, <1>2, <1>5
  <2>2. NextIn(B, i) = b
    BY ONLY <1>3, <2>1, NextRound, i \in Int
  <2> QED
    BY <1>1, <1>5, <2>2 DEF B
<1> QED
  BY <1>4, <1>5

LEMMA PrevBlock ==
  ASSUME NEW n \in Nat, NEW m \in Nat \ {0}, NEW i \in 0 .. n - 1
  PROVE  PrevIn(Block(n, m, i), i)
           = IF i % m # 0 THEN i - 1 ELSE IF i + m - 1 >= n THEN n - 1 ELSE i + m - 1
<1> DEFINE B == Block(n, m, i)
<1>1. PICK b \in Nat : /\ b = m * (i \div m) /\ i = b + (i % m)
                       /\ b <= i /\ i < b + m
                       /\ \A k : k \in B <=> k \in 0 .. n - 1 /\ b <= k /\ k < b + m
  BY BlockIs
<1>2. i % m \in 0 .. m - 1
  BY DivMod
<1> HIDE DEF B
<1>3. B \subseteq Int
  BY <1>1
<1>4. CASE i % m # 0
  <2>1. i - 1 \in B /\ \A o \in B : o < i => i - 1 >= o
    BY <1>1, <1>2, <1>4
  <2>2. PICK x \in B : x = i - 1 /\ x < i /\ \A o \in B : o < i => x >= o
    BY <2>1
  <2>3. PrevIn(B, i) = x
    BY ONLY <1>3, <2>2, PrevIs, i \in Int
  <2> QED
    BY <1>4, <2>2, <2>3 DEF B
<1>5. CASE i % m = 0
  <2> DEFINE x == IF i + m - 1 >= n THEN n - 1 ELSE i + m - 1
  <2>1. x \in B /\ \A o \in B : o >= i /\ x >= o
    BY <1>1, <1>2, <1>5
  <2> HIDE DEF x
  <2>2. PrevIn(B, i) = x
    BY ONLY <1>3, <2>1, PrevRound, i \in Int
  <2> QED
    BY <1>5, <2>2 DEF B, x
<1> QED
  BY <1>4, <1>5

\* The layouts the code may be asked for.
GridForm == [n : Nat, cols : Nat \ {0}, byRow : BOOLEAN, cyclic : BOOLEAN]

\* Rounding up, as set_menu_format does.
LEMMA Ceiling ==
  ASSUME NEW c \in Nat \ {0}, NEW q \in Nat, NEW r \in 0 .. c - 1, c * q + r > 0
  PROVE  /\ r > 0 => /\ c * ((q + 1) - 1) < c * q + r /\ c * q + r <= c * (q + 1)
                     /\ q + 1 < 2 <=> c * q + r <= c
                     /\ c < 2 => q + 1 = c * q + r
         /\ r = 0 => /\ q > 0 /\ c * (q - 1) < c * q + r /\ c * q + r <= c * q
                     /\ q < 2 <=> c * q + r <= c
                     /\ c < 2 => q = c * q + r
<1>1. PICK p \in Nat : /\ p = c * q /\ c * (q + 1) = p + c /\ c * (q - 1) = p - c
                       /\ c * ((q + 1) - 1) = p
  BY SMT
<1>2. (q = 0 => p = 0) /\ (q = 1 => p = c) /\ (c = 1 => p = q)
  BY <1>1, SMT
<1>3. q >= 2 => p >= c + c
  <2>1. ASSUME q >= 2 PROVE c * 1 + c <= c * q
    BY <2>1, MoreRows
  <2> QED
    BY <1>1, <2>1
<1>4. p + r > 0
  BY <1>1
<1>5. r > 0 => /\ p < p + r /\ p + r <= p + c
               /\ q + 1 < 2 <=> p + r <= c
               /\ c < 2 => q + 1 = p + r
  BY <1>2, <1>3
<1>6. r = 0 => /\ q > 0 /\ p - c < p + r /\ p + r <= p
               /\ q < 2 <=> p + r <= c
               /\ c < 2 => q = p + r
  BY <1>2, <1>3, <1>4
<1> QED
  BY ONLY <1>1, <1>5, <1>6

\* The last row has an item, and all items have a row.
LEMMA RowsNeeded ==
  ASSUME NEW g \in GridForm, g.n > 0
  PROVE  /\ ItemRows(g) \in Nat \ {0}
         /\ g.cols * (ItemRows(g) - 1) < g.n
         /\ g.n <= g.cols * ItemRows(g)
         /\ ItemRows(g) < 2 <=> g.n <= g.cols
         /\ g.cols < 2 => ItemRows(g) = g.n
<1>1. PICK n, c : n \in Nat \ {0} /\ c \in Nat \ {0} /\ n = g.n /\ c = g.cols
  BY DEF GridForm
<1>2. n = c * (n \div c) + (n % c) /\ n \div c \in Nat /\ n % c \in 0 .. c - 1
  BY ONLY <1>1, DivMod
<1>3. PICK q, r : /\ q = n \div c /\ q \in Nat /\ r \in 0 .. c - 1 /\ n = c * q + r
  BY ONLY <1>2
<1>4. n > q * c <=> r > 0
  BY <1>1, <1>3, SMT
<1>5. PICK R : R = ItemRows(g)
  OBVIOUS
<1>6. R = q + (IF r > 0 THEN 1 ELSE 0)
  BY ONLY <1>1, <1>3, <1>4, <1>5 DEF ItemRows
<1>7. q \in Nat /\ r \in 0 .. c - 1 /\ n = c * q + r /\ n \in Nat \ {0} /\ c \in Nat \ {0}
  BY ONLY <1>1, <1>3
<1>8. CASE r > 0
  <2>1. R = q + 1
    BY ONLY <1>6, <1>7, <1>8
  <2>2. /\ R \in Nat \ {0} /\ c * (R - 1) < n /\ n <= c * R
        /\ R < 2 <=> n <= c
        /\ c < 2 => R = n
    BY ONLY <1>7, <1>8, <2>1, Ceiling
  <2> QED
    BY ONLY <1>1, <1>5, <2>2
<1>9. CASE r = 0
  <2>1. R = q
    BY ONLY <1>6, <1>7, <1>9
  <2>2. /\ R \in Nat \ {0} /\ c * (R - 1) < n /\ n <= c * R
        /\ R < 2 <=> n <= c
        /\ c < 2 => R = n
    BY ONLY <1>7, <1>9, <2>1, Ceiling
  <2> QED
    BY ONLY <1>1, <1>5, <2>2
<1> QED
  BY <1>7, <1>8, <1>9

\* Where the links lead: to the next item of a row or column, or, over the
\* edge of the grid, to the first one of it.
LEMMA OverEdge ==
  ASSUME NEW g \in GridForm, NEW t \in Int, t < g.n
  PROVE  Edge(g, TRUE, t) = IF ~g.cyclic THEN Nowhere ELSE t
  BY DEF Edge, Nth, GridForm

\* A link that stops at the edge of a noncyclic menu, and goes round else.
LEMMA LinkOn ==
  ASSUME NEW g \in GridForm, NEW i \in 0 .. g.n - 1, NEW S, NEW k, NEW t \in Nat,
         t = NextIn(S, i),
         (t <= i /\ k = Edge(g, TRUE, t)) \/ (~(t <= i) /\ k = t)
  PROVE  IsLink(g, i, k, S, "on")
<1>1. CASE t <= i /\ k = Edge(g, TRUE, t)
  <2>0. t \in Int /\ t < g.n
    BY <1>1 DEF GridForm
  <2>1. k = IF ~g.cyclic THEN Nowhere ELSE t
    BY ONLY <1>1, <2>0, OverEdge, g \in GridForm, Zenon
  <2> QED
    BY <1>1, <2>1 DEF IsLink
<1>2. CASE ~(t <= i) /\ k = t
  BY <1>2 DEF IsLink
<1> QED
  BY <1>1, <1>2

LEMMA LinkBack ==
  ASSUME NEW g \in GridForm, NEW i \in 0 .. g.n - 1, NEW S, NEW k, NEW t \in Nat,
         t = PrevIn(S, i), t < g.n,
         (t >= i /\ k = Edge(g, TRUE, t)) \/ (~(t >= i) /\ k = t)
  PROVE  IsLink(g, i, k, S, "back")
<1>1. CASE t >= i /\ k = Edge(g, TRUE, t)
  <2>0. t \in Int /\ t < g.n
    BY <1>1 DEF GridForm
  <2>1. k = IF ~g.cyclic THEN Nowhere ELSE t
    BY ONLY <1>1, <2>0, OverEdge, g \in GridForm, Zenon
  <2> QED
    BY <1>1, <2>1 DEF IsLink
<1>2. CASE ~(t >= i) /\ k = t
  BY <1>2 DEF IsLink
<1> QED
  BY <1>1, <1>2

\* The rows and columns in terms of the array, in which the items of one are
\* together and those of the other m apart.
LEMMA Mates ==
  ASSUME NEW g \in GridForm, NEW i \in 0 .. g.n - 1
  PROVE  /\ g.byRow => /\ ColMates(g, i) = Apart(g.n, g.cols, i)
                       /\ RowMates(g, i) = Block(g.n, g.cols, i)
         /\ ~g.byRow => /\ ColMates(g, i) = Block(g.n, ItemRows(g), i)
                        /\ RowMates(g, i) = Apart(g.n, ItemRows(g), i)
  BY DEF ColMates, RowMates, ColOf, RowOf, Apart, Block

LEMMA SmallMod ==
  ASSUME NEW m \in Nat \ {0}, NEW k \in Nat, k < m
  PROVE  k % m = k /\ k \div m = 0
<1>1. k \in 0 .. m - 1 /\ m * 0 = 0 /\ 0 \in Nat
  BY SMT
<1>2. (m * 0 + k) \div m = 0 /\ (m * 0 + k) % m = k
  BY ONLY <1>1, m \in Nat \ {0}, DivModOf
<1> QED
  BY <1>1, <1>2

\* All that the links of an item depend on.
LEMMA Layout ==
  ASSUME NEW g \in GridForm, NEW i \in 0 .. g.n - 1
  PROVE  \E n, c, R \in Nat \ {0} :
           /\ n = g.n /\ c = g.cols /\ R = ItemRows(g) /\ i \in 0 .. n - 1
           /\ c * (R - 1) < n /\ n <= c * R /\ n <= R * c /\ R * (c - 1) = R * c - R
           /\ c * R = c * (R - 1) + c
           /\ R < 2 <=> n <= c
           /\ c < 2 => R = n
<1>1. g.n \in Nat \ {0} /\ g.cols \in Nat \ {0}
  BY DEF GridForm
<1>2. PICK n, c, R : /\ n = g.n /\ c = g.cols /\ R = ItemRows(g) /\ R \in Nat \ {0}
                     /\ c * (R - 1) < n /\ n <= c * R
                     /\ R < 2 <=> n <= c
                     /\ c < 2 => R = n
  BY <1>1, RowsNeeded
<1>3. n \in Nat \ {0} /\ c \in Nat \ {0} /\ i \in 0 .. n - 1
  BY <1>1, <1>2
<1>4. c * R = R * c /\ R * (c - 1) = R * c - R /\ c * R = c * (R - 1) + c
  BY <1>2, <1>3, SMT
<1> QED
  BY ONLY <1>2, <1>3, <1>4

\* The cases of each link in turn, and that it leads where the grid says.
LEMMA DownIs ==
  ASSUME NEW g, NEW i
  PROVE  /\ ItemRows(g) < 2 => Down(g, i) = Edge(g, TRUE, i)
         /\ ~(ItemRows(g) < 2) /\ g.cols < 2 =>
              /\ i = g.n - 1 => Down(g, i) = Edge(g, TRUE, 0)
              /\ i # g.n - 1 => Down(g, i) = i + 1
         /\ ~(ItemRows(g) < 2) /\ ~(g.cols < 2) /\ g.byRow =>
              /\ i \div g.cols = ItemRows(g) - 1 \/ i + g.cols >= g.n =>
                   Down(g, i) = Edge(g, TRUE, i % g.cols)
              /\ ~(i \div g.cols = ItemRows(g) - 1 \/ i + g.cols >= g.n) => Down(g, i) = i + g.cols
         /\ ~(ItemRows(g) < 2) /\ ~(g.cols < 2) /\ ~g.byRow =>
              /\ i % ItemRows(g) = ItemRows(g) - 1 \/ i + 1 >= g.n =>
                   Down(g, i) = Edge(g, TRUE, (i \div ItemRows(g)) * ItemRows(g))
              /\ ~(i % ItemRows(g) = ItemRows(g) - 1 \/ i + 1 >= g.n) => Down(g, i) = i + 1
  BY Zenon DEF Down, After, Itself, RowOf, ColOf

LEMMA DownLink ==
  ASSUME NEW g \in GridForm, NEW i \in 0 .. g.n - 1
  PROVE  IsLink(g, i, Down(g, i), ColMates(g, i), "on")
<1>1. PICK n, c, R \in Nat \ {0} :
           /\ n = g.n /\ c = g.cols /\ R = ItemRows(g) /\ i \in 0 .. n - 1
           /\ c * (R - 1) < n /\ n <= c * R /\ n <= R * c /\ R * (c - 1) = R * c - R
           /\ c * R = c * (R - 1) + c
           /\ R < 2 <=> n <= c
           /\ c < 2 => R = n
  BY ONLY Layout, g \in GridForm, i \in 0 .. g.n - 1
<1>a. /\ n \in Nat \ {0} /\ c \in Nat \ {0} /\ R \in Nat \ {0}
      /\ i \in 0 .. n - 1 /\ i \in Nat /\ i < n
      /\ R < 2 <=> n <= c
      /\ c < 2 => R = n
  BY <1>1
<1>b. g.n = n /\ g.cols = c /\ ItemRows(g) = R
  BY <1>1
<1>2. PICK t, k : t = NextIn(ColMates(g, i), i) /\ k = Down(g, i)
  OBVIOUS
<1>3. /\ R < 2 => k = Edge(g, TRUE, i)
      /\ ~(R < 2) /\ c < 2 => /\ i = n - 1 => k = Edge(g, TRUE, 0)
                              /\ i # n - 1 => k = i + 1
      /\ ~(R < 2) /\ ~(c < 2) /\ g.byRow =>
              /\ i \div c = R - 1 \/ i + c >= n => k = Edge(g, TRUE, i % c)
              /\ ~(i \div c = R - 1 \/ i + c >= n) => k = i + c
      /\ ~(R < 2) /\ ~(c < 2) /\ ~g.byRow =>
              /\ i % R = R - 1 \/ i + 1 >= n => k = Edge(g, TRUE, (i \div R) * R)
              /\ ~(i % R = R - 1 \/ i + 1 >= n) => k = i + 1
  BY ONLY <1>b, <1>2, DownIs, Zenon
<1>5. t \in Nat /\ ((t <= i /\ k = Edge(g, TRUE, t)) \/ (~(t <= i) /\ k = t))
  <2>1. CASE g.byRow
    <3>1. ColMates(g, i) = Apart(n, c, i)
      BY ONLY <1>b, <2>1, Mates, g \in GridForm, i \in 0 .. g.n - 1
    <3>2. t = IF i + c < n THEN i + c ELSE i % c
      BY ONLY <1>a, <1>2, <3>1, NextApart
    <3>3. i % c \in 0 .. c - 1 /\ i = c * (i \div c) + (i % c) /\ i \div c \in Nat
      BY ONLY <1>a, DivMod
    <3>4. i % c <= i
      BY ONLY <1>a, StepApart
    <3>5. PICK r \in 0 .. c - 1 : r = i % c /\ r <= i
      BY ONLY <3>3, <3>4
    <3>6. n <= c => r = i
      <4>1. n <= c => i \in Nat /\ i < c
        BY ONLY <1>a
      <4>2. n <= c => i % c = i
        BY ONLY <1>a, <4>1, SmallMod
      <4> QED
        BY ONLY <3>5, <4>2
    <3>7. t = IF i + c < n THEN i + c ELSE r
      BY ONLY <3>2, <3>5
    <3>8. CASE R < 2
      <4>1. t = i /\ t \in Nat /\ t <= i
        BY ONLY <1>a, <3>6, <3>7, <3>8
      <4> QED
        BY ONLY <1>3, <3>8, <4>1, Zenon
    <3>9. CASE ~(R < 2) /\ c < 2
      <4>1. CASE i = n - 1
        <5>1. t = 0 /\ t \in Nat /\ t <= i
          BY ONLY <1>a, <3>5, <3>7, <3>9, <4>1
        <5> QED
          BY ONLY <1>3, <3>9, <4>1, <5>1, Zenon
      <4>2. CASE i # n - 1
        <5>1. t = i + 1 /\ t \in Nat /\ ~(t <= i)
          BY ONLY <1>a, <3>5, <3>7, <3>9, <4>2
        <5> QED
          BY ONLY <1>3, <3>9, <4>2, <5>1, Zenon
      <4> QED
        BY ONLY <4>1, <4>2
    <3>10. CASE ~(R < 2) /\ ~(c < 2)
      <4>0. i \div c = R - 1 => i + c >= n
        <5>1. ASSUME i \div c = R - 1 PROVE i >= c * (R - 1)
          BY ONLY <1>a, <3>3, <5>1
        <5> QED
          BY ONLY <1>1, <5>1
      <4>1. CASE i + c >= n
        <5>1. t = i % c /\ t \in Nat /\ t <= i
          BY ONLY <1>a, <3>5, <3>7, <4>1
        <5> QED
          BY ONLY <1>3, <2>1, <3>10, <4>1, <5>1, Zenon
      <4>2. CASE ~(i + c >= n)
        <5>1. t = i + c /\ t \in Nat /\ ~(t <= i)
          BY ONLY <1>a, <3>5, <3>7, <4>2
        <5> QED
          BY ONLY <1>3, <2>1, <3>10, <4>0, <4>2, <5>1, Zenon
      <4> QED
        BY ONLY <4>1, <4>2
    <3> QED
      BY ONLY <3>8, <3>9, <3>10
  <2>2. CASE ~g.byRow
    <3>1. ColMates(g, i) = Block(n, R, i)
      BY ONLY <1>b, <2>2, Mates, g \in GridForm, i \in 0 .. g.n - 1
    <3>2. t = IF i % R # R - 1 /\ i + 1 < n THEN i + 1 ELSE R * (i \div R)
      BY ONLY <1>a, <1>2, <3>1, NextBlock
    <3>3. i % R \in 0 .. R - 1 /\ i = R * (i \div R) + (i % R) /\ i \div R \in Nat
      BY ONLY <1>a, DivMod
    <3>4. PICK b \in Nat, r \in 0 .. R - 1 :
            /\ b = R * (i \div R) /\ b = (i \div R) * R /\ b <= i /\ r = i % R /\ i = b + r
      BY <1>a, <3>3, SMT
    <3>5. c < 2 => r = i
      BY ONLY <1>a, <3>4, SmallMod
    <3>6. t = IF r # R - 1 /\ i + 1 < n THEN i + 1 ELSE b
      BY ONLY <3>2, <3>4
    <3>7. CASE R < 2
      <4>1. t = i /\ t \in Nat /\ t <= i
        BY ONLY <1>a, <3>4, <3>6, <3>7
      <4> QED
        BY ONLY <1>3, <3>7, <4>1, Zenon
    <3>8. CASE ~(R < 2) /\ c < 2
      <4>1. CASE i = n - 1
        <5>1. t = 0 /\ t \in Nat /\ t <= i
          BY ONLY <1>a, <3>4, <3>5, <3>6, <3>8, <4>1
        <5> QED
          BY ONLY <1>3, <3>8, <4>1, <5>1, Zenon
      <4>2. CASE i # n - 1
        <5>1. t = i + 1 /\ t \in Nat /\ ~(t <= i)
          BY ONLY <1>a, <3>4, <3>5, <3>6, <3>8, <4>2
        <5> QED
          BY ONLY <1>3, <3>8, <4>2, <5>1, Zenon
      <4> QED
        BY ONLY <4>1, <4>2
    <3>9. CASE ~(R < 2) /\ ~(c < 2)
      <4>1. CASE i % R = R - 1 \/ i + 1 >= n
        <5>1. t = (i \div R) * R /\ t \in Nat /\ t <= i
          BY ONLY <1>a, <3>4, <3>6, <4>1
        <5> QED
          BY ONLY <1>3, <2>2, <3>9, <4>1, <5>1, Zenon
      <4>2. CASE ~(i % R = R - 1 \/ i + 1 >= n)
        <5>1. t = i + 1 /\ t \in Nat /\ ~(t <= i)
          BY ONLY <1>a, <3>4, <3>6, <4>2
        <5> QED
          BY ONLY <1>3, <2>2, <3>9, <4>2, <5>1, Zenon
      <4> QED
        BY ONLY <4>1, <4>2
    <3> QED
      BY ONLY <3>7, <3>8, <3>9
  <2> QED
    BY <2>1, <2>2
<1> QED
  BY ONLY <1>2, <1>5, LinkOn, g \in GridForm, i \in 0 .. g.n - 1

LEMMA RightIs ==
  ASSUME NEW g, NEW i
  PROVE  /\ g.cols < 2 => Right(g, i) = Edge(g, TRUE, i)
         /\ ~(g.cols < 2) /\ ItemRows(g) < 2 =>
              /\ i = g.n - 1 => Right(g, i) = Edge(g, TRUE, 0)
              /\ i # g.n - 1 => Right(g, i) = i + 1
         /\ ~(g.cols < 2) /\ ~(ItemRows(g) < 2) /\ g.byRow =>
              /\ i % g.cols = g.cols - 1 \/ i + 1 >= g.n =>
                   Right(g, i) = Edge(g, TRUE, (i \div g.cols) * g.cols)
              /\ ~(i % g.cols = g.cols - 1 \/ i + 1 >= g.n) => Right(g, i) = i + 1
         /\ ~(g.cols < 2) /\ ~(ItemRows(g) < 2) /\ ~g.byRow =>
              /\ i \div ItemRows(g) = g.cols - 1 \/ i + ItemRows(g) >= g.n =>
                   Right(g, i) = Edge(g, TRUE, i % ItemRows(g))
              /\ ~(i \div ItemRows(g) = g.cols - 1 \/ i + ItemRows(g) >= g.n) =>
                   Right(g, i) = i + ItemRows(g)
  BY Zenon DEF Right, After, Itself, RowOf, ColOf

LEMMA RightLink ==
  ASSUME NEW g \in GridForm, NEW i \in 0 .. g.n - 1
  PROVE  IsLink(g, i, Right(g, i), RowMates(g, i), "on")
<1>1. PICK n, c, R \in Nat \ {0} :
           /\ n = g.n /\ c = g.cols /\ R = ItemRows(g) /\ i \in 0 .. n - 1
           /\ c * (R - 1) < n /\ n <= c * R /\ n <= R * c /\ R * (c - 1) = R * c - R
           /\ c * R = c * (R - 1) + c
           /\ R < 2 <=> n <= c
           /\ c < 2 => R = n
  BY ONLY Layout, g \in GridForm, i \in 0 .. g.n - 1
<1>a. /\ n \in Nat \ {0} /\ c \in Nat \ {0} /\ R \in Nat \ {0}
      /\ i \in 0 .. n - 1 /\ i \in Nat /\ i < n
      /\ R < 2 <=> n <= c
      /\ c < 2 => R = n
  BY <1>1
<1>b. g.n = n /\ g.cols = c /\ ItemRows(g) = R
  BY <1>1
<1>2. PICK t, k : t = NextIn(RowMates(g, i), i) /\ k = Right(g, i)
  OBVIOUS
<1>3. /\ c < 2 => k = Edge(g, TRUE, i)
      /\ ~(c < 2) /\ R < 2 => /\ i = n - 1 => k = Edge(g, TRUE, 0)
                              /\ i # n - 1 => k = i + 1
      /\ ~(c < 2) /\ ~(R < 2) /\ g.byRow =>
              /\ i % c = c - 1 \/ i + 1 >= n => k = Edge(g, TRUE, (i \div c) * c)
              /\ ~(i % c = c - 1 \/ i + 1 >= n) => k = i + 1
      /\ ~(c < 2) /\ ~(R < 2) /\ ~g.byRow =>
              /\ i \div R = c - 1 \/ i + R >= n => k = Edge(g, TRUE, i % R)
              /\ ~(i \div R = c - 1 \/ i + R >= n) => k = i + R
  BY ONLY <1>b, <1>2, RightIs, Zenon
<1>5. t \in Nat /\ ((t <= i /\ k = Edge(g, TRUE, t)) \/ (~(t <= i) /\ k = t))
  <2>1. CASE g.byRow
    <3>1. RowMates(g, i) = Block(n, c, i)
      BY ONLY <1>b, <2>1, Mates, g \in GridForm, i \in 0 .. g.n - 1
    <3>2. t = IF i % c # c - 1 /\ i + 1 < n THEN i + 1 ELSE c * (i \div c)
      BY ONLY <1>a, <1>2, <3>1, NextBlock
    <3>3. i % c \in 0 .. c - 1 /\ i = c * (i \div c) + (i % c) /\ i \div c \in Nat
      BY ONLY <1>a, DivMod
    <3>4. PICK b \in Nat, r \in 0 .. c - 1 :
            /\ b = c * (i \div c) /\ b = (i \div c) * c /\ b <= i /\ r = i % c /\ i = b + r
      BY <1>a, <3>3, SMT
    <3>5. n <= c => r = i
      BY ONLY <1>a, <3>4, SmallMod
    <3>6. t = IF r # c - 1 /\ i + 1 < n THEN i + 1 ELSE b
      BY ONLY <3>2, <3>4
    <3>7. CASE c < 2
      <4>1. t = i /\ t \in Nat /\ t <= i
        BY ONLY <1>a, <3>4, <3>6, <3>7
      <4> QED
        BY ONLY <1>3, <3>7, <4>1, Zenon
    <3>8. CASE ~(c < 2) /\ R < 2
      <4>1. CASE i = n - 1
        <5>1. t = 0 /\ t \in Nat /\ t <= i
          BY ONLY <1>a, <3>4, <3>5, <3>6, <3>8, <4>1
        <5> QED
          BY ONLY <1>3, <3>8, <4>1, <5>1, Zenon
      <4>2. CASE i # n - 1
        <5>1. t = i + 1 /\ t \in Nat /\ ~(t <= i)
          BY ONLY <1>a, <3>4, <3>5, <3>6, <3>8, <4>2
        <5> QED
          BY ONLY <1>3, <3>8, <4>2, <5>1, Zenon
      <4> QED
        BY ONLY <4>1, <4>2
    <3>9. CASE ~(c < 2) /\ ~(R < 2)
      <4>1. CASE i % c = c - 1 \/ i + 1 >= n
        <5>1. t = (i \div c) * c /\ t \in Nat /\ t <= i
          BY ONLY <1>a, <3>4, <3>6, <4>1
        <5> QED
          BY ONLY <1>3, <2>1, <3>9, <4>1, <5>1, Zenon
      <4>2. CASE ~(i % c = c - 1 \/ i + 1 >= n)
        <5>1. t = i + 1 /\ t \in Nat /\ ~(t <= i)
          BY ONLY <1>a, <3>4, <3>6, <4>2
        <5> QED
          BY ONLY <1>3, <2>1, <3>9, <4>2, <5>1, Zenon
      <4> QED
        BY ONLY <4>1, <4>2
    <3> QED
      BY ONLY <3>7, <3>8, <3>9
  <2>2. CASE ~g.byRow
    <3>1. RowMates(g, i) = Apart(n, R, i)
      BY ONLY <1>b, <2>2, Mates, g \in GridForm, i \in 0 .. g.n - 1
    <3>2. t = IF i + R < n THEN i + R ELSE i % R
      BY ONLY <1>a, <1>2, <3>1, NextApart
    <3>3. i % R \in 0 .. R - 1 /\ i = R * (i \div R) + (i % R) /\ i \div R \in Nat
      BY ONLY <1>a, DivMod
    <3>4. i % R <= i
      BY ONLY <1>a, StepApart
    <3>5. PICK r \in 0 .. R - 1 : r = i % R /\ r <= i
      BY ONLY <3>3, <3>4
    <3>6. c < 2 => r = i
      BY ONLY <1>a, <3>5, SmallMod
    <3>7. t = IF i + R < n THEN i + R ELSE r
      BY ONLY <3>2, <3>5
    <3>8. CASE c < 2
      <4>1. t = i /\ t \in Nat /\ t <= i
        BY ONLY <1>a, <3>6, <3>7, <3>8
      <4> QED
        BY ONLY <1>3, <3>8, <4>1, Zenon
    <3>9. CASE ~(c < 2) /\ R < 2
      <4>1. CASE i = n - 1
        <5>1. t = 0 /\ t \in Nat /\ t <= i
          BY ONLY <1>a, <3>5, <3>7, <3>9, <4>1
        <5> QED
          BY ONLY <1>3, <3>9, <4>1, <5>1, Zenon
      <4>2. CASE i # n - 1
        <5>1. t = i + 1 /\ t \in Nat /\ ~(t <= i)
          BY ONLY <1>a, <3>5, <3>7, <3>9, <4>2
        <5> QED
          BY ONLY <1>3, <3>9, <4>2, <5>1, Zenon
      <4> QED
        BY ONLY <4>1, <4>2
    <3>10. CASE ~(c < 2) /\ ~(R < 2)
      <4>0. i \div R = c - 1 => i + R >= n
        <5>1. ASSUME i \div R = c - 1 PROVE i >= R * (c - 1)
          BY ONLY <1>a, <3>3, <5>1
        <5> QED
          BY ONLY <1>1, <5>1
      <4>1. CASE i + R >= n
        <5>1. t = i % R /\ t \in Nat /\ t <= i
          BY ONLY <1>a, <3>5, <3>7, <4>1
        <5> QED
          BY ONLY <1>3, <2>2, <3>10, <4>1, <5>1, Zenon
      <4>2. CASE ~(i + R >= n)
        <5>1. t = i + R /\ t \in Nat /\ ~(t <= i)
          BY ONLY <1>a, <3>5, <3>7, <4>2
        <5> QED
          BY ONLY <1>3, <2>2, <3>10, <4>0, <4>2, <5>1, Zenon
      <4> QED
        BY ONLY <4>1, <4>2
    <3> QED
      BY ONLY <3>8, <3>9, <3>10
  <2> QED
    BY <2>1, <2>2
<1> QED
  BY ONLY <1>2, <1>5, LinkOn, g \in GridForm, i \in 0 .. g.n - 1

LEMMA UpIs ==
  ASSUME NEW g, NEW i
  PROVE  /\ ItemRows(g) < 2 => Up(g, i) = Edge(g, TRUE, i)
         /\ ~(ItemRows(g) < 2) /\ g.cols < 2 =>
              /\ i = 0 => Up(g, i) = Edge(g, TRUE, g.n - 1)
              /\ i # 0 => Up(g, i) = i - 1
         /\ ~(ItemRows(g) < 2) /\ ~(g.cols < 2) /\ g.byRow =>
              /\ i \div g.cols = 0 =>
                   Up(g, i) = Edge(g, TRUE, Short(g, (ItemRows(g) - 1) * g.cols + (i % g.cols), g.cols))
              /\ i \div g.cols # 0 => Up(g, i) = i - g.cols
         /\ ~(ItemRows(g) < 2) /\ ~(g.cols < 2) /\ ~g.byRow =>
              /\ i % ItemRows(g) = 0 =>
                   LET last == ItemRows(g) * (i \div ItemRows(g)) + ItemRows(g) - 1
                   IN  /\ last >= g.n => Up(g, i) = Edge(g, TRUE, g.n - 1)
                       /\ ~(last >= g.n) => Up(g, i) = Edge(g, TRUE, last)
              /\ i % ItemRows(g) # 0 => Up(g, i) = i - 1
  BY Zenon DEF Up, Before, Itself, RowOf, ColOf

\* The last item of those m apart.
LEMMA LastApart ==
  ASSUME NEW n \in Nat, NEW m \in Nat \ {0}, NEW i \in 0 .. n - 1
  PROVE  \E x \in Apart(n, m, i) : x + m >= n
<1>1. n - 1 - i \in Nat /\ i \in Nat
  OBVIOUS
<1>2. PICK d \in Nat : d = n - 1 - i
  BY <1>1
<1>3. d = m * (d \div m) + (d % m) /\ d \div m \in Nat /\ d % m \in 0 .. m - 1
  BY ONLY <1>2, m \in Nat \ {0}, DivMod
<1>4. i = m * (i \div m) + (i % m) /\ i \div m \in Nat /\ i % m \in 0 .. m - 1
  BY ONLY <1>1, m \in Nat \ {0}, DivMod
<1>5. PICK q, p, r, z \in Nat : /\ q = d \div m /\ p = i \div m /\ r = i % m /\ r \in 0 .. m - 1
                              /\ z = d % m /\ z < m
                              /\ d = m * q + z /\ i = m * p + r
  BY ONLY <1>3, <1>4
<1>6. (m * (p + q) + r) % m = r
  <2>1. PICK s \in Nat : s = p + q
    BY <1>5
  <2>2. (m * s + r) % m = r
    BY ONLY <1>5, <2>1, m \in Nat \ {0}, DivModOf
  <2> QED
    BY ONLY <2>1, <2>2
<1>7. m * (p + q) = m * p + m * q /\ m * p \in Nat /\ m * q \in Nat
  BY <1>5, SMT
<1>8. PICK x \in Nat : x = m * (p + q) + r
  BY <1>5, <1>7
<1>9. x % m = i % m /\ x = i + d - z
  BY ONLY <1>5, <1>6, <1>7, <1>8
<1>10. x < n /\ x + m >= n
  BY ONLY <1>1, <1>2, <1>5, <1>8, <1>9, n \in Nat, m \in Nat \ {0}
<1> QED
  BY <1>8, <1>9, <1>10 DEF Apart

\* The item a link over the edge leads to, if the last of the rows or columns
\* is not full there.
LEMMA ShortIs ==
  ASSUME NEW g \in GridForm, NEW m \in Nat \ {0}, NEW q \in Nat \ {0}, NEW i \in 0 .. m - 1,
         i < g.n, m * q - m + i < g.n, g.n <= m * q + m + i
  PROVE  /\ Short(g, m * q + i, m) \in Apart(g.n, m, i)
         /\ Short(g, m * q + i, m) + m >= g.n
<1>1. PICK n \in Nat : n = g.n
  BY DEF GridForm
<1>2. PICK p \in Nat : p = m * q /\ p >= m
  <2>1. q = 1 \/ q > 1
    OBVIOUS
  <2>2. m * 1 = m /\ m * q \in Nat
    BY SMT
  <2>3. q > 1 => m * 1 + m <= m * q
    BY MoreRows
  <2> QED
    BY <2>1, <2>2, <2>3
<1>3. (m * q + i) % m = i /\ i % m = i
  <2>1. q \in Nat /\ i \in Nat /\ i < m
    OBVIOUS
  <2>2. (m * q + i) % m = i
    BY ONLY <2>1, m \in Nat \ {0}, i \in 0 .. m - 1, DivModOf
  <2>3. i % m = i
    BY ONLY <2>1, m \in Nat \ {0}, SmallMod
  <2> QED
    BY ONLY <2>2, <2>3
<1>4. (p + i) % m = i % m /\ ((p + i) - m) % m = i % m
  <2>1. (p + i) % m = i
    BY ONLY <1>2, <1>3
  <2>2. p + i \in Nat /\ p + i >= m
    BY <1>2
  <2>3. ((p + i) - m) % m = (p + i) % m
    BY ONLY <2>2, StepApart, m \in Nat \ {0}
  <2> QED
    BY ONLY <1>3, <2>1, <2>3
<1>5. PICK x : x = p + i
  OBVIOUS
<1>6. /\ x \in Nat /\ x >= m /\ x % m = i % m /\ (x - m) % m = i % m
      /\ x - m < n /\ x + m >= n
  BY <1>1, <1>2, <1>4, <1>5
<1>7. Short(g, x, m) = IF x >= n THEN x - m ELSE x
  BY <1>1 DEF Short
<1>8. Short(g, x, m) \in Apart(n, m, i) /\ Short(g, x, m) + m >= n
  BY <1>6, <1>7 DEF Apart
<1> QED
  BY ONLY <1>1, <1>2, <1>5, <1>8

LEMMA UpLink ==
  ASSUME NEW g \in GridForm, NEW i \in 0 .. g.n - 1
  PROVE  IsLink(g, i, Up(g, i), ColMates(g, i), "back")
<1>1. PICK n, c, R \in Nat \ {0} :
           /\ n = g.n /\ c = g.cols /\ R = ItemRows(g) /\ i \in 0 .. n - 1
           /\ c * (R - 1) < n /\ n <= c * R /\ n <= R * c /\ R * (c - 1) = R * c - R
           /\ c * R = c * (R - 1) + c
           /\ R < 2 <=> n <= c
           /\ c < 2 => R = n
  BY ONLY Layout, g \in GridForm, i \in 0 .. g.n - 1
<1>a. /\ n \in Nat \ {0} /\ c \in Nat \ {0} /\ R \in Nat \ {0}
      /\ i \in 0 .. n - 1 /\ i \in Nat /\ i < n
      /\ R < 2 <=> n <= c
      /\ c < 2 => R = n
  BY <1>1
<1>b. g.n = n /\ g.cols = c /\ ItemRows(g) = R
  BY <1>1
<1>2. PICK t, k : t = PrevIn(ColMates(g, i), i) /\ k = Up(g, i)
  OBVIOUS
<1>3. /\ R < 2 => k = Edge(g, TRUE, i)
      /\ ~(R < 2) /\ c < 2 => /\ i = 0 => k = Edge(g, TRUE, n - 1)
                              /\ i # 0 => k = i - 1
      /\ ~(R < 2) /\ ~(c < 2) /\ g.byRow =>
              /\ i \div c = 0 => k = Edge(g, TRUE, Short(g, (R - 1) * c + (i % c), c))
              /\ i \div c # 0 => k = i - c
      /\ ~(R < 2) /\ ~(c < 2) /\ ~g.byRow =>
              /\ i % R = 0 =>
                   /\ R * (i \div R) + R - 1 >= n => k = Edge(g, TRUE, n - 1)
                   /\ ~(R * (i \div R) + R - 1 >= n) => k = Edge(g, TRUE, R * (i \div R) + R - 1)
              /\ i % R # 0 => k = i - 1
  BY ONLY <1>b, <1>2, UpIs, Zenon
<1>5. t \in Nat /\ t < n /\ ((t >= i /\ k = Edge(g, TRUE, t)) \/ (~(t >= i) /\ k = t))
  <2>1. CASE g.byRow
    <3>1. ColMates(g, i) = Apart(n, c, i)
      BY ONLY <1>b, <2>1, Mates, g \in GridForm, i \in 0 .. g.n - 1
    <3>2. ASSUME NEW x \in Apart(n, c, i), i < c => x + c >= n, i >= c => x = i - c
          PROVE  t = x /\ x \in Nat /\ x < n
      <4>1. t = x
        BY ONLY <1>a, <1>2, <3>1, <3>2, PrevApart
      <4> QED
        BY <4>1, <1>a DEF Apart
    <3>3. i % c \in 0 .. c - 1 /\ i = c * (i \div c) + (i % c) /\ i \div c \in Nat
      BY ONLY <1>a, DivMod
    <3>4. CASE R < 2
      <4>1. i \in Apart(n, c, i) /\ i < c /\ i + c >= n
        BY <1>a, <3>4 DEF Apart
      <4>2. t = i /\ t \in Nat /\ t < n /\ t >= i
        BY <1>a, <3>2, <4>1
      <4> QED
        BY ONLY <1>3, <3>4, <4>2, Zenon
    <3>5. CASE ~(R < 2) /\ c < 2
      <4>0. c = 1
        BY ONLY <1>a, <3>5
      <4>1. CASE i = 0
        <5>1. (n - 1) % c = 0 /\ i % c = 0
          BY ONLY <1>a, <4>0, <4>1, SMT
        <5>2. n - 1 \in Apart(n, c, i) /\ (n - 1) + c >= n /\ ~(i >= c)
          BY <1>a, <4>0, <4>1, <5>1 DEF Apart
        <5>3. t = n - 1 /\ t \in Nat /\ t < n
          BY <3>2, <5>2
        <5>4. t >= i
          BY <1>a, <4>1, <5>3
        <5> QED
          BY ONLY <1>3, <3>5, <4>1, <5>3, <5>4, Zenon
      <4>2. CASE i # 0
        <5>1. (i - 1) % c = 0 /\ i % c = 0
          BY ONLY <1>a, <4>0, <4>2, SMT
        <5>2. i - 1 \in Apart(n, c, i) /\ i - 1 = i - c /\ ~(i < c)
          BY <1>a, <4>0, <4>2, <5>1 DEF Apart
        <5>3. t = i - 1 /\ t \in Nat /\ t < n
          BY <3>2, <5>2
        <5>4. ~(t >= i)
          BY ONLY <1>a, <5>3
        <5> QED
          BY ONLY <1>3, <3>5, <4>2, <5>3, <5>4, Zenon
      <4> QED
        BY ONLY <4>1, <4>2
    <3>6. CASE ~(R < 2) /\ ~(c < 2)
      <4>1. CASE i \div c = 0
        <5>0. PICK x : x = Short(g, c * (R - 1) + i, c)
          OBVIOUS
        <5>1. i < c /\ i % c = i
          <6>1. c * (i \div c) = 0
            BY ONLY <1>a, <4>1, SMT
          <6> QED
            BY ONLY <1>a, <3>3, <6>1
        <5>2. x \in Apart(n, c, i) /\ x + c >= n
          <6>1. /\ R - 1 \in Nat \ {0} /\ i \in 0 .. c - 1 /\ i < g.n
                /\ c * (R - 1) - c + i < g.n /\ g.n <= c * (R - 1) + c + i
            <7>1. PICK p \in Nat : p = c * (R - 1)
              BY <1>a, SMT
            <7>2. p < n /\ n <= p + c
              BY ONLY <1>1, <7>1
            <7> QED
              BY ONLY <1>a, <1>b, <3>6, <5>1, <7>1, <7>2
          <6> QED
            BY ONLY <1>a, <1>b, <5>0, <6>1, ShortIs, g \in GridForm
        <5>3. t = x /\ t \in Nat /\ t < n
          BY <1>a, <3>2, <5>1, <5>2
        <5>4. t >= i
          <6>1. x \in Nat /\ x % c = i % c
            BY <5>2 DEF Apart
          <6>2. x < i => x + c <= i
            BY ONLY <1>a, <6>1, ApartBy
          <6> QED
            BY ONLY <1>a, <5>1, <5>3, <6>1, <6>2
        <5>5. c * (R - 1) + i = (R - 1) * c + (i % c)
          <6>1. c * (R - 1) = (R - 1) * c
            BY ONLY <1>a, SMT
          <6> QED
            BY ONLY <5>1, <6>1
        <5>6. k = Edge(g, TRUE, x)
          BY ONLY <1>3, <2>1, <3>6, <4>1, <5>0, <5>5, Zenon
        <5> QED
          BY ONLY <5>3, <5>4, <5>6, Zenon
      <4>2. CASE i \div c # 0
        <5>1. i >= c
          BY ONLY <1>a, <4>2, SmallMod
        <5>2. i - c \in Apart(n, c, i)
          <6>1. i - c \in Nat /\ (i - c) % c = i % c
            BY ONLY <1>a, <5>1, StepApart
          <6> QED
            BY <1>a, <5>1, <6>1 DEF Apart
        <5>3. t = i - c /\ t \in Nat /\ t < n
          BY <1>a, <3>2, <5>1, <5>2
        <5>4. ~(t >= i)
          BY ONLY <1>a, <5>3
        <5> QED
          BY ONLY <1>3, <2>1, <3>6, <4>2, <5>3, <5>4, Zenon
      <4> QED
        BY ONLY <4>1, <4>2
    <3> QED
      BY ONLY <3>4, <3>5, <3>6
  <2>2. CASE ~g.byRow
    <3>1. ColMates(g, i) = Block(n, R, i)
      BY ONLY <1>b, <2>2, Mates, g \in GridForm, i \in 0 .. g.n - 1
    <3>2. t = IF i % R # 0 THEN i - 1 ELSE IF i + R - 1 >= n THEN n - 1 ELSE i + R - 1
      BY ONLY <1>a, <1>2, <3>1, PrevBlock
    <3>3. i % R \in 0 .. R - 1 /\ i = R * (i \div R) + (i % R) /\ i \div R \in Nat
      BY ONLY <1>a, DivMod
    <3>4. PICK b \in Nat, r \in 0 .. R - 1 : b = R * (i \div R) /\ b <= i /\ r = i % R /\ i = b + r
      BY <1>a, <3>3, SMT
    <3>5. c < 2 => r = i
      BY ONLY <1>a, <3>4, SmallMod
    <3>6. t = IF r # 0 THEN i - 1 ELSE IF i + R - 1 >= n THEN n - 1 ELSE i + R - 1
      BY ONLY <3>2, <3>4
    <3>7. CASE R < 2
      <4>1. t = i /\ t \in Nat /\ t < n /\ t >= i
        BY ONLY <1>a, <3>4, <3>6, <3>7
      <4> QED
        BY ONLY <1>3, <3>7, <4>1, Zenon
    <3>8. CASE ~(R < 2) /\ c < 2
      <4>1. CASE i = 0
        <5>1. t = n - 1 /\ t \in Nat /\ t < n /\ t >= i
          BY ONLY <1>a, <3>4, <3>5, <3>6, <3>8, <4>1
        <5> QED
          BY ONLY <1>3, <3>8, <4>1, <5>1, Zenon
      <4>2. CASE i # 0
        <5>1. t = i - 1 /\ t \in Nat /\ t < n /\ ~(t >= i)
          BY ONLY <1>a, <3>4, <3>5, <3>6, <3>8, <4>2
        <5> QED
          BY ONLY <1>3, <3>8, <4>2, <5>1, Zenon
      <4> QED
        BY ONLY <4>1, <4>2
    <3>9. CASE ~(R < 2) /\ ~(c < 2)
      <4>1. CASE i % R = 0
        <5>1. CASE R * (i \div R) + R - 1 >= n
          <6>1. t = n - 1 /\ t \in Nat /\ t < n /\ t >= i
            BY ONLY <1>a, <3>4, <3>6, <4>1, <5>1
          <6> QED
            BY ONLY <1>3, <2>2, <3>9, <4>1, <5>1, <6>1, Zenon
        <5>2. CASE ~(R * (i \div R) + R - 1 >= n)
          <6>1. t = R * (i \div R) + R - 1 /\ t \in Nat /\ t < n /\ t >= i
            BY ONLY <1>a, <3>4, <3>6, <4>1, <5>2
          <6> QED
            BY ONLY <1>3, <2>2, <3>9, <4>1, <5>2, <6>1, Zenon
        <5> QED
          BY ONLY <5>1, <5>2
      <4>2. CASE i % R # 0
        <5>1. t = i - 1 /\ t \in Nat /\ t < n /\ ~(t >= i)
          BY ONLY <1>a, <3>4, <3>6, <4>2
        <5> QED
          BY ONLY <1>3, <2>2, <3>9, <4>2, <5>1, Zenon
      <4> QED
        BY ONLY <4>1, <4>2
    <3> QED
      BY ONLY <3>7, <3>8, <3>9
  <2> QED
    BY <2>1, <2>2
<1> QED
  BY ONLY <1>b, <1>2, <1>5, LinkBack, g \in GridForm, i \in 0 .. g.n - 1

LEMMA LeftIs ==
  ASSUME NEW g, NEW i
  PROVE  /\ g.cols < 2 => Left(g, i) = Edge(g, TRUE, i)
         /\ ~(g.cols < 2) /\ ItemRows(g) < 2 =>
              /\ i = 0 => Left(g, i) = Edge(g, TRUE, g.n - 1)
              /\ i # 0 => Left(g, i) = i - 1
         /\ ~(g.cols < 2) /\ ~(ItemRows(g) < 2) /\ g.byRow =>
              /\ i % g.cols = 0 =>
                   /\ i + g.cols - 1 >= g.n => Left(g, i) = Edge(g, TRUE, g.n - 1)
                   /\ ~(i + g.cols - 1 >= g.n) => Left(g, i) = Edge(g, TRUE, i + g.cols - 1)
              /\ i % g.cols # 0 => Left(g, i) = i - 1
         /\ ~(g.cols < 2) /\ ~(ItemRows(g) < 2) /\ ~g.byRow =>
              /\ i \div ItemRows(g) = 0 =>
                   Left(g, i) = Edge(g, TRUE, Short(g, ItemRows(g) * (g.cols - 1) + (i % ItemRows(g)),
                                                    ItemRows(g)))
              /\ i \div ItemRows(g) # 0 => Left(g, i) = i - ItemRows(g)
  BY Zenon DEF Left, Before, Itself, RowOf, ColOf

LEMMA LeftLink ==
  ASSUME NEW g \in GridForm, NEW i \in 0 .. g.n - 1, ColumnsUsed(g)
  PROVE  IsLink(g, i, Left(g, i), RowMates(g, i), "back")
<1>1. PICK n, c, R \in Nat \ {0} :
           /\ n = g.n /\ c = g.cols /\ R = ItemRows(g) /\ i \in 0 .. n - 1
           /\ c * (R - 1) < n /\ n <= c * R /\ n <= R * c /\ R * (c - 1) = R * c - R
           /\ c * R = c * (R - 1) + c
           /\ R < 2 <=> n <= c
           /\ c < 2 => R = n
  BY ONLY Layout, g \in GridForm, i \in 0 .. g.n - 1
<1>a. /\ n \in Nat \ {0} /\ c \in Nat \ {0} /\ R \in Nat \ {0}
      /\ i \in 0 .. n - 1 /\ i \in Nat /\ i < n
      /\ R < 2 <=> n <= c
      /\ c < 2 => R = n
  BY <1>1
<1>b. g.n = n /\ g.cols = c /\ ItemRows(g) = R
  BY <1>1
<1>2. PICK t, k : t = PrevIn(RowMates(g, i), i) /\ k = Left(g, i)
  OBVIOUS
<1>3. /\ c < 2 => k = Edge(g, TRUE, i)
      /\ ~(c < 2) /\ R < 2 => /\ i = 0 => k = Edge(g, TRUE, n - 1)
                              /\ i # 0 => k = i - 1
      /\ ~(c < 2) /\ ~(R < 2) /\ g.byRow =>
              /\ i % c = 0 =>
                   /\ i + c - 1 >= n => k = Edge(g, TRUE, n - 1)
                   /\ ~(i + c - 1 >= n) => k = Edge(g, TRUE, i + c - 1)
              /\ i % c # 0 => k = i - 1
      /\ ~(c < 2) /\ ~(R < 2) /\ ~g.byRow =>
              /\ i \div R = 0 => k = Edge(g, TRUE, Short(g, R * (c - 1) + (i % R), R))
              /\ i \div R # 0 => k = i - R
  BY ONLY <1>b, <1>2, LeftIs, Zenon
<1>5. t \in Nat /\ t < n /\ ((t >= i /\ k = Edge(g, TRUE, t)) \/ (~(t >= i) /\ k = t))
  <2>1. CASE g.byRow
    <3>1. RowMates(g, i) = Block(n, c, i)
      BY ONLY <1>b, <2>1, Mates, g \in GridForm, i \in 0 .. g.n - 1
    <3>2. t = IF i % c # 0 THEN i - 1 ELSE IF i + c - 1 >= n THEN n - 1 ELSE i + c - 1
      BY ONLY <1>a, <1>2, <3>1, PrevBlock
    <3>3. i % c \in 0 .. c - 1
      BY ONLY <1>a, DivMod
    <3>4. PICK r \in 0 .. c - 1 : r = i % c
      BY ONLY <3>3
    <3>5. n <= c => r = i
      BY ONLY <1>a, <3>4, SmallMod
    <3>6. t = IF r # 0 THEN i - 1 ELSE IF i + c - 1 >= n THEN n - 1 ELSE i + c - 1
      BY ONLY <3>2, <3>4
    <3>a. i = 0 => r = 0
      BY ONLY <1>a, <3>4, SmallMod
    <3>7. CASE c < 2
      <4>1. t = i /\ t \in Nat /\ t < n /\ t >= i
        BY ONLY <1>a, <3>4, <3>6, <3>7
      <4> QED
        BY ONLY <1>3, <3>7, <4>1, Zenon
    <3>8. CASE ~(c < 2) /\ R < 2
      <4>1. CASE i = 0
        <5>1. t = n - 1 /\ t \in Nat /\ t < n /\ t >= i
          BY ONLY <1>a, <3>4, <3>5, <3>6, <3>8, <4>1
        <5> QED
          BY ONLY <1>3, <3>8, <4>1, <5>1, Zenon
      <4>2. CASE i # 0
        <5>1. t = i - 1 /\ t \in Nat /\ t < n /\ ~(t >= i)
          BY ONLY <1>a, <3>4, <3>5, <3>6, <3>8, <4>2
        <5> QED
          BY ONLY <1>3, <3>8, <4>2, <5>1, Zenon
      <4> QED
        BY ONLY <4>1, <4>2
    <3>9. CASE ~(c < 2) /\ ~(R < 2)
      <4>1. CASE i % c = 0
        <5>1. CASE i + c - 1 >= n
          <6>1. t = n - 1 /\ t \in Nat /\ t < n /\ t >= i
            BY ONLY <1>a, <3>4, <3>6, <4>1, <5>1
          <6> QED
            BY ONLY <1>3, <2>1, <3>9, <4>1, <5>1, <6>1, Zenon
        <5>2. CASE ~(i + c - 1 >= n)
          <6>1. t = i + c - 1 /\ t \in Nat /\ t < n /\ t >= i
            BY ONLY <1>a, <3>4, <3>6, <4>1, <5>2
          <6> QED
            BY ONLY <1>3, <2>1, <3>9, <4>1, <5>2, <6>1, Zenon
        <5> QED
          BY ONLY <5>1, <5>2
      <4>2. CASE i % c # 0
        <5>1. t = i - 1 /\ t \in Nat /\ t < n /\ ~(t >= i)
          BY ONLY <1>a, <3>4, <3>6, <3>a, <4>2
        <5> QED
          BY ONLY <1>3, <2>1, <3>9, <4>2, <5>1, Zenon
      <4> QED
        BY ONLY <4>1, <4>2
    <3> QED
      BY ONLY <3>7, <3>8, <3>9
  <2>2. CASE ~g.byRow
    <3>1. RowMates(g, i) = Apart(n, R, i)
      BY ONLY <1>b, <2>2, Mates, g \in GridForm, i \in 0 .. g.n - 1
    <3>2. ASSUME NEW x \in Apart(n, R, i), i < R => x + R >= n, i >= R => x = i - R
          PROVE  t = x /\ x \in Nat /\ x < n
      <4>1. t = x
        BY ONLY <1>a, <1>2, <3>1, <3>2, PrevApart
      <4> QED
        BY <4>1, <1>a DEF Apart
    <3>3. i % R \in 0 .. R - 1 /\ i = R * (i \div R) + (i % R) /\ i \div R \in Nat
      BY ONLY <1>a, DivMod
    <3>4. CASE c < 2
      <4>1. i \in Apart(n, R, i) /\ i < R /\ i + R >= n
        BY <1>a, <3>4 DEF Apart
      <4>2. t = i /\ t \in Nat /\ t < n /\ t >= i
        BY <1>a, <3>2, <4>1
      <4> QED
        BY ONLY <1>3, <3>4, <4>2, Zenon
    <3>5. CASE ~(c < 2) /\ R < 2
      <4>0. R = 1
        BY ONLY <1>a, <3>5
      <4>1. CASE i = 0
        <5>1. (n - 1) % R = 0 /\ i % R = 0
          BY ONLY <1>a, <4>0, <4>1, SMT
        <5>2. n - 1 \in Apart(n, R, i) /\ (n - 1) + R >= n /\ ~(i >= R)
          BY <1>a, <4>0, <4>1, <5>1 DEF Apart
        <5>3. t = n - 1 /\ t \in Nat /\ t < n
          BY <3>2, <5>2
        <5>4. t >= i
          BY <1>a, <4>1, <5>3
        <5> QED
          BY ONLY <1>3, <3>5, <4>1, <5>3, <5>4, Zenon
      <4>2. CASE i # 0
        <5>1. (i - 1) % R = 0 /\ i % R = 0
          BY ONLY <1>a, <4>0, <4>2, SMT
        <5>2. i - 1 \in Apart(n, R, i) /\ i - 1 = i - R /\ ~(i < R)
          BY <1>a, <4>0, <4>2, <5>1 DEF Apart
        <5>3. t = i - 1 /\ t \in Nat /\ t < n
          BY <3>2, <5>2
        <5>4. ~(t >= i)
          BY ONLY <1>a, <5>3
        <5> QED
          BY ONLY <1>3, <3>5, <4>2, <5>3, <5>4, Zenon
      <4> QED
        BY ONLY <4>1, <4>2
    <3>6. CASE ~(c < 2) /\ ~(R < 2)
      <4>1. CASE i \div R = 0
        <5>1. i < R /\ i % R = i
          <6>1. R * (i \div R) = 0
            BY ONLY <1>a, <4>1, SMT
          <6> QED
            BY ONLY <1>a, <3>3, <6>1
        <5>2. ASSUME NEW x \in Apart(n, R, i), x + R >= n
              PROVE  t = x /\ t \in Nat /\ t < n /\ t >= i
          <6>1. t = x /\ t \in Nat /\ t < n
            BY <1>a, <3>2, <5>1, <5>2
          <6>2. x \in Nat /\ x % R = i % R
            BY <5>2 DEF Apart
          <6>3. x < i => x + R <= i
            BY ONLY <1>a, <6>2, ApartBy
          <6> QED
            BY ONLY <1>a, <5>1, <6>1, <6>2, <6>3
        <5>3. CASE ~g.cyclic
          <6>1. PICK x \in Apart(n, R, i) : x + R >= n
            BY ONLY <1>a, LastApart
          <6>2. t \in Nat /\ t < n /\ t >= i
            BY ONLY <5>2, <6>1
          <6>3. \A y : Edge(g, TRUE, y) = Nowhere
            BY ONLY <5>3, Zenon DEF Edge
          <6>4. k = Nowhere /\ Edge(g, TRUE, t) = Nowhere
            BY ONLY <1>3, <2>2, <3>6, <4>1, <6>3, Zenon
          <6> QED
            BY ONLY <6>2, <6>4, Zenon
        <5>4. CASE g.cyclic
          <6>0. PICK x : x = Short(g, R * (c - 1) + i, R)
            OBVIOUS
          <6>1. R * (c - 2) + R - 1 < n
            BY <1>b, <2>2, <3>6, <5>4 DEF ColumnsUsed
          <6>2. /\ c - 1 \in Nat \ {0} /\ i \in 0 .. R - 1 /\ i < g.n
                /\ R * (c - 1) - R + i < g.n /\ g.n <= R * (c - 1) + R + i
            <7>1. PICK p \in Nat : p = R * (c - 1) /\ R * (c - 2) = p - R
              BY <1>a, SMT
            <7>2. n <= p + R /\ p - 1 < n
              BY ONLY <1>1, <6>1, <7>1
            <7> QED
              BY ONLY <1>a, <1>b, <3>6, <5>1, <7>1, <7>2
          <6>3. x \in Apart(n, R, i) /\ x + R >= n
            BY ONLY <1>a, <1>b, <6>0, <6>2, ShortIs, g \in GridForm
          <6>4. t = x /\ t \in Nat /\ t < n /\ t >= i
            BY ONLY <5>2, <6>3
          <6>5. k = Edge(g, TRUE, x)
            BY ONLY <1>3, <2>2, <3>6, <4>1, <5>1, <6>0, Zenon
          <6> QED
            BY ONLY <6>4, <6>5, Zenon
        <5> QED
          BY ONLY <5>3, <5>4
      <4>2. CASE i \div R # 0
        <5>1. i >= R
          BY ONLY <1>a, <4>2, SmallMod
        <5>2. i - R \in Apart(n, R, i)
          <6>1. i - R \in Nat /\ (i - R) % R = i % R
            BY ONLY <1>a, <5>1, StepApart
          <6> QED
            BY <1>a, <5>1, <6>1 DEF Apart
        <5>3. t = i - R /\ t \in Nat /\ t < n
          BY <1>a, <3>2, <5>1, <5>2
        <5>4. ~(t >= i)
          BY ONLY <1>a, <5>3
        <5> QED
          BY ONLY <1>3, <2>2, <3>6, <4>2, <5>3, <5>4, Zenon
      <4> QED
        BY ONLY <4>1, <4>2
    <3> QED
      BY ONLY <3>4, <3>5, <3>6
  <2> QED
    BY <2>1, <2>2
<1> QED
  BY ONLY <1>b, <1>2, <1>5, LinkBack, g \in GridForm, i \in 0 .. g.n - 1

-----------------------------------------------------------------------------
\* What remains true of an index whichever way the grid is filled.
LEMMA LeastIn ==
  ASSUME NEW S, S \subseteq Nat, S # {}
  PROVE  Least(S) \in S /\ \A o \in S : Least(S) <= o
<1>1. S \subseteq Nat /\ S # {}
  OBVIOUS
<1>2. PICK n \in S : \A y \in S : ~(<<y, n>> \in OpToRel(<, Nat))
  BY ONLY <1>1, NatLessThanWellFounded, WFMin
<1>3. \A y \in S : ~(y < n)
  BY <1>1, <1>2 DEF OpToRel
<1>4. \A y \in S : n <= y
  BY <1>1, <1>3
<1> QED
  BY <1>4 DEF Least

LEMMA GreatestIn ==
  ASSUME NEW n \in Nat, NEW S, S \subseteq 0 .. n - 1, S # {}
  PROVE  Greatest(S) \in S
<1> DEFINE T == {n - x : x \in S}
<1>0. \A x \in S : x \in Int /\ 0 <= x /\ x < n
  OBVIOUS
<1>1. T \subseteq Nat /\ T # {}
  <2>1. \A x \in S : n - x \in Nat
    BY <1>0
  <2> QED
    BY <2>1
<1>2. PICK k \in T : \A y \in T : k <= y
  BY <1>1, LeastIn
<1>3. PICK m \in S : k = n - m
  BY <1>2
<1>4. \A x \in S : m >= x
  <2> TAKE x \in S
  <2>1. k <= n - x
    BY <1>2
  <2>2. x \in Int /\ m \in Int
    BY <1>0
  <2> QED
    BY <1>3, <2>1, <2>2
<1> QED
  BY <1>4 DEF Greatest

LEMMA LinkThere ==
  ASSUME NEW n \in Nat, NEW S, S \subseteq 0 .. n - 1, NEW i \in S
  PROVE  NextIn(S, i) \in S /\ PrevIn(S, i) \in S
<1>1. S \subseteq Nat
  OBVIOUS
<1>2. PICK A, B : A = {k \in S : k > i} /\ B = {k \in S : k < i}
  OBVIOUS
<1>3. A \subseteq S /\ B \subseteq S /\ A \subseteq Nat /\ B \subseteq 0 .. n - 1
  BY <1>1, <1>2
<1>4. (A # {} => Least(A) \in A) /\ Least(S) \in S
  BY <1>1, <1>3, LeastIn
<1>5. (B # {} => Greatest(B) \in B) /\ Greatest(S) \in S
  BY <1>3, GreatestIn
<1>6. (\E k \in S : k > i) <=> A # {}
  BY <1>2
<1>7. (\E k \in S : k < i) <=> B # {}
  BY <1>2
<1>8. NextIn(S, i) = IF A # {} THEN Least(A) ELSE Least(S)
  BY <1>2, <1>6, Zenon DEF NextIn
<1>9. PrevIn(S, i) = IF B # {} THEN Greatest(B) ELSE Greatest(S)
  BY <1>2, <1>7, Zenon DEF PrevIn
<1> QED
  BY <1>3, <1>4, <1>5, <1>8, <1>9, Zenon

\* A link of a grid is an item or none.
LEMMA LinkIn ==
  ASSUME NEW g, g.n \in Nat, NEW i \in 0 .. g.n - 1, NEW k, NEW way, NEW S,
         S \subseteq 0 .. g.n - 1, i \in S, IsLink(g, i, k, S, way)
  PROVE  k \in 0 .. g.n - 1 \cup {Nowhere}
<1>1. NextIn(S, i) \in S /\ PrevIn(S, i) \in S
  BY LinkThere
<1>2. NextIn(S, i) \in 0 .. g.n - 1 /\ PrevIn(S, i) \in 0 .. g.n - 1
  BY <1>1
<1>3. k \in {Nowhere, NextIn(S, i), PrevIn(S, i)}
  BY DEF IsLink
<1> QED
  BY <1>2, <1>3

LEMMA LinksIn ==
  ASSUME NEW g \in GridForm, ColumnsUsed(g), NEW i \in 0 .. g.n - 1,
         NEW way \in {"up", "down", "left", "right"}
  PROVE  Links(g)[i][way] \in 0 .. g.n - 1 \cup {Nowhere}
<1>0. g.n \in Nat
  BY DEF GridForm
<1>1. /\ ColMates(g, i) \subseteq 0 .. g.n - 1 /\ i \in ColMates(g, i)
      /\ RowMates(g, i) \subseteq 0 .. g.n - 1 /\ i \in RowMates(g, i)
  BY DEF ColMates, RowMates
<1>2. /\ IsLink(g, i, Up(g, i), ColMates(g, i), "back")
      /\ IsLink(g, i, Down(g, i), ColMates(g, i), "on")
      /\ IsLink(g, i, Left(g, i), RowMates(g, i), "back")
      /\ IsLink(g, i, Right(g, i), RowMates(g, i), "on")
  BY UpLink, DownLink, LeftLink, RightLink
<1>3. /\ Up(g, i) \in 0 .. g.n - 1 \cup {Nowhere} /\ Down(g, i) \in 0 .. g.n - 1 \cup {Nowhere}
      /\ Left(g, i) \in 0 .. g.n - 1 \cup {Nowhere} /\ Right(g, i) \in 0 .. g.n - 1 \cup {Nowhere}
  BY <1>0, <1>1, <1>2, LinkIn
<1>4. /\ Links(g)[i].up = Up(g, i) /\ Links(g)[i].down = Down(g, i)
      /\ Links(g)[i].left = Left(g, i) /\ Links(g)[i].right = Right(g, i)
  BY DEF Links
<1> QED
  BY <1>3, <1>4

\* Every item has one of the rows, and the first has the first.
LEMMA RowIn ==
  ASSUME NEW g \in GridForm, NEW i \in 0 .. g.n - 1
  PROVE  /\ ItemRows(g) \in Nat \ {0} /\ RowOf(g, i) \in 0 .. ItemRows(g) - 1
         /\ ColOf(g, i) \in Nat
         /\ i = 0 => RowOf(g, i) = 0
<1>1. PICK n, c, R \in Nat \ {0} :
           /\ n = g.n /\ c = g.cols /\ R = ItemRows(g) /\ i \in 0 .. n - 1
           /\ c * (R - 1) < n /\ n <= c * R /\ n <= R * c /\ R * (c - 1) = R * c - R
           /\ c * R = c * (R - 1) + c
           /\ R < 2 <=> n <= c
           /\ c < 2 => R = n
  BY ONLY Layout, g \in GridForm, i \in 0 .. g.n - 1
<1>2. i \in Nat /\ R \in Nat \ {0} /\ c \in Nat \ {0}
  BY <1>1
<1>3. /\ i \div c \in Nat /\ i % c \in 0 .. c - 1 /\ i = c * (i \div c) + (i % c)
      /\ i \div R \in Nat /\ i % R \in 0 .. R - 1
  BY ONLY <1>2, DivMod
<1>4. i \div c < R
  <2>1. ASSUME R <= i \div c PROVE FALSE
    <3>1. R < i \div c => c * R + c <= c * (i \div c)
      BY ONLY <1>2, <1>3, MoreRows
    <3>2. R = i \div c => c * R = c * (i \div c)
      OBVIOUS
    <3>3. PICK p, q, r : p = c * R /\ q = c * (i \div c) /\ r = i % c /\ p \in Nat /\ q \in Nat
      BY <1>2, <1>3, SMT
    <3>4. i = q + r /\ r \in Nat
      BY ONLY <1>3, <3>3
    <3>5. i < p
      <4>1. i < n /\ n <= p
        BY ONLY <1>1, <3>3
      <4> QED
        BY ONLY <1>1, <1>2, <3>3, <4>1
    <3>6. p <= q
      <4>1. R < i \div c => p + c <= q
        BY ONLY <3>1, <3>3
      <4>2. R = i \div c => p = q
        BY ONLY <3>2, <3>3
      <4>3. R < i \div c \/ R = i \div c
        BY ONLY <1>2, <1>3, <2>1
      <4> QED
        BY ONLY <1>2, <3>3, <4>1, <4>2, <4>3
    <3> QED
      BY ONLY <1>2, <3>3, <3>4, <3>5, <3>6
  <2> QED
    BY <1>2, <1>3, <2>1
<1>5. i = 0 => i % R = 0 /\ i \div c = 0
  BY ONLY <1>2, SmallMod
<1>6. /\ i \div c \in 0 .. R - 1 /\ i % c \in Nat
      /\ i \div R \in Nat /\ i % R \in 0 .. R - 1
  BY ONLY <1>2, <1>3, <1>4
<1>7. /\ RowOf(g, i) = IF g.byRow THEN i \div c ELSE i % R
      /\ ColOf(g, i) = IF g.byRow THEN i % c ELSE i \div R
  BY <1>1, Zenon DEF RowOf, ColOf
<1>8. i % R \in Nat
  BY ONLY <1>2, <1>6
<1>9. RowOf(g, i) \in 0 .. R - 1 /\ ColOf(g, i) \in Nat /\ (i = 0 => RowOf(g, i) = 0)
  BY ONLY <1>5, <1>6, <1>7, <1>8, Zenon
<1> QED
  BY ONLY <1>1, <1>2, <1>9

\* Every row has an item.
LEMMA RowUsed ==
  ASSUME NEW g \in GridForm, g.n > 0, NEW y \in 0 .. ItemRows(g) - 1
  PROVE  \E i \in 0 .. g.n - 1 : RowOf(g, i) = y
<1>0. 0 \in 0 .. g.n - 1
  BY DEF GridForm
<1>1. PICK n, c, R \in Nat \ {0} :
           /\ n = g.n /\ c = g.cols /\ R = ItemRows(g) /\ 0 \in 0 .. n - 1
           /\ c * (R - 1) < n
  BY ONLY Layout, g \in GridForm, <1>0
<1>2. /\ R \in Nat \ {0} /\ c \in Nat \ {0} /\ n \in Nat \ {0}
      /\ y \in Nat /\ y <= R - 1 /\ R - 1 \in Nat
  BY <1>1
<1>3. PICK last \in Nat : last = c * (R - 1) /\ last < n
  BY <1>1, <1>2, SMT
<1>4. CASE g.byRow
  <2>1. PICK i \in Nat : i = c * y
    BY <1>2, SMT
  <2>2. i <= last
    <3>1. y < R - 1 => i + c <= last
      <4>1. y < R - 1 => c * y + c <= c * (R - 1)
        BY ONLY <1>2, MoreRows
      <4> QED
        BY <1>3, <2>1, <4>1
    <3>2. y = R - 1 => i = last
      BY <1>3, <2>1
    <3> QED
      BY ONLY <1>2, <1>3, <2>1, <3>1, <3>2
  <2>3. i \div c = y
    <3>1. 0 \in 0 .. c - 1
      BY <1>2
    <3>2. (c * y + 0) \div c = y
      BY ONLY <1>2, <3>1, DivModOf
    <3>3. i + 0 = i
      OBVIOUS
    <3> QED
      BY ONLY <2>1, <3>2, <3>3
  <2>4. RowOf(g, i) = y
    BY ONLY <1>1, <1>4, <2>3, Zenon DEF RowOf
  <2>5. i \in 0 .. n - 1
    BY ONLY <1>2, <1>3, <2>1, <2>2
  <2> QED
    BY <1>1, <2>4, <2>5
<1>5. CASE ~g.byRow
  <2>1. R - 1 <= last
    <3>1. (c - 1) * (R - 1) >= 0
      BY ONLY <1>2, SMT
    <3>2. (c - 1) * (R - 1) = c * (R - 1) - (R - 1)
      BY ONLY <1>2, SMT
    <3> QED
      BY ONLY <1>2, <1>3, <3>1, <3>2
  <2>2. y % R = y
    BY ONLY <1>2, SmallMod
  <2>3. RowOf(g, y) = y
    BY ONLY <1>1, <1>5, <2>2, Zenon DEF RowOf
  <2>4. y \in 0 .. n - 1
    BY ONLY <1>2, <1>3, <2>1
  <2> QED
    BY <1>1, <2>3, <2>4
<1> QED
  BY <1>4, <1>5

\* Up leads one row up.
LEMMA UpGoes ==
  ASSUME NEW g \in GridForm, NEW i \in 0 .. g.n - 1, RowOf(g, i) > 0
  PROVE  Up(g, i) \in 0 .. g.n - 1 /\ RowOf(g, Up(g, i)) = RowOf(g, i) - 1
<1>1. PICK n, c, R \in Nat \ {0} : n = g.n /\ c = g.cols /\ R = ItemRows(g) /\ i \in 0 .. n - 1
  BY ONLY Layout, g \in GridForm, i \in 0 .. g.n - 1
<1>2. i \in Nat /\ R \in Nat \ {0} /\ c \in Nat \ {0} /\ n \in Nat /\ i < n
  BY <1>1
<1>3. IsLink(g, i, Up(g, i), ColMates(g, i), "back")
  BY UpLink
<1>4. ASSUME NEW t \in 0 .. n - 1, t = PrevIn(ColMates(g, i), i), t < i PROVE Up(g, i) = t
  <2>1. ~(t >= i)
    BY <1>2, <1>4
  <2> QED
    BY ONLY <1>3, <1>4, <2>1, Zenon DEF IsLink
<1>5. CASE g.byRow
  <2>1. i \div c > 0
    BY <1>1, <1>5 DEF RowOf
  <2>2. i >= c
    BY ONLY <1>2, <2>1, SmallMod
  <2>a. ~(i < c)
    BY ONLY <1>2, <2>2
  <2>b. i - c \in Nat /\ (i - c) % c = i % c
    BY ONLY <1>2, <2>2, StepApart
  <2>3. i - c \in Nat /\ (i - c) % c = i % c /\ ~(i < c)
    BY ONLY <2>a, <2>b
  <2>4. i - c \in Apart(n, c, i) /\ i - c \in 0 .. n - 1 /\ i - c < i
    BY <1>2, <2>3 DEF Apart
  <2>5. PrevIn(Apart(n, c, i), i) = i - c
    BY <1>1, <2>3, <2>4, PrevApart
  <2>6. ColMates(g, i) = Apart(n, c, i)
    BY ONLY <1>1, <1>5, Mates, g \in GridForm, i \in 0 .. g.n - 1
  <2>7. Up(g, i) = i - c
    BY ONLY <1>4, <2>4, <2>5, <2>6
  <2>8. (i - c) \div c = (i \div c) - 1
    BY ONLY <1>2, <2>2, StepOver
  <2>9. RowOf(g, i - c) = (i - c) \div c /\ RowOf(g, i) = i \div c
    BY ONLY <1>1, <1>5, Zenon DEF RowOf
  <2> QED
    BY ONLY <1>1, <2>4, <2>7, <2>8, <2>9
<1>6. CASE ~g.byRow
  <2>1. i % R # 0
    BY <1>1, <1>6 DEF RowOf
  <2>2. PrevIn(Block(n, R, i), i) = i - 1
    BY ONLY <1>1, <2>1, PrevBlock
  <2>3. ColMates(g, i) = Block(n, R, i)
    BY ONLY <1>1, <1>6, Mates, g \in GridForm, i \in 0 .. g.n - 1
  <2>4. i - 1 \in 0 .. n - 1 /\ i - 1 < i /\ (i - 1) % R = (i % R) - 1
    <3>1. i = R * (i \div R) + (i % R) /\ i \div R \in Nat /\ i % R \in 0 .. R - 1
      BY ONLY <1>2, DivMod
    <3>a. PICK q, p : /\ q = i \div R /\ p = i % R /\ q \in Nat /\ p \in 0 .. R - 1
                      /\ i = R * q + p /\ p # 0
      BY ONLY <2>1, <3>1
    <3>2. PICK r : r = p - 1 /\ r \in 0 .. R - 1 /\ i % R = r + 1
      BY ONLY <1>2, <3>a
    <3>3. PICK b \in Nat : b = R * q
      BY ONLY <1>2, <3>a, SMT
    <3>b. i = b + p
      BY ONLY <3>a, <3>3, SMTT(30)
    <3>4. i - 1 = b + r
      BY ONLY <1>2, <3>a, <3>b, <3>2, <3>3, SMTT(30)
    <3>c. R \in Nat \ {0} /\ q \in Nat /\ r \in 0 .. R - 1
      BY ONLY <1>2, <3>a, <3>2
    <3>5. (R * q + r) % R = r
      BY ONLY <3>c, DivModOf
    <3>6. (i - 1) % R = r
      BY ONLY <3>3, <3>4, <3>5
    <3> QED
      BY ONLY <1>2, <3>2, <3>3, <3>4, <3>6
  <2>7. Up(g, i) = i - 1
    BY ONLY <1>4, <2>2, <2>3, <2>4
  <2>9. RowOf(g, i - 1) = (i - 1) % R /\ RowOf(g, i) = i % R
    BY ONLY <1>1, <1>6, Zenon DEF RowOf
  <2> QED
    BY ONLY <1>1, <2>4, <2>7, <2>9
<1> QED
  BY <1>5, <1>6

\* Down leads to an item that is at most one row further down, from all rows
\* but the last two, unless the last column ends short.
LEMMA DownGoes ==
  ASSUME NEW g \in GridForm, NEW i \in 0 .. g.n - 1, RowOf(g, i) + 2 < ItemRows(g),
         g.byRow \/ g.cyclic \/ g.n % ItemRows(g) = 0
  PROVE  Down(g, i) \in 0 .. g.n - 1 /\ RowOf(g, Down(g, i)) <= RowOf(g, i) + 1
<1>1. PICK n, c, R \in Nat \ {0} :
         /\ n = g.n /\ c = g.cols /\ R = ItemRows(g) /\ i \in 0 .. n - 1
         /\ c * (R - 1) < n
  BY ONLY Layout, g \in GridForm, i \in 0 .. g.n - 1
<1>2. i \in Nat /\ R \in Nat \ {0} /\ c \in Nat \ {0} /\ n \in Nat /\ i < n
  BY <1>1
<1>3. IsLink(g, i, Down(g, i), ColMates(g, i), "on")
  BY DownLink
<1>4. ASSUME NEW t \in 0 .. n - 1, t = NextIn(ColMates(g, i), i), i < t \/ g.cyclic
      PROVE  Down(g, i) = t
  <2>1. i < t => ~(t <= i)
    BY <1>2
  <2> QED
    BY ONLY <1>3, <1>4, <2>1, Zenon DEF IsLink
<1>5. CASE g.byRow
  <2>1. i \div c + 2 < R /\ i \div c \in Nat
    BY <1>1, <1>2, <1>5, DivMod DEF RowOf
  <2>2. i + c < n
    <3>1. i = c * (i \div c) + (i % c) /\ i % c \in 0 .. c - 1
      BY ONLY <1>2, DivMod
    <3>2. PICK q, r : q = i \div c /\ r = i % c /\ q \in Nat /\ r \in 0 .. c - 1 /\ i = c * q + r
      BY ONLY <2>1, <3>1
    <3>3. c * q + c <= c * (q + 1) /\ c * (q + 1) + c <= c * (R - 1)
      BY ONLY <1>2, <2>1, <3>2, MoreRows
    <3>4. PICK a, b, d : a = c * q /\ b = c * (q + 1) /\ d = c * (R - 1)
                         /\ a \in Nat /\ b \in Nat /\ d \in Nat
      BY ONLY <1>2, <3>2, SMT
    <3>5. i = a + r /\ a + c <= b /\ b + c <= d /\ d < n /\ r \in 0 .. c - 1
      BY ONLY <1>1, <3>2, <3>3, <3>4
    <3> QED
      BY ONLY <1>2, <3>4, <3>5
  <2>3. NextIn(Apart(n, c, i), i) = i + c
    BY ONLY <1>1, <1>2, <2>2, NextApart
  <2>4. ColMates(g, i) = Apart(n, c, i)
    BY ONLY <1>1, <1>5, Mates, g \in GridForm, i \in 0 .. g.n - 1
  <2>5. i + c \in 0 .. n - 1 /\ i < i + c
    BY ONLY <1>2, <2>2
  <2>6. Down(g, i) = i + c
    BY ONLY <1>4, <2>3, <2>4, <2>5
  <2>7. (i + c) \div c = i \div c + 1
    BY ONLY <1>2, StepOver
  <2>8. RowOf(g, i + c) = (i + c) \div c /\ RowOf(g, i) = i \div c
    BY ONLY <1>1, <1>5, Zenon DEF RowOf
  <2> QED
    BY ONLY <1>1, <2>1, <2>5, <2>6, <2>7, <2>8
<1>6. CASE ~g.byRow
  <2>1. (i % R) + 2 < R /\ i % R \in 0 .. R - 1 /\ i = R * (i \div R) + (i % R) /\ i \div R \in Nat
    BY <1>1, <1>2, <1>6, DivMod DEF RowOf
  <2>2. PICK q, r : q = i \div R /\ r = i % R /\ q \in Nat /\ r \in 0 .. R - 1
                    /\ i = R * q + r /\ r + 2 < R
    BY ONLY <2>1
  <2>3. PICK b \in Nat : b = R * q /\ i = b + r
    BY ONLY <1>2, <2>2, SMT
  <2>4. NextIn(Block(n, R, i), i) = IF i + 1 < n THEN i + 1 ELSE b
    <3>1. r # R - 1
      BY ONLY <1>2, <2>2
    <3> QED
      BY ONLY <1>1, <1>2, <2>2, <2>3, <3>1, NextBlock
  <2>5. ColMates(g, i) = Block(n, R, i)
    BY ONLY <1>1, <1>6, Mates, g \in GridForm, i \in 0 .. g.n - 1
  <2>6. \A k : RowOf(g, k) = k % R
    BY ONLY <1>1, <1>6, Zenon DEF RowOf
  <2>7. CASE i + 1 < n
    <3>1. i + 1 \in 0 .. n - 1 /\ i < i + 1
      BY ONLY <1>2, <2>7
    <3>2. Down(g, i) = i + 1
      BY ONLY <1>4, <2>4, <2>5, <2>7, <3>1
    <3>3. (i + 1) % R = r + 1
      <4>1. r + 1 \in 0 .. R - 1
        BY ONLY <1>2, <2>2
      <4>2. (R * q + (r + 1)) % R = r + 1
        BY ONLY <1>2, <2>2, <4>1, DivModOf
      <4>3. i + 1 = b + (r + 1)
        BY ONLY <2>2, <2>3
      <4> QED
        BY ONLY <2>3, <4>2, <4>3
    <3>4. RowOf(g, i + 1) = r + 1 /\ RowOf(g, i) = r
      BY ONLY <2>2, <2>6, <3>3
    <3> QED
      BY ONLY <1>1, <2>2, <3>1, <3>2, <3>4
  <2>8. CASE ~(i + 1 < n)
    <3>1. i = n - 1
      BY ONLY <1>2, <2>8
    <3>2. g.cyclic
      <4>1. ASSUME n % R = 0 PROVE FALSE
        <5>1. r + 1 \in 0 .. R - 1
          BY ONLY <1>2, <2>2
        <5>2. (R * q + (r + 1)) % R = r + 1
          BY ONLY <1>2, <2>2, <5>1, DivModOf
        <5>3. n = b + (r + 1)
          BY ONLY <1>2, <2>2, <2>3, <3>1
        <5>4. n % R = r + 1
          BY ONLY <2>3, <5>2, <5>3
        <5> QED
          BY ONLY <2>2, <4>1, <5>4
      <4> QED
        BY <1>1, <1>6, <4>1
    <3>3. b \in 0 .. n - 1
      BY ONLY <1>2, <2>2, <2>3
    <3>4. Down(g, i) = b
      BY ONLY <1>4, <2>4, <2>5, <2>8, <3>2, <3>3
    <3>5. b % R = 0
      <4>1. 0 \in 0 .. R - 1
        BY ONLY <1>2
      <4>2. (R * q + 0) % R = 0
        BY ONLY <1>2, <2>2, <4>1, DivModOf
      <4>3. b + 0 = b
        BY ONLY <2>3
      <4> QED
        BY ONLY <2>3, <4>2, <4>3
    <3>6. RowOf(g, b) = 0 /\ RowOf(g, i) = r
      BY ONLY <2>2, <2>6, <3>5
    <3>7. 0 <= r + 1
      BY ONLY <1>2, <2>2
    <3> QED
      BY ONLY <1>1, <3>3, <3>4, <3>6, <3>7
  <2> QED
    BY ONLY <2>7, <2>8
<1> QED
  BY <1>5, <1>6

\* _menui_stitch_items links every item to its neighbours in the grid, for any
\* number of items and columns, as long as the links of a menu that is filled
\* by columns do not have to go over more than one empty column.
THEOREM StitchMakesGrid ==
  ASSUME NEW g \in GridForm, ColumnsUsed(g)
  PROVE  Grid(g, Links(g))
<1> SUFFICES ASSUME NEW i \in 0 .. g.n - 1
             PROVE  /\ IsLink(g, i, Links(g)[i].up,    ColMates(g, i), "back")
                    /\ IsLink(g, i, Links(g)[i].down,  ColMates(g, i), "on")
                    /\ IsLink(g, i, Links(g)[i].left,  RowMates(g, i), "back")
                    /\ IsLink(g, i, Links(g)[i].right, RowMates(g, i), "on")
  BY DEF Grid
<1>1. /\ Links(g)[i].up = Up(g, i) /\ Links(g)[i].down = Down(g, i)
      /\ Links(g)[i].left = Left(g, i) /\ Links(g)[i].right = Right(g, i)
  BY DEF Links
<1> QED
  BY <1>1, UpLink, DownLink, LeftLink, RightLink

(***************************************************************************)
(* The calls.                                                              *)
(***************************************************************************)

\* What a pattern holds: what was typed, and what the program set.
AnyLetter == Letters \cup UNION {ToSet(p) : p \in Patterns}

Pattern == [null : BOOLEAN, text : Seq(AnyLetter), plen : Nat, match : Nat]

\* The hooks of a request and of set_top_row.
Moving == {"menu_term", "menu_init", "item_term", "item_init", "top_term", "top_init"}

Frames == [at : Moving \cup {"post", "unpost"}, new : Nat, newTop : Nat, oldTop : Nat,
           oldCur : Nat]

\* The layout is the one of the items and the format; a menu that went
\* noncyclic or cyclic keeps its links until it is stitched again.
Attached ==
  /\ array \in Arrays \cup {<<>>}
  /\ rows \in 1 .. Height /\ cols \in {f[2] : f \in Formats} /\ opts \in Options
  /\ form \in Forms /\ ColumnsUsed(form)
  /\ array # <<>> => form = [FormOf(array, cols, opts) EXCEPT !.cyclic = form.cyclic]

\* The current item, the pattern and the values.
Stored ==
  /\ cur \in Nat /\ top \in Nat
  /\ array # <<>> => cur < Count
  /\ pat \in Pattern /\ pat.plen <= Len(pat.text)
  /\ selected \in [Items -> BOOLEAN]

\* A window that items are drawn in.
IsWindow(w) ==
  /\ w = [cells |-> w.cells, spilt |-> w.spilt, visible |-> w.visible]
  /\ w.cells \in [0 .. Height - 1 -> [Columns -> Cell]]

\* The innermost call waits for a hook of these steps.
InHook(steps) == stack # <<>> /\ stack[Len(stack)].at \in steps

\* The calls that wait, and how far each is.
Hooked ==
  /\ stack \in Seq(Frames)
  /\ \A k \in 1 .. Len(stack) - 1 : stack[k].at = "unpost"
  /\ inInit <=> InHook(Moving \cup {"post"})
  /\ posted => array # <<>>
  /\ InHook({"post"}) => ~posted /\ array # <<>>
  /\ InHook(Moving) =>
       LET f == stack[Len(stack)]
       IN  /\ posted /\ f.new < Count /\ f.oldCur < Count /\ InView(f.newTop, f.new)
           /\ f.at \in {"menu_init", "item_term", "item_init", "top_init"} => top = f.newTop
           /\ f.at \in {"item_init", "top_init"} => cur = f.new

\* The window shows the current item, but for a request under way.
InSight == array # <<>> /\ ~InHook(Moving) => InView(top, cur)

MenuInv == Attached /\ Stored /\ IsWindow(win) /\ Hooked

-----------------------------------------------------------------------------
(* The layout *)

\* The layouts and arrays are those the grid is proved for.
LEMMA FormsAre ==
  ASSUME NEW f \in Forms
  PROVE  f \in GridForm /\ LinksOf[f] = Links(f)
<1>1. \A a \in Arrays : Len(a) \in Nat
  BY MenuAssumption
<1>2. \A x \in Formats : x[2] \in Nat \ {0}
  BY MenuAssumption
<1> QED
  BY <1>1, <1>2 DEF Forms, GridForm, LinksOf

LEMMA ArrayIs ==
  ASSUME NEW a \in Arrays
  PROVE  a \in Seq(Items) /\ Len(a) \in Nat \ {0} /\ a # <<>> /\ a \in [1 .. Len(a) -> Items]
  BY MenuAssumption

\* The links of the attached items.
LEMMA LinksAre ==
  ASSUME Attached, array # <<>>
  PROVE  /\ form \in GridForm /\ links = Links(form) /\ form.n = Count
         /\ array \in [1 .. Count -> Items] /\ Count \in Nat \ {0}
         /\ \A i \in 0 .. Count - 1 :
              /\ links[i].row = RowOf(form, i) /\ links[i].row \in Nat /\ links[i].col \in Nat
              /\ links[i].row \in 0 .. ItemRows(form) - 1
              /\ \A way \in {"up", "down", "left", "right"} :
                   links[i][way] \in 0 .. Count - 1 \cup {Nowhere}
         /\ Grid(form, links)
         /\ ItemRows(form) \in Nat \ {0}
<1>1. form \in GridForm /\ links = Links(form)
  BY FormsAre DEF Attached, links
<1>2. array \in [1 .. Count -> Items] /\ Count \in Nat \ {0}
  BY ArrayIs DEF Attached, Count
<1>3. form.n = Count
  BY DEF Attached, FormOf, Count
<1>4. ASSUME NEW i \in 0 .. Count - 1
      PROVE  /\ links[i].row = RowOf(form, i) /\ links[i].row \in Nat /\ links[i].col \in Nat
             /\ links[i].row \in 0 .. ItemRows(form) - 1
             /\ \A way \in {"up", "down", "left", "right"} :
                  links[i][way] \in 0 .. Count - 1 \cup {Nowhere}
  <2>1. /\ ItemRows(form) \in Nat \ {0} /\ RowOf(form, i) \in 0 .. ItemRows(form) - 1
        /\ ColOf(form, i) \in Nat
    BY <1>1, <1>3, <1>4, RowIn
  <2>2. ColumnsUsed(form)
    BY DEF Attached
  <2>3. \A way \in {"up", "down", "left", "right"} :
           Links(form)[i][way] \in 0 .. Count - 1 \cup {Nowhere}
    BY <1>1, <1>3, <1>4, <2>2, LinksIn
  <2>4. links[i].row = RowOf(form, i) /\ links[i].col = ColOf(form, i)
    BY <1>1, <1>3, <1>4 DEF Links
  <2> QED
    BY <1>1, <2>1, <2>3, <2>4
<1>5. Grid(form, links)
  BY <1>1, StitchMakesGrid DEF Attached
<1>6. ItemRows(form) \in Nat \ {0}
  <2>1. 0 \in 0 .. form.n - 1
    BY <1>2, <1>3
  <2> QED
    BY <1>1, <2>1, RowIn
<1> QED
  BY <1>1, <1>2, <1>3, <1>4, <1>5, <1>6

-----------------------------------------------------------------------------
(* Paths of items *)

\* A path of m steps in S from a.
IsPath(S, a, step, m, g) ==
  g \in [0 .. m -> S] /\ g[0] = a /\ \A k \in 1 .. m : g[k] = step[g[k - 1]]

\* A path that follows a function: it exists, and the definition picks one.
LEMMA PathExists ==
  ASSUME NEW S, NEW a \in S, NEW step \in [S -> S], NEW n \in Nat
  PROVE  \E g : IsPath(S, a, step, n, g)
<1> DEFINE Bad == {m \in Nat : ~ \E g : IsPath(S, a, step, m, g)}
<1> SUFFICES ASSUME Bad # {} PROVE FALSE
  OBVIOUS
<1>0. Bad \subseteq Nat
  OBVIOUS
<1>1. PICK m \in Bad : \A x \in Bad : m <= x
  <2> HIDE DEF Bad
  <2> QED
    BY <1>0, LeastIn
<1>2. m # 0
  <2> DEFINE g == [k \in 0 .. 0 |-> a]
  <2>1. IsPath(S, a, step, 0, g)
    BY DEF IsPath
  <2> QED
    BY <1>1, <2>1
<1>3. m - 1 \in Nat /\ m \in Nat
  BY <1>1, <1>2
<1>4. m - 1 \notin Bad
  <2> HIDE DEF Bad
  <2> QED
    BY <1>1, <1>3
<1>5. PICK g : IsPath(S, a, step, m - 1, g)
  BY <1>3, <1>4
<1> DEFINE h == [k \in 0 .. m |-> IF k = m THEN step[g[m - 1]] ELSE g[k]]
<1>6. IsPath(S, a, step, m, h)
  <2>1. g \in [0 .. m - 1 -> S] /\ g[0] = a /\ \A k \in 1 .. m - 1 : g[k] = step[g[k - 1]]
    BY <1>5 DEF IsPath
  <2>2. h \in [0 .. m -> S]
    <3>1. ASSUME NEW k \in 0 .. m PROVE h[k] \in S
      <4>1. m - 1 \in 0 .. m - 1 /\ (k # m => k \in 0 .. m - 1)
        BY <1>3
      <4> QED
        BY <2>1, <4>1
    <3> QED
      BY <3>1
  <2>3. h[0] = a
    BY <1>2, <1>3, <2>1
  <2>4. ASSUME NEW k \in 1 .. m PROVE h[k] = step[h[k - 1]]
    <3>1. k \in 0 .. m /\ k - 1 \in 0 .. m /\ k - 1 # m
      BY <1>3
    <3>2. h[k - 1] = g[k - 1]
      BY <3>1
    <3>3. CASE k = m
      BY <3>1, <3>2, <3>3
    <3>4. CASE k # m
      <4>1. k \in 1 .. m - 1
        BY <1>3, <3>4
      <4> QED
        BY <2>1, <3>1, <3>2, <3>4, <4>1
    <3> QED
      BY <3>3, <3>4
  <2> HIDE DEF h
  <2> QED
    BY <2>2, <2>3, <2>4 DEF IsPath
<1> HIDE DEF h
<1> QED
  BY <1>1, <1>3, <1>6

\* A path that follows itself stays in S.
LEMMA PathStays ==
  ASSUME NEW S, NEW a \in S, NEW step \in [S -> S], NEW n \in Nat, NEW g,
         g[0] = a, \A k \in 1 .. n : g[k - 1] \in S => g[k] = step[g[k - 1]]
  PROVE  \A k \in 0 .. n : g[k] \in S
<1> DEFINE Bad == {k \in 0 .. n : g[k] \notin S}
<1> SUFFICES ASSUME Bad # {} PROVE FALSE
  OBVIOUS
<1>0. Bad \subseteq Nat
  OBVIOUS
<1>1. PICK m \in Bad : \A x \in Bad : m <= x
  <2> HIDE DEF Bad
  <2> QED
    BY <1>0, LeastIn
<1>2. m \in 1 .. n /\ m - 1 \in 0 .. n
  BY <1>1
<1>3. m - 1 \notin Bad
  <2> HIDE DEF Bad
  <2> QED
    BY <1>1, <1>2
<1>4. g[m - 1] \in S
  BY <1>2, <1>3
<1>5. g[m] \in S
  BY <1>2, <1>4
<1> QED
  BY <1>1, <1>5

\* A search visits items only.
LEMMA VisitedIn ==
  ASSUME Count \in Nat \ {0}, cur \in 0 .. Count - 1, NEW dir \in {"here", "next", "prev"}
  PROVE  \A k \in 0 .. Count : Visited(dir)[k] \in 0 .. Count - 1
<1> DEFINE S == 0 .. Count - 1
           step == [i \in S |-> Step(dir, i)]
<1>1. Starts(dir) \in S
  BY DEF Starts
<1>2. ASSUME NEW i \in S PROVE Step(dir, i) \in S
  <2>1. CASE dir # "prev"
    BY <2>1 DEF Step
  <2>2. CASE dir = "prev"
    BY <2>2 DEF Step
  <2> QED
    BY <2>1, <2>2
<1>3. step \in [S -> S]
  BY <1>2
<1>4. PICK g : IsPath(S, Starts(dir), step, Count, g)
  <2> HIDE DEF S, step
  <2>1. Count \in Nat
    OBVIOUS
  <2> QED
    BY <1>1, <1>3, <2>1, PathExists
<1>5. g = [k \in 0 .. Count |-> IF k = 0 THEN Starts(dir) ELSE Step(dir, g[k - 1])]
  <2>1. /\ g \in [0 .. Count -> S] /\ g[0] = Starts(dir)
        /\ \A k \in 1 .. Count : g[k] = step[g[k - 1]]
    BY <1>4 DEF IsPath
  <2>2. ASSUME NEW k \in 0 .. Count
        PROVE  g[k] = IF k = 0 THEN Starts(dir) ELSE Step(dir, g[k - 1])
    <3>1. CASE k = 0
      BY <2>1, <3>1
    <3>2. CASE k # 0
      <4>1. k \in 1 .. Count /\ k - 1 \in 0 .. Count
        BY <3>2
      <4>2. g[k - 1] \in S
        BY <2>1, <4>1
      <4> QED
        BY <2>1, <3>2, <4>1, <4>2
    <3> QED
      BY <3>1, <3>2
  <2> QED
    BY <2>1, <2>2
<1>6. PICK v : v = Visited(dir)
  OBVIOUS
<1>7. v = [k \in 0 .. Count |-> IF k = 0 THEN Starts(dir) ELSE Step(dir, v[k - 1])]
  BY <1>5, <1>6 DEF Visited
<1>8. v[0] = Starts(dir)
  BY <1>7
<1>9. \A k \in 1 .. Count : v[k - 1] \in S => v[k] = step[v[k - 1]]
  <2> TAKE k \in 1 .. Count
  <2>1. k \in 0 .. Count /\ k # 0
    OBVIOUS
  <2>2. v[k] = Step(dir, v[k - 1])
    BY <1>7, <2>1
  <2> QED
    BY <2>2
<1>10. \A k \in 0 .. Count : v[k] \in S
  <2> HIDE DEF S, step
  <2>1. Count \in Nat
    OBVIOUS
  <2> QED
    BY <1>1, <1>3, <1>8, <1>9, <2>1, PathStays
<1> QED
  BY <1>6, <1>10

\* A search finds an item, or none, or does not end.
LEMMA FoundIn ==
  ASSUME Count \in Nat \ {0}, cur \in 0 .. Count - 1, NEW dir \in {"here", "next", "prev"},
         NEW text, NEW plen
  PROVE  Found(dir, text, plen) \in 0 .. Count - 1 \cup {Nowhere, Endless}
<1>1. PICK v : v = Visited(dir)
  OBVIOUS
<1>2. \A k \in 0 .. Count : v[k] \in 0 .. Count - 1
  BY <1>1, VisitedIn
<1>3. PICK hits : hits = {k \in 0 .. Round(dir) - 1 :
                            k <= Count /\ Matches(text, plen, Visited(dir)[k])}
  OBVIOUS
<1>4. hits \subseteq 0 .. Count
  BY <1>3
<1>5. hits # {} => Least(hits) \in 0 .. Count
  <2>1. hits \subseteq Nat
    BY <1>4
  <2> QED
    BY <1>4, <2>1, LeastIn
<1>6. Found(dir, text, plen) = IF hits # {} THEN v[Least(hits)]
                               ELSE IF Round(dir) > Count THEN Endless ELSE Nowhere
  BY ONLY <1>1, <1>3, Zenon DEF Found
<1> QED
  BY <1>2, <1>5, <1>6

\* The items g passes in following n links.
Trail(g, way, n) ==
  /\ Along(way, n) = g[n] /\ g[0] = cur
  /\ \A k \in 1 .. n : g[k] = IF g[k - 1] = Nowhere THEN Nowhere
                              ELSE links[g[k - 1]][way]
  /\ \A k \in 0 .. n : g[k] \in 0 .. Count - 1 \cup {Nowhere}

\* Following links one comes to items, or the end.
LEMMA AlongIs ==
  ASSUME Attached, array # <<>>, cur \in 0 .. Count - 1,
         NEW way \in {"up", "down", "left", "right"}, NEW n \in Nat
  PROVE  \E g : Trail(g, way, n)
<1> DEFINE S == 0 .. Count - 1 \cup {Nowhere}
           step == [i \in S |-> IF i = Nowhere THEN Nowhere ELSE links[i][way]]
<1>0. Count \in Nat \ {0} /\ \A i \in 0 .. Count - 1 : links[i][way] \in S
  BY LinksAre
<1>1. cur \in S
  OBVIOUS
<1>3. step \in [S -> S]
  BY <1>0
<1>4. PICK h : IsPath(S, cur, step, n, h)
  <2> HIDE DEF S, step
  <2> QED
    BY <1>1, <1>3, PathExists
<1>5. h = [k \in 0 .. n |-> IF k = 0 THEN cur ELSE IF h[k - 1] = Nowhere THEN Nowhere
                            ELSE links[h[k - 1]][way]]
  <2>1. /\ h \in [0 .. n -> S] /\ h[0] = cur
        /\ \A k \in 1 .. n : h[k] = step[h[k - 1]]
    BY <1>4 DEF IsPath
  <2>2. ASSUME NEW k \in 0 .. n
        PROVE  h[k] = IF k = 0 THEN cur ELSE IF h[k - 1] = Nowhere THEN Nowhere
                      ELSE links[h[k - 1]][way]
    <3>1. CASE k = 0
      BY <2>1, <3>1
    <3>2. CASE k # 0
      <4>1. k \in 1 .. n /\ k - 1 \in 0 .. n
        BY <3>2
      <4>2. h[k - 1] \in S
        BY <2>1, <4>1
      <4> QED
        BY <2>1, <3>2, <4>1, <4>2
    <3> QED
      BY <3>1, <3>2
  <2> QED
    BY <2>1, <2>2
<1>6. PICK g : g = CHOOSE path : path = [j \in 0 .. n |-> IF j = 0 THEN cur
                            ELSE IF path[j - 1] = Nowhere THEN Nowhere
                            ELSE links[path[j - 1]][way]]
  OBVIOUS
<1>7. g = [k \in 0 .. n |-> IF k = 0 THEN cur ELSE IF g[k - 1] = Nowhere THEN Nowhere
                            ELSE links[g[k - 1]][way]]
  BY <1>5, <1>6
<1>8. Along(way, n) = g[n]
  BY <1>6, Zenon DEF Along
<1>9. g[0] = cur
  BY <1>7
<1>10. \A k \in 1 .. n : g[k] = IF g[k - 1] = Nowhere THEN Nowhere ELSE links[g[k - 1]][way]
  <2> TAKE k \in 1 .. n
  <2>1. k \in 0 .. n /\ k # 0
    OBVIOUS
  <2> QED
    BY <1>7, <2>1
<1>11. \A k \in 0 .. n : g[k] \in S
  <2>1. \A k \in 1 .. n : g[k - 1] \in S => g[k] = step[g[k - 1]]
    BY <1>10
  <2> HIDE DEF S, step
  <2> QED
    BY <1>1, <1>3, <1>9, <2>1, PathStays
<1> QED
  BY <1>8, <1>9, <1>10, <1>11 DEF Trail

\* Where following n links ends.
LEMMA AlongIn ==
  ASSUME Attached, array # <<>>, cur \in 0 .. Count - 1,
         NEW way \in {"up", "down", "left", "right"}, NEW n \in Nat
  PROVE  Along(way, n) \in 0 .. Count - 1 \cup {Nowhere}
<1>1. PICK g : Trail(g, way, n)
  BY AlongIs
<1> QED
  BY <1>1 DEF Trail

-----------------------------------------------------------------------------
(* Drawing *)

\* Drawing writes cells of the window only, whatever is drawn.
LEMMA FaceIn ==
  ASSUME NEW now, now.selected \in [Items -> BOOLEAN],
         array \in [1 .. Count -> Items], Count \in Nat, NEW i \in 0 .. Count - 1
  PROVE  Face(now, i) \in Cell
<1>1. array[i + 1] \in Items
  OBVIOUS
<1>2. now.selected[array[i + 1]] \in BOOLEAN
  BY <1>1
<1> QED
  BY <1>1, <1>2 DEF Face, Cell

LEMMA EmptyIn == EmptyCells \in [0 .. Height - 1 -> [Columns -> Cell]]
  BY DEF EmptyCells, Empty, Cell

LEMMA DrawItemsIn ==
  ASSUME NEW now, now.selected \in [Items -> BOOLEAN],
         array \in [1 .. Count -> Items], Count \in Nat,
         NEW S, S \subseteq 0 .. Count - 1, NEW w, IsWindow(w)
  PROVE  IsWindow(DrawItems(w, now, S))
<1> DEFINE here(y, x) == {i \in S : links[i].row - now.top = y /\ links[i].col = x}
           cell(y, x) == IF here(y, x) = {} THEN w.cells[y][x] ELSE Face(now, Least(here(y, x)))
           cells == [y \in 0 .. Height - 1 |-> [x \in Columns |-> cell(y, x)]]
<1>1. ASSUME NEW y \in 0 .. Height - 1, NEW x \in Columns PROVE cell(y, x) \in Cell
  <2>1. CASE here(y, x) = {}
    BY <2>1 DEF IsWindow
  <2>2. CASE here(y, x) # {}
    <3>0. here(y, x) \subseteq S
      OBVIOUS
    <3>1. here(y, x) \subseteq Nat
      <4> HIDE DEF here
      <4>1. 0 .. Count - 1 \subseteq Nat
        OBVIOUS
      <4> QED
        BY <3>0, <4>1
    <3>2. Least(here(y, x)) \in here(y, x)
      <4> HIDE DEF here
      <4> QED
        BY <2>2, <3>1, LeastIn
    <3>3. Least(here(y, x)) \in 0 .. Count - 1
      BY <3>2
    <3>4. Face(now, Least(here(y, x))) \in Cell
      BY <3>3, FaceIn
    <3> QED
      BY <2>2, <3>4
  <2> QED
    BY <2>1, <2>2
<1>2. cells \in [0 .. Height - 1 -> [Columns -> Cell]]
  <2> HIDE DEF cell
  <2> QED
    BY <1>1
<1>3. DrawItems(w, now, S) =
        [cells |-> cells, spilt |-> DrawItems(w, now, S).spilt,
         visible |-> DrawItems(w, now, S).visible]
  BY DEF DrawItems
<1> HIDE DEF cells
<1>4. DrawItems(w, now, S).cells = cells
  BY <1>3
<1> QED
  BY <1>2, <1>3, <1>4 DEF IsWindow

LEMMA DrawMenuIn ==
  ASSUME NEW now, now.selected \in [Items -> BOOLEAN],
         array \in [1 .. Count -> Items], Count \in Nat, NEW w, IsWindow(w)
  PROVE  IsWindow(DrawMenu(w, now))
<1> DEFINE byRow  == "rowmajor" \in opts
           stride == IF byRow THEN 1 ELSE ItemRows(form)
           incr   == IF byRow THEN form.cols ELSE 1
           starts == {i \in 0 .. Count - 1 : i % incr = 0 /\ links[i].row = now.top}
           start  == IF starts = {} THEN ((Count + incr - 1) \div incr) * incr ELSE Least(starts)
           at(y, x) == x * stride + start + y * incr
           drawn  == {i \in 0 .. Count - 1 :
                        \E y \in 0 .. rows - 1, x \in 0 .. cols - 1 : at(y, x) = i}
           here(y, x) == {i \in drawn : links[i].row - now.top = y /\ links[i].col = x}
           cell(y, x) == IF here(y, x) # {} THEN Face(now, Least(here(y, x)))
                         ELSE IF y < rows /\ x < cols /\ at(y, x) >= Count THEN Empty
                         ELSE w.cells[y][x]
           cells == [y \in 0 .. Height - 1 |-> [x \in Columns |-> cell(y, x)]]
<1>0. drawn \subseteq 0 .. Count - 1
  OBVIOUS
<1>1. ASSUME NEW y \in 0 .. Height - 1, NEW x \in Columns PROVE cell(y, x) \in Cell
  <2> HIDE DEF drawn, at
  <2>0. Empty \in Cell /\ w.cells[y][x] \in Cell
    BY DEF Empty, Cell, IsWindow
  <2>1. CASE here(y, x) = {}
    BY <2>0, <2>1
  <2>2. CASE here(y, x) # {}
    <3>0. here(y, x) \subseteq drawn
      OBVIOUS
    <3>1. here(y, x) \subseteq Nat
      <4> HIDE DEF here
      <4>1. 0 .. Count - 1 \subseteq Nat
        OBVIOUS
      <4> QED
        BY <1>0, <3>0, <4>1
    <3>2. Least(here(y, x)) \in here(y, x)
      <4> HIDE DEF here
      <4> QED
        BY <2>2, <3>1, LeastIn
    <3>3. Least(here(y, x)) \in 0 .. Count - 1
      BY <1>0, <3>2
    <3>4. Face(now, Least(here(y, x))) \in Cell
      BY <3>3, FaceIn
    <3> QED
      BY <2>2, <3>4
  <2> QED
    BY <2>1, <2>2
<1>2. cells \in [0 .. Height - 1 -> [Columns -> Cell]]
  <2> HIDE DEF cell
  <2> QED
    BY <1>1
<1>3. DrawMenu(w, now) =
        [cells |-> cells, spilt |-> DrawMenu(w, now).spilt,
         visible |-> DrawMenu(w, now).visible]
  BY Zenon DEF DrawMenu
<1> HIDE DEF cells
<1>4. DrawMenu(w, now).cells = cells
  BY <1>3
<1> QED
  BY <1>2, <1>3, <1>4 DEF IsWindow

\* The window without anything drawn, and with other items.
LEMMA ErasedIn ==
  ASSUME IsWindow(win)
  PROVE  /\ IsWindow(Erased)
         /\ Erased.cells = EmptyCells /\ ~Erased.spilt /\ Erased.visible = win.visible
<1>1. PICK c, f, v : win = [cells |-> c, spilt |-> f, visible |-> v]
  BY DEF IsWindow
<1>2. Erased = [cells |-> EmptyCells, spilt |-> FALSE, visible |-> v]
  <2>1. win \in [cells : {c}, spilt : {f}, visible : {v}]
    BY <1>1
  <2>2. Erased \in [cells : {EmptyCells}, spilt : {FALSE}, visible : {v}]
    BY <2>1 DEF Erased
  <2> QED
    BY <2>2
<1>3. /\ Erased.cells = EmptyCells /\ Erased.spilt = FALSE /\ Erased.visible = v
  BY <1>2
<1> QED
  BY <1>1, <1>2, <1>3, EmptyIn DEF IsWindow

LEMMA NewVisible ==
  ASSUME IsWindow(win), NEW n
  PROVE  [win EXCEPT !.visible = n] = [cells |-> win.cells, spilt |-> win.spilt, visible |-> n]
<1>1. PICK c, f, v : win = [cells |-> c, spilt |-> f, visible |-> v]
  BY DEF IsWindow
<1>2. win \in [cells : {c}, spilt : {f}, visible : {v}]
  BY <1>1
<1>3. [win EXCEPT !.visible = n] \in [cells : {c}, spilt : {f}, visible : {n}]
  BY <1>2
<1> QED
  BY <1>1, <1>3

LEMMA RedrawIn ==
  ASSUME NEW now, now.selected \in [Items -> BOOLEAN], now.cur \in 0 .. Count - 1,
         array \in [1 .. Count -> Items], Count \in Nat, IsWindow(win),
         NEW oldTop, NEW oldCur \in 0 .. Count - 1
  PROVE  IsWindow(Redraw(now, oldTop, oldCur))
<1>1. IsWindow(Erased)
  BY ErasedIn
<1>2. IsWindow(DrawMenu(Erased, now))
  BY <1>1, DrawMenuIn
<1>3. IsWindow(DrawItem(win, now, now.cur)) /\ IsWindow(DrawItem(win, now, oldCur))
  BY DrawItemsIn DEF DrawItem
<1>4. IsWindow(DrawItem(DrawItem(win, now, oldCur), now, now.cur))
  <2>1. {now.cur} \subseteq 0 .. Count - 1
    OBVIOUS
  <2> QED
    BY <1>3, <2>1, DrawItemsIn DEF DrawItem
<1> QED
  BY <1>2, <1>3, <1>4 DEF Redraw

-----------------------------------------------------------------------------
(* Calls that wait for a hook *)

\* What a call that waits for a hook, a hook that returns and a step of a
\* request do to the calls that wait.
LEMMA Pushed ==
  ASSUME Hooked, ~inInit, NEW f \in Frames, stack' = Append(stack, f)
  PROVE  /\ stack' \in Seq(Frames) /\ stack'[Len(stack')] = f
         /\ \A k \in 1 .. Len(stack') - 1 : stack'[k].at = "unpost"
         /\ \A steps : InHook(steps)' <=> f.at \in steps
<1>1. stack \in Seq(Frames) /\ Len(stack) \in Nat /\ stack' \in Seq(Frames)
  BY DEF Hooked
<1>2. /\ Len(stack') = Len(stack) + 1 /\ stack'[Len(stack')] = f
      /\ \A k \in 1 .. Len(stack) : stack'[k] = stack[k]
  BY <1>1
<1>3. \A k \in 1 .. Len(stack) : stack[k].at = "unpost"
  <2>1. ASSUME Len(stack) # 0 PROVE stack[Len(stack)].at = "unpost"
    <3>1. stack # <<>> /\ stack[Len(stack)] \in Frames
      BY <1>1, <2>1
    <3>2. stack[Len(stack)].at \notin Moving \cup {"post"}
      BY <3>1 DEF Hooked, InHook
    <3> QED
      BY <3>1, <3>2 DEF Frames
  <2>2. \A k \in 1 .. Len(stack) : k = Len(stack) \/ k \in 1 .. Len(stack) - 1
    BY <1>1
  <2> QED
    BY <1>1, <2>1, <2>2 DEF Hooked
<1>4. \A k \in 1 .. Len(stack') - 1 : stack'[k].at = "unpost"
  BY <1>1, <1>2, <1>3
<1>5. stack' # <<>>
  BY <1>1
<1> QED
  BY <1>1, <1>2, <1>4, <1>5 DEF InHook

LEMMA Popped ==
  ASSUME Hooked, stack # <<>>, stack' = Front(stack)
  PROVE  /\ stack' \in Seq(Frames)
         /\ \A k \in 1 .. Len(stack') - 1 : stack'[k].at = "unpost"
         /\ \A steps : InHook(steps)' => "unpost" \in steps
<1>1. stack \in Seq(Frames) /\ Len(stack) \in Nat \ {0}
  BY DEF Hooked
<1>2. stack' = SubSeq(stack, 1, Len(stack) - 1)
  BY DEF Front
<1>3. /\ stack' \in Seq(Frames) /\ Len(stack') = Len(stack) - 1
      /\ \A k \in 1 .. Len(stack') : stack'[k] = stack[k]
  <2>1. PICK n \in Nat : n = Len(stack) - 1
    BY <1>1
  <2>2. \A i \in 1 .. n : stack[i] \in Frames
    BY <1>1, <2>1
  <2>3. /\ SubSeq(stack, 1, n) \in Seq(Frames)
        /\ Len(SubSeq(stack, 1, n)) = IF 1 <= n THEN n - 1 + 1 ELSE 0
        /\ \A i \in 1 .. n - 1 + 1 : SubSeq(stack, 1, n)[i] = stack[1 + i - 1]
    BY <2>2, SubSeqProperties
  <2> QED
    BY <1>2, <2>1, <2>3
<1>4. \A k \in 1 .. Len(stack') : stack'[k].at = "unpost"
  BY <1>3 DEF Hooked
<1>5. stack' # <<>> => Len(stack') \in 1 .. Len(stack')
  BY <1>1, <1>3
<1> QED
  BY <1>1, <1>3, <1>4, <1>5 DEF InHook

LEMMA Advanced ==
  ASSUME Hooked, stack # <<>>, NEW step \in Moving, Goes(step)
  PROVE  /\ stack' \in Seq(Frames)
         /\ \A k \in 1 .. Len(stack') - 1 : stack'[k].at = "unpost"
         /\ stack'[Len(stack')] = [stack[Len(stack)] EXCEPT !.at = step]
         /\ \A steps : InHook(steps)' <=> step \in steps
<1>1. stack \in Seq(Frames) /\ Len(stack) \in Nat \ {0} /\ stack[Len(stack)] \in Frames
  BY DEF Hooked
<1>2. PICK f : f = [stack[Len(stack)] EXCEPT !.at = step]
  OBVIOUS
<1>3. f \in Frames /\ f.at = step
  BY <1>1, <1>2 DEF Frames
<1>4. stack' = [stack EXCEPT ![Len(stack)] = f]
  BY <1>2 DEF Goes
<1>5. /\ stack' \in Seq(Frames) /\ Len(stack') = Len(stack) /\ stack'[Len(stack)] = f
      /\ \A k \in 1 .. Len(stack) - 1 : stack'[k] = stack[k]
  BY <1>1, <1>3, <1>4
<1>6. stack' # <<>>
  BY <1>1, <1>5
<1> QED
  BY <1>1, <1>2, <1>3, <1>5, <1>6 DEF Hooked, InHook

\* A call that changes nothing its hooks depend on.
LEMMA SameHooks ==
  ASSUME Hooked, UNCHANGED <<array, form, rows, cur, top, posted, inInit, stack>>
  PROVE  Hooked'
  BY DEF Hooked, InHook, InView, links, Count

\* A call that leaves the items and the format alone.
LEMMA SameLayout ==
  ASSUME Attached, UNCHANGED <<array, form, rows, cols, opts>>
  PROVE  Attached'
  BY DEF Attached, Count

-----------------------------------------------------------------------------
(* Requests *)

\* What a request asks for is an item, or the program runs into the null link.
LEMMA TargetIn ==
  ASSUME Attached, Stored, array # <<>>, NEW req \in Moves
  PROVE  /\ Target(req)[1] \in 0 .. Count - 1 \cup {Nowhere}
         /\ Target(req)[2] \in Nat
<1>1. /\ Count \in Nat \ {0} /\ cur \in 0 .. Count - 1 /\ top \in Nat
      /\ ItemRows(form) \in Nat \ {0}
      /\ \A way \in {"up", "down", "left", "right"} :
           links[cur][way] \in 0 .. Count - 1 \cup {Nowhere}
  BY LinksAre DEF Stored
<1>2. Height \in Nat
  BY MenuAssumption
<1>a. rows \in Nat \ {0}
  BY <1>2 DEF Attached
<1>3. ASSUME NEW n \in Nat PROVE Pages(n) \in Nat /\ Pages(n) <= n
  BY <1>a DEF Pages
<1>4. \A n \in Nat : /\ Along("down", n) \in 0 .. Count - 1 \cup {Nowhere}
                     /\ Along("up", n) \in 0 .. Count - 1 \cup {Nowhere}
  BY <1>1, AlongIn
<1>5. CASE req \in {"left", "right", "up", "down"}
  <2>1. Target(req) = <<links[cur][req], top>>
    BY <1>5 DEF Target
  <2> QED
    BY <1>1, <1>5, <2>1
<1>6. CASE req = "uline"
  <2>1. Target(req) = IF top = 0 THEN <<Nowhere, top>> ELSE <<links[cur].up, top - 1>>
    BY <1>6 DEF Target
  <2> QED
    BY <1>1, <2>1
<1>7. CASE req = "dline"
  <2>1. Target(req) = IF top + rows > ItemRows(form) THEN <<Nowhere, top>>
                      ELSE <<links[cur].down, top + 1>>
    BY <1>7 DEF Target
  <2> QED
    BY <1>1, <2>1
<1>8. CASE req = "dpage"
  <2>1. Target(req) = IF ItemRows(form) - rows - top <= 0 THEN <<Nowhere, top>>
                      ELSE <<Along("down", Pages(ItemRows(form) - rows - top)),
                             top + Pages(ItemRows(form) - rows - top)>>
    BY <1>8 DEF Target
  <2>2. CASE ItemRows(form) - rows - top <= 0
    BY <1>1, <2>1, <2>2
  <2>3. CASE ~(ItemRows(form) - rows - top <= 0)
    <3>1. ItemRows(form) - rows - top \in Nat
      BY <1>1, <1>a, <2>3
    <3>2. PICK n \in Nat : n = Pages(ItemRows(form) - rows - top)
      BY <1>3, <3>1
    <3>3. Target(req) = <<Along("down", n), top + n>>
      BY <2>1, <2>3, <3>2
    <3> QED
      BY <1>1, <1>4, <3>3
  <2> QED
    BY <2>2, <2>3
<1>9. CASE req = "upage"
  <2>1. Target(req) = IF top = 0 THEN <<Nowhere, top>>
                      ELSE <<Along("up", Pages(top)), top - Pages(top)>>
    BY <1>9 DEF Target
  <2>2. PICK n \in Nat : n = Pages(top) /\ n <= top
    BY <1>1, <1>3
  <2>3. top - n \in Nat
    BY <1>1, <2>2
  <2> QED
    BY <1>1, <1>4, <2>1, <2>2, <2>3
<1>10. CASE req \in {"first", "last"}
  <2>1. Target(req) = IF req = "first" THEN <<0, top>> ELSE <<Count - 1, top>>
    BY <1>10 DEF Target
  <2> QED
    BY <1>1, <2>1
<1>11. CASE req = "next"
  <2>1. Target(req) = IF cur + 1 >= Count
                      THEN IF "noncyclic" \in opts THEN <<Nowhere, top>> ELSE <<0, top>>
                      ELSE <<cur + 1, top>>
    BY <1>11 DEF Target
  <2> QED
    BY <1>1, <2>1
<1>12. CASE req = "prev"
  <2>1. Target(req) = IF cur = 0
                      THEN IF "noncyclic" \in opts THEN <<Nowhere, top>> ELSE <<Count - 1, top>>
                      ELSE <<cur - 1, top>>
    BY <1>12 DEF Target
  <2> QED
    BY <1>1, <2>1
<1> QED
  BY <1>5, <1>6, <1>7, <1>8, <1>9, <1>10, <1>11, <1>12 DEF Moves

\* What the end of menu_driver leaves to the hooks is in sight of the top row
\* they get.
LEMMA AcceptIn ==
  ASSUME MenuInv, Driver, NEW new \in 0 .. Count - 1 \cup {Nowhere}, NEW t \in Nat,
         Accept(new, t), UNCHANGED <<layout, place, opts, posted>>
  PROVE  Hooked'
<1>0. UNCHANGED <<array, form, rows, cols, opts, cur, top, posted>>
  BY DEF layout, place
<1>a. Attached /\ Stored /\ Hooked /\ posted /\ ~inInit /\ array # <<>>
  BY DEF MenuInv, Driver, Hooked
<1>1. /\ Count \in Nat \ {0} /\ cur \in 0 .. Count - 1 /\ top \in Nat
      /\ \A i \in 0 .. Count - 1 : links[i].row \in Nat
  BY <1>a, LinksAre DEF Stored
<1>2. rows \in Nat \ {0}
  BY <1>a, MenuAssumption DEF Attached
<1>3. CASE UNCHANGED <<inInit, stack>>
  BY <1>0, <1>3, <1>a, SameHooks
<1>4. CASE ~UNCHANGED <<inInit, stack>>
  <2>1. new # Nowhere /\ Goto(new, Scrolled(new, t))
    BY <1>4 DEF Accept
  <2>2. new \in 0 .. Count - 1
    BY <2>1
  <2>3. Scrolled(new, t) \in Nat /\ InView(Scrolled(new, t), new)
    <3>1. PICK r \in Nat : r = links[new].row
      BY <1>1, <2>2
    <3>2. Scrolled(new, t) = IF r < t THEN r ELSE IF r >= t + rows THEN r - rows + 1 ELSE t
      BY <3>1 DEF Scrolled
    <3>3. PICK u \in Nat : u = Scrolled(new, t) /\ r \in u .. u + rows - 1
      BY <1>2, <3>2
    <3> QED
      BY <3>1, <3>3 DEF InView
  <2>4. PICK u \in Nat : u = Scrolled(new, t) /\ InView(u, new)
    BY <2>3
  <2>5. PICK step : step = IF u # top THEN "menu_term" ELSE "item_term"
    OBVIOUS
  <2>6. PICK f : f = [at |-> step, new |-> new, newTop |-> u, oldTop |-> top, oldCur |-> cur]
    OBVIOUS
  <2>7. inInit' = TRUE /\ stack' = Append(stack, f)
    BY <2>1, <2>4, <2>5, <2>6 DEF Goto, Frame
  <2>8. /\ f.at = step /\ f.new = new /\ f.newTop = u /\ f.oldTop = top /\ f.oldCur = cur
        /\ step \in {"menu_term", "item_term"} /\ (step = "item_term" => top = u)
    BY <2>5, <2>6
  <2>9. f \in Frames
    BY <1>1, <2>2, <2>4, <2>6, <2>8 DEF Frames, Moving
  <2>10. /\ stack' \in Seq(Frames) /\ stack'[Len(stack')] = f
         /\ \A k \in 1 .. Len(stack') - 1 : stack'[k].at = "unpost"
         /\ \A steps : InHook(steps)' <=> f.at \in steps
    BY <1>a, <2>7, <2>9, Pushed
  <2>11. InHook(Moving \cup {"post"})' /\ ~InHook({"post"})'
    BY <2>8, <2>10 DEF Moving
  <2>12. /\ f.new < Count /\ f.oldCur < Count
         /\ f.at \in {"menu_init", "item_term", "item_init", "top_init"} => top = f.newTop
         /\ f.at \notin {"item_init", "top_init"}
    BY <1>1, <2>2, <2>8
  <2>13. InView(f.newTop, f.new)'
    BY <1>0, <2>4, <2>8 DEF InView, links
  <2> QED
    BY <1>0, <1>a, <2>7, <2>10, <2>11, <2>12, <2>13 DEF Hooked, Count
<1> QED
  BY <1>3, <1>4

\* Requests that draw nothing.
LEMMA QuietRequest ==
  ASSUME MenuInv, Driver, NEW new \in 0 .. Count - 1 \cup {Nowhere}, NEW t \in Nat,
         Accept(new, t), pat' \in Pattern, pat'.plen <= Len(pat'.text),
         UNCHANGED <<layout, place, opts, posted, selected, win>>
  PROVE  MenuInv'
<1>1. Hooked'
  BY AcceptIn
<1>2. UNCHANGED <<array, form, rows, cols, opts, cur, top, selected, win>>
  BY DEF layout, place
<1>3. Attached'
  BY <1>2, SameLayout DEF MenuInv
<1>4. Stored'
  BY <1>2 DEF MenuInv, Stored, Count
<1>5. IsWindow(win)'
  BY <1>2 DEF MenuInv, IsWindow
<1> QED
  BY <1>1, <1>3, <1>4, <1>5 DEF MenuInv

\* The empty pattern.
LEMMA NoPatternIn == NoPattern \in Pattern /\ NoPattern.plen <= Len(NoPattern.text)
  BY DEF NoPattern, Pattern

\* A posted menu has a current item.
LEMMA DriverIs ==
  ASSUME MenuInv, posted
  PROVE  /\ array # <<>> /\ Attached /\ Stored /\ Hooked /\ IsWindow(win)
         /\ Count \in Nat \ {0} /\ cur \in 0 .. Count - 1 /\ top \in Nat
         /\ array \in [1 .. Count -> Items]
<1>1. array # <<>> /\ Attached /\ Stored
  BY DEF MenuInv, Hooked
<1>2. Count \in Nat \ {0} /\ array \in [1 .. Count -> Items]
  BY <1>1, LinksAre
<1> QED
  BY <1>1, <1>2 DEF MenuInv, Stored

\* Each request of menu_driver keeps the invariant.
LEMMA MoveKeeps ==
  ASSUME MenuInv, NEW req \in Moves, Move(req)
  PROVE  MenuInv'
<1>1. Driver /\ posted
  BY DEF Move, Driver
<1>2. /\ Target(req)[1] \in 0 .. Count - 1 \cup {Nowhere}
      /\ Target(req)[2] \in Nat
  BY <1>1, DriverIs, TargetIn
<1>3. /\ Accept(Target(req)[1], Target(req)[2]) /\ pat' = NoPattern
      /\ UNCHANGED <<layout, place, opts, posted, selected, win>>
  BY DEF Move
<1> QED
  BY <1>1, <1>2, <1>3, NoPatternIn, QuietRequest

LEMMA ClearPatternKeeps ==
  ASSUME MenuInv, ClearPattern
  PROVE  MenuInv'
<1>1. Driver /\ posted
  BY DEF ClearPattern, Driver
<1>2. cur \in 0 .. Count - 1 \cup {Nowhere} /\ top \in Nat
  BY <1>1, DriverIs
<1>3. /\ Accept(cur, top) /\ pat' = NoPattern
      /\ UNCHANGED <<layout, place, opts, posted, selected, win>>
  BY DEF ClearPattern
<1> QED
  BY <1>1, <1>2, <1>3, NoPatternIn, QuietRequest

LEMMA BackPatternKeeps ==
  ASSUME MenuInv, BackPattern
  PROVE  MenuInv'
<1>1. Driver /\ posted
  BY DEF BackPattern, Driver
<1>2. cur \in 0 .. Count - 1 \cup {Nowhere} /\ top \in Nat
  BY <1>1, DriverIs
<1>3. /\ Accept(cur, top) /\ pat.plen > 0 /\ pat' = [pat EXCEPT !.plen = @ - 1]
      /\ UNCHANGED <<layout, place, opts, posted, selected, win>>
  BY DEF BackPattern
<1>4. pat \in Pattern /\ pat.plen <= Len(pat.text)
  BY DEF MenuInv, Stored
<1>5. pat' \in Pattern /\ pat'.plen = pat.plen - 1 /\ pat'.text = pat.text
  BY <1>3, <1>4 DEF Pattern
<1>6. pat.plen \in Nat /\ Len(pat.text) \in Nat
  BY <1>4 DEF Pattern
<1>7. pat'.plen <= Len(pat'.text)
  BY <1>4, <1>5, <1>6
<1> QED
  BY <1>1, <1>2, <1>3, <1>5, <1>7, QuietRequest

LEMMA SearchedKeeps ==
  ASSUME MenuInv, Driver, NEW dir \in {"here", "next", "prev"}, NEW text \in Seq(AnyLetter),
         NEW plen \in 0 .. Len(text), NEW kept \in Pattern, kept.plen <= Len(kept.text),
         Searched(dir, text, plen, kept), UNCHANGED <<layout, place, opts, posted, selected, win>>
  PROVE  MenuInv'
<1>1. posted
  BY DEF Driver
<1>2. Count \in Nat \ {0} /\ cur \in 0 .. Count - 1 /\ top \in Nat
  BY <1>1, DriverIs
<1>3. PICK f : f = Found(dir, text, plen)
  OBVIOUS
<1>4. f \in 0 .. Count - 1 \cup {Nowhere, Endless}
  BY <1>2, <1>3, FoundIn
<1>5. PICK new : new = IF f >= 0 THEN f ELSE cur
  OBVIOUS
<1>6. new \in 0 .. Count - 1 \cup {Nowhere}
  BY <1>2, <1>4, <1>5 DEF Nowhere, Endless
<1>7. /\ Accept(new, top)
      /\ pat' = IF f >= 0 THEN [null |-> FALSE, text |-> text, plen |-> plen, match |-> plen]
                ELSE [kept EXCEPT !.match = 0]
  BY <1>3, <1>5 DEF Searched
<1>8. pat' \in Pattern /\ pat'.plen <= Len(pat'.text)
  <2>1. CASE f >= 0
    <3>1. plen \in Nat /\ plen <= Len(text)
      OBVIOUS
    <3> QED
      BY <1>7, <2>1, <3>1 DEF Pattern
  <2>2. CASE ~(f >= 0)
    BY <1>7, <2>2 DEF Pattern
  <2> QED
    BY <2>1, <2>2
<1> QED
  BY <1>2, <1>6, <1>7, <1>8, QuietRequest

LEMMA MatchAgainKeeps ==
  ASSUME MenuInv, NEW dir \in {"next", "prev"}, MatchAgain(dir)
  PROVE  MenuInv'
<1>1. /\ Driver /\ Searched(dir, pat.text, pat.plen, pat)
      /\ UNCHANGED <<layout, place, opts, posted, selected, win>>
  BY DEF MatchAgain
<1>2. pat \in Pattern /\ pat.plen <= Len(pat.text)
  BY DEF MenuInv, Stored
<1>3. pat.text \in Seq(AnyLetter) /\ pat.plen \in 0 .. Len(pat.text)
  BY <1>2 DEF Pattern
<1> QED
  BY <1>1, <1>2, <1>3, SearchedKeeps

LEMMA CharacterKeeps ==
  ASSUME MenuInv, NEW c \in Typed, Character(c)
  PROVE  MenuInv'
<1>1. Driver /\ posted
  BY DEF Character, Driver
<1>2. pat \in Pattern /\ pat.plen <= Len(pat.text)
  BY DEF MenuInv, Stored
<1>3. pat.text \in Seq(AnyLetter) /\ pat.plen \in Nat /\ Len(pat.text) \in Nat
  BY <1>2 DEF Pattern
<1>4. c \in AnyLetter
  BY MenuAssumption DEF AnyLetter
<1>5. PICK n \in Nat : n = pat.plen
  BY <1>3
<1>6. PICK short : short = SubSeq(pat.text, 1, n)
  OBVIOUS
<1>7. short \in Seq(AnyLetter) /\ Len(short) = n
  <2>1. \A i \in 1 .. n : pat.text[i] \in AnyLetter
    <3>1. \A i \in 1 .. Len(pat.text) : pat.text[i] \in AnyLetter
      BY <1>3
    <3>2. \A i \in 1 .. n : i \in 1 .. Len(pat.text)
      BY <1>2, <1>3, <1>5
    <3> QED
      BY <3>1, <3>2
  <2>2. /\ SubSeq(pat.text, 1, n) \in Seq(AnyLetter)
        /\ Len(SubSeq(pat.text, 1, n)) = IF 1 <= n THEN n - 1 + 1 ELSE 0
    BY <2>1, SubSeqProperties
  <2> QED
    BY <1>5, <1>6, <2>2
<1>8. PICK text : text = Append(short, c)
  OBVIOUS
<1>9. text \in Seq(AnyLetter) /\ Len(text) = n + 1
  BY <1>4, <1>7, <1>8
<1>10. PICK kept : kept = [pat EXCEPT !.null = FALSE, !.text = SubSeq(@, 1, pat.plen)]
  OBVIOUS
<1>11. kept \in Pattern /\ kept.plen <= Len(kept.text)
  <2>1. kept = [pat EXCEPT !.null = FALSE, !.text = short]
    BY <1>5, <1>6, <1>10
  <2>2. kept \in Pattern /\ kept.plen = n /\ kept.text = short
    BY <1>2, <1>5, <1>7, <2>1 DEF Pattern
  <2> QED
    BY <1>7, <2>2
<1>12. UNCHANGED <<layout, place, opts, posted, selected, win>>
  BY DEF Character
<1>13. \/ pat' = kept /\ Accept(cur, top)
       \/ Searched("here", text, n + 1, kept)
  BY <1>5, <1>6, <1>8, <1>10 DEF Character
<1>14. CASE pat' = kept /\ Accept(cur, top)
  <2>1. cur \in 0 .. Count - 1 \cup {Nowhere} /\ top \in Nat
    BY <1>1, DriverIs
  <2> QED
    BY <1>1, <1>11, <1>12, <1>14, <2>1, QuietRequest
<1>15. CASE Searched("here", text, n + 1, kept)
  <2>1. n + 1 \in 0 .. Len(text)
    BY <1>9
  <2> QED
    BY <1>1, <1>9, <1>11, <1>12, <1>15, <2>1, SearchedKeeps
<1> QED
  BY <1>13, <1>14, <1>15

LEMMA ToggleKeeps ==
  ASSUME MenuInv, Toggle
  PROVE  MenuInv'
<1>1. /\ Driver /\ posted /\ pat' = NoPattern /\ UNCHANGED <<layout, place, opts, posted>>
  BY DEF Toggle, Driver
<1>2. /\ Attached /\ Stored /\ Hooked /\ IsWindow(win)
      /\ Count \in Nat \ {0} /\ cur \in 0 .. Count - 1 /\ top \in Nat
      /\ array \in [1 .. Count -> Items]
  BY <1>1, DriverIs
<1>3. PICK item, others, chosen, now :
        /\ item = array[cur + 1]
        /\ others = {i \in 0 .. Count - 1 : i # cur /\ selected[array[i + 1]]}
        /\ chosen = IF "radio" \in opts THEN Only(item) ELSE [selected EXCEPT ![item] = ~@]
        /\ now = [Now EXCEPT !.selected = chosen]
  OBVIOUS
<1>4. \/ UNCHANGED <<selected, win, inInit, stack>>
      \/ /\ selected' = chosen
         /\ win' = DrawItems(win, now, {cur} \cup IF "radio" \in opts THEN others ELSE {})
         /\ Accept(cur, top)
  BY <1>3 DEF Toggle
<1>5. chosen \in [Items -> BOOLEAN]
  <2>1. selected \in [Items -> BOOLEAN]
    BY <1>2 DEF Stored
  <2>2. Only(item) \in [Items -> BOOLEAN]
    BY <2>1 DEF Only
  <2>3. [selected EXCEPT ![item] = ~@] \in [Items -> BOOLEAN]
    BY <2>1
  <2> QED
    BY <1>3, <2>2, <2>3
<1>6. UNCHANGED <<array, form, rows, cols, opts, cur, top, posted>>
  BY <1>1 DEF layout, place
<1>7. Attached'
  BY <1>2, <1>6, SameLayout
<1>8. Stored'
  <2>1. selected' \in [Items -> BOOLEAN]
    BY <1>2, <1>4, <1>5 DEF Stored
  <2> QED
    BY <1>1, <1>2, <1>6, <2>1, NoPatternIn DEF Stored, Count
<1>9. CASE UNCHANGED <<selected, win, inInit, stack>>
  <2>1. IsWindow(win)'
    BY <1>2, <1>9 DEF IsWindow
  <2>2. Hooked'
    BY <1>2, <1>6, <1>9, SameHooks
  <2> QED
    BY <1>7, <1>8, <2>1, <2>2 DEF MenuInv
<1>10. CASE /\ selected' = chosen
            /\ win' = DrawItems(win, now, {cur} \cup IF "radio" \in opts THEN others ELSE {})
            /\ Accept(cur, top)
  <2>1. Hooked'
    BY <1>1, <1>2, <1>10, AcceptIn
  <2>2. now.selected = chosen
    BY <1>3 DEF Now
  <2>3. PICK S : S = {cur} \cup IF "radio" \in opts THEN others ELSE {}
    OBVIOUS
  <2>4. S \subseteq 0 .. Count - 1
    BY <1>2, <1>3, <2>3
  <2>5. IsWindow(DrawItems(win, now, S))
    BY <1>2, <1>5, <2>2, <2>4, DrawItemsIn
  <2>6. IsWindow(win)'
    BY <1>10, <2>3, <2>5 DEF IsWindow
  <2> QED
    BY <1>7, <1>8, <2>1, <2>6 DEF MenuInv
<1> QED
  BY <1>4, <1>9, <1>10

-----------------------------------------------------------------------------
(* Hooks that return *)

\* Each return of a hook keeps the invariant.
LEMMA HooksReturn ==
  ASSUME Hooked, stack # <<>>, Returns, inInit' = FALSE, posted' => array' # <<>>
  PROVE  Hooked'
<1>1. /\ stack' \in Seq(Frames)
      /\ \A k \in 1 .. Len(stack') - 1 : stack'[k].at = "unpost"
      /\ \A steps : InHook(steps)' => "unpost" \in steps
  BY Popped DEF Returns
<1>2. ~InHook(Moving)' /\ ~InHook({"post"})' /\ ~InHook(Moving \cup {"post"})'
  BY <1>1 DEF Moving
<1> QED
  BY <1>1, <1>2 DEF Hooked

LEMMA HooksGo ==
  ASSUME Hooked, InHook(Moving), NEW step \in Moving, Goes(step),
         UNCHANGED <<array, form, rows, posted, inInit>>,
         step \in {"menu_init", "item_term", "item_init", "top_init"} =>
           top' = stack[Len(stack)].newTop,
         step \in {"item_init", "top_init"} => cur' = stack[Len(stack)].new
  PROVE  Hooked'
<1>1. PICK f : f = stack[Len(stack)]
  OBVIOUS
<1>2. /\ stack \in Seq(Frames) /\ stack # <<>> /\ f \in Frames /\ inInit
      /\ posted /\ f.new < Count /\ f.oldCur < Count /\ InView(f.newTop, f.new)
      /\ array # <<>>
  BY <1>1 DEF Hooked, InHook
<1>3. PICK h : h = [f EXCEPT !.at = step]
  OBVIOUS
<1>4. /\ h.at = step /\ h.new = f.new /\ h.newTop = f.newTop /\ h.oldCur = f.oldCur
  BY <1>2, <1>3 DEF Frames
<1>5. /\ stack' \in Seq(Frames) /\ stack'[Len(stack')] = h
      /\ \A k \in 1 .. Len(stack') - 1 : stack'[k].at = "unpost"
      /\ \A steps : InHook(steps)' <=> step \in steps
  BY <1>1, <1>2, <1>3, Advanced
<1>6. InHook(Moving \cup {"post"})' /\ ~InHook({"post"})'
  BY <1>5 DEF Moving
<1>7. InView(h.newTop, h.new)'
  BY <1>2, <1>4 DEF InView, links
<1> QED
  BY <1>1, <1>2, <1>4, <1>5, <1>6, <1>7 DEF Hooked, Count

\* The innermost call waits for this hook.
LEMMA AtIs ==
  ASSUME MenuInv, NEW step, At(step)
  PROVE  /\ stack # <<>> /\ stack[Len(stack)].at = step /\ stack[Len(stack)] \in Frames
         /\ \A steps : InHook(steps) <=> step \in steps
         /\ Last(stack) = stack[Len(stack)]
<1>1. stack # <<>> /\ Last(stack).at = step /\ stack \in Seq(Frames)
  BY DEF At, MenuInv, Hooked
<1>2. Last(stack) = stack[Len(stack)] /\ stack[Len(stack)] \in Frames
  BY <1>1 DEF Last
<1> QED
  BY <1>1, <1>2 DEF InHook

LEMMA TermReturnsKeeps ==
  ASSUME MenuInv, TermReturns
  PROVE  MenuInv'
<1>1. /\ At("menu_term") /\ top' = Last(stack).newTop /\ Goes("menu_init")
      /\ UNCHANGED <<array, form, rows, cols, opts, cur, pat, posted, inInit, selected, win>>
  BY DEF TermReturns, layout
<1>2. /\ stack # <<>> /\ stack[Len(stack)] \in Frames /\ InHook(Moving)
      /\ Last(stack) = stack[Len(stack)]
  BY <1>1, AtIs DEF Moving
<1>3. Hooked'
  BY <1>1, <1>2, HooksGo DEF MenuInv, Moving
<1>4. top' \in Nat
  BY <1>1, <1>2 DEF Frames
<1>5. Attached'
  BY <1>1, SameLayout DEF MenuInv
<1> QED
  BY <1>1, <1>3, <1>4, <1>5 DEF MenuInv, Stored, IsWindow, Count

LEMMA InitReturnsKeeps ==
  ASSUME MenuInv, InitReturns
  PROVE  MenuInv'
<1>1. /\ At("menu_init")
      /\ \/ cur # Last(stack).new /\ Goes("item_term") /\ UNCHANGED inInit
         \/ cur = Last(stack).new /\ Returns /\ inInit' = FALSE
      /\ UNCHANGED <<array, form, rows, cols, opts, cur, top, pat, posted, selected, win>>
  BY DEF InitReturns, layout, place
<1>2. /\ stack # <<>> /\ stack[Len(stack)].at = "menu_init" /\ InHook(Moving) /\ Hooked
  BY <1>1, AtIs DEF Moving, MenuInv
<1>3. top = stack[Len(stack)].newTop /\ posted /\ array # <<>>
  BY <1>2 DEF Hooked
<1>4. Hooked'
  <2>1. CASE Goes("item_term") /\ UNCHANGED inInit
    BY <1>1, <1>2, <1>3, <2>1, HooksGo DEF Moving
  <2>2. CASE Returns /\ inInit' = FALSE
    BY <1>1, <1>2, <1>3, <2>2, HooksReturn
  <2> QED
    BY <1>1, <2>1, <2>2
<1>5. Attached'
  BY <1>1, SameLayout DEF MenuInv
<1> QED
  BY <1>1, <1>4, <1>5 DEF MenuInv, Stored, IsWindow, Count

LEMMA ItemTermReturnsKeeps ==
  ASSUME MenuInv, ItemTermReturns
  PROVE  MenuInv'
<1>1. PICK f : f = stack[Len(stack)]
  OBVIOUS
<1>2. /\ stack # <<>> /\ f.at = "item_term" /\ f \in Frames /\ InHook(Moving) /\ Hooked
      /\ Last(stack) = f
  BY <1>1, AtIs DEF ItemTermReturns, Moving, MenuInv
<1>3. PICK now : now = [Now EXCEPT !.cur = f.new]
  OBVIOUS
<1>4. /\ cur' = f.new /\ win' = Redraw(now, f.oldTop, f.oldCur) /\ Goes("item_init")
      /\ UNCHANGED <<array, form, rows, cols, opts, top, pat, posted, inInit, selected>>
  BY <1>2, <1>3 DEF ItemTermReturns, layout
<1>5. /\ top = f.newTop /\ posted /\ f.new < Count /\ f.oldCur < Count
  BY <1>1, <1>2 DEF Hooked
<1>6. f.new \in 0 .. Count - 1 /\ f.oldCur \in 0 .. Count - 1 /\ f.new \in Nat
  <2>1. Count \in Nat
    BY <1>5, DriverIs
  <2> QED
    BY <1>2, <1>5, <2>1 DEF Frames
<1>7. Hooked'
  BY <1>1, <1>2, <1>4, <1>5, HooksGo DEF Moving
<1>8. IsWindow(win)'
  <2>1. now.cur = f.new /\ now.selected = selected
    BY <1>3 DEF Now
  <2>2. /\ selected \in [Items -> BOOLEAN] /\ IsWindow(win)
        /\ array \in [1 .. Count -> Items] /\ Count \in Nat
    BY <1>5, DriverIs DEF Stored
  <2>3. IsWindow(Redraw(now, f.oldTop, f.oldCur))
    BY <1>6, <2>1, <2>2, RedrawIn
  <2> QED
    BY <1>4, <2>3 DEF IsWindow
<1>9. Attached'
  BY <1>4, SameLayout DEF MenuInv
<1>10. Stored'
  BY <1>4, <1>5, <1>6 DEF MenuInv, Stored, Count
<1> QED
  BY <1>7, <1>8, <1>9, <1>10 DEF MenuInv

LEMMA LastHookReturns ==
  ASSUME MenuInv, ItemInitReturns \/ TopInitReturns
  PROVE  MenuInv'
<1>1. /\ At("item_init") \/ At("top_init")
      /\ Returns /\ inInit' = FALSE
      /\ UNCHANGED <<array, form, rows, cols, opts, cur, top, pat, posted, selected, win>>
  BY DEF ItemInitReturns, TopInitReturns, layout, place
<1>2. stack # <<>> /\ InHook(Moving) /\ Hooked
  BY <1>1, AtIs DEF Moving, MenuInv
<1>3. Hooked'
  BY <1>1, <1>2, HooksReturn DEF Hooked
<1>5. Attached'
  BY <1>1, SameLayout DEF MenuInv
<1> QED
  BY <1>1, <1>3, <1>5 DEF MenuInv, Stored, IsWindow, Count

LEMMA TopTermReturnsKeeps ==
  ASSUME MenuInv, TopTermReturns
  PROVE  MenuInv'
<1>1. PICK f : f = stack[Len(stack)]
  OBVIOUS
<1>2. /\ stack # <<>> /\ f.at = "top_term" /\ f \in Frames /\ InHook(Moving) /\ Hooked
      /\ Last(stack) = f
  BY <1>1, AtIs DEF TopTermReturns, Moving, MenuInv
<1>4. /\ cur' = f.new /\ top' = f.newTop /\ Goes("top_init")
      /\ UNCHANGED <<array, form, rows, cols, opts, pat, posted, inInit, selected, win>>
  BY <1>2 DEF TopTermReturns, layout
<1>5. posted /\ f.new < Count
  BY <1>1, <1>2 DEF Hooked
<1>6. Hooked'
  BY <1>1, <1>2, <1>4, HooksGo DEF Moving
<1>7. Attached'
  BY <1>4, SameLayout DEF MenuInv
<1>8. Stored'
  BY <1>2, <1>4, <1>5 DEF MenuInv, Stored, Count, Frames
<1> QED
  BY <1>4, <1>6, <1>7, <1>8 DEF MenuInv, IsWindow

-----------------------------------------------------------------------------
(* post_menu, unpost_menu *)

\* The record of a call that waits.
LEMMA FrameIn ==
  ASSUME Stored, NEW at \in Moving \cup {"post", "unpost"}, NEW new \in Nat, NEW newTop \in Nat
  PROVE  /\ Frame(at, new, newTop) \in Frames
         /\ Frame(at, new, newTop).at = at /\ Frame(at, new, newTop).new = new
         /\ Frame(at, new, newTop).newTop = newTop /\ Frame(at, new, newTop).oldCur = cur
  BY DEF Frame, Frames, Stored

\* Posting and unposting keep the invariant.
LEMMA PostKeeps ==
  ASSUME MenuInv, Post
  PROVE  MenuInv'
<1>1. /\ ~posted /\ ~inInit /\ array # <<>> /\ inInit' = TRUE
      /\ stack' = Append(stack, Frame("post", cur, top))
      /\ UNCHANGED <<array, form, rows, cols, opts, cur, top, pat, posted, selected, win>>
  BY DEF Post, layout, place
<1>2. PICK f \in Frames : f = Frame("post", cur, top) /\ f.at = "post"
  <2>1. "post" \in Moving \cup {"post", "unpost"} /\ Stored /\ cur \in Nat /\ top \in Nat
    BY DEF MenuInv, Stored
  <2>2. Frame("post", cur, top) \in Frames /\ Frame("post", cur, top).at = "post"
    BY ONLY <2>1, FrameIn
  <2> QED
    BY <2>2
<1>3. /\ stack' \in Seq(Frames) /\ stack'[Len(stack')] = f
      /\ \A k \in 1 .. Len(stack') - 1 : stack'[k].at = "unpost"
      /\ \A steps : InHook(steps)' <=> "post" \in steps
  BY <1>1, <1>2, Pushed DEF MenuInv
<1>4. ~InHook(Moving)' /\ InHook({"post"})' /\ InHook(Moving \cup {"post"})'
  BY <1>3 DEF Moving
<1>5. Hooked'
  BY <1>1, <1>3, <1>4 DEF Hooked
<1>6. Attached'
  BY <1>1, SameLayout DEF MenuInv
<1> QED
  BY <1>1, <1>5, <1>6 DEF MenuInv, Stored, IsWindow, Count

LEMMA UnpostKeeps ==
  ASSUME MenuInv, Unpost
  PROVE  MenuInv'
<1>1. /\ posted /\ ~inInit
      /\ stack' = Append(stack, Frame("unpost", cur, top))
      /\ UNCHANGED <<array, form, rows, cols, opts, cur, top, pat, posted, inInit, selected, win>>
  BY DEF Unpost, layout, place
<1>2. PICK f \in Frames : f = Frame("unpost", cur, top) /\ f.at = "unpost"
  <2>1. "unpost" \in Moving \cup {"post", "unpost"} /\ Stored /\ cur \in Nat /\ top \in Nat
    BY DEF MenuInv, Stored
  <2>2. Frame("unpost", cur, top) \in Frames /\ Frame("unpost", cur, top).at = "unpost"
    BY ONLY <2>1, FrameIn
  <2> QED
    BY <2>2
<1>3. /\ stack' \in Seq(Frames) /\ stack'[Len(stack')] = f
      /\ \A k \in 1 .. Len(stack') - 1 : stack'[k].at = "unpost"
      /\ \A steps : InHook(steps)' <=> "unpost" \in steps
  BY <1>1, <1>2, Pushed DEF MenuInv
<1>4. ~InHook(Moving)' /\ ~InHook({"post"})' /\ ~InHook(Moving \cup {"post"})'
  BY <1>3 DEF Moving
<1>5. array # <<>>
  BY <1>1, DriverIs
<1>6. Hooked'
  BY <1>1, <1>3, <1>4, <1>5 DEF Hooked
<1>7. Attached'
  BY <1>1, SameLayout DEF MenuInv
<1> QED
  BY <1>1, <1>6, <1>7 DEF MenuInv, Stored, IsWindow, Count

LEMMA PostReturnsKeeps ==
  ASSUME MenuInv, PostReturns
  PROVE  MenuInv'
<1>1. PICK chosen : chosen = IF "radio" \in opts THEN selected
                             ELSE [i \in Items |-> selected[i] /\ i \notin Range(array)]
  OBVIOUS
<1>2. /\ At("post") /\ inInit' = FALSE /\ Returns
      /\ \/ /\ selected' = chosen
            /\ win' = DrawMenu(win, [Now EXCEPT !.selected = chosen])
         \/ UNCHANGED <<selected, win>>
      /\ UNCHANGED <<array, form, rows, cols, opts, cur, top, pat>>
  BY <1>1 DEF PostReturns, layout, place
<1>3. stack # <<>> /\ InHook({"post"}) /\ Hooked /\ array # <<>>
  <2>1. stack # <<>> /\ InHook({"post"}) /\ Hooked
    BY <1>2, AtIs DEF MenuInv
  <2> QED
    BY <2>1 DEF Hooked
<1>4. Hooked'
  BY <1>2, <1>3, HooksReturn
<1>5. selected \in [Items -> BOOLEAN] /\ IsWindow(win)
  BY DEF MenuInv, Stored
<1>6. chosen \in [Items -> BOOLEAN]
  BY <1>1, <1>5
<1>7. IsWindow(win)'
  <2>1. PICK now : now = [Now EXCEPT !.selected = chosen]
    OBVIOUS
  <2>a. now.selected = chosen
    BY <2>1 DEF Now
  <2>2. array \in [1 .. Count -> Items] /\ Count \in Nat
    BY <1>3, LinksAre DEF MenuInv
  <2>3. IsWindow(DrawMenu(win, now))
    BY <1>5, <1>6, <2>1, <2>a, <2>2, DrawMenuIn
  <2>4. win' = DrawMenu(win, now) \/ win' = win
    BY <1>2, <2>1
  <2> QED
    BY <1>5, <2>3, <2>4 DEF IsWindow
<1>8. Attached'
  BY <1>2, SameLayout DEF MenuInv
<1>9. Stored'
  BY <1>2, <1>5, <1>6 DEF MenuInv, Stored, Count
<1> QED
  BY <1>4, <1>7, <1>8, <1>9 DEF MenuInv

LEMMA UnpostReturnsKeeps ==
  ASSUME MenuInv, UnpostReturns
  PROVE  MenuInv'
<1>1. /\ At("unpost") /\ Returns /\ posted' = FALSE /\ win' = Erased
      /\ UNCHANGED <<array, form, rows, cols, opts, cur, top, pat, inInit, selected>>
  BY DEF UnpostReturns, layout, place
<1>2. stack # <<>> /\ ~InHook(Moving \cup {"post"}) /\ Hooked
  BY <1>1, AtIs DEF MenuInv, Moving
<1>3. ~inInit
  BY <1>2 DEF Hooked
<1>4. Hooked'
  <2>1. /\ stack' \in Seq(Frames)
        /\ \A k \in 1 .. Len(stack') - 1 : stack'[k].at = "unpost"
        /\ \A steps : InHook(steps)' => "unpost" \in steps
    BY <1>1, <1>2, Popped DEF Returns
  <2>2. ~InHook(Moving)' /\ ~InHook({"post"})' /\ ~InHook(Moving \cup {"post"})'
    BY <2>1 DEF Moving
  <2> QED
    BY <1>1, <1>3, <2>1, <2>2 DEF Hooked
<1>5. IsWindow(win)'
  BY <1>1, ErasedIn DEF MenuInv, IsWindow
<1>6. Attached'
  BY <1>1, SameLayout DEF MenuInv
<1> QED
  BY <1>1, <1>4, <1>5, <1>6 DEF MenuInv, Stored, Count

-----------------------------------------------------------------------------
(* Setting the menu up *)

\* The layout that a format and the options describe.
LEMMA FormOfIn ==
  ASSUME NEW a \in Arrays, NEW c \in {f[2] : f \in Formats}, NEW o
  PROVE  /\ FormOf(a, c, o) \in Forms
         /\ FormOf(a, c, o) = [FormOf(a, c, o) EXCEPT !.cyclic = FormOf(a, c, o).cyclic]
  BY DEF FormOf, Forms

LEMMA SameForm ==
  ASSUME NEW a, NEW c, NEW o, NEW p, ("rowmajor" \in o) = ("rowmajor" \in p), NEW b
  PROVE  [FormOf(a, c, o) EXCEPT !.cyclic = b] = [FormOf(a, c, p) EXCEPT !.cyclic = b]
  BY DEF FormOf

\* A menu that is stitched has the layout the format and the options describe.
LEMMA Stitched ==
  ASSUME "unused" \notin Cases, NEW a \in Arrays, NEW c \in {f[2] : f \in Formats}, NEW o,
         ~posted, Usual(FormOf(a, c, o)), Stitch(a, c, o)
  PROVE  /\ form' \in Forms /\ ColumnsUsed(form')
         /\ form' = FormOf(a, c, o)
         /\ form' = [FormOf(a, c, o) EXCEPT !.cyclic = form'.cyclic]
<1>1. form' = FormOf(a, c, o)
  BY ArrayIs DEF Stitch
<1>2. ColumnsUsed(FormOf(a, c, o))
  BY DEF Usual
<1> QED
  BY <1>1, <1>2, FormOfIn

\* No request is in progress in a menu that is not posted.
LEMMA Quiet ==
  ASSUME Hooked, ~posted \/ ~inInit
  PROVE  ~InHook(Moving)
  BY DEF Hooked, InHook

\* Each call that sets up a menu keeps the invariant.
LEMMA SetItemsKeeps ==
  ASSUME MenuInv, "unused" \notin Cases, NEW a \in Arrays, SetItems(a)
  PROVE  MenuInv'
<1>1. /\ ~posted /\ Usual(FormOf(a, cols, opts)) /\ Stitch(a, cols, opts)
      /\ array' = a /\ cur' = 0 /\ top' = 0
      /\ pat' = IF pat.null THEN pat ELSE [pat EXCEPT !.plen = 0, !.match = 0]
      /\ selected' = Chose(a)
      /\ win' = [win EXCEPT !.visible = [i \in 0 .. Len(a) - 1 |-> FALSE]]
      /\ UNCHANGED <<rows, cols, opts, posted, inInit, stack>>
  BY DEF SetItems, FirstPlace
<1>2. cols \in {f[2] : f \in Formats} /\ Attached /\ Stored /\ Hooked /\ IsWindow(win)
  BY DEF MenuInv, Attached
<1>3. /\ form' \in Forms /\ ColumnsUsed(form')
      /\ form' = [FormOf(a, cols, opts) EXCEPT !.cyclic = form'.cyclic]
  BY <1>1, <1>2, Stitched
<1>4. a \in Seq(Items) /\ Len(a) \in Nat \ {0} /\ a # <<>> /\ a[1] \in Items
  BY ArrayIs
<1>5. Attached'
  BY <1>1, <1>2, <1>3 DEF Attached
<1>6. Stored'
  <2>1. pat' \in Pattern /\ pat'.plen <= Len(pat'.text)
    <3>1. pat \in Pattern /\ pat.plen <= Len(pat.text)
      BY <1>2 DEF Stored
    <3>2. Len(pat.text) \in Nat
      BY <3>1 DEF Pattern
    <3>3. CASE pat.null
      BY <1>1, <3>1, <3>3
    <3>4. CASE ~pat.null
      <4>1. pat' \in Pattern /\ pat'.plen = 0 /\ pat'.text = pat.text
        BY <1>1, <3>1, <3>4 DEF Pattern
      <4> QED
        BY <3>2, <4>1
    <3> QED
      BY <3>3, <3>4
  <2>2. selected' \in [Items -> BOOLEAN]
    BY <1>1, <1>2, <1>4 DEF Chose, Stored
  <2> QED
    BY <1>1, <1>4, <2>1, <2>2 DEF Stored, Count
<1>7. IsWindow(win)'
  <2>1. PICK n : n = [i \in 0 .. Len(a) - 1 |-> FALSE]
    OBVIOUS
  <2>2. win' = [cells |-> win.cells, spilt |-> win.spilt, visible |-> n]
    BY <1>1, <1>2, <2>1, NewVisible
  <2> QED
    BY <1>2, <2>2 DEF IsWindow
<1>8. Hooked'
  <2>1. ~InHook(Moving)
    BY <1>1, <1>2, Quiet
  <2>2. ~InHook(Moving)'
    BY <1>1, <2>1 DEF InHook
  <2>3. /\ InHook({"post"})' <=> InHook({"post"})
        /\ InHook(Moving \cup {"post"})' <=> InHook(Moving \cup {"post"})
    BY <1>1 DEF InHook
  <2> QED
    BY <1>1, <1>2, <1>4, <2>2, <2>3 DEF Hooked
<1> QED
  BY <1>5, <1>6, <1>7, <1>8 DEF MenuInv

LEMMA SetFormatKeeps ==
  ASSUME MenuInv, "unused" \notin Cases, NEW f \in Formats, SetFormat(f[1], f[2])
  PROVE  MenuInv'
<1>1. /\ posted => f[1] = rows /\ f[2] = cols
      /\ array # <<>> => Usual(FormOf(array, f[2], opts))
      /\ rows' = f[1] /\ cols' = f[2] /\ Stitch(array, f[2], opts)
      /\ UNCHANGED <<array, cur, top, opts, pat, posted, inInit, selected, win, stack>>
  BY DEF SetFormat, place
<1>2. Attached /\ Stored /\ Hooked /\ IsWindow(win)
  BY DEF MenuInv
<1>3. f[1] \in 1 .. Height /\ f[2] \in {x[2] : x \in Formats}
  BY MenuAssumption
<1>4. posted => array # <<>>
  BY <1>2 DEF Hooked
<1>5. CASE posted \/ array = <<>>
  <2>1. form' = form
    BY <1>1, <1>5 DEF Stitch
  <2>2. Attached'
    BY <1>1, <1>2, <1>3, <1>5, <2>1 DEF Attached
  <2>3. Hooked'
    <3>1. CASE posted
      BY <1>1, <1>2, <2>1, <3>1, SameHooks
    <3>2. CASE ~posted
      <4>1. ~InHook(Moving)
        BY <1>2, <3>2, Quiet
      <4>2. ~InHook(Moving)' /\ (InHook({"post"})' <=> InHook({"post"}))
            /\ (InHook(Moving \cup {"post"})' <=> InHook(Moving \cup {"post"}))
        BY <1>1, <4>1 DEF InHook
      <4> QED
        BY <1>1, <1>2, <4>2 DEF Hooked
    <3> QED
      BY <3>1, <3>2
  <2> QED
    BY <1>1, <1>2, <2>2, <2>3 DEF MenuInv, Stored, IsWindow, Count
<1>6. CASE ~posted /\ array # <<>>
  <2>1. array \in Arrays
    BY <1>2, <1>6 DEF Attached
  <2>2. /\ form' \in Forms /\ ColumnsUsed(form')
        /\ form' = [FormOf(array, f[2], opts) EXCEPT !.cyclic = form'.cyclic]
    BY <1>1, <1>3, <1>6, <2>1, Stitched
  <2>3. Attached'
    BY <1>1, <1>2, <1>3, <2>2 DEF Attached
  <2>4. ~InHook(Moving)
    BY <1>2, <1>6, Quiet
  <2>5. ~InHook(Moving)' /\ (InHook({"post"})' <=> InHook({"post"}))
        /\ (InHook(Moving \cup {"post"})' <=> InHook(Moving \cup {"post"}))
    BY <1>1, <2>4 DEF InHook
  <2>6. Hooked'
    BY <1>1, <1>2, <2>5 DEF Hooked
  <2> QED
    BY <1>1, <1>2, <2>3, <2>6 DEF MenuInv, Stored, IsWindow, Count
<1> QED
  BY <1>5, <1>6

LEMMA SetOptsKeeps ==
  ASSUME MenuInv, "unused" \notin Cases, NEW o \in Options, SetOpts(o)
  PROVE  MenuInv'
<1>1. /\ ~posted /\ array # <<>> => Usual(FormOf(array, cols, o))
      /\ opts' = o
      /\ \/ ("rowmajor" \in o) = ("rowmajor" \in opts) /\ form' = form
         \/ Stitch(array, cols, o)
      /\ UNCHANGED <<array, rows, cols, cur, top, pat, posted, inInit, win, stack>>
  BY DEF SetOpts, place
<1>a. ~posted
  BY DEF SetOpts
<1>2. Attached /\ Stored /\ Hooked /\ IsWindow(win)
  BY DEF MenuInv
<1>3. PICK on : on = {k \in 1 .. Count : selected[array[k]]}
  OBVIOUS
<1>4. \/ selected' = selected
      \/ selected' = Only(array[IF on = {} THEN 1 ELSE Least(on)])
  BY <1>3 DEF SetOpts
<1>5. selected' \in [Items -> BOOLEAN]
  BY <1>2, <1>4 DEF Only, Stored
<1>6. Attached'
  <2>1. CASE array = <<>>
    <3>1. form' = form
      BY <1>1, <2>1 DEF Stitch
    <3> QED
      BY <1>1, <1>2, <2>1, <3>1 DEF Attached
  <2>2. CASE array # <<>>
    <3>1. array \in Arrays /\ cols \in {f[2] : f \in Formats}
      BY <1>2, <2>2 DEF Attached
    <3>2. /\ form' \in Forms /\ ColumnsUsed(form')
          /\ form' = [FormOf(array, cols, o) EXCEPT !.cyclic = form'.cyclic]
      <4>1. CASE Stitch(array, cols, o)
        <5>1. Usual(FormOf(array, cols, o))
          BY <2>2 DEF SetOpts
        <5> QED
          BY <1>a, <3>1, <4>1, <5>1, Stitched
      <4>2. CASE ("rowmajor" \in o) = ("rowmajor" \in opts) /\ form' = form
        <5>1. form = [FormOf(array, cols, opts) EXCEPT !.cyclic = form.cyclic]
          BY <1>2, <2>2 DEF Attached
        <5>2. \A b : [FormOf(array, cols, o) EXCEPT !.cyclic = b]
                       = [FormOf(array, cols, opts) EXCEPT !.cyclic = b]
          BY ONLY <4>2, SameForm
        <5> QED
          BY <1>2, <4>2, <5>1, <5>2 DEF Attached
      <4> QED
        BY <1>1, <4>1, <4>2
    <3> QED
      BY <1>1, <1>2, <3>2 DEF Attached
  <2> QED
    BY <2>1, <2>2
<1>7. Hooked'
  <2>1. ~InHook(Moving)
    BY <1>a, <1>2, Quiet
  <2>2. ~InHook(Moving)' /\ (InHook({"post"})' <=> InHook({"post"}))
        /\ (InHook(Moving \cup {"post"})' <=> InHook(Moving \cup {"post"}))
    BY <1>1, <2>1 DEF InHook
  <2> QED
    BY <1>1, <1>2, <2>2 DEF Hooked
<1> QED
  BY <1>1, <1>2, <1>5, <1>6, <1>7 DEF MenuInv, Stored, IsWindow, Count

\* A pattern of the program is a text.
LEMMA PatternIn ==
  ASSUME NEW p \in Patterns
  PROVE  p \in Seq(AnyLetter) /\ Len(p) \in Nat
<1>1. p \in Seq(ToSet(p))
  BY MenuAssumption
<1>2. ToSet(p) \subseteq AnyLetter
  BY DEF AnyLetter
<1> HIDE DEF ToSet
<1>3. p \in [1 .. Len(p) -> ToSet(p)] /\ Len(p) \in Nat
  BY <1>1
<1>4. p \in [1 .. Len(p) -> AnyLetter]
  BY <1>2, <1>3
<1> QED
  BY <1>3, <1>4

LEMMA SetPatternKeeps ==
  ASSUME MenuInv, NEW p \in Patterns, SetPattern(p)
  PROVE  MenuInv'
<1>1. PICK f : f = Found("here", p, Len(p))
  OBVIOUS
<1>2. /\ array # <<>>
      /\ pat' = [null |-> FALSE, text |-> p, plen |-> Len(p),
                 match |-> IF f >= 0 THEN Len(p) ELSE 0]
      /\ cur' = IF f >= 0 THEN f ELSE cur
      /\ posted => f \in {cur, Nowhere}
      /\ UNCHANGED <<array, form, rows, cols, opts, top, posted, inInit, selected, win, stack>>
  BY <1>1 DEF SetPattern, layout
<1>3. Attached /\ Stored /\ Hooked /\ IsWindow(win)
  BY DEF MenuInv
<1>4. Count \in Nat \ {0} /\ cur \in 0 .. Count - 1
  BY <1>2, <1>3, LinksAre DEF Stored
<1>5. f \in 0 .. Count - 1 \cup {Nowhere, Endless}
  BY <1>1, <1>4, FoundIn
<1>6. cur' \in 0 .. Count - 1
  BY <1>2, <1>4, <1>5 DEF Nowhere, Endless
<1>7. posted => cur' = cur
  BY <1>2, <1>4 DEF Nowhere
<1>8. pat' \in Pattern /\ pat'.plen <= Len(pat'.text)
  BY <1>2, PatternIn DEF Pattern
<1>9. Attached'
  BY <1>2, <1>3, SameLayout
<1>10. Stored'
  BY <1>2, <1>3, <1>6, <1>8 DEF Stored, Count
<1>11. Hooked'
  <2>1. CASE posted
    BY <1>2, <1>3, <1>7, <2>1, SameHooks
  <2>2. CASE ~posted
    <3>1. ~InHook(Moving)
      BY <1>3, <2>2, Quiet
    <3>2. ~InHook(Moving)' /\ (InHook({"post"})' <=> InHook({"post"}))
          /\ (InHook(Moving \cup {"post"})' <=> InHook(Moving \cup {"post"}))
      BY <1>2, <3>1 DEF InHook
    <3> QED
      BY <1>2, <1>3, <3>2 DEF Hooked
  <2> QED
    BY <2>1, <2>2
<1> QED
  BY <1>2, <1>3, <1>9, <1>10, <1>11 DEF MenuInv, IsWindow

\* set_top_row finds an item of the row.
LEMMA FirstOfIs ==
  ASSUME Attached, array # <<>>, NEW row \in 0 .. ItemRows(form) - 1
  PROVE  FirstOf(row) \in 0 .. Count - 1 /\ links[FirstOf(row)].row = row
<1>1. /\ form \in GridForm /\ form.n = Count /\ Count \in Nat \ {0}
      /\ \A i \in 0 .. Count - 1 : links[i].row = RowOf(form, i)
  BY LinksAre
<1>2. PICK i \in 0 .. Count - 1 : RowOf(form, i) = row
  BY <1>1, RowUsed
<1>3. PICK S : S = {k \in 0 .. Count - 1 : links[k].row = row}
  OBVIOUS
<1>4. i \in S
  BY <1>1, <1>2, <1>3
<1>5. S \subseteq Nat
  BY <1>3
<1>6. Least(S) \in S
  BY <1>4, <1>5, LeastIn
<1> QED
  BY <1>3, <1>6 DEF FirstOf

\* The calls that move the window or change an item keep the invariant.
LEMMA SetTopRowKeeps ==
  ASSUME MenuInv, NEW row \in 0 .. ItemRows(form) - 1, SetTopRow(row)
  PROVE  MenuInv'
<1>1. /\ ~inInit /\ array # <<>>
      /\ posted => row = top /\ FirstOf(row) = cur
      /\ \/ /\ posted /\ inInit' = TRUE
            /\ stack' = Append(stack, Frame("top_term", FirstOf(row), row))
            /\ UNCHANGED <<cur, top>>
         \/ ~posted /\ cur' = FirstOf(row) /\ top' = row /\ UNCHANGED <<inInit, stack>>
      /\ UNCHANGED <<array, form, rows, cols, opts, pat, posted, selected, win>>
  BY DEF SetTopRow, layout, place
<1>2. Attached /\ Stored /\ Hooked /\ IsWindow(win)
  BY DEF MenuInv
<1>3. /\ FirstOf(row) \in 0 .. Count - 1 /\ links[FirstOf(row)].row = row
      /\ Count \in Nat \ {0} /\ cur \in 0 .. Count - 1 /\ top \in Nat
  BY <1>1, <1>2, FirstOfIs, LinksAre DEF Stored
<1>4. row \in Nat /\ FirstOf(row) \in Nat
  <2>1. ItemRows(form) \in Nat
    BY <1>1, <1>2, LinksAre
  <2> QED
    BY <1>3, <2>1
<1>5. Attached'
  BY <1>1, <1>2, SameLayout
<1>6. Stored'
  BY <1>1, <1>2, <1>3, <1>4 DEF Stored, Count
<1>7. CASE posted
  <2>1. PICK f : f = Frame("top_term", FirstOf(row), row)
    OBVIOUS
  <2>2. "top_term" \in Moving \cup {"post", "unpost"}
    BY DEF Moving
  <2>3. /\ f \in Frames /\ f.at = "top_term" /\ f.new = FirstOf(row)
        /\ f.newTop = row /\ f.oldCur = cur
    BY ONLY <1>2, <1>4, <2>1, <2>2, FrameIn
  <2>4. stack' = Append(stack, f) /\ inInit' = TRUE /\ UNCHANGED <<cur, top>>
    BY <1>1, <1>7, <2>1
  <2>5. /\ stack' \in Seq(Frames) /\ stack'[Len(stack')] = f
        /\ \A k \in 1 .. Len(stack') - 1 : stack'[k].at = "unpost"
        /\ \A steps : InHook(steps)' <=> f.at \in steps
    BY <1>1, <1>2, <2>3, <2>4, Pushed
  <2>6. InHook(Moving \cup {"post"})' /\ ~InHook({"post"})'
    BY <2>3, <2>5 DEF Moving
  <2>7. f.new < Count /\ f.oldCur < Count
    BY <1>3, <2>3
  <2>8. InView(f.newTop, f.new)'
    <3>1. rows \in Nat \ {0}
      BY <1>2, MenuAssumption DEF Attached
    <3>2. row \in row .. row + rows - 1
      BY <1>4, <3>1
    <3> QED
      BY <1>1, <1>3, <2>3, <3>2 DEF InView, links
  <2>9. Hooked'
    BY <1>1, <1>2, <1>7, <2>3, <2>4, <2>5, <2>6, <2>7, <2>8 DEF Hooked, Count
  <2> QED
    BY <1>1, <1>2, <1>5, <1>6, <2>9 DEF MenuInv, IsWindow
<1>8. CASE ~posted
  <2>1. ~InHook(Moving)
    BY <1>2, <1>8, Quiet
  <2>2. ~InHook(Moving)' /\ (InHook({"post"})' <=> InHook({"post"}))
        /\ (InHook(Moving \cup {"post"})' <=> InHook(Moving \cup {"post"}))
    BY <1>1, <1>8, <2>1 DEF InHook
  <2>3. Hooked'
    BY <1>1, <1>2, <1>8, <2>2 DEF Hooked
  <2> QED
    BY <1>1, <1>2, <1>5, <1>6, <2>3 DEF MenuInv, IsWindow
<1> QED
  BY <1>7, <1>8

LEMMA SetCurrentKeeps ==
  ASSUME MenuInv, NEW i \in 0 .. Count - 1, SetCurrent(i)
  PROVE  MenuInv'
<1>1. /\ ~inInit /\ array # <<>> /\ cur' = i
      /\ UNCHANGED <<array, form, rows, cols, opts, top, pat, posted, inInit, selected, win, stack>>
  BY DEF SetCurrent, layout
<1>2. Attached /\ Stored /\ Hooked /\ IsWindow(win)
  BY DEF MenuInv
<1>3. Count \in Nat
  BY <1>1, <1>2, LinksAre
<1>4. Attached' /\ Stored'
  BY <1>1, <1>2, <1>3, SameLayout DEF Stored, Count
<1>5. Hooked'
  <2>1. ~InHook(Moving)
    BY <1>1, <1>2, Quiet
  <2>2. ~InHook(Moving)' /\ (InHook({"post"})' <=> InHook({"post"}))
        /\ (InHook(Moving \cup {"post"})' <=> InHook(Moving \cup {"post"}))
    BY <1>1, <2>1 DEF InHook
  <2> QED
    BY <1>1, <1>2, <2>2 DEF Hooked
<1> QED
  BY <1>1, <1>2, <1>4, <1>5 DEF MenuInv, IsWindow

LEMMA SetValueKeeps ==
  ASSUME MenuInv, NEW i \in 0 .. Count - 1, NEW on \in BOOLEAN, SetValue(i, on)
  PROVE  MenuInv'
<1>1. /\ posted /\ selected' = [selected EXCEPT ![array[i + 1]] = on]
      /\ win' = DrawItem(win, [Now EXCEPT !.selected = selected'], i)
      /\ UNCHANGED <<array, form, rows, cols, opts, cur, top, pat, posted, inInit, stack>>
  BY DEF SetValue, layout, place
<1>2. /\ Attached /\ Stored /\ Hooked /\ IsWindow(win)
      /\ Count \in Nat \ {0} /\ array \in [1 .. Count -> Items]
  BY <1>1, DriverIs
<1>3. PICK chosen : chosen = [selected EXCEPT ![array[i + 1]] = on]
  OBVIOUS
<1>4. chosen \in [Items -> BOOLEAN] /\ selected' = chosen
  BY <1>1, <1>2, <1>3 DEF Stored
<1>5. Stored'
  BY <1>1, <1>2, <1>4 DEF Stored, Count
<1>6. IsWindow(win)'
  <2>1. PICK now : now = [Now EXCEPT !.selected = chosen]
    OBVIOUS
  <2>2. now.selected = chosen
    BY <2>1 DEF Now
  <2>3. win' = DrawItems(win, now, {i})
    BY <1>1, <1>4, <2>1 DEF DrawItem
  <2>4. {i} \subseteq 0 .. Count - 1
    OBVIOUS
  <2>5. IsWindow(DrawItems(win, now, {i}))
    BY <1>2, <1>4, <2>2, <2>4, DrawItemsIn
  <2> QED
    BY <2>3, <2>5 DEF IsWindow
<1>7. Attached' /\ Hooked'
  BY <1>1, <1>2, SameLayout, SameHooks
<1> QED
  BY <1>5, <1>6, <1>7 DEF MenuInv

-----------------------------------------------------------------------------
(* The theorems *)

\* The menu that new_menu makes.
LEMMA InitIn ==
  ASSUME Init
  PROVE  MenuInv
<1>1. PICK f \in Formats : rows = f[1] /\ cols = f[2]
  BY DEF Init
<1>2. /\ rows \in 1 .. Height /\ cols \in Nat \ {0} /\ cols \in {x[2] : x \in Formats}
  BY <1>1, MenuAssumption
<1>3. form = [n |-> 0, cols |-> cols, byRow |-> TRUE, cyclic |-> TRUE]
  BY DEF Init
<1>4. form \in Forms /\ ColumnsUsed(form)
  BY <1>2, <1>3 DEF Forms, ColumnsUsed
<1>5. Attached
  BY <1>2, <1>4 DEF Init, Attached
<1>6. Stored
  BY NoPatternIn DEF Init, Stored
<1>7. IsWindow(win)
  BY EmptyIn DEF Init, IsWindow
<1>8. Hooked
  BY DEF Init, Hooked, InHook
<1> QED
  BY <1>5, <1>6, <1>7, <1>8 DEF MenuInv

\* Every step keeps the invariant.
LEMMA NextKeeps ==
  ASSUME MenuInv, "unused" \notin Cases, [Next]_vars
  PROVE  MenuInv'
<1>1. CASE Request
  BY <1>1, MoveKeeps, ToggleKeeps, ClearPatternKeeps, BackPatternKeeps, MatchAgainKeeps,
     CharacterKeeps DEF Request
<1>2. CASE SetUp
  <2>1. ASSUME NEW a \in Arrays, SetItems(a) PROVE MenuInv'
    BY <2>1, SetItemsKeeps
  <2>2. ASSUME NEW f \in Formats, SetFormat(f[1], f[2]) PROVE MenuInv'
    BY <2>2, SetFormatKeeps
  <2>3. ASSUME NEW o \in Options, SetOpts(o) PROVE MenuInv'
    BY <2>3, SetOptsKeeps
  <2>4. ASSUME NEW p \in Patterns, SetPattern(p) PROVE MenuInv'
    BY <2>4, SetPatternKeeps
  <2>5. ASSUME NEW row \in 0 .. ItemRows(form) - 1, SetTopRow(row) PROVE MenuInv'
    BY <2>5, SetTopRowKeeps
  <2>6. ASSUME NEW i \in 0 .. Count - 1, SetCurrent(i) \/ \E on \in BOOLEAN : SetValue(i, on)
        PROVE  MenuInv'
    BY <2>6, SetCurrentKeeps, SetValueKeeps
  <2> QED
    BY <1>2, <2>1, <2>2, <2>3, <2>4, <2>5, <2>6 DEF SetUp
<1>3. CASE Post \/ Unpost
  BY <1>3, PostKeeps, UnpostKeeps
<1>4. CASE Hook
  BY <1>4, TermReturnsKeeps, InitReturnsKeeps, ItemTermReturnsKeeps, LastHookReturns,
     PostReturnsKeeps, UnpostReturnsKeeps, TopTermReturnsKeeps DEF Hook
<1>5. CASE UNCHANGED vars
  <2>1. UNCHANGED <<array, form, rows, cols, opts, cur, top, pat, posted, inInit, selected, win,
                    stack>>
    BY <1>5 DEF vars
  <2>2. Attached' /\ Hooked'
    BY <2>1, SameLayout, SameHooks DEF MenuInv
  <2> QED
    BY <2>1, <2>2 DEF MenuInv, Stored, IsWindow, Count
<1> QED
  BY <1>1, <1>2, <1>3, <1>4, <1>5 DEF Next

\* The invariant of a menu: its layout is the one its items, format and
\* options describe, its current item is one of them, only requests that wait
\* for hooks have it or the window in transit (menu_driver, _menui_goto_item),
\* and of the hooks that wait only those of unpost_menu were called in again.
\* It holds whatever the program calls, from hooks too, as long as no format
\* has columns that stay empty, which the stitching links out of the array.
THEOREM MenuInvariant == ASSUME "unused" \notin Cases PROVE Spec => []MenuInv
<1>1. Init => MenuInv
  BY InitIn
<1>2. MenuInv /\ [Next]_vars => MenuInv'
  BY NextKeeps
<1> QED
  BY <1>1, <1>2, PTL DEF Spec

\* The links of the layout make the grid of its items.
LEMMA InvLinked ==
  ASSUME MenuInv
  PROVE  Linked
<1>1. Attached /\ Stored /\ IsWindow(win) /\ Hooked
  BY DEF MenuInv
<1>2. array # <<>> => Count \in Nat \ {0}
  BY <1>1, LinksAre
<1>3. TypeOK
  <2>1. cur \in 0 .. Count - 1 \/ array = <<>>
    BY <1>1, <1>2 DEF Stored
  <2>2. \A k \in DOMAIN stack : stack[k].newTop \in Nat
    <3>1. stack \in Seq(Frames)
      BY <1>1 DEF Hooked
    <3>2. \A k \in DOMAIN stack : stack[k] \in Frames
      BY <3>1
    <3> QED
      BY <3>2 DEF Frames
  <2>3. pat.match \in Nat /\ pat.plen <= Len(pat.text)
    BY <1>1 DEF Stored, Pattern
  <2> QED
    BY <1>1, <2>1, <2>2, <2>3 DEF TypeOK, Attached, Stored, IsWindow
<1>4. array # <<>> => form \in Grids
  <2>1. array # <<>> => Grid(form, LinksOf[form])
    BY <1>1, LinksAre DEF links
  <2> QED
    BY <1>1, <2>1 DEF Attached, Grids
<1> QED
  BY <1>1, <1>3, <1>4 DEF Linked, Attached

\* The neighbours of every item are those of the grid that the items make
\* (_menui_stitch_items), after any sequence of set_menu_items, set_menu_format
\* and set_menu_opts.
THEOREM ItemsLinked == ASSUME "unused" \notin Cases PROVE Spec => []Linked
<1>1. MenuInv => Linked
  BY InvLinked
<1> QED
  BY <1>1, MenuInvariant, PTL

-----------------------------------------------------------------------------
(* The current item in the window *)

\* A call that moves neither the current item nor the window.
LEMMA SightSame ==
  ASSUME InSight, ~InHook(Moving), UNCHANGED <<array, form, rows, cur, top>>
  PROVE  InSight'
  BY DEF InSight, InView, links

\* Requests start their hooks before they move anything.
LEMMA RequestInSight ==
  ASSUME MenuInv, InSight, Request \/ Post \/ Unpost
  PROVE  InSight'
<1>1. /\ ~inInit
      /\ UNCHANGED <<array, form, rows, cur, top>>
  BY DEF Request, Move, Toggle, ClearPattern, BackPattern, MatchAgain, Character, Driver,
         Post, Unpost, layout, place
<1>2. ~InHook(Moving)
  BY <1>1, Quiet DEF MenuInv
<1> QED
  BY <1>1, <1>2, SightSame

\* A request that ends has moved the item and the window together.
LEMMA HookInSight ==
  ASSUME MenuInv, InSight, Hook
  PROVE  InSight'
<1>1. CASE TermReturns \/ ItemTermReturns \/ TopTermReturns \/ (InitReturns /\ cur # Last(stack).new)
  <2>1. PICK step \in Moving : Goes(step) /\ stack # <<>> /\ Hooked
    <3>1. \/ Goes("menu_init") \/ Goes("item_init") \/ Goes("top_init") \/ Goes("item_term")
      BY <1>1 DEF TermReturns, ItemTermReturns, TopTermReturns, InitReturns
    <3>2. stack # <<>> /\ Hooked
      BY <1>1 DEF TermReturns, ItemTermReturns, TopTermReturns, InitReturns, At, MenuInv
    <3> QED
      BY <3>1, <3>2 DEF Moving
  <2>2. InHook(Moving)'
    BY <2>1, Advanced
  <2> QED
    BY <2>2 DEF InSight
<1>2. CASE ItemInitReturns \/ TopInitReturns \/ (InitReturns /\ cur = Last(stack).new)
  <2>1. PICK step \in {"menu_init", "item_init", "top_init"} :
          /\ At(step) /\ (step = "menu_init" => cur = Last(stack).new)
          /\ UNCHANGED <<array, form, rows, cur, top>>
    BY <1>2 DEF ItemInitReturns, TopInitReturns, InitReturns, layout, place
  <2>2. PICK f : f = stack[Len(stack)]
    OBVIOUS
  <2>3. /\ stack # <<>> /\ f.at = step /\ InHook(Moving) /\ Last(stack) = f /\ Hooked
    BY <2>1, <2>2, AtIs DEF Moving, MenuInv
  <2>4. top = f.newTop /\ InView(f.newTop, f.new) /\ cur = f.new
    BY <2>1, <2>2, <2>3 DEF Hooked
  <2> QED
    BY <2>1, <2>4 DEF InSight, InView, links
<1>3. CASE PostReturns \/ UnpostReturns
  <2>1. PICK step \in {"post", "unpost"} : At(step) /\ UNCHANGED <<array, form, rows, cur, top>>
    BY <1>3 DEF PostReturns, UnpostReturns, layout, place
  <2>2. ~InHook(Moving)
    BY <2>1, AtIs DEF Moving
  <2> QED
    BY <2>1, <2>2, SightSame
<1> QED
  BY <1>1, <1>2, <1>3 DEF Hook

\* Setting up scrolls the window to the item, or back to the first row.
LEMMA SetUpInSight ==
  ASSUME MenuInv, InSight, "unused" \notin Cases, "place" \notin Cases, SetUp
  PROVE  InSight'
<1>0. Attached /\ Stored /\ Hooked
  BY DEF MenuInv
<1>1. ASSUME NEW a \in Arrays, SetItems(a) PROVE InSight'
  <2>1. /\ ~posted /\ Usual(FormOf(a, cols, opts)) /\ Stitch(a, cols, opts)
        /\ cur' = 0 /\ top' = 0 /\ rows' = rows
    BY <1>1 DEF SetItems, FirstPlace
  <2>2. cols \in {f[2] : f \in Formats} /\ rows \in Nat \ {0}
    BY <1>0, MenuAssumption DEF Attached
  <2>3. form' \in Forms /\ form' = FormOf(a, cols, opts)
    BY <2>1, <2>2, Stitched
  <2>4. PICK g \in GridForm : g = form' /\ LinksOf[g] = Links(g) /\ 0 \in 0 .. g.n - 1
    <3>1. form'.n = Len(a) /\ Len(a) \in Nat \ {0}
      BY <2>3, ArrayIs DEF FormOf
    <3>2. form' \in GridForm /\ LinksOf[form'] = Links(form')
      BY <2>3, FormsAre
    <3> QED
      BY <3>1, <3>2
  <2>5. RowOf(g, 0) = 0
    BY <2>4, RowIn
  <2>6. LinksOf[g][0].row = 0
    BY <2>4, <2>5 DEF Links
  <2>7. 0 \in 0 .. 0 + rows - 1
    BY <2>2
  <2>8. InView(top, cur)'
    BY <2>1, <2>4, <2>6, <2>7 DEF InView, links
  <2> QED
    BY <2>8 DEF InSight
<1>2. ASSUME NEW f \in Formats, SetFormat(f[1], f[2]) PROVE InSight'
  <2>1. /\ posted => f[1] = rows /\ f[2] = cols
        /\ array # <<>> =>
             LET g == FormOf(array, f[2], opts)
             IN  Usual(g) /\ Shows(g, LinksOf[g], f[1], top, cur)
        /\ rows' = f[1] /\ Stitch(array, f[2], opts)
        /\ UNCHANGED <<array, cur, top, posted, stack>>
    BY <1>2 DEF SetFormat, place
  <2>2. CASE posted
    BY <2>1, <2>2 DEF InSight, InView, InHook, links, Stitch
  <2>3. CASE ~posted /\ array # <<>>
    <3>1. array \in Arrays /\ f[2] \in {x[2] : x \in Formats}
      BY <1>0, <2>3 DEF Attached
    <3>2. form' = FormOf(array, f[2], opts)
      BY <2>1, <2>3, <3>1, Stitched
    <3>3. LinksOf[form'][cur].row \in top .. top + f[1] - 1
      BY <2>1, <2>3, <3>2 DEF Shows
    <3>4. InView(top, cur)'
      BY <2>1, <3>3 DEF InView, links
    <3> QED
      BY <3>4 DEF InSight
  <2>4. CASE array = <<>>
    BY <2>1, <2>4 DEF InSight
  <2> QED
    BY <2>2, <2>3, <2>4
<1>3. ASSUME NEW o \in Options, SetOpts(o) PROVE InSight'
  <2>1. /\ ~posted
        /\ array # <<>> =>
             LET g == FormOf(array, cols, o)
             IN  Usual(g) /\ Shows(g, LinksOf[g], rows, top, cur)
        /\ form' = form \/ Stitch(array, cols, o)
        /\ UNCHANGED <<array, cur, top, rows, stack>>
    BY <1>3 DEF SetOpts, place
  <2>2. CASE form' = form
    BY <2>1, <2>2 DEF InSight, InView, InHook, links
  <2>3. CASE Stitch(array, cols, o) /\ array # <<>>
    <3>1. array \in Arrays /\ cols \in {x[2] : x \in Formats}
      BY <1>0, <2>3 DEF Attached
    <3>2. form' = FormOf(array, cols, o)
      BY <2>1, <2>3, <3>1, Stitched
    <3>3. LinksOf[form'][cur].row \in top .. top + rows - 1
      BY <2>1, <2>3, <3>2 DEF Shows
    <3>4. InView(top, cur)'
      BY <2>1, <3>3 DEF InView, links
    <3> QED
      BY <3>4 DEF InSight
  <2>4. CASE array = <<>>
    BY <2>1, <2>4 DEF InSight
  <2> QED
    BY <2>1, <2>2, <2>3, <2>4
<1>4. ASSUME NEW p \in Patterns, SetPattern(p) PROVE InSight'
  <2>1. /\ array # <<>> /\ Shows(form, links, rows, top, cur')
        /\ UNCHANGED <<form, rows, top>>
    BY <1>4 DEF SetPattern, layout
  <2>2. links[cur'].row \in top .. top + rows - 1
    BY <2>1 DEF Shows
  <2>3. InView(top, cur)'
    BY <2>1, <2>2 DEF InView, links
  <2> QED
    BY <2>3 DEF InSight
<1>5. ASSUME NEW row \in 0 .. ItemRows(form) - 1, SetTopRow(row) PROVE InSight'
  <2>1. /\ ~inInit /\ array # <<>>
        /\ \/ posted /\ UNCHANGED <<cur, top>>
           \/ cur' = FirstOf(row) /\ top' = row
        /\ posted => row = top /\ FirstOf(row) = cur
        /\ UNCHANGED <<form, rows>>
    BY <1>5 DEF SetTopRow, layout, place
  <2>2. /\ cur' = FirstOf(row) /\ top' = row
    BY <2>1
  <2>3. links[FirstOf(row)].row = row
    BY <1>0, <2>1, FirstOfIs
  <2>4. rows \in Nat \ {0} /\ row \in Nat
    <3>1. ItemRows(form) \in Nat
      BY <1>0, <2>1, LinksAre
    <3> QED
      BY <1>0, <3>1, MenuAssumption DEF Attached
  <2>5. row \in row .. row + rows - 1
    BY <2>4
  <2>6. InView(top, cur)'
    BY <2>1, <2>2, <2>3, <2>5 DEF InView, links
  <2> QED
    BY <2>6 DEF InSight
<1>6. ASSUME NEW i \in 0 .. Count - 1, SetCurrent(i) PROVE InSight'
  <2>1. /\ array # <<>> /\ Shows(form, links, rows, top, i) /\ cur' = i
        /\ UNCHANGED <<form, rows, top>>
    BY <1>6 DEF SetCurrent, layout
  <2>2. links[i].row \in top .. top + rows - 1
    BY <2>1 DEF Shows
  <2>3. InView(top, cur)'
    BY <2>1, <2>2 DEF InView, links
  <2> QED
    BY <2>3 DEF InSight
<1>7. ASSUME NEW i \in 0 .. Count - 1, NEW on \in BOOLEAN, SetValue(i, on) PROVE InSight'
  <2>1. UNCHANGED <<array, form, rows, cur, top, stack>>
    BY <1>7 DEF SetValue, layout, place
  <2> QED
    BY <2>1 DEF InSight, InView, InHook, links
<1> QED
  BY <1>1, <1>2, <1>3, <1>4, <1>5, <1>6, <1>7 DEF SetUp

\* Between requests the window shows the current item (_menui_goto_item,
\* set_top_row, set_menu_format), as long as the program makes no item current
\* that the window does not show: set_current_item, set_menu_pattern and
\* set_menu_format scroll for no item.
THEOREM CurrentInSight ==
  ASSUME "unused" \notin Cases, "place" \notin Cases
  PROVE  Spec => []InSight
<1>1. Init => InSight
  BY DEF Init, InSight
<1>2. MenuInv /\ InSight /\ [Next]_vars => InSight'
  <2> SUFFICES ASSUME MenuInv, InSight, [Next]_vars PROVE InSight'
    OBVIOUS
  <2>1. CASE UNCHANGED vars
    BY <2>1 DEF vars, InSight, InView, InHook, links
  <2> QED
    BY <2>1, RequestInSight, HookInSight, SetUpInSight DEF Next
<1> QED
  BY <1>1, <1>2, MenuInvariant, PTL DEF Spec

-----------------------------------------------------------------------------
(* Scrolling by a page *)

\* The n-th link down is there if n + 1 rows are below the window.
LEMMA DownLands ==
  ASSUME MenuInv, array # <<>>, InView(top, cur), ~EndsShort(form),
         NEW n \in Nat, n < ItemRows(form) - rows - top
  PROVE  Along("down", n) # Nowhere
<1>0. Attached /\ Stored
  BY DEF MenuInv
<1>1. /\ form \in GridForm /\ form.n = Count /\ links = Links(form)
      /\ Count \in Nat \ {0} /\ cur \in 0 .. Count - 1 /\ top \in Nat
      /\ ItemRows(form) \in Nat \ {0}
      /\ \A i \in 0 .. Count - 1 : links[i].row = RowOf(form, i) /\ RowOf(form, i) \in Nat
  BY <1>0, LinksAre DEF Stored
<1>2. rows \in Nat \ {0}
  BY <1>0, MenuAssumption DEF Attached
<1>3. RowOf(form, cur) <= top + rows - 1
  BY <1>1, <1>2 DEF InView
<1>4. form.byRow \/ form.cyclic \/ form.n % ItemRows(form) = 0
  BY DEF EndsShort
<1>a. Attached /\ array # <<>> /\ cur \in 0 .. Count - 1 /\ n \in Nat
  BY <1>0, <1>1
<1>b. PICK way \in {"up", "down", "left", "right"} : way = "down"
  OBVIOUS
<1>c. way \in {"up", "down", "left", "right"}
  BY <1>b
<1>d. PICK g : Trail(g, way, n)
  BY <1>a, <1>c, AlongIs
<1>5. /\ Along(way, n) = g[n] /\ g[0] = cur
      /\ \A k \in 1 .. n : g[k] = IF g[k - 1] = Nowhere THEN Nowhere
                                  ELSE links[g[k - 1]][way]
  BY <1>d DEF Trail
<1> DEFINE Good(k) == g[k] \in 0 .. Count - 1 /\ RowOf(form, g[k]) <= RowOf(form, cur) + k
<1>6. Good(0)
  BY <1>1, <1>5
<1>7. ASSUME NEW k \in 1 .. n, Good(k - 1) PROVE Good(k)
  <2>1. PICK i \in 0 .. Count - 1 : i = g[k - 1] /\ RowOf(form, i) <= RowOf(form, cur) + (k - 1)
    BY <1>7
  <2>a. RowOf(form, i) \in Nat /\ RowOf(form, cur) \in Nat
    BY <1>1
  <2>2. RowOf(form, i) + 2 < ItemRows(form)
    <3>1. ItemRows(form) \in Nat /\ rows \in Nat /\ top \in Nat /\ k <= n /\ k \in Nat
      BY <1>1, <1>2
    <3> QED
      BY ONLY <1>3, <2>1, <2>a, <3>1, n \in Nat, n < ItemRows(form) - rows - top, SMTT(30)
  <2>3. Down(form, i) \in 0 .. Count - 1 /\ RowOf(form, Down(form, i)) <= RowOf(form, i) + 1
    BY <1>1, <1>4, <2>2, DownGoes
  <2>4. i # Nowhere
    BY <1>1 DEF Nowhere
  <2>5. links[i][way] = Down(form, i)
    BY <1>1, <1>b DEF Links
  <2>6. g[k] = Down(form, i)
    BY <1>5, <2>1, <2>4, <2>5
  <2>7. RowOf(form, Down(form, i)) \in Nat
    BY <1>1, <2>3
  <2>8. RowOf(form, Down(form, i)) <= RowOf(form, cur) + k
    BY ONLY <2>1, <2>a, <2>3, <2>7, k \in 1 .. n, n \in Nat, SMTT(30)
  <2> QED
    BY ONLY <2>3, <2>6, <2>8 DEF Good
<1> HIDE DEF Good
<1>8. Good(n)
  <2> DEFINE Bad == {k \in 0 .. n : ~Good(k)}
  <2>1. ASSUME Bad # {} PROVE FALSE
    <3>0. Bad \subseteq Nat
      OBVIOUS
    <3>1. PICK m \in Bad : \A x \in Bad : m <= x
      <4> HIDE DEF Bad
      <4> QED
        BY <2>1, <3>0, LeastIn
    <3>2. m \in 1 .. n /\ m - 1 \in 0 .. n
      BY <1>6, <3>1
    <3>3. m - 1 \notin Bad
      <4> HIDE DEF Bad
      <4> QED
        BY <3>1, <3>2
    <3>4. Good(m - 1)
      BY <3>2, <3>3
    <3> QED
      BY <1>7, <3>1, <3>2, <3>4
  <2> QED
    BY <2>1
<1>9. g[n] # Nowhere
  BY <1>1, <1>8 DEF Good, Nowhere
<1> QED
  BY <1>b, <1>5, <1>9

\* The n-th link up leads n rows up if n rows are above the window.
LEMMA UpLands ==
  ASSUME MenuInv, array # <<>>, InView(top, cur), NEW n \in Nat, n <= top
  PROVE  /\ Along("up", n) \in 0 .. Count - 1
         /\ RowOf(form, Along("up", n)) = RowOf(form, cur) - n
<1>0. Attached /\ Stored
  BY DEF MenuInv
<1>1. /\ form \in GridForm /\ form.n = Count /\ links = Links(form)
      /\ Count \in Nat \ {0} /\ cur \in 0 .. Count - 1 /\ top \in Nat
      /\ \A i \in 0 .. Count - 1 : links[i].row = RowOf(form, i) /\ RowOf(form, i) \in Nat
  BY <1>0, LinksAre DEF Stored
<1>2. rows \in Nat \ {0}
  BY <1>0, MenuAssumption DEF Attached
<1>3. RowOf(form, cur) >= top
  BY <1>1, <1>2 DEF InView
<1>a. Attached /\ array # <<>> /\ cur \in 0 .. Count - 1 /\ n \in Nat
  BY <1>0, <1>1
<1>b. PICK way \in {"up", "down", "left", "right"} : way = "up"
  OBVIOUS
<1>c. way \in {"up", "down", "left", "right"}
  BY <1>b
<1>d. PICK g : Trail(g, way, n)
  BY <1>a, <1>c, AlongIs
<1>5. /\ Along(way, n) = g[n] /\ g[0] = cur
      /\ \A k \in 1 .. n : g[k] = IF g[k - 1] = Nowhere THEN Nowhere
                                  ELSE links[g[k - 1]][way]
  BY <1>d DEF Trail
<1> DEFINE Good(k) == g[k] \in 0 .. Count - 1 /\ RowOf(form, g[k]) = RowOf(form, cur) - k
<1>6. Good(0)
  BY <1>1, <1>5
<1>7. ASSUME NEW k \in 1 .. n, Good(k - 1) PROVE Good(k)
  <2>1. PICK i \in 0 .. Count - 1 : i = g[k - 1] /\ RowOf(form, i) = RowOf(form, cur) - (k - 1)
    BY <1>7
  <2>a. RowOf(form, i) \in Nat /\ RowOf(form, cur) \in Nat /\ k <= n /\ k \in Nat
    BY <1>1
  <2>2. RowOf(form, i) > 0
    <3>1. top \in Nat
      BY <1>1
    <3> QED
      BY ONLY <1>3, <2>1, <2>a, <3>1, n \in Nat, n <= top, SMTT(30)
  <2>3. Up(form, i) \in 0 .. Count - 1 /\ RowOf(form, Up(form, i)) = RowOf(form, i) - 1
    BY <1>1, <2>2, UpGoes
  <2>4. i # Nowhere
    BY <1>1 DEF Nowhere
  <2>5. links[i][way] = Up(form, i)
    BY <1>1, <1>b DEF Links
  <2>6. g[k] = Up(form, i)
    BY <1>5, <2>1, <2>4, <2>5
  <2>7. RowOf(form, Up(form, i)) = RowOf(form, cur) - k
    BY ONLY <2>1, <2>a, <2>3, SMTT(30)
  <2> QED
    BY ONLY <2>3, <2>6, <2>7 DEF Good
<1> HIDE DEF Good
<1>8. Good(n)
  <2> DEFINE Bad == {k \in 0 .. n : ~Good(k)}
  <2>1. ASSUME Bad # {} PROVE FALSE
    <3>0. Bad \subseteq Nat
      OBVIOUS
    <3>1. PICK m \in Bad : \A x \in Bad : m <= x
      <4> HIDE DEF Bad
      <4> QED
        BY <2>1, <3>0, LeastIn
    <3>2. m \in 1 .. n /\ m - 1 \in 0 .. n
      BY <1>6, <3>1
    <3>3. m - 1 \notin Bad
      <4> HIDE DEF Bad
      <4> QED
        BY <3>1, <3>2
    <3>4. Good(m - 1)
      BY <3>2, <3>3
    <3> QED
      BY <1>7, <3>1, <3>2, <3>4
  <2> QED
    BY <2>1
<1>9. g[n] \in 0 .. Count - 1 /\ RowOf(form, g[n]) = RowOf(form, cur) - n
  BY <1>8 DEF Good
<1> QED
  BY <1>b, <1>5, <1>9

\* A page is never longer than the rows that are there.
LEMMA InvPagesLand ==
  ASSUME MenuInv, InSight
  PROVE  PagesLand
<1> SUFFICES ASSUME posted, ~inInit, ~EndsShort(form)
             PROVE  /\ ~Falls("down", Pages(ItemRows(form) - rows - top))
                    /\ ~Falls("up", Pages(top))
  BY DEF PagesLand
<1>1. array # <<>> /\ top \in Nat /\ rows \in Nat /\ ItemRows(form) \in Nat
  <2>1. array # <<>> /\ Attached /\ top \in Nat
    BY DriverIs
  <2> QED
    BY <2>1, LinksAre, MenuAssumption DEF Attached
<1>2. InView(top, cur)
  BY <1>1, Quiet DEF InSight, MenuInv
<1>3. ASSUME NEW m \in Int, NEW k \in 0 .. Pages(m) - 1 PROVE k \in Nat /\ k < m
  BY <1>1 DEF Pages
<1>4. ~Falls("down", Pages(ItemRows(form) - rows - top))
  <2> SUFFICES ASSUME NEW k \in 0 .. Pages(ItemRows(form) - rows - top) - 1
               PROVE  Along("down", k) # Nowhere
    BY DEF Falls
  <2>1. k \in Nat /\ k < ItemRows(form) - rows - top
    BY <1>1, <1>3
  <2> QED
    BY <1>1, <1>2, <2>1, DownLands
<1>5. ~Falls("up", Pages(top))
  <2> SUFFICES ASSUME NEW k \in 0 .. Pages(top) - 1 PROVE Along("up", k) # Nowhere
    BY DEF Falls
  <2>1. k \in Nat /\ k < top
    BY <1>1, <1>3
  <2>2. Along("up", k) \in 0 .. Count - 1
    BY <1>1, <1>2, <2>1, UpLands
  <2> QED
    BY <2>2 DEF Nowhere
<1> QED
  BY <1>4, <1>5

\* Scrolling by a page follows links that are there (REQ_SCR_DPAGE and
\* REQ_SCR_UPAGE of menu_driver), for any number of rows, unless the menu is
\* noncyclic and its last column ends short.
THEOREM PagesAreThere ==
  ASSUME "unused" \notin Cases, "place" \notin Cases
  PROVE  Spec => []PagesLand
<1>1. MenuInv /\ InSight => PagesLand
  BY InvPagesLand
<1> QED
  BY <1>1, MenuInvariant, CurrentInSight, PTL

-----------------------------------------------------------------------------
(* What the window shows *)

\* Item i belongs in row y and column x of a window that shows row t first.
Stands(i, t, y, x) == links[i].row = t + y /\ links[i].col = x

\* What the window shows of items that look like this.
Pictures(w, t, look) ==
  /\ ~w.spilt
  /\ \A y \in 0 .. rows - 1, x \in 0 .. cols - 1 :
       /\ \A i \in 0 .. Count - 1 : Stands(i, t, y, x) => w.cells[y][x] = look[i]
       /\ (\A i \in 0 .. Count - 1 : ~Stands(i, t, y, x)) => w.cells[y][x] = Empty
  /\ w.visible \in [0 .. Count - 1 -> BOOLEAN]
  /\ \A i \in 0 .. Count - 1 : w.visible[i] <=> InView(t, i)

Looks(now) == [i \in 0 .. Count - 1 |-> Face(now, i)]

\* No two items have one place.
LEMMA OneItem ==
  ASSUME NEW g \in GridForm, NEW i \in 0 .. g.n - 1, NEW j \in 0 .. g.n - 1,
         RowOf(g, i) = RowOf(g, j), ColOf(g, i) = ColOf(g, j)
  PROVE  i = j
<1>1. PICK m \in Nat \ {0} : i \div m = j \div m /\ i % m = j % m
  <2>1. ItemRows(g) \in Nat \ {0} /\ g.cols \in Nat \ {0}
    BY RowIn DEF GridForm
  <2>2. CASE g.byRow
    BY <2>1, <2>2 DEF RowOf, ColOf
  <2>3. CASE ~g.byRow
    BY <2>1, <2>3 DEF RowOf, ColOf
  <2> QED
    BY <2>2, <2>3
<1>2. i \in Nat /\ j \in Nat
  BY DEF GridForm
<1>3. i = m * (i \div m) + (i % m) /\ j = m * (j \div m) + (j % m)
  BY <1>2, DivMod
<1> QED
  BY <1>1, <1>3

\* What stands in a place.
LEMMA OneStands ==
  ASSUME Attached, array # <<>>, NEW t, NEW y, NEW x,
         NEW i \in 0 .. Count - 1, NEW j \in 0 .. Count - 1,
         Stands(i, t, y, x), Stands(j, t, y, x)
  PROVE  i = j
<1>1. form \in GridForm /\ links = Links(form) /\ form.n = Count
  BY LinksAre
<1>2. \A k \in 0 .. Count - 1 : links[k].row = RowOf(form, k) /\ links[k].col = ColOf(form, k)
  BY <1>1 DEF Links
<1>3. RowOf(form, i) = RowOf(form, j) /\ ColOf(form, i) = ColOf(form, j)
  BY <1>2 DEF Stands
<1> QED
  BY <1>1, <1>3, OneItem

\* Where drawing looks for an item it finds the one that stands there.
LEMMA HereIs ==
  ASSUME Attached, array # <<>>, NEW t \in Nat, NEW S, S \subseteq 0 .. Count - 1,
         NEW y \in Nat, NEW x,
         NEW here, \A i : i \in here <=> i \in S /\ links[i].row - t = y /\ links[i].col = x
  PROVE  /\ \A i \in S : Stands(i, t, y, x) => here # {} /\ Least(here) = i
         /\ (\A i \in S : ~Stands(i, t, y, x)) => here = {}
<1>1. \A i \in S : i \in here <=> Stands(i, t, y, x)
  <2> TAKE i \in S
  <2>1. links[i].row \in Nat
    BY LinksAre
  <2> QED
    BY <2>1 DEF Stands
<1>2. here \subseteq S /\ here \subseteq Nat
  <2>1. 0 .. Count - 1 \subseteq Nat
    OBVIOUS
  <2> QED
    BY <2>1
<1>3. ASSUME NEW i \in S, Stands(i, t, y, x) PROVE here # {} /\ Least(here) = i
  <2>1. i \in here
    BY <1>1, <1>3
  <2>2. Least(here) \in here
    BY <1>2, <2>1, LeastIn
  <2>3. Least(here) \in 0 .. Count - 1 /\ i \in 0 .. Count - 1 /\ Stands(Least(here), t, y, x)
    BY <1>1, <1>2, <2>2
  <2>4. Least(here) = i
    BY <1>3, <2>3, OneStands
  <2> QED
    BY <2>1, <2>4
<1>4. (\A i \in S : ~Stands(i, t, y, x)) => here = {}
  BY <1>1, <1>2
<1> QED
  BY <1>3, <1>4

\* The rows and columns of the format are in the window.
LEMMA InWindow ==
  ASSUME Attached, array # <<>>
  PROVE  /\ rows \in Nat \ {0} /\ cols \in Nat \ {0} /\ cols = form.cols
         /\ 0 .. rows - 1 \subseteq 0 .. Height - 1 /\ 0 .. cols - 1 \subseteq Columns
         /\ ("rowmajor" \in opts) = form.byRow
<1>1. rows \in 1 .. Height /\ Height \in Nat
  BY MenuAssumption DEF Attached
<1>2. PICK f \in Formats : cols = f[2]
  BY DEF Attached
<1>3. cols \in Nat \ {0}
  BY <1>2, MenuAssumption
<1>4. 0 .. cols - 1 \subseteq Columns
  BY <1>2 DEF Columns
<1>5. cols = form.cols /\ ("rowmajor" \in opts) = form.byRow
  BY DEF Attached, FormOf
<1>6. 0 .. rows - 1 \subseteq 0 .. Height - 1
  BY <1>1
<1> QED
  BY <1>1, <1>3, <1>4, <1>5, <1>6

\* An item is in view in one of the rows.
LEMMA ViewIs ==
  ASSUME Attached, array # <<>>, NEW t \in Nat, NEW i \in 0 .. Count - 1
  PROVE  /\ links[i].row \in Nat /\ rows \in Nat
         /\ InView(t, i) <=> links[i].row - t \in 0 .. rows - 1
         /\ \A y \in 0 .. rows - 1 : \A x : Stands(i, t, y, x) => InView(t, i)
<1>1. links[i].row \in Nat /\ rows \in Nat
  BY LinksAre, InWindow
<1> QED
  BY <1>1 DEF InView, Stands

\* What drawing items of a set changes in a window.
ItemsOn(d, w, now, t, S) ==
  /\ d.spilt <=> w.spilt \/ \E i \in S : links[i].row - t \notin 0 .. Height - 1
  /\ d.visible = [i \in DOMAIN w.visible |-> w.visible[i] \/ i \in S]
  /\ \A y \in 0 .. Height - 1, x \in Columns :
       /\ \A i \in S : Stands(i, t, y, x) => d.cells[y][x] = Face(now, i)
       /\ (\A i \in S : ~Stands(i, t, y, x)) => d.cells[y][x] = w.cells[y][x]

LEMMA DrawItemsIs ==
  ASSUME Attached, array # <<>>, NEW w, NEW now, NEW S, S \subseteq 0 .. Count - 1,
         now.top \in Nat
  PROVE  ItemsOn(DrawItems(w, now, S), w, now, now.top, S)
<1>0. PICK d, t : d = DrawItems(w, now, S) /\ t = now.top /\ t \in Nat
  OBVIOUS
<1>1. /\ d.spilt <=> w.spilt \/ \E i \in S : links[i].row - t \notin 0 .. Height - 1
      /\ d.visible = [i \in DOMAIN w.visible |-> w.visible[i] \/ i \in S]
  BY <1>0 DEF DrawItems
<1>2. ASSUME NEW y \in 0 .. Height - 1, NEW x \in Columns
      PROVE  /\ \A i \in S : Stands(i, t, y, x) => d.cells[y][x] = Face(now, i)
             /\ (\A i \in S : ~Stands(i, t, y, x)) => d.cells[y][x] = w.cells[y][x]
  <2> DEFINE here == {i \in S : links[i].row - t = y /\ links[i].col = x}
  <2>1. d.cells[y][x] = IF here = {} THEN w.cells[y][x] ELSE Face(now, Least(here))
    BY <1>0 DEF DrawItems
  <2>2. \A i : i \in here <=> i \in S /\ links[i].row - t = y /\ links[i].col = x
    OBVIOUS
  <2> HIDE DEF here
  <2>3. y \in Nat
    OBVIOUS
  <2>4. /\ \A i \in S : Stands(i, t, y, x) => here # {} /\ Least(here) = i
        /\ (\A i \in S : ~Stands(i, t, y, x)) => here = {}
    BY <1>0, <2>2, <2>3, HereIs
  <2> QED
    BY <2>1, <2>4
<1> QED
  BY <1>0, <1>1, <1>2 DEF ItemsOn

\* Items in view that are drawn look as they should, the others as before
\* (_menui_draw_item).
LEMMA ItemsDrawn ==
  ASSUME Attached, array # <<>>, NEW now, now.top \in Nat, NEW w, NEW look,
         Pictures(w, now.top, look), NEW S, S \subseteq 0 .. Count - 1,
         \A i \in S : InView(now.top, i),
         NEW new, \A i \in 0 .. Count - 1 : new[i] = IF i \in S THEN Face(now, i) ELSE look[i]
  PROVE  Pictures(DrawItems(w, now, S), now.top, new)
<1>0. PICK d : d = DrawItems(w, now, S)
  OBVIOUS
<1>1. PICK t \in Nat : t = now.top
  OBVIOUS
<1>a. ItemsOn(d, w, now, t, S)
  BY <1>0, <1>1, DrawItemsIs
<1>3. /\ d.spilt <=> w.spilt \/ \E i \in S : links[i].row - t \notin 0 .. Height - 1
      /\ d.visible = [i \in DOMAIN w.visible |-> w.visible[i] \/ i \in S]
  BY <1>a DEF ItemsOn
<1>4. /\ ~w.spilt
      /\ w.visible \in [0 .. Count - 1 -> BOOLEAN]
      /\ \A i \in 0 .. Count - 1 : w.visible[i] <=> InView(t, i)
      /\ \A y \in 0 .. rows - 1, x \in 0 .. cols - 1 :
           /\ \A i \in 0 .. Count - 1 : Stands(i, t, y, x) => w.cells[y][x] = look[i]
           /\ (\A i \in 0 .. Count - 1 : ~Stands(i, t, y, x)) => w.cells[y][x] = Empty
  BY <1>1 DEF Pictures
<1>5. ~d.spilt
  <2> SUFFICES ASSUME NEW i \in S PROVE links[i].row - t \in 0 .. Height - 1
    BY <1>3, <1>4
  <2>1. InView(t, i) /\ i \in 0 .. Count - 1
    BY <1>1
  <2>2. links[i].row - t \in 0 .. rows - 1
    BY <2>1, ViewIs
  <2> QED
    BY <2>2, InWindow
<1>6. d.visible \in [0 .. Count - 1 -> BOOLEAN]
  BY <1>3, <1>4
<1>7. ASSUME NEW i \in 0 .. Count - 1 PROVE d.visible[i] <=> InView(t, i)
  BY <1>1, <1>3, <1>4
<1>8. ASSUME NEW y \in 0 .. rows - 1, NEW x \in 0 .. cols - 1
      PROVE  /\ \A i \in 0 .. Count - 1 : Stands(i, t, y, x) => d.cells[y][x] = new[i]
             /\ (\A i \in 0 .. Count - 1 : ~Stands(i, t, y, x)) => d.cells[y][x] = Empty
  <2>0. y \in 0 .. Height - 1 /\ x \in Columns /\ y \in Nat
    BY InWindow
  <2>1. /\ \A i \in S : Stands(i, t, y, x) => d.cells[y][x] = Face(now, i)
        /\ (\A i \in S : ~Stands(i, t, y, x)) => d.cells[y][x] = w.cells[y][x]
    BY <1>a, <2>0 DEF ItemsOn
  <2>3. /\ \A i \in 0 .. Count - 1 : Stands(i, t, y, x) => w.cells[y][x] = look[i]
        /\ (\A i \in 0 .. Count - 1 : ~Stands(i, t, y, x)) => w.cells[y][x] = Empty
    BY <1>4
  <2>4. ASSUME NEW i \in 0 .. Count - 1, Stands(i, t, y, x) PROVE d.cells[y][x] = new[i]
    <3>1. CASE i \in S
      BY <2>1, <2>4, <3>1
    <3>2. CASE i \notin S
      <4>1. \A j \in S : ~Stands(j, t, y, x)
        BY <2>4, <3>2, OneStands
      <4> QED
        BY <2>1, <2>3, <2>4, <3>2, <4>1
    <3> QED
      BY <3>1, <3>2
  <2>5. ASSUME \A i \in 0 .. Count - 1 : ~Stands(i, t, y, x) PROVE d.cells[y][x] = Empty
    BY <2>1, <2>3, <2>5
  <2> QED
    BY <2>4, <2>5
<1>9. Pictures(d, t, new)
  BY ONLY <1>5, <1>6, <1>7, <1>8 DEF Pictures
<1> QED
  BY <1>0, <1>1, <1>9

\* The quotient and the remainder are those.
LEMMA DivModIs ==
  ASSUME NEW m \in Nat \ {0}, NEW q \in Nat, NEW r \in 0 .. m - 1, NEW k \in Nat
  PROVE  k = m * q + r <=> k \div m = q /\ k % m = r
<1>1. k = m * (k \div m) + (k % m)
  BY DivMod
<1>2. (m * q + r) \div m = q /\ (m * q + r) % m = r
  BY DivModOf
<1> QED
  BY <1>1, <1>2

\* Every item has one of the columns.
LEMMA ColIn ==
  ASSUME NEW g \in GridForm, NEW i \in 0 .. g.n - 1
  PROVE  ColOf(g, i) \in 0 .. g.cols - 1
<1>1. PICK R, c, n \in Nat \ {0} : R = ItemRows(g) /\ c = g.cols /\ n = g.n /\ n <= R * c
  <2>1. g.n \in Nat /\ g.n > 0
    BY DEF GridForm
  <2>2. PICK n, c, R \in Nat \ {0} : n = g.n /\ c = g.cols /\ R = ItemRows(g) /\ n <= R * c
    BY Layout
  <2> QED
    BY <2>2
<1>2. i \in 0 .. n - 1 /\ i \in Nat
  BY <1>1
<1>3. CASE g.byRow
  <2>1. i % c \in 0 .. c - 1
    BY <1>1, <1>2, DivMod
  <2> QED
    BY <1>1, <1>3, <2>1 DEF ColOf
<1>4. CASE ~g.byRow
  <2>1. PICK q, r \in Nat : q = i \div R /\ i = R * q + r
    <3>1. /\ i \div R \in Nat /\ i % R \in Nat
          /\ i = R * (i \div R) + (i % R)
      <4>1. i \in Nat /\ R \in Nat \ {0}
        BY <1>2
      <4>2. /\ i \div R \in Nat /\ i % R \in 0 .. R - 1
            /\ i = R * (i \div R) + (i % R)
        BY ONLY <4>1, DivMod
      <4>3. 0 .. R - 1 \subseteq Nat
        BY ONLY <4>1
      <4> QED
        BY ONLY <4>2, <4>3
    <3> QED
      BY <3>1, Zenon
  <2>2. q < c
    <3> SUFFICES ASSUME ~(q < c) PROVE FALSE
      OBVIOUS
    <3>1. c - 1 < q
      BY <1>1, <2>1
    <3>2. R * (c - 1) + R <= R * q
      BY <1>1, <2>1, <3>1, MoreRows
    <3>3. R * (c - 1) + R = R * c
      BY <1>1
    <3>4. PICK a, b \in Nat : a = R * c /\ b = R * q
      BY <1>1, <2>1
    <3>5. a <= b /\ i = b + r /\ n <= a
      BY <1>1, <2>1, <3>2, <3>3, <3>4
    <3> QED
      BY <1>1, <1>2, <2>1, <3>4, <3>5
  <2> QED
    BY <1>1, <1>4, <2>1, <2>2 DEF ColOf
<1> QED
  BY <1>3, <1>4

\* _menui_draw_menu looks for the first item of the top row among these.
TopStarts(S, g, t, incr) ==
  \A i : i \in S <=> i \in 0 .. g.n - 1 /\ i % incr = 0 /\ RowOf(g, i) = t

LEMMA StartIs ==
  ASSUME NEW g \in GridForm, NEW t \in 0 .. ItemRows(g) - 1, g.n > 0,
         NEW incr, incr = (IF g.byRow THEN g.cols ELSE 1),
         NEW starts, TopStarts(starts, g, t, incr)
  PROVE  starts # {} /\ Least(starts) = IF g.byRow THEN g.cols * t ELSE t
<1>0. \A i : i \in starts <=> i \in 0 .. g.n - 1 /\ i % incr = 0 /\ RowOf(g, i) = t
  BY DEF TopStarts
<1>1. PICK n, c, R \in Nat \ {0} :
         n = g.n /\ c = g.cols /\ R = ItemRows(g) /\ c * (R - 1) < n /\ t \in 0 .. R - 1
  <2>1. 0 \in 0 .. g.n - 1
    BY DEF GridForm
  <2> QED
    BY <2>1, Layout
<1>2. CASE g.byRow
  <2>1. incr = c /\ \A i \in 0 .. n - 1 : RowOf(g, i) = i \div c
    BY <1>1, <1>2 DEF RowOf
  <2>2. PICK s \in Nat : s = c * t
    BY <1>1
  <2>3. s <= c * (R - 1)
    <3>1. CASE t = R - 1
      BY <1>1, <2>2, <3>1
    <3>2. CASE t # R - 1
      <4>1. t < R - 1
        BY <1>1, <3>2
      <4>2. c * t + c <= c * (R - 1)
        BY <1>1, <4>1, MoreRows
      <4>3. PICK u \in Nat : u = c * (R - 1)
        BY <1>1
      <4> QED
        BY <1>1, <2>2, <4>2, <4>3
    <3> QED
      BY <3>1, <3>2
  <2>4. s \in 0 .. n - 1
    <3>1. PICK u \in Nat : u = c * (R - 1)
      BY <1>1
    <3> QED
      BY <1>1, <2>2, <2>3, <3>1
  <2>5. s = c * t + 0
    BY <2>2
  <2>6. \A i \in 0 .. n - 1 : i \in starts <=> i = s
    <3> TAKE i \in 0 .. n - 1
    <3>1. i \in starts <=> i \div c = t /\ i % c = 0
      BY <1>0, <1>1, <2>1
    <3>2. i \in Nat /\ 0 \in 0 .. c - 1 /\ t \in Nat
      BY <1>1
    <3>3. i = c * t + 0 <=> i \div c = t /\ i % c = 0
      <4>1. PICK z \in 0 .. c - 1 : z = 0
        BY <3>2
      <4>2. i = c * t + z <=> i \div c = t /\ i % c = z
        <5>1. c \in Nat \ {0} /\ t \in Nat /\ z \in 0 .. c - 1 /\ i \in Nat
          BY <3>2
        <5> QED
          BY ONLY <5>1, DivModIs
      <4> QED
        BY <4>1, <4>2
    <3> QED
      BY <2>5, <3>1, <3>3
  <2>7. starts = {s}
    BY <1>0, <1>1, <2>4, <2>6
  <2>8. Least(starts) = s
    BY <2>7, LeastIn
  <2> QED
    BY <1>1, <1>2, <2>2, <2>7, <2>8
<1>3. CASE ~g.byRow
  <2>1. incr = 1 /\ \A i \in 0 .. n - 1 : RowOf(g, i) = i % R /\ i % 1 = 0
    BY <1>1, <1>3 DEF RowOf
  <2>2. R <= n
    <3>1. PICK u \in Nat : u = c * (R - 1)
      BY <1>1
    <3>2. R - 1 <= u
      <4>1. CASE c = 1
        BY <1>1, <3>1, <4>1
      <4>2. CASE c > 1
        <5>1. (R - 1) * 1 + (R - 1) <= (R - 1) * c
          BY <1>1, <4>2, MoreRows
        <5>2. (R - 1) * c = c * (R - 1)
          BY <1>1
        <5> QED
          BY <1>1, <3>1, <5>1, <5>2
      <4> QED
        BY <1>1, <4>1, <4>2
    <3> QED
      BY <1>1, <3>1, <3>2
  <2>3. t \in 0 .. n - 1 /\ t % R = t /\ t \in Nat
    <3>1. /\ R \in Nat \ {0} /\ n \in Nat /\ t \in 0 .. R - 1 /\ R <= n
          /\ t \in Nat /\ t \in 0 .. n - 1
      BY <1>1, <2>2
    <3>2. t % R = t
      BY ONLY <3>1, SmallMod
    <3> QED
      BY <3>1, <3>2
  <2>4. t \in starts
    <3>1. t \in 0 .. g.n - 1 /\ t % incr = 0 /\ RowOf(g, t) = t
      BY <1>1, <2>1, <2>3
    <3> QED
      BY <1>0, <3>1
  <2>5. ASSUME NEW i \in starts PROVE i \in Int /\ t <= i
    <3>1. i \in 0 .. n - 1 /\ i % R = t /\ i \in Nat
      BY <1>0, <1>1, <2>1
    <3>2. i % R <= i
      BY <1>1, <3>1, StepApart
    <3> QED
      BY <3>1, <3>2
  <2>6. Least(starts) = t
    BY <2>4, <2>5, LeastIs
  <2> QED
    BY <1>3, <2>4, <2>6
<1> QED
  BY <1>2, <1>3

\* Counting on from the first item of the top row one comes to the items in
\* view, and to no others unless the menu is scrolled past its last row.
LEMMA CountedOn ==
  ASSUME NEW g \in GridForm, NEW i \in 0 .. g.n - 1, NEW t \in 0 .. ItemRows(g) - 1,
         NEW r \in Nat, Inside(g, r, t)
  PROVE  (\E y \in 0 .. r - 1, x \in 0 .. g.cols - 1 :
            i = IF g.byRow THEN g.cols * (t + y) + x ELSE ItemRows(g) * x + (t + y))
           <=> RowOf(g, i) \in t .. t + r - 1
<1> DEFINE at(y, x) == IF g.byRow THEN g.cols * (t + y) + x ELSE ItemRows(g) * x + (t + y)
<1>1. PICK R, c : /\ R \in Nat \ {0} /\ c \in Nat \ {0} /\ R = ItemRows(g) /\ c = g.cols
                  /\ i \in Nat /\ t \in Nat /\ t < R
  BY RowIn DEF GridForm
<1>2. PICK y0, x0 : /\ y0 = RowOf(g, i) /\ x0 = ColOf(g, i) /\ y0 \in 0 .. R - 1 /\ x0 \in 0 .. c - 1
  BY <1>1, RowIn, ColIn
<1>3. ASSUME NEW y \in 0 .. r - 1, NEW x \in 0 .. c - 1, g.byRow \/ t + y < R
      PROVE  at(y, x) = i <=> y0 = t + y /\ x0 = x
  <2>1. t + y \in Nat /\ x \in Nat
    BY <1>1
  <2>2. CASE g.byRow
    <3>1. at(y, x) = c * (t + y) + x
      BY <1>1, <2>2
    <3>2. i = c * (t + y) + x <=> i \div c = t + y /\ i % c = x
      <4>1. PICK q : q = t + y
        OBVIOUS
      <4>2. c \in Nat \ {0} /\ q \in Nat /\ x \in 0 .. c - 1 /\ i \in Nat
        BY <1>1, <2>1, <4>1
      <4>3. i = c * q + x <=> i \div c = q /\ i % c = x
        BY ONLY <4>2, DivModIs
      <4> QED
        BY <4>1, <4>3
    <3>3. y0 = i \div c /\ x0 = i % c
      BY <1>1, <1>2, <2>2 DEF RowOf, ColOf
    <3> QED
      BY <3>1, <3>2, <3>3
  <2>3. CASE ~g.byRow
    <3>1. at(y, x) = R * x + (t + y)
      BY <1>1, <2>3
    <3>2. i = R * x + (t + y) <=> i \div R = x /\ i % R = t + y
      <4>1. PICK q : q = t + y
        OBVIOUS
      <4>2. R \in Nat \ {0} /\ x \in Nat /\ q \in 0 .. R - 1 /\ i \in Nat
        BY <1>1, <1>3, <2>1, <2>3, <4>1
      <4>3. i = R * x + q <=> i \div R = x /\ i % R = q
        BY ONLY <4>2, DivModIs
      <4> QED
        BY <4>1, <4>3
    <3>3. y0 = i % R /\ x0 = i \div R
      BY <1>1, <1>2, <2>3 DEF RowOf, ColOf
    <3> QED
      BY <3>1, <3>2, <3>3
  <2> QED
    BY <2>2, <2>3
<1> HIDE DEF at
<1>4. CASE g.byRow \/ t + r <= R
  <2>1. \A y \in 0 .. r - 1 : g.byRow \/ t + y < R
    BY <1>1, <1>4
  <2>2. \A y \in 0 .. r - 1, x \in 0 .. c - 1 : at(y, x) = i <=> y0 = t + y /\ x0 = x
    BY <1>3, <2>1
  <2>3. y0 \in t .. t + r - 1 <=> y0 - t \in 0 .. r - 1
    BY <1>1, <1>2
  <2>4. \A y \in 0 .. r - 1 : y0 = t + y <=> y = y0 - t
    BY <1>1, <1>2
  <2> QED
    BY <1>1, <1>2, <2>2, <2>3, <2>4 DEF at
<1>5. CASE ~(g.byRow \/ t + r <= R)
  <2>1. t = 0 /\ r > R
    BY <1>1, <1>5 DEF Inside
  <2>2. y0 \in 0 .. r - 1 /\ t + y0 < R
    BY <1>1, <1>2, <2>1
  <2>3. y0 = t + y0
    BY <1>2, <2>1
  <2>4. at(y0, x0) = i
    BY <1>2, <1>3, <2>2, <2>3
  <2>5. y0 \in t .. t + r - 1
    BY <2>1, <2>2
  <2> QED
    BY <1>1, <1>2, <2>2, <2>4, <2>5 DEF at
<1> QED
  BY <1>4, <1>5

\* Unless it is scrolled past its last row, a window is drawn with the items
\* from its top row on (_menui_draw_menu).
LEMMA MenuDrawn ==
  ASSUME Attached, array # <<>>, NEW now, now.top \in 0 .. ItemRows(form) - 1,
         Inside(form, rows, now.top), NEW w, w.cells = EmptyCells, ~w.spilt,
         w.visible \in [0 .. Count - 1 -> BOOLEAN]
  PROVE  Pictures(DrawMenu(w, now), now.top, Looks(now))
<1> DEFINE byRow  == "rowmajor" \in opts
           stride == IF byRow THEN 1 ELSE ItemRows(form)
           incr   == IF byRow THEN form.cols ELSE 1
           starts == {i \in 0 .. Count - 1 : i % incr = 0 /\ links[i].row = now.top}
           start  == IF starts = {} THEN ((Count + incr - 1) \div incr) * incr ELSE Least(starts)
           at(y, x) == x * stride + start + y * incr
           drawn  == {i \in 0 .. Count - 1 :
                        \E y \in 0 .. rows - 1, x \in 0 .. cols - 1 : at(y, x) = i}
           above  == IF starts = {} THEN 0 .. Count - 1
                     ELSE {i \in 0 .. Count - 1 : links[i].row < now.top}
           below  == {i \in 0 .. Count - 1 : links[i].row >= now.top + rows}
           here(y, x) == {i \in drawn : links[i].row - now.top = y /\ links[i].col = x}
<1>1. PICK d : d = DrawMenu(w, now)
  OBVIOUS
<1>2. /\ d.spilt = (w.spilt \/ \E i \in drawn : links[i].row - now.top \notin 0 .. Height - 1)
      /\ d.visible = [i \in DOMAIN w.visible |->
                        IF i \in below THEN FALSE ELSE IF i \in drawn THEN TRUE
                        ELSE IF i \in above THEN FALSE ELSE w.visible[i]]
      /\ d.cells = [y \in 0 .. Height - 1 |-> [x \in Columns |->
                      IF here(y, x) # {} THEN Face(now, Least(here(y, x)))
                      ELSE IF y < rows /\ x < cols /\ at(y, x) >= Count THEN Empty
                      ELSE w.cells[y][x]]]
  <2> DEFINE c == [y \in 0 .. Height - 1 |-> [x \in Columns |->
                      IF here(y, x) # {} THEN Face(now, Least(here(y, x)))
                      ELSE IF y < rows /\ x < cols /\ at(y, x) >= Count THEN Empty
                      ELSE w.cells[y][x]]]
             p == w.spilt \/ \E i \in drawn : links[i].row - now.top \notin 0 .. Height - 1
             v == [i \in DOMAIN w.visible |->
                        IF i \in below THEN FALSE ELSE IF i \in drawn THEN TRUE
                        ELSE IF i \in above THEN FALSE ELSE w.visible[i]]
  <2>1. DrawMenu(w, now) = [cells |-> c, spilt |-> p, visible |-> v]
    BY Zenon DEF DrawMenu
  <2> HIDE DEF c, p, v
  <2>2. d.cells = c /\ d.spilt = p /\ d.visible = v
    BY <1>1, <2>1
  <2> QED
    BY <2>2, Zenon DEF c, p, v
<1>3. /\ form \in GridForm /\ form.n = Count /\ form.n > 0 /\ links = Links(form)
      /\ ItemRows(form) \in Nat \ {0} /\ Count \in Nat \ {0}
      /\ \A i \in 0 .. Count - 1 : links[i].row = RowOf(form, i) /\ links[i].row \in Nat
  BY LinksAre
<1>4. /\ rows \in Nat \ {0} /\ cols \in Nat \ {0} /\ cols = form.cols /\ byRow = form.byRow
      /\ 0 .. rows - 1 \subseteq 0 .. Height - 1 /\ 0 .. cols - 1 \subseteq Columns
  BY InWindow
<1>5. PICK t \in 0 .. ItemRows(form) - 1 : t = now.top /\ t \in Nat
  BY <1>3
<1>6. starts # {} /\ start = IF form.byRow THEN form.cols * t ELSE t
  <2>1. incr = IF form.byRow THEN form.cols ELSE 1
    BY <1>4
  <2>2. \A i : i \in starts <=> i \in 0 .. form.n - 1 /\ i % incr = 0 /\ RowOf(form, i) = t
    BY <1>3, <1>5
  <2>3. PICK step, S : step = incr /\ S = starts
    OBVIOUS
  <2>4. /\ form \in GridForm /\ t \in 0 .. ItemRows(form) - 1 /\ form.n > 0
        /\ step = IF form.byRow THEN form.cols ELSE 1
        /\ TopStarts(S, form, t, step)
    BY <1>3, <2>1, <2>2, <2>3 DEF TopStarts
  <2> HIDE DEF starts, incr
  <2>5. S # {} /\ Least(S) = IF form.byRow THEN form.cols * t ELSE t
    BY ONLY <2>4, StartIs
  <2> QED
    BY <2>3, <2>5
<1>7. ASSUME NEW y \in 0 .. rows - 1, NEW x \in 0 .. form.cols - 1
      PROVE  at(y, x) = IF form.byRow THEN form.cols * (t + y) + x
                        ELSE ItemRows(form) * x + (t + y)
  <2> HIDE DEF starts, start
  <2>1. x \in Nat /\ y \in Nat /\ form.cols \in Nat /\ ItemRows(form) \in Nat
    BY <1>3, <1>4
  <2>2. CASE form.byRow
    <3>1. at(y, x) = x * 1 + form.cols * t + y * form.cols
      BY <1>4, <1>6, <2>2
    <3>2. PICK c \in Nat : c = form.cols
      BY <2>1
    <3>3. x * 1 + c * t + y * c = c * (t + y) + x
      BY <1>5, <2>1
    <3> QED
      BY <2>2, <3>1, <3>2, <3>3
  <2>3. CASE ~form.byRow
    <3>1. at(y, x) = x * ItemRows(form) + t + y * 1
      BY <1>4, <1>6, <2>3
    <3>2. PICK R \in Nat : R = ItemRows(form)
      BY <2>1
    <3>3. x * R + t + y * 1 = R * x + (t + y)
      BY <1>5, <2>1
    <3> QED
      BY <2>3, <3>1, <3>2, <3>3
  <2> QED
    BY <2>2, <2>3
<1>8. ASSUME NEW i \in 0 .. Count - 1 PROVE i \in drawn <=> InView(t, i)
  <2> HIDE DEF at
  <2>1. (\E y \in 0 .. rows - 1, x \in 0 .. form.cols - 1 : at(y, x) = i)
           <=> RowOf(form, i) \in t .. t + rows - 1
    <3>1. Inside(form, rows, t) /\ i \in 0 .. form.n - 1 /\ rows \in Nat
      BY <1>3, <1>4, <1>5
    <3>2. (\E y \in 0 .. rows - 1, x \in 0 .. form.cols - 1 :
             i = IF form.byRow THEN form.cols * (t + y) + x ELSE ItemRows(form) * x + (t + y))
            <=> RowOf(form, i) \in t .. t + rows - 1
      BY <1>3, <3>1, CountedOn
    <3> QED
      BY <1>7, <3>2
  <2> QED
    BY <1>3, <1>4, <2>1 DEF InView
<1>9. drawn \subseteq 0 .. Count - 1
  OBVIOUS
<1>10. \A i : /\ i \in below <=> i \in 0 .. Count - 1 /\ links[i].row >= t + rows
              /\ i \in above <=> i \in 0 .. Count - 1 /\ links[i].row < t
  BY <1>5, <1>6
<1>a. PICK D : D = drawn
  OBVIOUS
<1> HIDE DEF starts, start, at, drawn, above, below
<1>11. ~d.spilt
  <2> SUFFICES ASSUME NEW i \in drawn PROVE links[i].row - t \in 0 .. Height - 1
    BY <1>2, <1>5
  <2>1. links[i].row - t \in 0 .. rows - 1
    BY <1>8, <1>9, ViewIs
  <2> QED
    BY <1>4, <2>1
<1>12. d.visible \in [0 .. Count - 1 -> BOOLEAN]
  BY <1>2
<1>13. ASSUME NEW i \in 0 .. Count - 1 PROVE d.visible[i] <=> InView(t, i)
  <2>1. InView(t, i) <=> links[i].row >= t /\ links[i].row < t + rows
    BY <1>3, <1>4, <1>5 DEF InView
  <2>2. d.visible[i] <=> IF i \in below THEN FALSE ELSE IF i \in drawn THEN TRUE
                         ELSE IF i \in above THEN FALSE ELSE w.visible[i]
    BY <1>2
  <2>3. links[i].row \in Nat
    BY <1>3
  <2> QED
    BY <1>4, <1>5, <1>8, <1>10, <2>1, <2>2, <2>3
<1>14. ASSUME NEW y \in 0 .. rows - 1, NEW x \in 0 .. cols - 1
       PROVE  /\ \A i \in 0 .. Count - 1 : Stands(i, t, y, x) => d.cells[y][x] = Looks(now)[i]
              /\ (\A i \in 0 .. Count - 1 : ~Stands(i, t, y, x)) => d.cells[y][x] = Empty
  <2>0. y \in 0 .. Height - 1 /\ x \in Columns /\ y \in Nat
    BY <1>4
  <2>1. w.cells[y][x] = Empty
    BY <2>0 DEF EmptyCells
  <2>2. PICK h : h = here(y, x)
    OBVIOUS
  <2>3. d.cells[y][x] = IF h # {} THEN Face(now, Least(h)) ELSE Empty
    BY <1>2, <2>0, <2>1, <2>2
  <2>4. \A i : i \in h <=> i \in D /\ links[i].row - t = y /\ links[i].col = x
    BY <1>5, <1>a, <2>2
  <2> HIDE DEF here
  <2>5. /\ \A i \in D : Stands(i, t, y, x) => h # {} /\ Least(h) = i
        /\ (\A i \in D : ~Stands(i, t, y, x)) => h = {}
    <3>1. D \subseteq 0 .. Count - 1 /\ t \in Nat
      BY <1>5, <1>9, <1>a
    <3> QED
      BY <2>0, <2>4, <3>1, HereIs
  <2>6. ASSUME NEW i \in 0 .. Count - 1, Stands(i, t, y, x)
        PROVE  d.cells[y][x] = Looks(now)[i]
    <3>1. i \in D
      BY <1>5, <1>8, <1>a, <2>6, ViewIs
    <3> QED
      BY <2>3, <2>5, <2>6, <3>1 DEF Looks
  <2>7. ASSUME \A i \in 0 .. Count - 1 : ~Stands(i, t, y, x) PROVE d.cells[y][x] = Empty
    BY <1>9, <1>a, <2>3, <2>5, <2>7
  <2> QED
    BY <2>6, <2>7
<1>15. Pictures(d, t, Looks(now))
  BY ONLY <1>11, <1>12, <1>13, <1>14 DEF Pictures
<1> QED
  BY <1>1, <1>5, <1>15

\* The hooks of a request before the current item changes and is drawn.
Starting == {"menu_term", "menu_init", "item_term"}

\* A request that scrolls has yet to draw the window.
Stale == InHook(Starting) /\ stack[Len(stack)].newTop # stack[Len(stack)].oldTop

\* What a request or set_top_row that waits for a hook has checked and done.
Scrolls(f) ==
  /\ Inside(form, rows, f.newTop)
  /\ f.at \in Starting => cur = f.oldCur /\ f.new # cur /\ InView(f.oldTop, cur)
  /\ f.at = "menu_term" => top = f.oldTop
  /\ f.at \in {"top_term", "top_init"} => cur = f.new /\ top = f.newTop

\* The window shows the menu, or a request that waits for a hook will draw it;
\* a menu that is not posted shows nothing.
Drawing ==
  /\ array # <<>> => win.visible \in [0 .. Count - 1 -> BOOLEAN]
  /\ ~posted => win.cells = EmptyCells /\ ~win.spilt
  /\ array # <<>> /\ ~InHook(Moving) => Inside(form, rows, top)
  /\ InHook(Moving) => Scrolls(stack[Len(stack)])
  /\ posted /\ ~Stale => Pictures(win, top, Looks(Now))

-----------------------------------------------------------------------------
(* Calls that draw nothing *)

\* The window afterwards.
LEMMA PicturesNext ==
  ASSUME UNCHANGED <<array, form, rows, cols, opts>>,
         NEW now, now = [top |-> top', cur |-> cur', selected |-> selected'],
         NEW w, w = win', Pictures(w, now.top, Looks(now))
  PROVE  Pictures(win, top, Looks(Now))'
<1>1. (Now)' = now /\ now.top = top' /\ Count' = Count /\ links' = links
  BY DEF Now, Count, links
<1>2. \A i : Face(Now, i)' = Face(now, i)
  BY <1>1 DEF Face
<1>3. Looks(Now)' = Looks(now)
  BY <1>1, <1>2 DEF Looks
<1>4. \A i, y, x : Stands(i, top, y, x)' = Stands(i, now.top, y, x)
  BY <1>1 DEF Stands
<1>5. \A i : InView(top, i)' = InView(now.top, i)
  BY <1>1 DEF InView
<1> QED
  BY <1>1, <1>3, <1>4, <1>5 DEF Pictures

\* A call that leaves the menu and its window alone.
LEMMA SamePictures ==
  ASSUME Pictures(win, top, Looks(Now)),
         UNCHANGED <<array, form, rows, cols, opts, cur, top, selected, win>>
  PROVE  Pictures(win, top, Looks(Now))'
<1>1. PICK now : now = [top |-> top', cur |-> cur', selected |-> selected']
  OBVIOUS
<1>2. now = Now /\ now.top = top
  BY <1>1 DEF Now
<1>3. Pictures(win, now.top, Looks(now))
  BY <1>2
<1>4. PICK w : w = win' /\ w = win
  OBVIOUS
<1> QED
  BY <1>1, <1>3, <1>4, PicturesNext

\* No call waits for one of these hooks afterwards.
LEMMA DrawingQuiet ==
  ASSUME Drawing, UNCHANGED <<array, form, rows, cols, opts, cur, top, posted, selected, win>>,
         ~InHook(Moving)', array # <<>> => Inside(form, rows, top), posted => ~Stale
  PROVE  Drawing'
<1>1. /\ array # <<>> => win.visible \in [0 .. Count - 1 -> BOOLEAN]
      /\ ~posted => win.cells = EmptyCells /\ ~win.spilt
      /\ posted => Pictures(win, top, Looks(Now))
  BY DEF Drawing
<1>2. posted => Pictures(win, top, Looks(Now))'
  BY <1>1, SamePictures
<1>3. Count' = Count /\ (array # <<>> => Inside(form, rows, top))'
  BY DEF Count, Inside
<1>4. EmptyCells' = EmptyCells
  BY DEF EmptyCells
<1> QED
  BY <1>1, <1>2, <1>3 DEF Drawing

\* A step that changes none of this.
LEMMA DrawingSame ==
  ASSUME Drawing, UNCHANGED <<array, form, rows, cols, opts, cur, top, posted, selected, win,
                              stack>>
  PROVE  Drawing'
<1>1. InHook(Moving)' = InHook(Moving) /\ Stale' = Stale
  BY DEF InHook, Stale
<1>2. Scrolls(stack[Len(stack)])' = Scrolls(stack[Len(stack)])
  BY DEF Scrolls, Inside, InView, links
<1>3. posted /\ ~Stale => Pictures(win, top, Looks(Now))'
  BY SamePictures DEF Drawing
<1>4. Count' = Count /\ Inside(form, rows, top)' = Inside(form, rows, top)
  BY DEF Count, Inside
<1> QED
  BY <1>1, <1>2, <1>3, <1>4 DEF Drawing

\* No request waits while no menu is posted, or while none may start.
LEMMA QuietWindow ==
  ASSUME MenuInv, Drawing, ~posted \/ ~inInit
  PROVE  /\ ~InHook(Moving) /\ ~Stale
         /\ array # <<>> => Inside(form, rows, top)
         /\ posted => Pictures(win, top, Looks(Now))
<1>1. ~InHook(Moving)
  BY Quiet DEF MenuInv
<1>2. ~InHook(Starting)
  BY <1>1 DEF InHook, Starting, Moving
<1> QED
  BY <1>1, <1>2 DEF Drawing, Stale

-----------------------------------------------------------------------------
(* Requests draw what they should *)

\* The top row that shows an item does not leave rows empty.
LEMMA ScrolledInside ==
  ASSUME Attached, array # <<>>, NEW t \in Nat, Inside(form, rows, t), NEW new \in 0 .. Count - 1
  PROVE  Inside(form, rows, Scrolled(new, t))
<1>1. PICK r \in Nat : r = links[new].row /\ r < ItemRows(form)
  BY LinksAre
<1>2. ItemRows(form) \in Nat /\ rows \in Nat
  BY LinksAre, InWindow
<1>3. Scrolled(new, t) = IF r < t THEN r ELSE IF r >= t + rows THEN r - rows + 1 ELSE t
  BY <1>1 DEF Scrolled
<1> QED
  BY <1>1, <1>2, <1>3 DEF Inside

\* A request goes to another item, or nowhere if it does not scroll either.
LEMMA AcceptDraws ==
  ASSUME MenuInv, InSight, Drawing, Driver, NEW new \in 0 .. Count - 1 \cup {Nowhere},
         NEW t \in Nat, Accept(new, t), Inside(form, rows, t),
         new = cur => Scrolled(cur, t) = top,
         UNCHANGED <<layout, place, opts, posted>>, Pictures(win, top, Looks(Now))'
  PROVE  Drawing'
<1>0. UNCHANGED <<array, form, rows, cols, opts, cur, top, posted>> /\ Count' = Count
  BY DEF layout, place, Count
<1>1. /\ posted /\ ~inInit /\ array # <<>> /\ Attached /\ Stored /\ Hooked
      /\ cur \in 0 .. Count - 1 /\ top \in Nat
  BY DriverIs DEF Driver
<1>2. ~InHook(Moving) /\ Inside(form, rows, top) /\ InView(top, cur)
  BY <1>1, QuietWindow DEF InSight
<1>3. win'.visible \in [0 .. Count - 1 -> BOOLEAN]
  BY <1>0 DEF Pictures
<1>4. CASE UNCHANGED <<inInit, stack>>
  <2>1. ~InHook(Moving)' /\ Inside(form, rows, top)'
    BY <1>0, <1>2, <1>4 DEF InHook, Inside
  <2> QED
    BY <1>0, <1>1, <1>3, <2>1 DEF Drawing
<1>5. CASE ~UNCHANGED <<inInit, stack>>
  <2>1. new # Nowhere /\ new # cur /\ Goto(new, Scrolled(new, t))
    BY <1>5 DEF Accept
  <2>2. new \in 0 .. Count - 1
    BY <2>1
  <2>3. Inside(form, rows, Scrolled(new, t))
    BY <1>1, <2>2, ScrolledInside
  <2>4. PICK u : u = Scrolled(new, t) /\ u \in Nat
    <3>1. links[new].row \in Nat /\ rows \in Nat
      BY <1>1, <2>2, ViewIs
    <3> QED
      BY <3>1 DEF Scrolled
  <2>5. PICK step : step = IF u # top THEN "menu_term" ELSE "item_term"
    OBVIOUS
  <2>6. PICK f : f = [at |-> step, new |-> new, newTop |-> u, oldTop |-> top, oldCur |-> cur]
    OBVIOUS
  <2>7. stack' = Append(stack, f)
    BY <2>1, <2>4, <2>5, <2>6 DEF Goto, Frame
  <2>8. /\ f.at = step /\ f.new = new /\ f.newTop = u /\ f.oldTop = top /\ f.oldCur = cur
        /\ step \in {"menu_term", "item_term"}
    BY <2>5, <2>6
  <2>9. f \in Frames
    BY <1>1, <2>2, <2>4, <2>6, <2>8 DEF Frames, Moving
  <2>10. /\ stack'[Len(stack')] = f
         /\ \A steps : InHook(steps)' <=> f.at \in steps
    BY <1>1, <2>7, <2>9, Pushed
  <2>11. InHook(Moving)'
    BY <2>8, <2>10 DEF Moving
  <2>12. InView(top, cur)' /\ Inside(form, rows, u)'
    BY <1>0, <1>2, <2>3, <2>4 DEF InView, Inside, links
  <2>13. Scrolls(f)'
    <3>1. /\ Inside(form, rows, f.newTop)'
          /\ cur' = f.oldCur /\ f.new # cur'
          /\ InView(f.oldTop, cur)'
      BY <1>0, <2>1, <2>8, <2>12
    <3>2. top' = f.oldTop /\ f.at \notin {"top_term", "top_init"}
      BY <1>0, <2>8
    <3> QED
      BY <3>1, <3>2 DEF Scrolls
  <2> QED
    BY <1>0, <1>1, <1>3, <2>10, <2>11, <2>13 DEF Drawing
<1> QED
  BY <1>4, <1>5

\* Down leads from an item to itself in the first row only.
LEMMA DownStays ==
  ASSUME NEW g \in GridForm, NEW i \in 0 .. g.n - 1, Down(g, i) = i
  PROVE  RowOf(g, i) = 0
<1>1. PICK R, c, n : /\ R \in Nat \ {0} /\ c \in Nat \ {0} /\ n \in Nat \ {0}
                     /\ R = ItemRows(g) /\ c = g.cols /\ n = g.n /\ i \in Nat /\ i < n
                     /\ c < 2 => R = n
  <2>1. PICK n, c, R \in Nat \ {0} : /\ n = g.n /\ c = g.cols /\ R = ItemRows(g)
                                     /\ i \in 0 .. n - 1 /\ c < 2 => R = n
    BY Layout
  <2> QED
    BY <2>1
<1>2. RowOf(g, i) \in 0 .. R - 1
  BY <1>1, RowIn
<1>3. \A t \in Int : t < n /\ Edge(g, TRUE, t) = i => t = i
  BY <1>1 DEF Edge, Nth, Nowhere
<1>4. CASE R < 2
  BY <1>1, <1>2, <1>4
<1>5. CASE ~(R < 2) /\ c < 2
  <2>1. i = 0
    <3>1. /\ i = n - 1 => Down(g, i) = Edge(g, TRUE, 0)
          /\ i # n - 1 => Down(g, i) = i + 1
      <4>1. ~(ItemRows(g) < 2) /\ g.cols < 2 /\ n = g.n
        BY <1>1, <1>5
      <4> QED
        BY ONLY <4>1, DownIs, Zenon
    <3>2. Edge(g, TRUE, 0) = i
      <4>1. Down(g, i) = i /\ i + 1 # i
        BY <1>1
      <4> QED
        BY ONLY <3>1, <4>1, Zenon
    <3>3. 0 \in Int /\ 0 < n
      BY <1>1
    <3> QED
      BY <1>3, <3>2, <3>3
  <2> QED
    BY <2>1, RowIn
<1>6. CASE ~(R < 2) /\ ~(c < 2) /\ g.byRow
  <2>0. i % c \in 0 .. c - 1 /\ i % c <= i
    BY ONLY <1>1, DivMod, StepApart
  <2>a. PICK r : r = i % c /\ r \in 0 .. c - 1 /\ r <= i
    BY <2>0
  <2>1. Edge(g, TRUE, i % c) = i
    <3>1. i + c # i
      BY <1>1
    <3> QED
      BY <1>1, <1>6, <3>1, DownIs
  <2>2. r = i
    <3>1. r \in Int /\ r < n
      BY <1>1, <2>a
    <3> QED
      BY <1>3, <2>1, <2>a, <3>1
  <2>3. i < c
    BY <1>1, <2>a, <2>2
  <2>4. i \div c = 0
    BY ONLY <1>1, <2>3, SmallMod
  <2> QED
    BY <1>1, <1>6, <2>4 DEF RowOf
<1>7. CASE ~(R < 2) /\ ~(c < 2) /\ ~g.byRow
  <2>1. Edge(g, TRUE, (i \div R) * R) = i
    <3>1. i + 1 # i
      BY <1>1
    <3> QED
      BY <1>1, <1>7, <3>1, DownIs
  <2>2. PICK q, r : /\ q \in Nat /\ r \in 0 .. R - 1 /\ q = i \div R /\ r = i % R
                    /\ i = R * q + r
    <3>1. /\ i \div R \in Nat /\ i % R \in 0 .. R - 1
          /\ i = R * (i \div R) + (i % R)
      BY ONLY <1>1, DivMod
    <3> QED
      BY ONLY <3>1, Zenon
  <2>3. PICK m : m = R * q /\ m = q * R /\ m \in Int
    <3>1. R \in Int /\ q \in Int
      BY <1>1, <2>2
    <3>2. R * q = q * R /\ R * q \in Int
      BY ONLY <3>1
    <3> QED
      BY ONLY <3>2
  <2>a. i = m + r /\ Edge(g, TRUE, m) = i
    BY ONLY <2>1, <2>2, <2>3
  <2>b. r \in Int /\ 0 <= r
    BY <2>2, <1>1
  <2>4. m <= i /\ m < n
    BY ONLY <1>1, <2>a, <2>b, <2>3
  <2>5. m = i
    BY <1>3, <2>a, <2>4, <2>3
  <2>6. r = 0
    BY ONLY <2>a, <2>b, <2>3, <2>5
  <2> QED
    BY <1>1, <1>7, <2>2, <2>6 DEF RowOf
<1> QED
  BY <1>4, <1>5, <1>6, <1>7

\* A request moves within the rows, and one that comes back to the current
\* item does not scroll.
LEMMA TargetDraws ==
  ASSUME MenuInv, array # <<>>, InView(top, cur), Inside(form, rows, top),
         NEW req \in Moves, req = "dline" => Inside(form, rows, top + 1),
         req = "dpage" => ~Rounds(req)
  PROVE  /\ Inside(form, rows, Target(req)[2])
         /\ Target(req)[1] = cur => Scrolled(cur, Target(req)[2]) = top
<1>0. Attached /\ Stored
  BY DEF MenuInv
<1>1. /\ form \in GridForm /\ form.n = Count /\ links = Links(form)
      /\ Count \in Nat \ {0} /\ cur \in 0 .. Count - 1 /\ top \in Nat
      /\ rows \in Nat \ {0} /\ ItemRows(form) \in Nat \ {0}
      /\ links[cur].row = RowOf(form, cur) /\ RowOf(form, cur) \in Nat
      /\ links[cur].up = Up(form, cur) /\ links[cur].down = Down(form, cur)
  <2>1. form \in GridForm /\ form.n = Count /\ links = Links(form) /\ Count \in Nat \ {0}
        /\ ItemRows(form) \in Nat \ {0}
    BY <1>0, LinksAre
  <2>2. cur \in 0 .. Count - 1 /\ top \in Nat
    BY <1>0, <2>1 DEF Stored
  <2>3. links[cur].row = RowOf(form, cur) /\ RowOf(form, cur) \in Nat
    BY <1>0, <2>2, LinksAre
  <2>4. rows \in Nat \ {0}
    BY <1>0, InWindow
  <2>5. links[cur].up = Up(form, cur) /\ links[cur].down = Down(form, cur)
    BY <2>1, <2>2 DEF Links
  <2> QED
    BY <2>1, <2>2, <2>3, <2>4, <2>5
<1>2. RowOf(form, cur) >= top /\ RowOf(form, cur) < top + rows
  BY <1>1 DEF InView
<1>3. Scrolled(cur, top) = top
  BY <1>1, <1>2 DEF Scrolled
<1>4. CASE req \in {"left", "right", "up", "down", "first", "last", "next", "prev"}
  <2>1. Target(req)[2] = top
    <3>1. CASE req \in {"left", "right", "up", "down"}
      <4>1. Target(req) = <<links[cur][req], top>>
        BY <3>1 DEF Target
      <4> QED
        BY <4>1
    <3>2. CASE req = "first"
      <4>1. Target(req) = <<0, top>>
        BY <3>2 DEF Target
      <4> QED
        BY <4>1
    <3>3. CASE req = "last"
      <4>1. Target(req) = <<Count - 1, top>>
        BY <3>3 DEF Target
      <4> QED
        BY <4>1
    <3>4. CASE req = "next"
      <4>1. Target(req) = IF cur + 1 >= Count
                          THEN IF "noncyclic" \in opts THEN <<Nowhere, top>> ELSE <<0, top>>
                          ELSE <<cur + 1, top>>
        BY <3>4 DEF Target
      <4> QED
        BY <4>1
    <3>5. CASE req = "prev"
      <4>1. Target(req) = IF cur = 0
                          THEN IF "noncyclic" \in opts THEN <<Nowhere, top>> ELSE <<Count - 1, top>>
                          ELSE <<cur - 1, top>>
        BY <3>5 DEF Target
      <4> QED
        BY <4>1
    <3> QED
      BY <1>4, <3>1, <3>2, <3>3, <3>4, <3>5
  <2> QED
    BY <1>3, <2>1
<1>5. CASE req = "uline"
  <2>1. Target(req) = IF top = 0 THEN <<Nowhere, top>> ELSE <<links[cur].up, top - 1>>
    BY <1>5 DEF Target
  <2>2. CASE top = 0
    BY <1>1, <1>3, <2>1, <2>2
  <2>3. CASE top # 0
    <3>1. Up(form, cur) # cur
      <4>1. RowOf(form, cur) > 0
        BY <1>1, <1>2, <2>3
      <4>2. RowOf(form, Up(form, cur)) = RowOf(form, cur) - 1
        BY <1>1, <4>1, UpGoes
      <4> QED
        BY <1>1, <4>2
    <3>2. Inside(form, rows, top - 1)
      BY <1>1, <2>3 DEF Inside
    <3> QED
      BY <1>1, <2>1, <2>3, <3>1, <3>2
  <2> QED
    BY <2>2, <2>3
<1>6. CASE req = "dline"
  <2>1. Target(req) = IF top + rows > ItemRows(form) THEN <<Nowhere, top>>
                      ELSE <<links[cur].down, top + 1>>
    BY <1>6 DEF Target
  <2>2. CASE top + rows > ItemRows(form)
    BY <1>1, <1>3, <2>1, <2>2
  <2>3. CASE ~(top + rows > ItemRows(form))
    <3>1. Target(req)[1] = links[cur].down /\ Target(req)[2] = top + 1
      BY <2>1, <2>3
    <3>2. ASSUME links[cur].down = cur PROVE Scrolled(cur, top + 1) = top
      <4>1. RowOf(form, cur) = 0
        BY <1>1, <3>2, DownStays
      <4> QED
        BY <1>1, <1>2, <4>1 DEF Scrolled
    <3> QED
      BY <1>6, <3>1, <3>2
  <2> QED
    BY <2>2, <2>3
<1>7. CASE req = "dpage"
  <2>1. PICK m : m = ItemRows(form) - rows - top /\ m \in Int
    BY <1>1
  <2>2. Target(req) = IF m <= 0 THEN <<Nowhere, top>>
                      ELSE <<Along("down", Pages(m)), top + Pages(m)>>
    BY <1>7, <2>1 DEF Target
  <2>3. CASE m <= 0
    BY <1>3, <2>2, <2>3
  <2>4. CASE ~(m <= 0)
    <3>1. Target(req)[2] = top + Pages(m)
      BY <2>2, <2>4
    <3>2. Pages(m) \in Int /\ Pages(m) <= m
      BY <1>1, <2>1 DEF Pages
    <3>3. Inside(form, rows, top + Pages(m))
      BY <1>1, <2>1, <3>2 DEF Inside
    <3> QED
      BY <1>7, <3>1, <3>3 DEF Rounds
  <2> QED
    BY <2>3, <2>4
<1>8. CASE req = "upage"
  <2>1. Target(req) = IF top = 0 THEN <<Nowhere, top>>
                      ELSE <<Along("up", Pages(top)), top - Pages(top)>>
    BY <1>8 DEF Target
  <2>2. CASE top = 0
    BY <1>3, <2>1, <2>2
  <2>3. CASE top # 0
    <3>1. PICK k \in Nat : k = Pages(top) /\ k > 0 /\ k <= top
      BY <1>1, <2>3 DEF Pages
    <3>2. RowOf(form, Along("up", k)) = RowOf(form, cur) - k
      BY <1>1, <3>1, UpLands
    <3>3. Along("up", k) # cur
      BY <1>1, <3>1, <3>2
    <3>4. Inside(form, rows, top - k)
      BY <1>1, <3>1 DEF Inside
    <3> QED
      BY <2>1, <2>3, <3>1, <3>3, <3>4
  <2> QED
    BY <2>2, <2>3
<1> QED
  BY <1>4, <1>5, <1>6, <1>7, <1>8 DEF Moves

\* A request that goes to an item from the same top row.
LEMMA StepDraws ==
  ASSUME MenuInv, InSight, Drawing, Driver, NEW new \in 0 .. Count - 1 \cup {Nowhere},
         Accept(new, top), UNCHANGED <<layout, place, opts, posted>>,
         Pictures(win, top, Looks(Now))'
  PROVE  Drawing'
<1>1. posted /\ ~inInit
  BY DEF Driver
<1>2. array # <<>> /\ Attached /\ cur \in 0 .. Count - 1 /\ top \in Nat
  BY <1>1, DriverIs
<1>3. Inside(form, rows, top) /\ ~InHook(Moving)
  BY <1>1, <1>2, QuietWindow
<1>4. InView(top, cur)
  BY <1>2, <1>3 DEF InSight
<1>5. Scrolled(cur, top) = top
  <2>1. links[cur].row \in Nat /\ rows \in Nat
    BY <1>2, ViewIs
  <2> QED
    BY <1>2, <1>4, <2>1 DEF InView, Scrolled
<1> QED
  BY <1>2, <1>3, <1>5, AcceptDraws

\* The window of a request that draws nothing itself.
LEMMA StillShown ==
  ASSUME MenuInv, Drawing, Driver, UNCHANGED <<layout, place, opts, posted, selected, win>>
  PROVE  Pictures(win, top, Looks(Now))'
<1>1. posted /\ ~inInit
  BY DEF Driver
<1>2. Pictures(win, top, Looks(Now))
  BY <1>1, QuietWindow
<1> QED
  BY <1>2, SamePictures DEF layout, place

LEMMA MoveDraws ==
  ASSUME MenuInv, InSight, Drawing, "past" \notin Cases, "round" \notin Cases,
         NEW req \in Moves, Move(req)
  PROVE  Drawing'
<1>1. Driver /\ posted /\ ~inInit
  BY DEF Move, Driver
<1>2. array # <<>> /\ Attached /\ Stored
  BY <1>1, DriverIs
<1>3. Inside(form, rows, top) /\ ~InHook(Moving)
  BY <1>1, <1>2, QuietWindow
<1>4. InView(top, cur)
  BY <1>2, <1>3 DEF InSight
<1>5. PICK new, t : new = Target(req)[1] /\ t = Target(req)[2]
  OBVIOUS
<1>6. new \in 0 .. Count - 1 \cup {Nowhere} /\ t \in Nat
  BY <1>2, <1>5, TargetIn
<1>7. /\ Accept(new, t) /\ UNCHANGED <<layout, place, opts, posted, selected, win>>
      /\ req = "dline" => Inside(form, rows, top + 1)
      /\ req = "dpage" => ~Rounds(req)
  BY <1>5 DEF Move
<1>8. Inside(form, rows, t) /\ (new = cur => Scrolled(cur, t) = top)
  BY <1>2, <1>3, <1>4, <1>5, <1>7, TargetDraws
<1>9. Pictures(win, top, Looks(Now))'
  BY <1>1, <1>7, StillShown
<1> QED
  BY <1>1, <1>6, <1>7, <1>8, <1>9, AcceptDraws

LEMMA SearchedDraws ==
  ASSUME MenuInv, InSight, Drawing, Driver, NEW dir \in {"here", "next", "prev"}, NEW text,
         NEW plen, NEW kept, Searched(dir, text, plen, kept),
         UNCHANGED <<layout, place, opts, posted, selected, win>>
  PROVE  Drawing'
<1>1. Count \in Nat \ {0} /\ cur \in 0 .. Count - 1
  BY DriverIs DEF Driver
<1>2. PICK f : f = Found(dir, text, plen) /\ f \in 0 .. Count - 1 \cup {Nowhere, Endless}
  BY <1>1, FoundIn
<1>3. PICK new : new = IF f >= 0 THEN f ELSE cur
  OBVIOUS
<1>4. new \in 0 .. Count - 1 \cup {Nowhere}
  BY <1>1, <1>2, <1>3 DEF Nowhere, Endless
<1>5. Accept(new, top)
  BY <1>2, <1>3 DEF Searched
<1>6. Pictures(win, top, Looks(Now))'
  BY StillShown
<1> QED
  BY <1>4, <1>5, <1>6, StepDraws

\* What is drawn after marks have changed.
LEMMA MarksDrawn ==
  ASSUME MenuInv, posted, Pictures(win, top, Looks(Now)), NEW chosen,
         NEW S, S \subseteq 0 .. Count - 1, \A i \in S : InView(top, i),
         \A i \in 0 .. Count - 1 : i \in S \/ chosen[array[i + 1]] = selected[array[i + 1]],
         selected' = chosen, win' = DrawItems(win, [Now EXCEPT !.selected = chosen], S),
         UNCHANGED <<layout, place, opts>>
  PROVE  Pictures(win, top, Looks(Now))'
<1>0. array # <<>> /\ Attached /\ top \in Nat
  BY DriverIs
<1>1. UNCHANGED <<array, form, rows, cols, opts, cur, top>>
  BY DEF layout, place
<1>2. PICK now : now = [Now EXCEPT !.selected = chosen]
  OBVIOUS
<1>3. /\ now = [top |-> top', cur |-> cur', selected |-> selected']
      /\ now.top = top /\ now.cur = cur /\ now.selected = chosen
      /\ Now.cur = cur /\ Now.selected = selected
  BY <1>1, <1>2 DEF Now
<1>4. PICK w : w = DrawItems(win, now, S) /\ w = win'
  BY <1>2
<1>5. PICK look : look = [i \in 0 .. Count - 1 |-> IF i \in S THEN Face(now, i) ELSE Looks(Now)[i]]
  OBVIOUS
<1>6. Pictures(w, now.top, look)
  <2>1. PICK old, v : old = Looks(Now) /\ v = win
    OBVIOUS
  <2>2. Pictures(v, now.top, old) /\ now.top \in Nat /\ \A i \in S : InView(now.top, i)
    BY <1>0, <1>3, <2>1
  <2>3. \A i \in 0 .. Count - 1 : look[i] = IF i \in S THEN Face(now, i) ELSE old[i]
    BY <1>5, <2>1
  <2>4. Pictures(DrawItems(v, now, S), now.top, look)
    BY <1>0, <2>2, <2>3, ItemsDrawn
  <2> QED
    BY <1>4, <2>1, <2>4
<1>7. look = Looks(now)
  <2>1. ASSUME NEW i \in 0 .. Count - 1, i \notin S PROVE Face(Now, i) = Face(now, i)
    <3>1. chosen[array[i + 1]] = selected[array[i + 1]]
      BY <2>1
    <3> QED
      BY <1>3, <3>1 DEF Face
  <2> QED
    BY <1>5, <2>1 DEF Looks
<1> QED
  BY <1>1, <1>3, <1>4, <1>6, <1>7, PicturesNext

\* Two places of the array never hold one item.
LEMMA ItemsDiffer ==
  ASSUME Attached, array # <<>>, NEW i \in 0 .. Count - 1, NEW j \in 0 .. Count - 1, i # j
  PROVE  array[i + 1] # array[j + 1]
<1>1. array \in Arrays /\ Count = Len(array) /\ array \in [1 .. Count -> Items]
  BY LinksAre DEF Attached, Count
<1>2. IsInjective(array)
  BY <1>1, MenuAssumption
<1>3. \A a, b \in 1 .. Count : array[a] = array[b] => a = b
  BY <1>1, <1>2 DEF IsInjective
<1>4. i + 1 \in 1 .. Count /\ j + 1 \in 1 .. Count /\ i + 1 # j + 1
  BY <1>1
<1> QED
  BY <1>3, <1>4

LEMMA ToggleDraws ==
  ASSUME MenuInv, InSight, Drawing, "radio" \notin Cases, Toggle
  PROVE  Drawing'
<1>0. /\ Driver /\ posted /\ ~inInit /\ array # <<>> /\ Attached /\ Stored
      /\ cur \in 0 .. Count - 1 /\ array \in [1 .. Count -> Items] /\ Count \in Nat
      /\ UNCHANGED <<layout, place, opts, posted>>
  BY DriverIs DEF Toggle, Driver
<1>1. Pictures(win, top, Looks(Now)) /\ ~InHook(Moving)
  BY <1>0, QuietWindow
<1>2. InView(top, cur)
  BY <1>0, <1>1 DEF InSight
<1> DEFINE item  == array[cur + 1]
           flips == /\ item \in Selectable
                    /\ "radio" \in opts => ~selected[item]
                    /\ "onevalue" \in opts => "radio" \in opts
           others == {i \in 0 .. Count - 1 : i # cur /\ selected[array[i + 1]]}
           chosen == IF "radio" \in opts THEN Only(item)
                     ELSE [selected EXCEPT ![item] = ~@]
           S == {cur} \cup IF "radio" \in opts THEN others ELSE {}
<1>3. CASE ~flips
  <2>1. UNCHANGED <<selected, win, inInit, stack>>
    BY <1>3, Zenon DEF Toggle
  <2> QED
    BY <1>0, <2>1, DrawingSame DEF layout, place
<1>4. CASE flips
  <2>1. /\ "radio" \in opts => \A i \in others : InView(top, i)
        /\ selected' = chosen
        /\ win' = DrawItems(win, [Now EXCEPT !.selected = chosen], S)
        /\ Accept(cur, top)
    BY <1>4, Zenon DEF Toggle
  <2>2. S \subseteq 0 .. Count - 1 /\ \A i \in S : InView(top, i)
    BY <1>0, <1>2, <2>1
  <2>3. ASSUME NEW i \in 0 .. Count - 1, i \notin S
        PROVE  chosen[array[i + 1]] = selected[array[i + 1]]
    <3>1. i # cur /\ array[i + 1] # item /\ i + 1 \in 1 .. Count /\ cur + 1 \in 1 .. Count
      BY <1>0, <2>3, ItemsDiffer
    <3>2. array[i + 1] \in Items /\ item \in Items /\ selected \in [Items -> BOOLEAN]
      BY <1>0, <3>1 DEF Stored
    <3>3. CASE "radio" \in opts
      <4>1. selected[array[i + 1]] = FALSE
        <5>1. ~selected[array[i + 1]]
          BY <2>3, <3>1, <3>3
        <5> QED
          BY <3>2, <5>1
      <4>2. array[i + 1] \in Range(array)
        BY <1>0, <3>1 DEF Range
      <4>3. Only(item)[array[i + 1]] = FALSE
        BY <3>1, <3>2, <4>2 DEF Only
      <4> QED
        BY <3>3, <4>1, <4>3
    <3>4. CASE "radio" \notin opts
      BY <3>1, <3>2, <3>4
    <3> QED
      BY <3>3, <3>4
  <2>4. PICK c, T : c = chosen /\ T = S
    OBVIOUS
  <2> HIDE DEF chosen, S
  <2>5. Pictures(win, top, Looks(Now))'
    <3>1. /\ T \subseteq 0 .. Count - 1 /\ \A i \in T : InView(top, i)
          /\ \A i \in 0 .. Count - 1 : i \in T \/ c[array[i + 1]] = selected[array[i + 1]]
          /\ selected' = c /\ win' = DrawItems(win, [Now EXCEPT !.selected = c], T)
      BY <2>1, <2>2, <2>3, <2>4
    <3> QED
      BY <1>0, <1>1, <3>1, MarksDrawn
  <2> QED
    BY <1>0, <2>1, <2>5, StepDraws
<1> QED
  BY <1>3, <1>4

\* Requests leave the window as it should be when their hooks have returned.
LEMMA RequestDraws ==
  ASSUME MenuInv, InSight, Drawing, "past" \notin Cases, "round" \notin Cases,
         "radio" \notin Cases, Request
  PROVE  Drawing'
<1>1. ASSUME NEW req \in Moves, Move(req) PROVE Drawing'
  BY <1>1, MoveDraws
<1>2. ASSUME ClearPattern \/ BackPattern PROVE Drawing'
  <2>1. /\ Driver /\ Accept(cur, top)
        /\ UNCHANGED <<layout, place, opts, posted, selected, win>>
    BY <1>2 DEF ClearPattern, BackPattern
  <2>2. cur \in 0 .. Count - 1 \cup {Nowhere}
    BY <2>1, DriverIs DEF Driver
  <2>3. Pictures(win, top, Looks(Now))'
    BY <2>1, StillShown
  <2> QED
    BY <2>1, <2>2, <2>3, StepDraws
<1>3. ASSUME NEW dir \in {"next", "prev"}, MatchAgain(dir) PROVE Drawing'
  <2>1. /\ Driver /\ Searched(dir, pat.text, pat.plen, pat)
        /\ UNCHANGED <<layout, place, opts, posted, selected, win>>
    BY <1>3 DEF MatchAgain
  <2> QED
    BY <2>1, SearchedDraws
<1>4. ASSUME NEW c \in Typed, Character(c) PROVE Drawing'
  <2>1. /\ Driver /\ UNCHANGED <<layout, place, opts, posted, selected, win>>
        /\ \/ Accept(cur, top)
           \/ \E text, plen, kept : Searched("here", text, plen, kept)
    BY <1>4, Zenon DEF Character
  <2>2. cur \in 0 .. Count - 1 \cup {Nowhere}
    BY <2>1, DriverIs DEF Driver
  <2>3. CASE Accept(cur, top)
    <3>1. Pictures(win, top, Looks(Now))'
      BY <2>1, StillShown
    <3> QED
      BY <2>1, <2>2, <2>3, <3>1, StepDraws
  <2>4. CASE \E text, plen, kept : Searched("here", text, plen, kept)
    BY <2>1, <2>4, SearchedDraws
  <2> QED
    BY <2>1, <2>3, <2>4
<1> QED
  BY <1>1, <1>2, <1>3, <1>4, ToggleDraws DEF Request

\* What _menui_redraw_menu draws for another current item.
LEMMA Redrawn ==
  ASSUME MenuInv, posted, NEW new \in 0 .. Count - 1, new # cur, NEW oldTop,
         NEW now, now = [Now EXCEPT !.cur = new],
         InView(top, new), Inside(form, rows, top),
         win.visible \in [0 .. Count - 1 -> BOOLEAN],
         oldTop = top => Pictures(win, top, Looks(Now)) /\ InView(top, cur)
  PROVE  Pictures(Redraw(now, oldTop, cur), top, Looks(now))
<1>0. /\ array # <<>> /\ Attached /\ IsWindow(win) /\ cur \in 0 .. Count - 1 /\ top \in Nat
      /\ rows \in Nat /\ ItemRows(form) \in Nat /\ links[new].row \in 0 .. ItemRows(form) - 1
  BY DriverIs, LinksAre, InWindow
<1>1. /\ now.top = top /\ now.cur = new /\ now.selected = selected
      /\ Now.top = top /\ Now.cur = cur /\ Now.selected = selected
  BY DEF Now
<1>2. CASE top # oldTop
  <2>1. Redraw(now, oldTop, cur) = DrawMenu(Erased, now)
    BY <1>1, <1>2 DEF Redraw
  <2>2. now.top \in 0 .. ItemRows(form) - 1
    BY <1>0, <1>1 DEF InView
  <2>3. PICK w : w = Erased /\ w.cells = EmptyCells /\ ~w.spilt /\ w.visible = win.visible
    BY <1>0, ErasedIn
  <2>4. Pictures(DrawMenu(w, now), now.top, Looks(now))
    <3>1. /\ Inside(form, rows, now.top) /\ w.cells = EmptyCells /\ ~w.spilt
          /\ w.visible \in [0 .. Count - 1 -> BOOLEAN]
      BY <1>1, <2>3
    <3> QED
      BY <1>0, <2>2, <3>1, MenuDrawn
  <2> QED
    BY <1>1, <2>1, <2>3, <2>4
<1>3. CASE top = oldTop
  <2>1. Redraw(now, oldTop, cur) = DrawItems(DrawItems(win, now, {cur}), now, {new})
    BY <1>1, <1>3 DEF Redraw, DrawItem
  <2>2. PICK old, v : old = Looks(Now) /\ v = win
    OBVIOUS
  <2>3. Pictures(v, now.top, old) /\ now.top \in Nat
    BY <1>0, <1>1, <1>3, <2>2
  <2>a. PICK S, T : S = {cur} /\ T = {new}
    OBVIOUS
  <2>4. PICK half, mid :
          /\ half = DrawItems(v, now, S)
          /\ mid = [i \in 0 .. Count - 1 |-> IF i \in S THEN Face(now, i) ELSE old[i]]
    OBVIOUS
  <2>5. Pictures(half, now.top, mid)
    <3>1. S \subseteq 0 .. Count - 1 /\ \A i \in S : InView(now.top, i)
      BY <1>0, <1>1, <1>3, <2>a
    <3>2. \A i \in 0 .. Count - 1 : mid[i] = IF i \in S THEN Face(now, i) ELSE old[i]
      BY <2>4
    <3>3. Pictures(DrawItems(v, now, S), now.top, mid)
      BY <1>0, <2>3, <3>1, <3>2, ItemsDrawn
    <3> QED
      BY <2>4, <3>3
  <2>6. PICK look :
          look = [i \in 0 .. Count - 1 |-> IF i \in T THEN Face(now, i) ELSE mid[i]]
    OBVIOUS
  <2>7. Pictures(DrawItems(half, now, T), now.top, look)
    <3>1. T \subseteq 0 .. Count - 1 /\ \A i \in T : InView(now.top, i)
      BY <1>1, <2>a
    <3>2. \A i \in 0 .. Count - 1 : look[i] = IF i \in T THEN Face(now, i) ELSE mid[i]
      BY <2>6
    <3> QED
      BY <1>0, <2>3, <2>5, <3>1, <3>2, ItemsDrawn
  <2>8. look = Looks(now)
    <3>1. ASSUME NEW i \in 0 .. Count - 1, i # cur, i # new PROVE Face(Now, i) = Face(now, i)
      BY <1>1, <3>1 DEF Face
    <3> QED
      BY <2>2, <2>4, <2>6, <2>a, <3>1 DEF Looks
  <2> QED
    BY <1>1, <2>1, <2>2, <2>4, <2>7, <2>8, <2>a
<1> QED
  BY <1>2, <1>3

\* The record of a call that goes on to its next hook.
LEMMA FrameGoes ==
  ASSUME NEW f \in Frames, NEW step
  PROVE  /\ [f EXCEPT !.at = step].at = step /\ [f EXCEPT !.at = step].new = f.new
         /\ [f EXCEPT !.at = step].newTop = f.newTop /\ [f EXCEPT !.at = step].oldTop = f.oldTop
         /\ [f EXCEPT !.at = step].oldCur = f.oldCur
  BY DEF Frames

\* What is known of a request when one of its hooks returns, and of the call
\* when the next hook is called.
LEMMA HookIs ==
  ASSUME MenuInv, Drawing, NEW step \in Moving, At(step)
  PROVE  LET f == stack[Len(stack)]
         IN  /\ posted /\ array # <<>> /\ Attached /\ Hooked /\ stack # <<>>
             /\ f \in Frames /\ f.at = step /\ Last(stack) = f
             /\ Scrolls(f) /\ InView(f.newTop, f.new) /\ f.new \in 0 .. Count - 1
             /\ step \in {"menu_init", "item_term", "item_init", "top_init"} => top = f.newTop
             /\ step \in {"item_init", "top_init"} => cur = f.new
             /\ win.visible \in [0 .. Count - 1 -> BOOLEAN]
             /\ Stale <=> step \in Starting /\ f.newTop # f.oldTop
<1>1. PICK f : f = stack[Len(stack)]
  OBVIOUS
<1>2. /\ stack # <<>> /\ f.at = step /\ f \in Frames /\ Last(stack) = f
      /\ \A steps : InHook(steps) <=> step \in steps
  BY <1>1, AtIs
<1>3. InHook(Moving) /\ (InHook(Starting) <=> step \in Starting)
  BY <1>2
<1>4. posted /\ array # <<>> /\ Attached /\ Hooked /\ Count \in Nat
  <2>1. posted
    BY <1>3 DEF MenuInv, Hooked
  <2> QED
    BY <2>1, DriverIs
<1>5. /\ f.new < Count /\ InView(f.newTop, f.new)
      /\ f.at \in {"menu_init", "item_term", "item_init", "top_init"} => top = f.newTop
      /\ f.at \in {"item_init", "top_init"} => cur = f.new
  BY <1>1, <1>3, <1>4 DEF Hooked
<1>6. f.new \in 0 .. Count - 1
  BY <1>2, <1>4, <1>5 DEF Frames
<1>7. Scrolls(f) /\ win.visible \in [0 .. Count - 1 -> BOOLEAN]
  BY <1>1, <1>3, <1>4 DEF Drawing
<1>8. Stale <=> step \in Starting /\ f.newTop # f.oldTop
  BY <1>1, <1>3 DEF Stale
<1> QED
  BY <1>1, <1>2, <1>4, <1>5, <1>6, <1>7, <1>8

LEMMA TermReturnsDraws ==
  ASSUME MenuInv, Drawing, TermReturns
  PROVE  Drawing'
<1>0. /\ At("menu_term") /\ Goes("menu_init") /\ top' = Last(stack).newTop
      /\ UNCHANGED <<array, form, rows, cols, opts, cur, posted, selected, win>>
  BY DEF TermReturns, layout
<1>1. PICK f : f = stack[Len(stack)]
  OBVIOUS
<1>2. /\ posted /\ array # <<>> /\ Hooked /\ stack # <<>> /\ f \in Frames /\ f.at = "menu_term"
      /\ Last(stack) = f /\ Scrolls(f) /\ win.visible \in [0 .. Count - 1 -> BOOLEAN]
      /\ Stale <=> f.newTop # f.oldTop
  BY <1>0, <1>1, HookIs DEF Moving, Starting
<1>3. PICK g : g = [f EXCEPT !.at = "menu_init"]
  OBVIOUS
<1>4. /\ g.at = "menu_init" /\ g.new = f.new /\ g.newTop = f.newTop /\ g.oldTop = f.oldTop
      /\ g.oldCur = f.oldCur
  BY <1>2, <1>3, FrameGoes
<1>5. stack'[Len(stack')] = g /\ \A steps : InHook(steps)' <=> "menu_init" \in steps
  BY <1>0, <1>1, <1>2, <1>3, Advanced DEF Moving
<1>6. InHook(Moving)' /\ InHook(Starting)'
  BY <1>5 DEF Moving, Starting
<1>7. Scrolls(g)'
  BY <1>0, <1>2, <1>4 DEF Scrolls, Inside, InView, links, Starting
<1>8. ASSUME ~Stale' PROVE Pictures(win, top, Looks(Now))'
  <2>1. f.newTop = f.oldTop
    BY <1>4, <1>5, <1>6, <1>8 DEF Stale
  <2>2. top' = top /\ ~Stale
    BY <1>0, <1>2, <2>1 DEF Scrolls
  <2>3. Pictures(win, top, Looks(Now))
    BY <1>2, <2>2 DEF Drawing
  <2> QED
    BY <1>0, <2>2, <2>3, SamePictures
<1> QED
  BY <1>0, <1>2, <1>5, <1>6, <1>7, <1>8 DEF Drawing, Count

LEMMA InitReturnsDraws ==
  ASSUME MenuInv, Drawing, InitReturns
  PROVE  Drawing'
<1>0. /\ At("menu_init")
      /\ UNCHANGED <<array, form, rows, cols, opts, cur, top, posted, selected, win>>
  BY DEF InitReturns, layout, place
<1>1. PICK f : f = stack[Len(stack)]
  OBVIOUS
<1>2. /\ posted /\ array # <<>> /\ Hooked /\ stack # <<>> /\ f \in Frames /\ f.at = "menu_init"
      /\ Last(stack) = f /\ Scrolls(f) /\ win.visible \in [0 .. Count - 1 -> BOOLEAN]
      /\ Stale <=> f.newTop # f.oldTop
  BY <1>0, <1>1, HookIs DEF Moving, Starting
<1>3. cur # f.new
  BY <1>2 DEF Scrolls, Starting
<1>a. Goes("item_term")
  BY <1>2, <1>3 DEF InitReturns
<1>b. PICK g : g = [f EXCEPT !.at = "item_term"]
  OBVIOUS
<1>4. /\ g.at = "item_term" /\ g.new = f.new /\ g.newTop = f.newTop /\ g.oldTop = f.oldTop
      /\ g.oldCur = f.oldCur
  BY <1>2, <1>b, FrameGoes
<1>5. stack'[Len(stack')] = g /\ \A steps : InHook(steps)' <=> "item_term" \in steps
  BY <1>1, <1>2, <1>a, <1>b, Advanced DEF Moving
<1>6. InHook(Moving)' /\ InHook(Starting)'
  BY <1>5 DEF Moving, Starting
<1>7. Scrolls(g)'
  BY <1>0, <1>2, <1>4 DEF Scrolls, Inside, InView, links, Starting
<1>8. ASSUME ~Stale' PROVE Pictures(win, top, Looks(Now))'
  <2>1. ~Stale
    BY <1>2, <1>4, <1>5, <1>6, <1>8 DEF Stale
  <2>2. Pictures(win, top, Looks(Now))
    BY <1>2, <2>1 DEF Drawing
  <2> QED
    BY <1>0, <2>2, SamePictures
<1> QED
  BY <1>0, <1>2, <1>5, <1>6, <1>7, <1>8 DEF Drawing, Count

LEMMA ItemTermReturnsDraws ==
  ASSUME MenuInv, Drawing, ItemTermReturns
  PROVE  Drawing'
<1>0. /\ At("item_term") /\ Goes("item_init")
      /\ cur' = Last(stack).new
      /\ win' = Redraw([Now EXCEPT !.cur = Last(stack).new], Last(stack).oldTop, Last(stack).oldCur)
      /\ UNCHANGED <<array, form, rows, cols, opts, top, posted, selected>>
  BY DEF ItemTermReturns, layout
<1>1. PICK f : f = stack[Len(stack)]
  OBVIOUS
<1>2. /\ posted /\ array # <<>> /\ Hooked /\ stack # <<>> /\ f \in Frames /\ f.at = "item_term"
      /\ Last(stack) = f /\ Scrolls(f) /\ win.visible \in [0 .. Count - 1 -> BOOLEAN]
      /\ f.new \in 0 .. Count - 1 /\ InView(f.newTop, f.new) /\ top = f.newTop
      /\ Stale <=> f.newTop # f.oldTop
  BY <1>0, <1>1, HookIs DEF Moving, Starting
<1>3. PICK g : g = [f EXCEPT !.at = "item_init"]
  OBVIOUS
<1>4. /\ g.at = "item_init" /\ g.new = f.new /\ g.newTop = f.newTop
  BY <1>2, <1>3, FrameGoes
<1>5. stack'[Len(stack')] = g /\ \A steps : InHook(steps)' <=> "item_init" \in steps
  BY <1>0, <1>1, <1>2, <1>3, Advanced DEF Moving
<1>6. InHook(Moving)'
  BY <1>5 DEF Moving
<1>7. Scrolls(g)'
  BY <1>0, <1>2, <1>4 DEF Scrolls, Inside, Starting
<1>8. cur = f.oldCur /\ f.new # cur /\ InView(f.oldTop, cur) /\ Inside(form, rows, top)
  BY <1>2 DEF Scrolls, Starting
<1>9. PICK now : now = [Now EXCEPT !.cur = f.new]
  OBVIOUS
<1>10. PICK w : w = Redraw(now, f.oldTop, cur) /\ w = win'
  BY <1>0, <1>2, <1>8, <1>9
<1>11. Pictures(w, top, Looks(now))
  <2>1. f.oldTop = top => Pictures(win, top, Looks(Now)) /\ InView(top, cur)
    BY <1>2, <1>8 DEF Drawing
  <2>2. InView(top, f.new)
    BY <1>2
  <2> QED
    BY <1>2, <1>8, <1>9, <1>10, <2>1, <2>2, Redrawn
<1>12. now = [top |-> top', cur |-> cur', selected |-> selected'] /\ now.top = top
  BY <1>0, <1>2, <1>9 DEF Now
<1>13. Pictures(win, top, Looks(Now))'
  BY <1>0, <1>10, <1>11, <1>12, PicturesNext
<1>14. (win.visible \in [0 .. Count - 1 -> BOOLEAN])'
  BY <1>13 DEF Pictures
<1> QED
  BY <1>0, <1>2, <1>5, <1>6, <1>7, <1>13, <1>14 DEF Drawing

LEMMA TopTermReturnsDraws ==
  ASSUME MenuInv, Drawing, TopTermReturns
  PROVE  Drawing'
<1>0. /\ At("top_term") /\ Goes("top_init")
      /\ cur' = Last(stack).new /\ top' = Last(stack).newTop
      /\ UNCHANGED <<array, form, rows, cols, opts, posted, selected, win>>
  BY DEF TopTermReturns, layout
<1>1. PICK f : f = stack[Len(stack)]
  OBVIOUS
<1>2. /\ posted /\ array # <<>> /\ Hooked /\ stack # <<>> /\ f \in Frames /\ f.at = "top_term"
      /\ Last(stack) = f /\ Scrolls(f) /\ win.visible \in [0 .. Count - 1 -> BOOLEAN]
      /\ ~Stale
  BY <1>0, <1>1, HookIs DEF Moving, Starting
<1>3. PICK g : g = [f EXCEPT !.at = "top_init"]
  OBVIOUS
<1>4. /\ g.at = "top_init" /\ g.new = f.new /\ g.newTop = f.newTop
  BY <1>2, <1>3, FrameGoes
<1>5. stack'[Len(stack')] = g /\ \A steps : InHook(steps)' <=> "top_init" \in steps
  BY <1>0, <1>1, <1>2, <1>3, Advanced DEF Moving
<1>6. InHook(Moving)'
  BY <1>5 DEF Moving
<1>7. cur' = cur /\ top' = top
  BY <1>0, <1>2 DEF Scrolls
<1>8. Scrolls(g)'
  BY <1>0, <1>2, <1>4, <1>7 DEF Scrolls, Inside, Starting
<1>9. Pictures(win, top, Looks(Now))'
  BY <1>0, <1>2, <1>7, SamePictures DEF Drawing
<1> QED
  BY <1>0, <1>2, <1>5, <1>6, <1>8, <1>9 DEF Drawing, Count

LEMMA LastHookDraws ==
  ASSUME MenuInv, Drawing, ItemInitReturns \/ TopInitReturns
  PROVE  Drawing'
<1>1. PICK step \in {"item_init", "top_init"} : At(step) /\ Returns
        /\ UNCHANGED <<array, form, rows, cols, opts, cur, top, posted, selected, win>>
  BY DEF ItemInitReturns, TopInitReturns, layout, place
<1>2. PICK f : f = stack[Len(stack)]
  OBVIOUS
<1>3. Hooked /\ stack # <<>> /\ Scrolls(f) /\ top = f.newTop /\ ~Stale
  BY <1>1, <1>2, HookIs DEF Moving, Starting
<1>4. ~InHook(Moving)'
  <2>1. stack' = Front(stack)
    BY <1>1 DEF Returns
  <2> QED
    BY <1>3, <2>1, Popped DEF Moving
<1>5. Inside(form, rows, top)
  BY <1>3 DEF Scrolls
<1> QED
  BY <1>1, <1>3, <1>4, <1>5, DrawingQuiet

-----------------------------------------------------------------------------
(* Posting and setting up draw what they should *)

\* A menu that is not posted, with a window without items.
LEMMA DrawingBlank ==
  ASSUME ~posted', ~InHook(Moving)', win'.cells = EmptyCells, ~win'.spilt,
         (array # <<>> => /\ win.visible \in [0 .. Count - 1 -> BOOLEAN]
                          /\ Inside(form, rows, top))'
  PROVE  Drawing'
<1>1. EmptyCells' = EmptyCells
  BY DEF EmptyCells
<1> QED
  BY <1>1 DEF Drawing

\* The hooks of post_menu and unpost_menu come first.
LEMMA PostDraws ==
  ASSUME MenuInv, Drawing, Post \/ Unpost
  PROVE  Drawing'
<1>1. PICK step \in {"post", "unpost"} :
        /\ ~inInit /\ stack' = Append(stack, Frame(step, cur, top))
        /\ UNCHANGED <<array, form, rows, cols, opts, cur, top, posted, selected, win>>
  BY DEF Post, Unpost, layout, place
<1>2. PICK f \in Frames : f = Frame(step, cur, top) /\ f.at = step
  <2>1. step \in Moving \cup {"post", "unpost"} /\ Stored /\ cur \in Nat /\ top \in Nat
    BY DEF MenuInv, Stored
  <2>2. Frame(step, cur, top) \in Frames /\ Frame(step, cur, top).at = step
    BY ONLY <2>1, FrameIn
  <2> QED
    BY <2>2
<1>3. \A steps : InHook(steps)' <=> step \in steps
  BY <1>1, <1>2, Pushed DEF MenuInv
<1>4. ~InHook(Moving)'
  BY <1>3 DEF Moving
<1>5. (array # <<>> => Inside(form, rows, top)) /\ ~Stale
  BY <1>1, QuietWindow
<1> QED
  BY <1>1, <1>4, <1>5, DrawingQuiet

\* post_menu draws the menu if it fits.
LEMMA PostReturnsDraws ==
  ASSUME MenuInv, InSight, Drawing, PostReturns
  PROVE  Drawing'
<1>1. PICK chosen : chosen = IF "radio" \in opts THEN selected
                             ELSE [i \in Items |-> selected[i] /\ i \notin Range(array)]
  OBVIOUS
<1>2. /\ At("post") /\ Returns /\ posted' = Fits
      /\ IF Fits THEN /\ selected' = chosen
                      /\ win' = DrawMenu(win, [Now EXCEPT !.selected = chosen])
         ELSE UNCHANGED <<selected, win>>
      /\ UNCHANGED <<array, form, rows, cols, opts, cur, top>>
  BY <1>1 DEF PostReturns, layout, place
<1>3. stack # <<>> /\ Hooked /\ ~posted /\ array # <<>>
  <2>1. stack # <<>> /\ InHook({"post"}) /\ Hooked
    BY <1>2, AtIs DEF MenuInv
  <2> QED
    BY <2>1 DEF Hooked
<1>4. ~InHook(Moving)'
  BY <1>2, <1>3, Popped DEF Returns, Moving
<1>5. /\ ~InHook(Moving) /\ Inside(form, rows, top)
      /\ win.visible \in [0 .. Count - 1 -> BOOLEAN]
      /\ win.cells = EmptyCells /\ ~win.spilt
  BY <1>3, QuietWindow DEF Drawing
<1>6. CASE Fits
  <2>1. PICK now : now = [Now EXCEPT !.selected = chosen]
    OBVIOUS
  <2>2. now = [top |-> top', cur |-> cur', selected |-> selected'] /\ now.top = top
    BY <1>2, <1>6, <2>1 DEF Now
  <2>3. top \in 0 .. ItemRows(form) - 1
    <3>1. InView(top, cur)
      BY <1>3, <1>5 DEF InSight
    <3>2. cur \in 0 .. Count - 1 /\ top \in Nat /\ Attached
      BY <1>3, LinksAre DEF MenuInv, Stored
    <3>3. links[cur].row \in 0 .. ItemRows(form) - 1 /\ ItemRows(form) \in Nat
      BY <1>3, <3>2, LinksAre
    <3> QED
      BY <3>1, <3>2, <3>3 DEF InView
  <2>4. PICK w : w = DrawMenu(win, now) /\ w = win'
    BY <1>2, <1>6, <2>1
  <2>5. Pictures(w, now.top, Looks(now))
    <3>1. PICK v : v = win
      OBVIOUS
    <3>2. Pictures(DrawMenu(v, now), now.top, Looks(now))
      BY <1>3, <1>5, <2>2, <2>3, <3>1, MenuDrawn DEF MenuInv
    <3> QED
      BY <2>4, <3>1, <3>2
  <2>6. Pictures(win, top, Looks(Now))'
    BY <1>2, <2>2, <2>4, <2>5, PicturesNext
  <2>7. (win.visible \in [0 .. Count - 1 -> BOOLEAN])'
    BY <2>6 DEF Pictures
  <2>8. Inside(form, rows, top)' /\ posted'
    BY <1>2, <1>5, <1>6 DEF Inside
  <2> QED
    BY <1>4, <2>6, <2>7, <2>8 DEF Drawing
<1>7. CASE ~Fits
  BY <1>2, <1>4, <1>5, <1>7, DrawingBlank DEF Inside, Count
<1> QED
  BY <1>6, <1>7

\* unpost_menu erases the window.
LEMMA UnpostReturnsDraws ==
  ASSUME MenuInv, Drawing, UnpostReturns
  PROVE  Drawing'
<1>1. /\ At("unpost") /\ Returns /\ posted' = FALSE /\ win' = Erased
      /\ UNCHANGED <<array, form, rows, cols, opts, cur, top>>
  BY DEF UnpostReturns, layout, place
<1>2. stack # <<>> /\ ~InHook(Moving \cup {"post"}) /\ Hooked /\ ~InHook(Moving)
  BY <1>1, AtIs DEF MenuInv, Moving
<1>3. ~InHook(Moving)'
  BY <1>1, <1>2, Popped DEF Returns, Moving
<1>4. win'.cells = EmptyCells /\ ~win'.spilt /\ win'.visible = win.visible
  BY <1>1, ErasedIn DEF MenuInv
<1>5. array # <<>> => /\ win.visible \in [0 .. Count - 1 -> BOOLEAN]
                      /\ Inside(form, rows, top)
  BY <1>2 DEF Drawing
<1> QED
  BY <1>1, <1>3, <1>4, <1>5, DrawingBlank DEF Inside, Count

\* A hook that returns.
LEMMA HookDraws ==
  ASSUME MenuInv, InSight, Drawing, Hook
  PROVE  Drawing'
  BY TermReturnsDraws, InitReturnsDraws, ItemTermReturnsDraws, TopTermReturnsDraws,
     LastHookDraws, PostReturnsDraws, UnpostReturnsDraws DEF Hook

\* A menu that is not posted is set up.
LEMMA SetUpBlank ==
  ASSUME MenuInv, Drawing, ~posted, UNCHANGED <<array, posted, win, stack>>,
         array # <<>> => Inside(form, rows, top)'
  PROVE  Drawing'
<1>1. ~InHook(Moving)
  BY Quiet DEF MenuInv
<1>2. ~InHook(Moving)'
  BY <1>1 DEF InHook
<1>3. /\ array # <<>> => win.visible \in [0 .. Count - 1 -> BOOLEAN]
      /\ win.cells = EmptyCells /\ ~win.spilt
  BY DEF Drawing
<1> QED
  BY <1>2, <1>3, DrawingBlank DEF Count

LEMMA SetItemsDraws ==
  ASSUME MenuInv, Drawing, NEW a \in Arrays, SetItems(a)
  PROVE  Drawing'
<1>1. /\ ~posted /\ ~posted' /\ array' = a /\ top' = 0
      /\ win' = [win EXCEPT !.visible = [i \in 0 .. Len(a) - 1 |-> FALSE]]
      /\ stack' = stack
  BY DEF SetItems, FirstPlace, MenuInv
<1>2. ~InHook(Moving)'
  <2>1. ~InHook(Moving)
    BY <1>1, Quiet DEF MenuInv
  <2> QED
    BY <1>1, <2>1 DEF InHook
<1>3. PICK n : n = [i \in 0 .. Len(a) - 1 |-> FALSE]
  OBVIOUS
<1>4. win' = [cells |-> win.cells, spilt |-> win.spilt, visible |-> n]
  BY <1>1, <1>3, NewVisible DEF MenuInv
<1>5. win.cells = EmptyCells /\ ~win.spilt
  BY <1>1 DEF Drawing
<1>6. win'.cells = EmptyCells /\ ~win'.spilt /\ win'.visible = n
  BY <1>4, <1>5
<1>7. n \in [0 .. Len(a) - 1 -> BOOLEAN]
  BY <1>3
<1>8. (array # <<>> => /\ win.visible \in [0 .. Count - 1 -> BOOLEAN]
                       /\ Inside(form, rows, top))'
  BY <1>1, <1>6, <1>7 DEF Inside, Count
<1> QED
  BY <1>1, <1>2, <1>6, <1>8, DrawingBlank

LEMMA SetFormatDraws ==
  ASSUME MenuInv, Drawing, "unused" \notin Cases, "place" \notin Cases,
         NEW f \in Formats, SetFormat(f[1], f[2])
  PROVE  Drawing'
<1>1. /\ posted => f[1] = rows /\ f[2] = cols
      /\ array # <<>> =>
           LET g == FormOf(array, f[2], opts)
           IN  Usual(g) /\ Shows(g, LinksOf[g], f[1], top, cur)
      /\ rows' = f[1] /\ cols' = f[2] /\ Stitch(array, f[2], opts)
      /\ UNCHANGED <<array, cur, top, opts, posted, selected, win, stack>>
  BY DEF SetFormat, place
<1>2. CASE posted
  <2>1. UNCHANGED <<array, form, rows, cols, opts, cur, top, posted, selected, win, stack>>
    BY <1>1, <1>2 DEF Stitch
  <2> QED
    BY <2>1, DrawingSame
<1>3. CASE ~posted
  <2>1. ASSUME array # <<>> PROVE Inside(form, rows, top)'
    <3>1. array \in Arrays /\ f[2] \in {x[2] : x \in Formats}
      BY <2>1 DEF MenuInv, Attached
    <3>2. form' = FormOf(array, f[2], opts)
      BY <1>1, <1>3, <2>1, <3>1, Stitched
    <3>3. Inside(form', f[1], top)
      BY <1>1, <2>1, <3>2 DEF Shows
    <3> QED
      BY <1>1, <3>3 DEF Inside
  <2> QED
    BY <1>1, <1>3, <2>1, SetUpBlank
<1> QED
  BY <1>2, <1>3

LEMMA SetOptsDraws ==
  ASSUME MenuInv, Drawing, "unused" \notin Cases, "place" \notin Cases,
         NEW o \in Options, SetOpts(o)
  PROVE  Drawing'
<1>1. /\ ~posted
      /\ array # <<>> =>
           LET g == FormOf(array, cols, o)
           IN  Usual(g) /\ Shows(g, LinksOf[g], rows, top, cur)
      /\ form' = form \/ Stitch(array, cols, o)
      /\ UNCHANGED <<array, rows, top, posted, win, stack>>
  BY DEF SetOpts, place
<1>2. ASSUME array # <<>> PROVE Inside(form, rows, top)'
  <2>1. CASE form' = form
    <3>1. Inside(form, rows, top)
      BY <1>1, <1>2, QuietWindow
    <3> QED
      BY <1>1, <2>1, <3>1 DEF Inside
  <2>2. CASE Stitch(array, cols, o)
    <3>1. array \in Arrays /\ cols \in {x[2] : x \in Formats}
      BY <1>2 DEF MenuInv, Attached
    <3>2. form' = FormOf(array, cols, o)
      BY <1>1, <1>2, <2>2, <3>1, Stitched
    <3>3. Inside(form', rows, top)
      BY <1>1, <1>2, <3>2 DEF Shows
    <3> QED
      BY <1>1, <3>3 DEF Inside
  <2> QED
    BY <1>1, <2>1, <2>2
<1> QED
  BY <1>1, <1>2, SetUpBlank

\* set_menu_pattern and set_current_item
LEMMA PlaceDraws ==
  ASSUME MenuInv, Drawing,
         (\E p \in Patterns : SetPattern(p)) \/ (\E i \in 0 .. Count - 1 : SetCurrent(i))
  PROVE  Drawing'
<1>1. array # <<>> /\ UNCHANGED <<array, form, rows, cols, opts, top, posted, selected, win, stack>>
  BY DEF SetPattern, SetCurrent, layout
<1>2. CASE posted
  <2>1. cur' = cur
    <3>1. cur >= 0
      BY <1>2, DriverIs
    <3>2. ASSUME NEW p \in Patterns, SetPattern(p) PROVE cur' = cur
      <4>1. PICK f : /\ cur' = IF f >= 0 THEN f ELSE cur
                     /\ posted => f \in {cur, Nowhere}
        BY <3>2 DEF SetPattern
      <4> QED
        BY <1>2, <3>1, <4>1 DEF Nowhere
    <3> QED
      BY <1>2, <3>2 DEF SetCurrent
  <2> QED
    BY <1>1, <2>1, DrawingSame
<1>3. CASE ~posted
  <2>1. Inside(form, rows, top)
    BY <1>1, <1>3, QuietWindow
  <2>2. Inside(form, rows, top)'
    BY <1>1, <2>1 DEF Inside
  <2> QED
    BY <1>1, <1>3, <2>2, SetUpBlank
<1> QED
  BY <1>2, <1>3

LEMMA SetTopRowDraws ==
  ASSUME MenuInv, Drawing, NEW row \in 0 .. ItemRows(form) - 1, SetTopRow(row)
  PROVE  Drawing'
<1>1. /\ ~inInit /\ array # <<>> /\ Inside(form, rows, row)
      /\ posted => row = top /\ FirstOf(row) = cur
      /\ \/ /\ posted
            /\ stack' = Append(stack, Frame("top_term", FirstOf(row), row))
            /\ UNCHANGED <<cur, top>>
         \/ ~posted /\ top' = row /\ UNCHANGED stack
      /\ UNCHANGED <<array, form, rows, cols, opts, posted, selected, win>>
  BY DEF SetTopRow, layout, place
<1>2. CASE posted
  <2>1. /\ cur \in Nat /\ top \in Nat /\ Stored /\ Hooked
        /\ row = top /\ FirstOf(row) = cur /\ UNCHANGED <<cur, top>>
    BY <1>1, <1>2, DriverIs
  <2>2. PICK f : f = Frame("top_term", cur, top)
    OBVIOUS
  <2>3. "top_term" \in Moving \cup {"post", "unpost"}
    BY DEF Moving
  <2>4. f \in Frames /\ f.at = "top_term" /\ f.new = cur /\ f.newTop = top
    BY ONLY <2>1, <2>2, <2>3, FrameIn
  <2>5. stack' = Append(stack, f)
    BY <1>1, <1>2, <2>1, <2>2
  <2>6. stack'[Len(stack')] = f /\ \A steps : InHook(steps)' <=> f.at \in steps
    BY <1>1, <2>1, <2>4, <2>5, Pushed
  <2>7. InHook(Moving)' /\ ~InHook(Starting)'
    BY <2>4, <2>6 DEF Moving, Starting
  <2>8. Scrolls(f)'
    BY <1>1, <2>1, <2>4 DEF Scrolls, Inside, Starting
  <2>9. Pictures(win, top, Looks(Now))
    BY <1>1, <1>2, QuietWindow
  <2>10. Pictures(win, top, Looks(Now))'
    BY <1>1, <2>1, <2>9, SamePictures
  <2>11. (win.visible \in [0 .. Count - 1 -> BOOLEAN])'
    BY <2>10 DEF Pictures
  <2> QED
    BY <1>1, <1>2, <2>6, <2>7, <2>8, <2>10, <2>11 DEF Drawing
<1>3. CASE ~posted
  <2>1. Inside(form, rows, top)'
    BY <1>1, <1>3 DEF Inside
  <2> QED
    BY <1>1, <1>3, <2>1, SetUpBlank
<1> QED
  BY <1>2, <1>3

LEMMA SetValueDraws ==
  ASSUME MenuInv, Drawing, "place" \notin Cases,
         NEW i \in 0 .. Count - 1, NEW on \in BOOLEAN, SetValue(i, on)
  PROVE  Drawing'
<1>1. /\ posted /\ InView(top, i) /\ selected' = [selected EXCEPT ![array[i + 1]] = on]
      /\ win' = DrawItem(win, [Now EXCEPT !.selected = selected'], i)
      /\ UNCHANGED <<array, form, rows, cols, opts, cur, top, posted, stack>>
      /\ UNCHANGED <<layout, place>>
  BY DEF SetValue, layout, place
<1>2. /\ Attached /\ Stored /\ array # <<>> /\ array \in [1 .. Count -> Items]
      /\ Count \in Nat /\ top \in Nat
  BY <1>1, DriverIs
<1>3. PICK chosen, S : chosen = [selected EXCEPT ![array[i + 1]] = on] /\ S = {i}
  OBVIOUS
<1>4. PICK now : now = [Now EXCEPT !.selected = chosen]
  OBVIOUS
<1>a. now.top = top
  BY <1>4 DEF Now
<1>5. selected' = chosen /\ win' = DrawItems(win, now, S)
  BY <1>1, <1>3, <1>4 DEF DrawItem
<1>6. S \subseteq 0 .. Count - 1 /\ \A k \in S : InView(top, k)
  BY <1>1, <1>3
<1>7. win.visible \in [0 .. Count - 1 -> BOOLEAN]
  BY <1>2 DEF Drawing
<1>8. win'.visible \in [0 .. Count - 1 -> BOOLEAN]
  <2>1. PICK d, v : d = DrawItems(v, now, S) /\ v = win /\ d = win'
    BY <1>5
  <2>2. ItemsOn(DrawItems(v, now, S), v, now, now.top, S)
    BY <1>2, <1>a, <1>6, DrawItemsIs
  <2>3. d.visible = [k \in DOMAIN v.visible |-> v.visible[k] \/ k \in S]
    BY <2>1, <2>2 DEF ItemsOn
  <2>4. d.visible \in [0 .. Count - 1 -> BOOLEAN]
    BY <1>7, <2>1, <2>3
  <2> QED
    BY <2>1, <2>4
<1>9. ASSUME ~Stale PROVE Pictures(win, top, Looks(Now))'
  <2>1. Pictures(win, top, Looks(Now))
    BY <1>1, <1>9 DEF Drawing
  <2>2. ASSUME NEW k \in 0 .. Count - 1 PROVE k \in S \/ chosen[array[k + 1]] = selected[array[k + 1]]
    <3>1. CASE k = i
      BY <1>3, <3>1
    <3>2. CASE k # i
      <4>1. array[k + 1] # array[i + 1]
        BY <1>2, <3>2, ItemsDiffer
      <4>2. array[k + 1] \in Items /\ selected \in [Items -> BOOLEAN]
        BY <1>2 DEF Stored
      <4> QED
        BY <1>3, <4>1, <4>2
    <3> QED
      BY <3>1, <3>2
  <2>3. win' = DrawItems(win, [Now EXCEPT !.selected = chosen], S) /\ opts' = opts
    BY <1>1, <1>4, <1>5
  <2> QED
    BY <1>1, <1>5, <1>6, <2>1, <2>2, <2>3, MarksDrawn
<1>10. /\ InHook(Moving)' = InHook(Moving) /\ Stale' = Stale
       /\ Scrolls(stack[Len(stack)])' = Scrolls(stack[Len(stack)])
       /\ Count' = Count /\ Inside(form, rows, top)' = Inside(form, rows, top)
  BY <1>1 DEF InHook, Stale, Scrolls, Inside, InView, links, Count
<1> QED
  BY <1>1, <1>8, <1>9, <1>10 DEF Drawing

\* The calls that set a menu up.
LEMMA SetUpDraws ==
  ASSUME MenuInv, Drawing, "unused" \notin Cases, "place" \notin Cases, SetUp
  PROVE  Drawing'
<1>1. ASSUME NEW a \in Arrays, SetItems(a) PROVE Drawing'
  BY <1>1, SetItemsDraws
<1>2. ASSUME NEW f \in Formats, SetFormat(f[1], f[2]) PROVE Drawing'
  BY <1>2, SetFormatDraws
<1>3. ASSUME NEW o \in Options, SetOpts(o) PROVE Drawing'
  BY <1>3, SetOptsDraws
<1>4. ASSUME NEW row \in 0 .. ItemRows(form) - 1, SetTopRow(row) PROVE Drawing'
  BY <1>4, SetTopRowDraws
<1>5. ASSUME NEW i \in 0 .. Count - 1, NEW on \in BOOLEAN, SetValue(i, on) PROVE Drawing'
  BY <1>5, SetValueDraws
<1> QED
  BY <1>1, <1>2, <1>3, <1>4, <1>5, PlaceDraws DEF SetUp

-----------------------------------------------------------------------------
(* The window of a posted menu *)

\* A window that needs no drawing is what the user should see.
LEMMA InvShown ==
  ASSUME MenuInv, InSight, Drawing
  PROVE  Shown
<1> SUFFICES ASSUME posted, ~inInit
             PROVE  /\ ~win.spilt
                    /\ InView(top, cur)
                    /\ \A y \in 0 .. rows - 1, x \in 0 .. cols - 1 :
                         win.cells[y][x] = ShouldShow(y, x)
                    /\ \A i \in 0 .. Count - 1 : win.visible[i] <=> InView(top, i)
  BY DEF Shown
<1>1. /\ Pictures(win, top, Looks(Now)) /\ ~InHook(Moving) /\ array # <<>> /\ top \in Nat
  BY QuietWindow, DriverIs
<1>2. InView(top, cur)
  BY <1>1 DEF InSight
<1>3. ASSUME NEW y \in 0 .. rows - 1, NEW x \in 0 .. cols - 1
      PROVE  win.cells[y][x] = ShouldShow(y, x)
  <2>1. PICK here : here = {i \in 0 .. Count - 1 : links[i].row = top + y /\ links[i].col = x}
    OBVIOUS
  <2>2. ShouldShow(y, x) = IF here = {} THEN Empty ELSE Face(Now, Least(here))
    BY <2>1 DEF ShouldShow
  <2>3. \A i \in 0 .. Count - 1 : i \in here <=> Stands(i, top, y, x)
    BY <2>1 DEF Stands
  <2>4. /\ \A i \in 0 .. Count - 1 : Stands(i, top, y, x) => win.cells[y][x] = Face(Now, i)
        /\ (\A i \in 0 .. Count - 1 : ~Stands(i, top, y, x)) => win.cells[y][x] = Empty
    BY <1>1 DEF Pictures, Looks
  <2>5. CASE here = {}
    BY <2>2, <2>3, <2>4, <2>5
  <2>6. CASE here # {}
    <3>1. here \subseteq Nat /\ here \subseteq 0 .. Count - 1
      BY <2>1
    <3>2. Least(here) \in here
      BY <2>6, <3>1, LeastIn
    <3> QED
      BY <2>2, <2>3, <2>4, <2>6, <3>1, <3>2
  <2> QED
    BY <2>5, <2>6
<1> QED
  BY <1>1, <1>2, <1>3 DEF Pictures

\* Between requests the window of a posted menu shows its rows, the highlight
\* and the marks (menu_driver, _menui_goto_item, _menui_draw_item, post_menu,
\* set_item_value), whatever hooks call.  The exceptions are the requests and
\* calls that Cases names: scrolling a menu filled by columns past its last row
\* or round a short column, an item made current outside the window, a radio
\* menu that deselects what the window does not show, and empty columns.
THEOREM MenuShown ==
  ASSUME "unused" \notin Cases, "place" \notin Cases, "past" \notin Cases,
         "round" \notin Cases, "radio" \notin Cases
  PROVE  Spec => []Shown
<1>1. Init => Drawing
  BY DEF Init, Drawing, InHook
<1>2. MenuInv /\ InSight /\ Drawing /\ [Next]_vars => Drawing'
  <2> SUFFICES ASSUME MenuInv, InSight, Drawing, [Next]_vars PROVE Drawing'
    OBVIOUS
  <2>1. CASE UNCHANGED vars
    BY <2>1, DrawingSame DEF vars
  <2> QED
    BY <2>1, RequestDraws, SetUpDraws, PostDraws, HookDraws DEF Next
<1>3. MenuInv /\ InSight /\ Drawing => Shown
  BY InvShown
<1> QED
  BY <1>1, <1>2, <1>3, MenuInvariant, CurrentInSight, PTL DEF Spec
=============================================================================
