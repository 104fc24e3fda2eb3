--------------------------- MODULE WinEditProofs ---------------------------
(***************************************************************************)
(* Nothing written to a window is lost, for any size of the screen and of  *)
(* the subwindow, any program and any number of edits.                     *)
(***************************************************************************)
EXTENDS WinEdit, FiniteSetTheorems, WellFoundedInduction, TLAPS

Lns(w) == 0 .. Area(w).h - 1
Cols(w) == 0 .. Area(w).v - 1

(***************************************************************************)
(* The parts of a state, each with its type.                               *)
(***************************************************************************)
Fields == {"text", "row", "subrow", "first", "last", "dirty", "forced", "cur", "clear", "region",
           "virt", "vflag", "vfirst", "vlast", "vcur", "vclear", "shown", "odd"}

Grid == [Rows -> [Columns -> Cells]]

\* The root's rows are its lines of storage in some order, and a subwindow has
\* those of the rows it is on.
Ordered(row, subrow) ==
  /\ row \in [Rows -> Rows] /\ subrow \in [Lns("sub") -> Rows]
  /\ \A y, z \in Rows : row[y] = row[z] => y = z
  /\ \A p \in Rows : \E y \in Rows : row[y] = p
  /\ flags.sub => \A z \in Lns("sub") : subrow[z] = row[z + SubArea.y]

Records(first, last) == first \in [Rows -> 0 .. V] /\ last \in [Rows -> 0 .. V]

Marked(f) == DOMAIN f = AllWindows /\ \A w \in AllWindows : f[w] \in [Lns(w) -> BOOLEAN]

Cursor(c, w) == DOMAIN c = 1 .. 2 /\ c[1] \in Lns(w) /\ c[2] \in Cols(w)
Cursors(cur) == DOMAIN cur = AllWindows /\ \A w \in AllWindows : Cursor(cur[w], w)

Clears(clear) == DOMAIN clear = AllWindows /\ \A w \in AllWindows : clear[w] \in BOOLEAN

Regions(region) ==
  \A w \in AllWindows : region[w][1] \in Lns(w) /\ region[w][2] \in Lns(w) /\ region[w][1] <= region[w][2]

\* What differs from the terminal is in the record of the virtual screen.
Virtual(virt, shown, vflag, vfirst, vlast, vclear) ==
  /\ virt \in Grid /\ shown \in Grid /\ vflag \in [Rows -> BOOLEAN] /\ vclear \in BOOLEAN
  /\ vfirst \in [Rows -> 0 .. V] /\ vlast \in [Rows -> 0 .. V]
  /\ \A y \in Rows, x \in Columns :
       virt[y][x] # shown[y][x] => vclear \/ (vflag[y] /\ x \in vfirst[y] .. vlast[y])

Sound(s) ==
  /\ DOMAIN s = Fields
  /\ s.text \in Grid
  /\ Ordered(s.row, s.subrow)
  /\ Records(s.first, s.last)
  /\ Marked(s.dirty) /\ Marked(s.forced)
  /\ Cursors(s.cur) /\ Clears(s.clear) /\ Regions(s.region)
  /\ Virtual(s.virt, s.shown, s.vflag, s.vfirst, s.vlast, s.vclear)
  /\ s.odd = {}

(***************************************************************************)
(* A change a refresh of the root would bring to the virtual screen.       *)
(***************************************************************************)
On(w, y, x) == y - Area(w).y \in Lns(w) /\ x - Area(w).x \in Cols(w)

Recorded(s, y, x) ==
  /\ x \in s.first[s.row[y]] .. s.last[s.row[y]]
  /\ \E w \in Windows : On(w, y, x) /\ Flagged(s, w, LineOf(s, w, y - Area(w).y))

Lost(s, y, x) == s.virt[y][x] # s.text[s.row[y]][x] /\ ~Recorded(s, y, x)

\* Only cells of A may be lost.
Only(s, A) == \A y \in Rows, x \in Columns : Lost(s, y, x) => <<y, x>> \in A

\* Something the properties are not about has happened.
Odds(s) == "odd" \in DOMAIN s /\ s.odd # {}

Safe(s, A) == Odds(s) \/ (Sound(s) /\ Only(s, A))

-----------------------------------------------------------------------------
(* The places of windows.                                                  *)

LEMMA SizesAre == H \in Nat \ {0, 1} /\ V \in Nat \ {0, 1}
  BY SizeAssumption

LEMMA AreaIs ==
  ASSUME NEW w \in AllWindows
  PROVE  /\ Area(w).y \in Nat /\ Area(w).x \in Nat /\ Area(w).h \in Nat \ {0} /\ Area(w).v \in Nat \ {0, 1}
         /\ Area(w).y + Area(w).h <= H /\ Area(w).x + Area(w).v <= V
  BY SizeAssumption DEF AllWindows, Area

LEMMA WindowsAre ==
  ASSUME NEW w \in Windows
  PROVE  w \in AllWindows /\ (w = "sub" => flags.sub)
  BY DEF Windows, AllWindows

LEMMA RootIs ==
  "root" \in Windows /\ "root" \in AllWindows /\ "sub" \in AllWindows /\ Lns("root") = Rows /\ Cols("root") = Columns
    /\ Area("root").y = 0 /\ Area("root").x = 0 /\ Area("root").h = H /\ Area("root").v = V
  BY SizeAssumption DEF Windows, AllWindows, Lns, Cols, Rows, Columns, Area

\* A row and a column of a window are a row and a column of the screen.
LEMMA PlaceIs ==
  ASSUME NEW w \in AllWindows
  PROVE  /\ \A y \in Lns(w) : y \in Nat /\ y + Area(w).y \in Rows /\ y + Area(w).y - Area(w).y = y
         /\ \A x \in Cols(w) : x \in Nat /\ x + Area(w).x \in Columns /\ x + Area(w).x - Area(w).x = x
         /\ \A y \in Rows, x \in Columns : On(w, y, x) => /\ y - Area(w).y + Area(w).y = y
                                                          /\ x - Area(w).x + Area(w).x = x
  BY AreaIs, SizesAre DEF Lns, Cols, Rows, Columns, On

LEMMA StorageIs ==
  ASSUME NEW s, Sound(s), NEW w \in Windows, NEW y \in Lns(w)
  PROVE  /\ Storage(s, w, y) = s.row[y + Area(w).y] /\ Storage(s, w, y) \in Rows
         /\ LineOf(s, w, y) \in Lns(w) /\ StorageOf(s, w, LineOf(s, w, y)) = Storage(s, w, y)
<1>1. CASE w = "root"
  <2>1. y \in Rows /\ y + Area(w).y = y
    BY <1>1, RootIs, SizesAre DEF Rows
  <2>2. s.row[y] \in Rows
    BY <2>1 DEF Sound, Ordered
  <2> QED
    BY <1>1, <2>1, <2>2, RootIs DEF Storage, LineOf, StorageOf
<1>2. CASE w = "sub"
  <2>1. flags.sub /\ y \in Lns("sub") /\ Area(w) = SubArea
    BY <1>2, WindowsAre DEF Area
  <2>2. s.subrow[y] = s.row[y + SubArea.y] /\ s.subrow[y] \in Rows
    BY <2>1 DEF Sound, Ordered
  <2> QED
    BY <1>2, <2>1, <2>2 DEF Storage, LineOf, StorageOf
<1> QED
  BY <1>1, <1>2, WindowsAre DEF AllWindows

LEMMA StorageOfIs ==
  ASSUME NEW s, Sound(s), NEW w \in AllWindows, NEW l \in Lns(w)
  PROVE  StorageOf(s, w, l) \in Rows
  BY RootIs DEF StorageOf, Sound, Ordered, AllWindows

\* The lines of storage of the rows of a window differ.
LEMMA StorageApart ==
  ASSUME NEW s, Sound(s), NEW w \in Windows, NEW y \in Lns(w)
  PROVE  /\ \A z \in Lns(w) : Storage(s, w, z) = Storage(s, w, y) => z = y
         /\ RowAt(s, w, Storage(s, w, y)) = y
         /\ \A z \in Rows : s.row[z] = Storage(s, w, y) => z = y + Area(w).y
<1>1. ASSUME NEW z \in Lns(w), Storage(s, w, z) = Storage(s, w, y) PROVE z = y
  <2>1. s.row[z + Area(w).y] = s.row[y + Area(w).y]
    BY <1>1, StorageIs
  <2>2. w \in AllWindows
    BY WindowsAre
  <2>3. z + Area(w).y = y + Area(w).y
    BY <2>1, <2>2, PlaceIs DEF Sound, Ordered
  <2> QED
    BY <2>2, <2>3, PlaceIs, AreaIs
<1>2. RowAt(s, w, Storage(s, w, y)) = y
  BY <1>1 DEF RowAt, Lns
<1>3. ASSUME NEW z \in Rows, s.row[z] = Storage(s, w, y) PROVE z = y + Area(w).y
  <2>1. y + Area(w).y \in Rows /\ Storage(s, w, y) = s.row[y + Area(w).y]
    BY WindowsAre, StorageIs, PlaceIs
  <2> QED
    BY <1>3, <2>1 DEF Sound, Ordered
<1> QED
  BY <1>1, <1>2, <1>3

-----------------------------------------------------------------------------
(* The change record only grows.                                           *)

\* t says of every line at least what s says.
Grows(s, t) ==
  /\ t.row = s.row /\ t.subrow = s.subrow /\ t.text = s.text /\ t.virt = s.virt
  /\ \A p \in Rows : t.first[p] <= s.first[p] /\ s.last[p] <= t.last[p]
  /\ \A w \in Windows : \A l \in Lns(w) : Flagged(s, w, l) => Flagged(t, w, l)

LEMMA SameLines ==
  ASSUME NEW s, NEW t, t.row = s.row
  PROVE  \A w, y : LineOf(t, w, y) = LineOf(s, w, y)
  BY DEF LineOf

LEMMA GrowsKeeps ==
  ASSUME NEW s, NEW t, Sound(s), Records(t.first, t.last), Grows(s, t),
         NEW y \in Rows, NEW x \in Columns, Lost(t, y, x)
  PROVE  Lost(s, y, x)
<1>1. SUFFICES ASSUME Recorded(s, y, x) PROVE Recorded(t, y, x)
  BY <1>1 DEF Lost, Grows
<1> PICK p : p = s.row[y]
  OBVIOUS
<1>2. p \in Rows /\ t.row[y] = p
  BY DEF Sound, Ordered, Grows
<1>3. x \in s.first[p] .. s.last[p]
  BY <1>1 DEF Recorded
<1>4. x \in t.first[p] .. t.last[p]
  <2>1. t.first[p] <= s.first[p] /\ s.last[p] <= t.last[p]
    BY <1>2 DEF Grows
  <2>2. /\ s.first[p] \in 0 .. V /\ s.last[p] \in 0 .. V
        /\ t.first[p] \in 0 .. V /\ t.last[p] \in 0 .. V
    BY <1>2 DEF Sound, Records
  <2> QED
    BY <1>3, <2>1, <2>2, SizesAre
<1>5. PICK w \in Windows : On(w, y, x) /\ Flagged(s, w, LineOf(s, w, y - Area(w).y))
  BY <1>1 DEF Recorded
<1>6. LineOf(s, w, y - Area(w).y) \in Lns(w)
  BY <1>5, StorageIs DEF On
<1>7. Flagged(t, w, LineOf(t, w, y - Area(w).y))
  BY <1>5, <1>6, SameLines DEF Grows
<1> QED
  BY <1>2, <1>4, <1>5, <1>7 DEF Recorded

LEMMA GrowsSafe ==
  ASSUME NEW s, NEW A, Sound(s), Only(s, A), NEW t, Grows(s, t),
         DOMAIN t = Fields, Records(t.first, t.last), Marked(t.dirty), Marked(t.forced),
         \A f \in Fields \ {"first", "last", "dirty", "forced"} : t[f] = s[f]
  PROVE  Sound(t) /\ Only(t, A)
<1>1. /\ t.text = s.text /\ t.row = s.row /\ t.subrow = s.subrow /\ t.cur = s.cur /\ t.clear = s.clear
      /\ t.region = s.region /\ t.virt = s.virt /\ t.vflag = s.vflag /\ t.vfirst = s.vfirst
      /\ t.vlast = s.vlast /\ t.vclear = s.vclear /\ t.shown = s.shown /\ t.odd = s.odd
  BY DEF Fields
<1>2. Sound(t)
  BY <1>1 DEF Sound
<1>3. Only(t, A)
  BY GrowsKeeps DEF Only
<1> QED
  BY <1>2, <1>3

LEMMA TellFirstSafe ==
  ASSUME NEW s, NEW A, Sound(s), Only(s, A), NEW w \in AllWindows, NEW l \in Lns(w), NEW x \in 0 .. Area(w).v
  PROVE  Sound(TellFirst(s, w, l, x)) /\ Only(TellFirst(s, w, l, x), A)
<1> PICK t : t = TellFirst(s, w, l, x)
  OBVIOUS
<1> PICK p : p = StorageOf(s, w, l)
  OBVIOUS
<1>0. DOMAIN s = Fields
  BY DEF Sound
<1>1. /\ DOMAIN t = Fields /\ \A f \in Fields \ {"first", "dirty"} : t[f] = s[f]
      /\ t.first = [s.first EXCEPT ![p] = Less(@, x + Area(w).x)]
      /\ t.dirty = [s.dirty EXCEPT ![w] = [@ EXCEPT ![l] = TRUE]]
  BY <1>0 DEF TellFirst, Fields
<1>2. p \in Rows
  BY StorageOfIs
<1>3. x + Area(w).x \in 0 .. V
  BY AreaIs, SizesAre
<1>4. t.last = s.last /\ t.forced = s.forced /\ t.row = s.row /\ t.subrow = s.subrow /\ t.text = s.text /\ t.virt = s.virt
  BY <1>1 DEF Fields
<1>5. Records(t.first, t.last) /\ \A q \in Rows : t.first[q] <= s.first[q] /\ s.last[q] <= t.last[q]
  BY <1>1, <1>2, <1>3, <1>4, SizesAre DEF Sound, Records, Less
<1>6. Marked(t.dirty) /\ Marked(t.forced)
  BY <1>1, <1>4 DEF Sound, Marked
<1>7. ASSUME NEW v \in Windows, NEW m \in Lns(v), Flagged(s, v, m) PROVE Flagged(t, v, m)
  BY <1>1, <1>4, <1>7, WindowsAre DEF Sound, Marked, Flagged
<1>8. Grows(s, t)
  BY <1>4, <1>5, <1>7 DEF Grows
<1>9. \A f \in Fields \ {"first", "last", "dirty", "forced"} : t[f] = s[f]
  BY <1>1
<1>10. Sound(t) /\ Only(t, A)
  BY <1>1, <1>5, <1>6, <1>8, <1>9, GrowsSafe
<1> QED
  BY <1>10

LEMMA TellLastSafe ==
  ASSUME NEW s, NEW A, Sound(s), Only(s, A), NEW w \in AllWindows, NEW l \in Lns(w), NEW x \in 0 .. Area(w).v
  PROVE  Sound(TellLast(s, w, l, x)) /\ Only(TellLast(s, w, l, x), A)
<1> PICK t : t = TellLast(s, w, l, x)
  OBVIOUS
<1> PICK p : p = StorageOf(s, w, l)
  OBVIOUS
<1>0. DOMAIN s = Fields
  BY DEF Sound
<1>1. /\ DOMAIN t = Fields /\ \A f \in Fields \ {"last"} : t[f] = s[f]
      /\ t.last = [s.last EXCEPT ![p] = More(@, x + Area(w).x)]
  BY <1>0 DEF TellLast, Fields
<1>2. p \in Rows
  BY StorageOfIs
<1>3. x + Area(w).x \in 0 .. V
  BY AreaIs, SizesAre
<1>4. /\ t.first = s.first /\ t.dirty = s.dirty /\ t.forced = s.forced /\ t.row = s.row
      /\ t.subrow = s.subrow /\ t.text = s.text /\ t.virt = s.virt
  BY <1>1 DEF Fields
<1>5. Records(t.first, t.last) /\ \A q \in Rows : t.first[q] <= s.first[q] /\ s.last[q] <= t.last[q]
  BY <1>1, <1>2, <1>3, <1>4, SizesAre DEF Sound, Records, More
<1>6. Marked(t.dirty) /\ Marked(t.forced)
  BY <1>4 DEF Sound
<1>8. Grows(s, t)
  BY <1>4, <1>5 DEF Grows, Flagged
<1>9. \A f \in Fields \ {"first", "last", "dirty", "forced"} : t[f] = s[f]
  BY <1>1
<1>10. Sound(t) /\ Only(t, A)
  BY <1>1, <1>5, <1>6, <1>8, <1>9, GrowsSafe
<1> QED
  BY <1>10

\* The cells of the rows a touch names.
Told(w, from, to) ==
  {c \in Rows \X Columns : /\ c[1] - Area(w).y \in DOMAIN from
                           /\ c[2] - Area(w).x \in from[c[1] - Area(w).y] .. to[c[1] - Area(w).y]}

LEMMA TouchRowsSafe ==
  ASSUME NEW s, NEW A, Sound(s), Only(s, A), NEW w \in Windows, NEW from, NEW to, NEW force,
         DOMAIN from \subseteq Lns(w), DOMAIN to = DOMAIN from,
         \A y \in DOMAIN from : from[y] \in Cols(w) /\ to[y] \in Cols(w)
  PROVE  /\ Sound(TouchRows(s, w, from, to, force))
         /\ Only(TouchRows(s, w, from, to, force), A \ Told(w, from, to))
<1> PICK t : t = TouchRows(s, w, from, to, force)
  OBVIOUS
<1> PICK ps : ps = Lines(s, w, DOMAIN from)
  OBVIOUS
<1> PICK ls : ls = {LineOf(s, w, y) : y \in DOMAIN from}
  OBVIOUS
<1>0. DOMAIN s = Fields /\ w \in AllWindows
  BY WindowsAre DEF Sound
<1>1. /\ DOMAIN t = Fields
      /\ \A f \in Fields \ {"first", "last", "dirty", "forced"} : t[f] = s[f]
      /\ t.first = [p \in Rows |-> IF p \in ps THEN Less(s.first[p], from[RowAt(s, w, p)] + Area(w).x)
                                   ELSE s.first[p]]
      /\ t.last = [p \in Rows |-> IF p \in ps THEN More(s.last[p], to[RowAt(s, w, p)] + Area(w).x)
                                  ELSE s.last[p]]
      /\ t.dirty = [s.dirty EXCEPT ![w] = [l \in DOMAIN @ |-> @[l] \/ l \in ls]]
      /\ t.forced = [s.forced EXCEPT ![w] = [l \in DOMAIN @ |-> @[l] \/ (force /\ l \in ls)]]
  BY <1>0 DEF TouchRows, Fields
<1>2. t.row = s.row /\ t.subrow = s.subrow /\ t.text = s.text /\ t.virt = s.virt
  BY <1>1 DEF Fields
<1>3. ASSUME NEW p \in ps
      PROVE  \E y \in DOMAIN from : y \in Lns(w) /\ p = Storage(s, w, y) /\ RowAt(s, w, p) = y
  BY StorageApart DEF Lines
<1>4. ASSUME NEW p \in ps
      PROVE  from[RowAt(s, w, p)] + Area(w).x \in 0 .. V /\ to[RowAt(s, w, p)] + Area(w).x \in 0 .. V
  <2>1. from[RowAt(s, w, p)] \in Cols(w) /\ to[RowAt(s, w, p)] \in Cols(w)
    BY <1>3
  <2> QED
    BY <1>0, <2>1, AreaIs, SizesAre DEF Cols
<1>5. ASSUME NEW p \in Rows
      PROVE  t.first[p] \in 0 .. V /\ t.last[p] \in 0 .. V /\ t.first[p] <= s.first[p] /\ s.last[p] <= t.last[p]
  <2>1. s.first[p] \in 0 .. V /\ s.last[p] \in 0 .. V
    BY DEF Sound, Records
  <2>2. CASE p \in ps
    <3>1. t.first[p] = Less(s.first[p], from[RowAt(s, w, p)] + Area(w).x)
      BY <1>1, <2>2
    <3>2. t.last[p] = More(s.last[p], to[RowAt(s, w, p)] + Area(w).x)
      BY <1>1, <2>2
    <3> QED
      BY <1>4, <2>1, <2>2, <3>1, <3>2, SizesAre DEF Less, More
  <2>3. CASE p \notin ps
    BY <1>1, <2>1, <2>3, SizesAre
  <2> QED
    BY <2>2, <2>3
<1>6. Records(t.first, t.last)
  <2>1. DOMAIN t.first = Rows /\ DOMAIN t.last = Rows
    BY <1>1
  <2>2. t.first = [p \in Rows |-> t.first[p]] /\ t.last = [p \in Rows |-> t.last[p]]
    BY <1>1
  <2> QED
    BY <1>5, <2>2 DEF Records
<1>7. /\ \A v \in AllWindows : \A l \in Lns(v) : t.dirty[v][l] = (s.dirty[v][l] \/ (v = w /\ l \in ls))
      /\ Marked(t.dirty)
  <2>1. DOMAIN s.dirty = AllWindows /\ \A v \in AllWindows : s.dirty[v] \in [Lns(v) -> BOOLEAN]
    BY DEF Sound, Marked
  <2>2. t.dirty = [v \in AllWindows |-> IF v = w THEN [l \in Lns(v) |-> s.dirty[v][l] \/ l \in ls] ELSE s.dirty[v]]
    BY <1>0, <1>1, <2>1
  <2> QED
    BY <2>1, <2>2 DEF Marked
<1>8. /\ \A v \in AllWindows : \A l \in Lns(v) : t.forced[v][l] = (s.forced[v][l] \/ (v = w /\ force /\ l \in ls))
      /\ Marked(t.forced)
  <2>1. DOMAIN s.forced = AllWindows /\ \A v \in AllWindows : s.forced[v] \in [Lns(v) -> BOOLEAN]
    BY DEF Sound, Marked
  <2>2. t.forced = [v \in AllWindows |-> IF v = w THEN [l \in Lns(v) |-> s.forced[v][l] \/ (force /\ l \in ls)]
                                         ELSE s.forced[v]]
    BY <1>0, <1>1, <2>1
  <2> QED
    BY <2>1, <2>2 DEF Marked
<1>9. Grows(s, t)
  <2>1. ASSUME NEW v \in Windows, NEW l \in Lns(v), Flagged(s, v, l) PROVE Flagged(t, v, l)
    BY <1>7, <1>8, <2>1, WindowsAre DEF Flagged
  <2> QED
    BY <1>2, <1>5, <2>1 DEF Grows
<1>10. Sound(t) /\ Only(t, A)
  BY <1>1, <1>6, <1>7, <1>8, <1>9, GrowsSafe
<1>11. ASSUME NEW y \in Rows, NEW x \in Columns, <<y, x>> \in Told(w, from, to)
       PROVE  Recorded(t, y, x)
  <2> PICK z, p : z = y - Area(w).y /\ p = s.row[y]
    OBVIOUS
  <2>1. z \in DOMAIN from /\ z \in Lns(w) /\ x - Area(w).x \in from[z] .. to[z]
    BY <1>11 DEF Told
  <2>2. z + Area(w).y = y
    BY <1>0, <2>1, AreaIs, SizesAre DEF Lns, Rows
  <2>3. p = Storage(s, w, z) /\ p \in Rows /\ p \in ps /\ RowAt(s, w, p) = z
    BY <2>1, <2>2, StorageIs, StorageApart DEF Lines
  <2>4. t.first[p] = Less(s.first[p], from[z] + Area(w).x) /\ t.last[p] = More(s.last[p], to[z] + Area(w).x)
    BY <1>1, <2>3
  <2>5. from[z] \in Cols(w) /\ to[z] \in Cols(w) /\ s.first[p] \in 0 .. V /\ s.last[p] \in 0 .. V
    BY <2>1, <2>3 DEF Sound, Records
  <2>6. x \in t.first[p] .. t.last[p] /\ x - Area(w).x \in Cols(w)
    BY <1>0, <2>1, <2>4, <2>5, AreaIs, SizesAre DEF Less, More, Cols, Columns
  <2>7. LineOf(s, w, z) \in Lns(w) /\ LineOf(s, w, z) \in ls /\ LineOf(t, w, z) = LineOf(s, w, z)
    BY <1>2, <2>1, StorageIs, SameLines
  <2>8. Flagged(t, w, LineOf(t, w, z))
    BY <1>0, <1>7, <2>7 DEF Flagged
  <2> QED
    BY <1>2, <2>1, <2>6, <2>8 DEF Recorded, On
<1>12. Only(t, A \ Told(w, from, to))
  BY <1>10, <1>11 DEF Only, Lost
<1> QED
  BY <1>10, <1>12

\* The rows ys of w, whole.
Band(w, ys) == {c \in Rows \X Columns : c[1] - Area(w).y \in ys /\ c[2] - Area(w).x \in Cols(w)}

LEMMA TouchFullSafe ==
  ASSUME NEW s, NEW A, Sound(s), Only(s, A), NEW w \in Windows, NEW ys \in SUBSET Lns(w), NEW force
  PROVE  /\ Sound(TouchFull(s, w, ys, force))
         /\ Only(TouchFull(s, w, ys, force), A \ Band(w, ys))
<1> PICK from, to : from = [y \in ys |-> 0] /\ to = [y \in ys |-> Area(w).v - 1]
  OBVIOUS
<1>1. w \in AllWindows /\ 0 \in Cols(w) /\ Area(w).v - 1 \in Cols(w)
  BY WindowsAre, AreaIs DEF Cols
<1>2. /\ DOMAIN from \subseteq Lns(w) /\ DOMAIN to = DOMAIN from
      /\ \A y \in DOMAIN from : from[y] \in Cols(w) /\ to[y] \in Cols(w)
  BY <1>1
<1>3. Told(w, from, to) = Band(w, ys)
  BY DEF Told, Band, Cols
<1>4. TouchFull(s, w, ys, force) = TouchRows(s, w, from, to, force)
  BY DEF TouchFull
<1> QED
  BY <1>2, <1>3, <1>4, TouchRowsSafe

-----------------------------------------------------------------------------
(* Writing cells.                                                          *)

LEMMA TextSafe ==
  ASSUME NEW s, NEW A, Sound(s), Only(s, A), NEW t, NEW B, DOMAIN t = Fields,
         \A f \in Fields \ {"text"} : t[f] = s[f], t.text \in Grid,
         \A y \in Rows, x \in Columns : <<y, x>> \notin B => t.text[s.row[y]][x] = s.text[s.row[y]][x]
  PROVE  Sound(t) /\ Only(t, A \cup B)
<1>1. /\ t.first = s.first /\ t.last = s.last /\ t.dirty = s.dirty /\ t.forced = s.forced
      /\ t.row = s.row /\ t.subrow = s.subrow /\ t.cur = s.cur /\ t.clear = s.clear
      /\ t.region = s.region /\ t.virt = s.virt /\ t.vflag = s.vflag /\ t.vfirst = s.vfirst
      /\ t.vlast = s.vlast /\ t.vclear = s.vclear /\ t.shown = s.shown /\ t.odd = s.odd
  BY DEF Fields
<1>2. Sound(t)
  BY <1>1 DEF Sound
<1>3. ASSUME NEW y \in Rows, NEW x \in Columns, Lost(t, y, x), <<y, x>> \notin B PROVE Lost(s, y, x)
  BY <1>1, <1>3 DEF Lost, Recorded, Flagged, LineOf
<1>4. Only(t, A \cup B)
  BY <1>3 DEF Only
<1> QED
  BY <1>2, <1>4

\* The cells of the contents of some rows.
Written(w, lines) ==
  {c \in Rows \X Columns : /\ c[1] - Area(w).y \in DOMAIN lines
                           /\ c[2] - Area(w).x \in DOMAIN lines[c[1] - Area(w).y]}

LEMMA OverIs ==
  ASSUME NEW w \in AllWindows, NEW old \in [Columns -> Cells], NEW line,
         \A x \in DOMAIN line : line[x] \in Cells
  PROVE  /\ Over(old, w, line) \in [Columns -> Cells]
         /\ \A x \in Columns : x - Area(w).x \notin DOMAIN line => Over(old, w, line)[x] = old[x]
  BY DEF Over

LEMMA WriteRowsSafe ==
  ASSUME NEW s, NEW A, Sound(s), Only(s, A), NEW w \in Windows, NEW lines,
         DOMAIN lines \subseteq Lns(w),
         \A y \in DOMAIN lines : \A x \in DOMAIN lines[y] : lines[y][x] \in Cells
  PROVE  Sound(WriteRows(s, w, lines)) /\ Only(WriteRows(s, w, lines), A \cup Written(w, lines))
<1> PICK t : t = WriteRows(s, w, lines)
  OBVIOUS
<1>0. DOMAIN s = Fields /\ w \in AllWindows
  BY WindowsAre DEF Sound
<1>1. /\ DOMAIN t = Fields
      /\ \A f \in Fields \ {"text"} : t[f] = s[f]
      /\ t.text = [p \in Rows |-> IF p \in Lines(s, w, DOMAIN lines)
                                  THEN Over(s.text[p], w, lines[RowAt(s, w, p)]) ELSE s.text[p]]
  BY <1>0 DEF WriteRows, Fields
<1>2. ASSUME NEW p \in Lines(s, w, DOMAIN lines)
      PROVE  \E y \in DOMAIN lines : y \in Lns(w) /\ p = Storage(s, w, y) /\ RowAt(s, w, p) = y
  BY StorageApart DEF Lines
<1>3. \A p \in Rows : s.text[p] \in [Columns -> Cells]
  BY DEF Sound, Grid
<1>4. ASSUME NEW p \in Rows PROVE t.text[p] \in [Columns -> Cells]
  <2>1. CASE p \in Lines(s, w, DOMAIN lines)
    <3>1. RowAt(s, w, p) \in DOMAIN lines
      BY <1>2, <2>1
    <3>2. t.text[p] = Over(s.text[p], w, lines[RowAt(s, w, p)])
      BY <1>1, <2>1
    <3> QED
      BY <1>0, <1>3, <3>1, <3>2, OverIs
  <2>2. CASE p \notin Lines(s, w, DOMAIN lines)
    BY <1>1, <1>3, <2>2
  <2> QED
    BY <2>1, <2>2
<1>5. t.text \in Grid
  <2>1. t.text = [p \in Rows |-> t.text[p]]
    BY <1>1
  <2> QED
    BY <1>4, <2>1 DEF Grid
<1>6. ASSUME NEW y \in Rows, NEW x \in Columns, <<y, x>> \notin Written(w, lines)
      PROVE  t.text[s.row[y]][x] = s.text[s.row[y]][x]
  <2> PICK p : p = s.row[y]
    OBVIOUS
  <2>0. p \in Rows
    BY DEF Sound, Ordered
  <2>1. CASE p \in Lines(s, w, DOMAIN lines)
    <3>1. PICK z \in DOMAIN lines : z \in Lns(w) /\ p = Storage(s, w, z) /\ RowAt(s, w, p) = z
      BY <1>2, <2>1
    <3>2. y = z + Area(w).y
      BY <3>1, StorageApart
    <3>3. y - Area(w).y = z
      BY <1>0, <3>1, <3>2, AreaIs DEF Lns
    <3>4. x - Area(w).x \notin DOMAIN lines[z]
      BY <1>6, <3>1, <3>3 DEF Written
    <3>5. t.text[p] = Over(s.text[p], w, lines[z])
      BY <1>1, <2>0, <2>1, <3>1
    <3>6. Over(s.text[p], w, lines[z])[x] = s.text[p][x]
      BY <1>0, <1>3, <2>0, <3>1, <3>4, OverIs
    <3> QED
      BY <3>5, <3>6
  <2>2. CASE p \notin Lines(s, w, DOMAIN lines)
    BY <1>1, <2>0, <2>2
  <2> QED
    BY <2>1, <2>2
<1>7. Sound(t) /\ Only(t, A \cup Written(w, lines))
  BY <1>1, <1>5, <1>6, TextSafe
<1> QED
  BY <1>7

\* Writing one row, where the cells are columns of the window.
Part(w, y, xs) == {c \in Rows \X Columns : c[1] - Area(w).y = y /\ c[2] - Area(w).x \in xs}

LEMMA WriteSafe ==
  ASSUME NEW s, NEW A, Sound(s), Only(s, A), NEW w \in Windows, NEW y \in Lns(w), NEW line,
         \A x \in DOMAIN line : line[x] \in Cells
  PROVE  Sound(Write(s, w, y, line)) /\ Only(Write(s, w, y, line), A \cup Part(w, y, DOMAIN line))
<1> PICK lines : lines = [z \in {y} |-> line]
  OBVIOUS
<1>1. DOMAIN lines = {y} /\ lines[y] = line
  OBVIOUS
<1>2. Written(w, lines) = Part(w, y, DOMAIN line)
  <2>1. ASSUME NEW c \in Rows \X Columns
        PROVE  c \in Written(w, lines) <=> c \in Part(w, y, DOMAIN line)
    BY <1>1 DEF Written, Part
  <2> QED
    BY <2>1 DEF Written, Part
<1>3. DOMAIN lines \subseteq Lns(w) /\ \A z \in DOMAIN lines : \A x \in DOMAIN lines[z] : lines[z][x] \in Cells
  BY <1>1
<1>4. Write(s, w, y, line) = WriteRows(s, w, lines)
  BY DEF Write
<1> QED
  BY <1>2, <1>3, <1>4, WriteRowsSafe

LEMMA TouchLineSafe ==
  ASSUME NEW s, NEW A, Sound(s), Only(s, A), NEW w \in Windows, NEW y \in Lns(w),
         NEW sx \in Cols(w), NEW ex \in Cols(w)
  PROVE  Sound(TouchLine(s, w, y, sx, ex)) /\ Only(TouchLine(s, w, y, sx, ex), A \ Part(w, y, sx .. ex))
<1> PICK from, to : from = [z \in {y} |-> sx] /\ to = [z \in {y} |-> ex]
  OBVIOUS
<1>1. DOMAIN from = {y} /\ DOMAIN to = {y} /\ from[y] = sx /\ to[y] = ex
  OBVIOUS
<1>2. Told(w, from, to) = Part(w, y, sx .. ex)
  <2>1. ASSUME NEW c \in Rows \X Columns
        PROVE  c \in Told(w, from, to) <=> c \in Part(w, y, sx .. ex)
    BY <1>1 DEF Told, Part
  <2> QED
    BY <2>1 DEF Told, Part
<1>3. TouchLine(s, w, y, sx, ex) = TouchRows(s, w, from, to, FALSE)
  BY DEF TouchLine
<1>4. DOMAIN from \subseteq Lns(w) /\ DOMAIN to = DOMAIN from /\ \A z \in DOMAIN from : from[z] \in Cols(w) /\ to[z] \in Cols(w)
  BY <1>1
<1>5. /\ Sound(TouchRows(s, w, from, to, FALSE))
      /\ Only(TouchRows(s, w, from, to, FALSE), A \ Told(w, from, to))
  BY ONLY Sound(s), Only(s, A), w \in Windows, <1>4, TouchRowsSafe
<1> QED
  BY <1>2, <1>3, <1>5

\* The cells of a line of w.
LEMMA TextIs ==
  ASSUME NEW s, Sound(s), NEW w \in Windows, NEW y \in Lns(w), NEW x \in Cols(w)
  PROVE  /\ Text(s, w, y)[x] = s.text[Storage(s, w, y)][x + Area(w).x]
         /\ Text(s, w, y)[x] \in Cells
         /\ Text(s, w, y)[x].col \in Widths
<1>1. w \in AllWindows /\ Storage(s, w, y) \in Rows
  BY WindowsAre, StorageIs
<1>2. x \in -Area(w).x .. V - 1 - Area(w).x /\ x + Area(w).x \in Columns
  BY <1>1, AreaIs, SizesAre DEF Cols, Columns
<1>3. s.text[Storage(s, w, y)][x + Area(w).x] \in Cells
  BY <1>1, <1>2 DEF Sound, Grid
<1> QED
  BY <1>2, <1>3 DEF Text, Cells

-----------------------------------------------------------------------------
(* The cursor and the clear flag.                                          *)

LEMMA SameSafe ==
  ASSUME NEW s, NEW A, Sound(s), Only(s, A), NEW t, DOMAIN t = Fields,
         \A f \in Fields \ {"cur", "clear", "vcur", "vclear"} : t[f] = s[f],
         Cursors(t.cur), Clears(t.clear), t.vclear \in BOOLEAN, s.vclear => t.vclear
  PROVE  Sound(t) /\ Only(t, A)
<1>1. /\ t.text = s.text /\ t.first = s.first /\ t.last = s.last /\ t.dirty = s.dirty
      /\ t.forced = s.forced /\ t.row = s.row /\ t.subrow = s.subrow
      /\ t.region = s.region /\ t.virt = s.virt /\ t.vflag = s.vflag /\ t.vfirst = s.vfirst
      /\ t.vlast = s.vlast /\ t.shown = s.shown /\ t.odd = s.odd
  BY DEF Fields
<1>2. Virtual(t.virt, t.shown, t.vflag, t.vfirst, t.vlast, t.vclear)
  BY <1>1 DEF Sound, Virtual
<1>3. Sound(t)
  BY <1>1, <1>2 DEF Sound
<1>4. ASSUME NEW y \in Rows, NEW x \in Columns, Lost(t, y, x) PROVE Lost(s, y, x)
  BY <1>1, <1>4 DEF Lost, Recorded, Flagged, LineOf
<1>5. Only(t, A)
  BY <1>4 DEF Only
<1> QED
  BY <1>3, <1>5

LEMMA CurSafe ==
  ASSUME NEW s, NEW A, Sound(s), Only(s, A), NEW w \in AllWindows, NEW c, Cursor(c, w)
  PROVE  Sound([s EXCEPT !.cur[w] = c]) /\ Only([s EXCEPT !.cur[w] = c], A)
<1> PICK t : t = [s EXCEPT !.cur[w] = c]
  OBVIOUS
<1>0. DOMAIN s = Fields /\ Cursors(s.cur) /\ Clears(s.clear) /\ s.vclear \in BOOLEAN
  BY DEF Sound, Virtual
<1>1. /\ DOMAIN t = Fields
      /\ \A f \in Fields \ {"cur", "clear", "vcur", "vclear"} : t[f] = s[f]
      /\ t.clear = s.clear /\ t.vclear = s.vclear
      /\ t.cur = [s.cur EXCEPT ![w] = c]
  BY <1>0 DEF Fields
<1>2. Cursors(t.cur)
  BY <1>0, <1>1 DEF Cursors
<1>3. Sound(t) /\ Only(t, A)
  BY <1>0, <1>1, <1>2, SameSafe
<1> QED
  BY <1>3

LEMMA AtSafe ==
  ASSUME NEW s, NEW A, Sound(s), Only(s, A), NEW w \in AllWindows, NEW y, NEW x
  PROVE  Sound(At(s, w, y, x)) /\ Only(At(s, w, y, x), A)
<1>1. CASE y \in Lns(w) /\ x \in Cols(w)
  <2>1. Cursor(<<y, x>>, w)
    BY <1>1 DEF Cursor
  <2>2. At(s, w, y, x) = [s EXCEPT !.cur[w] = <<y, x>>]
    BY <1>1 DEF At, Lns, Cols
  <2>3. Sound([s EXCEPT !.cur[w] = <<y, x>>]) /\ Only([s EXCEPT !.cur[w] = <<y, x>>], A)
    BY <2>1, CurSafe
  <2> QED
    BY <2>2, <2>3
<1>2. CASE ~(y \in Lns(w) /\ x \in Cols(w))
  <2>1. At(s, w, y, x) = s
    BY <1>2 DEF At, Lns, Cols
  <2> QED
    BY <2>1
<1> QED
  BY <1>1, <1>2

\* The cursor moves in its line.
LEMMA ColumnSafe ==
  ASSUME NEW s, NEW A, Sound(s), Only(s, A), NEW w \in AllWindows, NEW x \in Cols(w)
  PROVE  Sound([s EXCEPT !.cur[w][2] = x]) /\ Only([s EXCEPT !.cur[w][2] = x], A)
<1> PICK c : c = [s.cur[w] EXCEPT ![2] = x]
  OBVIOUS
<1>1. Cursor(s.cur[w], w)
  BY DEF Sound, Cursors
<1>2. Cursor(c, w)
  BY <1>1 DEF Cursor
<1>3. Sound([s EXCEPT !.cur[w] = c]) /\ Only([s EXCEPT !.cur[w] = c], A)
  BY <1>2, CurSafe
<1>4. [s EXCEPT !.cur[w][2] = x] = [s EXCEPT !.cur[w] = c]
  OBVIOUS
<1> QED
  BY <1>3, <1>4

LEMMA PlaceSafe ==
  ASSUME NEW s, NEW A, Sound(s), Only(s, A), NEW w \in AllWindows
  PROVE  LET t == TakeClear(PlaceCursor(s, w), w)
         IN  Sound(t) /\ Only(t, A) /\ t.cur = s.cur /\ t.region = s.region /\ t.row = s.row /\ t.text = s.text
             /\ t.dirty = s.dirty /\ t.forced = s.forced
             /\ t.vcur = <<Area(w).y + s.cur[w][1], Area(w).x + s.cur[w][2]>>
<1> PICK u : u = PlaceCursor(s, w)
  OBVIOUS
<1> PICK t : t = TakeClear(u, w)
  OBVIOUS
<1>0. DOMAIN s = Fields /\ Cursors(s.cur) /\ Clears(s.clear) /\ s.vclear \in BOOLEAN
  BY DEF Sound, Virtual
<1>1. s.cur[w][1] < Area(w).h /\ s.cur[w][2] < Area(w).v
  BY <1>0, AreaIs DEF Cursors, Cursor, Lns, Cols
<1>2. /\ DOMAIN u = Fields /\ \A f \in Fields \ {"vcur"} : u[f] = s[f]
      /\ u.vcur = <<Area(w).y + s.cur[w][1], Area(w).x + s.cur[w][2]>>
  BY <1>0, <1>1 DEF PlaceCursor, Fields
<1>3. /\ DOMAIN t = Fields /\ \A f \in Fields \ {"clear", "vclear"} : t[f] = u[f]
      /\ t.clear = [u.clear EXCEPT ![w] = FALSE]
      /\ t.vclear = (u.vclear \/ (u.clear[w] /\ w = "root"))
  BY <1>2 DEF TakeClear, Fields
<1>4. \A f \in Fields \ {"cur", "clear", "vcur", "vclear"} : t[f] = s[f]
  BY <1>2, <1>3
<1>5. /\ t.cur = s.cur /\ t.clear = [s.clear EXCEPT ![w] = FALSE] /\ t.vcur = u.vcur
      /\ t.vclear = (s.vclear \/ (s.clear[w] /\ w = "root"))
      /\ t.region = s.region /\ t.row = s.row /\ t.text = s.text /\ t.dirty = s.dirty /\ t.forced = s.forced
  BY <1>2, <1>3 DEF Fields
<1>6. Cursors(t.cur) /\ Clears(t.clear) /\ t.vclear \in BOOLEAN /\ (s.vclear => t.vclear)
  BY <1>0, <1>5 DEF Clears
<1>7. Sound(t) /\ Only(t, A)
  <2>1. DOMAIN t = Fields
    BY <1>3
  <2> QED
    BY ONLY Sound(s), Only(s, A), <2>1, <1>4, <1>6, SameSafe
<1> QED
  BY <1>2, <1>5, <1>7

-----------------------------------------------------------------------------
(* wnoutrefresh and doupdate.                                              *)

\* Storage tells the lines of a window apart, and so do their flags.
LEMMA LinesApart ==
  ASSUME NEW s, Sound(s), NEW w \in Windows, NEW y \in Lns(w), NEW z \in Lns(w),
         LineOf(s, w, y) = LineOf(s, w, z)
  PROVE  y = z
<1>1. StorageOf(s, w, LineOf(s, w, y)) = Storage(s, w, y) /\ StorageOf(s, w, LineOf(s, w, z)) = Storage(s, w, z)
  BY StorageIs
<1> QED
  BY <1>1, StorageApart

LEMMA GatherSafe ==
  ASSUME NEW s, NEW A, Sound(s), Only(s, A), flags.sub
  PROVE  LET t == Gather(s)
         IN  /\ Sound(t) /\ Only(t, A) /\ t.row = s.row
             /\ \A y \in Lns("sub") : ~Flagged(t, "sub", y)
<1> PICK t : t = Gather(s)
  OBVIOUS
<1>0. DOMAIN s = Fields /\ Marked(s.dirty) /\ Marked(s.forced)
  BY DEF Sound
<1>1. /\ DOMAIN t = Fields /\ \A f \in Fields \ {"dirty", "forced"} : t[f] = s[f]
      /\ t.dirty = Gathered(s, s.dirty) /\ t.forced = Gathered(s, s.forced)
  BY <1>0 DEF Gather, Fields
<1>2. /\ t.text = s.text /\ t.row = s.row /\ t.subrow = s.subrow /\ t.cur = s.cur /\ t.clear = s.clear
      /\ t.region = s.region /\ t.virt = s.virt /\ t.vflag = s.vflag /\ t.vfirst = s.vfirst
      /\ t.vlast = s.vlast /\ t.vclear = s.vclear /\ t.shown = s.shown /\ t.odd = s.odd
      /\ t.first = s.first /\ t.last = s.last
  BY <1>1 DEF Fields
<1>3. ASSUME NEW f, Marked(f)
      PROVE  /\ Marked(Gathered(s, f))
             /\ \A y \in Lns("sub") : Gathered(s, f)["sub"][y] = FALSE
             /\ \A l \in Rows : f["root"][l] => Gathered(s, f)["root"][l]
             /\ \A y \in Lns("sub") : f["sub"][y] => Gathered(s, f)["root"][s.row[y + SubArea.y]]
  <2> PICK g : g = Gathered(s, f)
    OBVIOUS
  <2>1. /\ DOMAIN g = AllWindows
        /\ g["root"] = [l \in Rows |-> f["root"][l] \/ \E y \in 0 .. SubArea.h - 1 :
                                                 s.row[y + SubArea.y] = l /\ f["sub"][y]]
        /\ g["sub"] = [y \in Lns("sub") |-> FALSE]
    BY DEF Gathered, AllWindows, Lns, Area
  <2>2. Lns("sub") = 0 .. SubArea.h - 1
    BY DEF Lns, Area
  <2>3. Marked(g)
    <3>1. g["root"] \in [Rows -> BOOLEAN]
      BY <2>1
    <3>2. g["sub"] \in [Lns("sub") -> BOOLEAN]
      BY <2>1
    <3> QED
      BY <2>1, <3>1, <3>2, RootIs DEF Marked, AllWindows
  <2>4. \A y \in Lns("sub") : s.row[y + SubArea.y] \in Rows
    BY SizeAssumption, <2>2 DEF Sound, Ordered, Rows
  <2> QED
    BY <2>1, <2>2, <2>3, <2>4
<1>4. Marked(t.dirty) /\ Marked(t.forced)
  BY <1>0, <1>1, <1>3
<1>5. Sound(t)
  BY <1>0, <1>1, <1>2, <1>4 DEF Sound
<1>6. /\ \A l \in Rows : Flagged(s, "root", l) => Flagged(t, "root", l)
      /\ \A y \in Lns("sub") : Flagged(s, "sub", y) => Flagged(t, "root", s.row[y + SubArea.y])
      /\ \A y \in Lns("sub") : ~Flagged(t, "sub", y)
  BY <1>0, <1>1, <1>3 DEF Flagged
<1>7. ASSUME NEW y \in Rows, NEW x \in Columns, Recorded(s, y, x) PROVE Recorded(t, y, x)
  <2>1. PICK w \in Windows : On(w, y, x) /\ Flagged(s, w, LineOf(s, w, y - Area(w).y))
    BY <1>7 DEF Recorded
  <2>2. s.row[y] \in Rows
    BY DEF Sound, Ordered
  <2>3. Flagged(t, "root", s.row[y])
    <3>1. CASE w = "root"
      BY <1>6, <2>1, <2>2, <3>1, RootIs DEF LineOf, On, Rows
    <3>2. CASE w = "sub"
      <4>1. y - SubArea.y \in Lns("sub") /\ Flagged(s, "sub", y - SubArea.y)
        BY <2>1, <3>2 DEF LineOf, On, Area
      <4>2. y - SubArea.y + SubArea.y = y
        BY SizeAssumption DEF Rows
      <4> QED
        BY <1>6, <4>1, <4>2
    <3> QED
      BY <3>1, <3>2, WindowsAre DEF AllWindows
  <2>4. On("root", y, x) /\ LineOf(t, "root", y - Area("root").y) = s.row[y]
    BY <1>2, RootIs, SizesAre DEF On, LineOf, Rows, Columns
  <2> QED
    BY <1>2, <1>7, <2>3, <2>4, RootIs DEF Recorded
<1>8. Only(t, A)
  BY <1>2, <1>7 DEF Only, Lost
<1> QED
  BY <1>2, <1>5, <1>6, <1>8

\* The rows of w that wnoutrefresh copies have the contents their records name.
LEMMA CopyRowsSafe ==
  ASSUME NEW s, NEW A, Sound(s), Only(s, A), NEW w \in Windows, NEW ys \in SUBSET Lns(w)
  PROVE  LET t == CopyRows(s, w, ys)
         IN  /\ Sound(t) /\ Only(t, A)
             /\ \A f \in Fields \ {"virt", "vflag", "vfirst", "vlast"} : t[f] = s[f]
             /\ \A y \in Rows, x \in Columns :
                  y - Area(w).y \in ys /\ x \in Named(s, w, s.row[y]) => t.virt[y][x] = s.text[s.row[y]][x]
             /\ \A y \in Rows, x \in Columns :
                  s.virt[y][x] = s.text[s.row[y]][x] => t.virt[y][x] = s.text[s.row[y]][x]
<1> PICK t : t = CopyRows(s, w, ys)
  OBVIOUS
<1>0. DOMAIN s = Fields /\ w \in AllWindows
  BY WindowsAre DEF Sound
<1>1. /\ DOMAIN t = Fields
      /\ \A f \in Fields \ {"virt", "vflag", "vfirst", "vlast"} : t[f] = s[f]
  BY <1>0 DEF CopyRows, Fields
<1>2. t.virt = [r \in Rows |-> IF r \in {q \in Rows : q - Area(w).y \in ys}
                  THEN [x \in Columns |-> IF x \in Named(s, w, Storage(s, w, r - Area(w).y))
                                          THEN s.text[Storage(s, w, r - Area(w).y)][x] ELSE s.virt[r][x]]
                  ELSE s.virt[r]]
  BY <1>0 DEF CopyRows, Fields
<1>3. /\ t.vflag = [r \in Rows |-> s.vflag[r] \/ r \in {q \in Rows : q - Area(w).y \in ys}]
      /\ t.vfirst = [r \in Rows |-> IF r \in {q \in Rows : q - Area(w).y \in ys}
                                    THEN Less(s.vfirst[r], s.first[Storage(s, w, r - Area(w).y)]) ELSE s.vfirst[r]]
      /\ t.vlast = [r \in Rows |-> IF r \in {q \in Rows : q - Area(w).y \in ys}
                                   THEN More(s.vlast[r], s.last[Storage(s, w, r - Area(w).y)]) ELSE s.vlast[r]]
  BY <1>0 DEF CopyRows, Fields
<1>4. /\ t.text = s.text /\ t.row = s.row /\ t.subrow = s.subrow /\ t.cur = s.cur /\ t.clear = s.clear
      /\ t.region = s.region /\ t.vclear = s.vclear /\ t.shown = s.shown /\ t.odd = s.odd
      /\ t.first = s.first /\ t.last = s.last /\ t.dirty = s.dirty /\ t.forced = s.forced
  BY <1>1 DEF Fields
<1>5. ASSUME NEW y \in Rows, y - Area(w).y \in ys
      PROVE  Storage(s, w, y - Area(w).y) = s.row[y] /\ s.row[y] \in Rows
  <2>1. y - Area(w).y \in Lns(w) /\ y - Area(w).y + Area(w).y = y
    BY <1>0, <1>5, AreaIs, SizesAre DEF Rows
  <2> QED
    BY <2>1, StorageIs DEF Sound, Ordered
<1>6. ASSUME NEW y \in Rows, NEW x \in Columns
      PROVE  t.virt[y][x] = IF y - Area(w).y \in ys /\ x \in Named(s, w, s.row[y]) THEN s.text[s.row[y]][x]
                            ELSE s.virt[y][x]
  BY <1>2, <1>5
<1>7. ASSUME NEW y \in Rows
      PROVE  /\ t.vflag[y] = (s.vflag[y] \/ y - Area(w).y \in ys)
             /\ t.vfirst[y] = IF y - Area(w).y \in ys THEN Less(s.vfirst[y], s.first[s.row[y]]) ELSE s.vfirst[y]
             /\ t.vlast[y] = IF y - Area(w).y \in ys THEN More(s.vlast[y], s.last[s.row[y]]) ELSE s.vlast[y]
  BY <1>3, <1>5
<1>8. t.virt \in Grid
  <2>1. s.virt \in Grid /\ s.text \in Grid
    BY DEF Sound, Virtual
  <2>2. t.virt = [y \in Rows |-> t.virt[y]]
    BY <1>2
  <2>3. ASSUME NEW y \in Rows PROVE t.virt[y] \in [Columns -> Cells]
    <3>1. t.virt[y] = [x \in Columns |-> t.virt[y][x]]
      BY <1>2, <2>1 DEF Grid
    <3>2. \A x \in Columns : t.virt[y][x] \in Cells
      BY <1>5, <1>6, <2>1 DEF Grid
    <3> QED
      BY <3>1, <3>2
  <2> QED
    BY <2>2, <2>3 DEF Grid
<1>9. ASSUME NEW y \in Rows
      PROVE  /\ t.vfirst[y] \in 0 .. V /\ t.vlast[y] \in 0 .. V /\ t.vflag[y] \in BOOLEAN
             /\ t.vfirst[y] <= s.vfirst[y] /\ s.vlast[y] <= t.vlast[y] /\ (s.vflag[y] => t.vflag[y])
             /\ y - Area(w).y \in ys =>
                  t.vfirst[y] <= s.first[s.row[y]] /\ s.last[s.row[y]] <= t.vlast[y] /\ t.vflag[y]
  <2>1. s.vfirst[y] \in 0 .. V /\ s.vlast[y] \in 0 .. V /\ s.vflag[y] \in BOOLEAN
    BY DEF Sound, Virtual
  <2>2. y - Area(w).y \in ys => s.first[s.row[y]] \in 0 .. V /\ s.last[s.row[y]] \in 0 .. V
    BY <1>5 DEF Sound, Records
  <2>3. CASE y - Area(w).y \in ys
    <3>1. /\ t.vflag[y] = TRUE /\ t.vfirst[y] = Less(s.vfirst[y], s.first[s.row[y]])
          /\ t.vlast[y] = More(s.vlast[y], s.last[s.row[y]])
      BY <1>7, <2>3
    <3>2. \A a, b \in 0 .. V : /\ Less(a, b) \in 0 .. V /\ Less(a, b) <= a /\ Less(a, b) <= b
                             /\ More(a, b) \in 0 .. V /\ a <= More(a, b) /\ b <= More(a, b)
      BY SizesAre DEF Less, More
    <3> QED
      BY <2>1, <2>2, <2>3, <3>1, <3>2
  <2>4. CASE y - Area(w).y \notin ys
    <3>1. t.vflag[y] = s.vflag[y] /\ t.vfirst[y] = s.vfirst[y] /\ t.vlast[y] = s.vlast[y]
      BY <1>7, <2>1, <2>4
    <3> QED
      BY <2>1, <2>4, <3>1, SizesAre
  <2> QED
    BY <2>3, <2>4
<1>10. /\ t.vfirst \in [Rows -> 0 .. V] /\ t.vlast \in [Rows -> 0 .. V] /\ t.vflag \in [Rows -> BOOLEAN]
  <2>1. /\ t.vfirst = [y \in Rows |-> t.vfirst[y]] /\ t.vlast = [y \in Rows |-> t.vlast[y]]
        /\ t.vflag = [y \in Rows |-> t.vflag[y]]
    BY <1>3
  <2> QED
    BY <1>9, <2>1
<1>11. ASSUME NEW y \in Rows, NEW x \in Columns, t.virt[y][x] # t.shown[y][x]
       PROVE  t.vclear \/ (t.vflag[y] /\ x \in t.vfirst[y] .. t.vlast[y])
  <2>0. /\ s.vfirst[y] \in 0 .. V /\ s.vlast[y] \in 0 .. V /\ t.vfirst[y] \in 0 .. V /\ t.vlast[y] \in 0 .. V
    BY <1>9 DEF Sound, Virtual
  <2>1. CASE y - Area(w).y \in ys /\ x \in Named(s, w, s.row[y])
    <3>1. s.first[s.row[y]] \in 0 .. V /\ s.last[s.row[y]] \in 0 .. V
      BY <1>5, <2>1 DEF Sound, Records
    <3>2. s.first[s.row[y]] <= x /\ x <= s.last[s.row[y]]
      BY <1>0, <2>1, <3>1, AreaIs, SizesAre DEF Named, Less, More, Columns
    <3> QED
      BY <1>9, <2>0, <2>1, <3>1, <3>2, SizesAre DEF Columns
  <2>2. CASE ~(y - Area(w).y \in ys /\ x \in Named(s, w, s.row[y]))
    <3>1. s.virt[y][x] # s.shown[y][x]
      BY <1>4, <1>6, <1>11, <2>2
    <3>2. s.vclear \/ (s.vflag[y] /\ x \in s.vfirst[y] .. s.vlast[y])
      BY <3>1 DEF Sound, Virtual
    <3> QED
      BY <1>4, <1>9, <2>0, <3>2, SizesAre
  <2> QED
    BY <2>1, <2>2
<1>12. Virtual(t.virt, t.shown, t.vflag, t.vfirst, t.vlast, t.vclear)
  BY <1>4, <1>8, <1>10, <1>11 DEF Sound, Virtual
<1>13. Sound(t)
  BY <1>1, <1>4, <1>12 DEF Sound
<1>14. ASSUME NEW y \in Rows, NEW x \in Columns, s.virt[y][x] = s.text[s.row[y]][x]
       PROVE  t.virt[y][x] = s.text[s.row[y]][x]
  BY <1>6, <1>14
<1>15. Only(t, A)
  BY <1>4, <1>14 DEF Only, Lost, Recorded, Flagged, LineOf
<1> QED
  BY <1>1, <1>6, <1>13, <1>14, <1>15

\* The change pointers of a copied line go to the edges of the window, but not
\* over what is recorded outside.
LEMMA ResetsOutside ==
  ASSUME NEW s, Sound(s), NEW w \in AllWindows, NEW p \in Rows
  PROVE  /\ ResetFirst(s, w, p) \in 0 .. V /\ ResetLast(s, w, p) \in 0 .. V
         /\ \A x \in Columns : x \in s.first[p] .. s.last[p] /\ x - Area(w).x \notin Cols(w)
               => x \in ResetFirst(s, w, p) .. ResetLast(s, w, p)
<1>1. s.first[p] \in 0 .. V /\ s.last[p] \in 0 .. V
  BY DEF Sound, Records
<1> QED
  BY <1>1, AreaIs, SizesAre DEF ResetFirst, ResetLast, Cols, Columns

\* The changes of the rows of w that were copied are settled; those of the rest
\* of their lines stay recorded.
LEMMA ResetRowsSafe ==
  ASSUME NEW s, NEW A, Sound(s), Only(s, A), NEW w \in Windows, NEW ys \in SUBSET Lns(w),
         \A y \in Rows, x \in Columns :
            /\ y - Area(w).y \in ys
            /\ x \in s.first[s.row[y]] .. s.last[s.row[y]]
            /\ x - Area(w).x \in Cols(w)
            => s.virt[y][x] = s.text[s.row[y]][x]
  PROVE  LET t == ResetRows(s, w, ys)
         IN  /\ Sound(t) /\ Only(t, A)
             /\ \A f \in Fields \ {"first", "last", "dirty", "forced"} : t[f] = s[f]
<1> PICK t : t = ResetRows(s, w, ys)
  OBVIOUS
<1> PICK ps : ps = Lines(s, w, ys)
  OBVIOUS
<1> PICK ls : ls = {l \in {LineOf(s, w, y) : y \in ys} : Settled(s, w, StorageOf(s, w, l))}
  OBVIOUS
<1>0. DOMAIN s = Fields /\ w \in AllWindows /\ Marked(s.dirty) /\ Marked(s.forced)
  BY WindowsAre DEF Sound
<1>1. /\ DOMAIN t = Fields
      /\ \A f \in Fields \ {"first", "last", "dirty", "forced"} : t[f] = s[f]
      /\ t.first = [p \in Rows |-> IF p \in ps THEN ResetFirst(s, w, p) ELSE s.first[p]]
      /\ t.last = [p \in Rows |-> IF p \in ps THEN ResetLast(s, w, p) ELSE s.last[p]]
      /\ t.dirty = [s.dirty EXCEPT ![w] = [l \in DOMAIN @ |-> @[l] /\ l \notin ls]]
      /\ t.forced = [s.forced EXCEPT ![w] = [l \in DOMAIN @ |-> @[l] /\ l \notin ls]]
  BY <1>0 DEF ResetRows, Fields
<1>2. /\ t.text = s.text /\ t.row = s.row /\ t.subrow = s.subrow /\ t.cur = s.cur /\ t.clear = s.clear
      /\ t.region = s.region /\ t.virt = s.virt /\ t.vflag = s.vflag /\ t.vfirst = s.vfirst
      /\ t.vlast = s.vlast /\ t.vclear = s.vclear /\ t.shown = s.shown /\ t.odd = s.odd
  BY <1>1 DEF Fields
<1>3. Records(t.first, t.last)
  <2>1. ASSUME NEW p \in Rows PROVE t.first[p] \in 0 .. V /\ t.last[p] \in 0 .. V
    BY <1>0, <1>1, ResetsOutside DEF Sound, Records
  <2>2. t.first = [p \in Rows |-> t.first[p]] /\ t.last = [p \in Rows |-> t.last[p]]
    BY <1>1
  <2> QED
    BY <2>1, <2>2 DEF Records
<1>4. /\ \A v \in AllWindows : \A l \in Lns(v) : t.dirty[v][l] = (s.dirty[v][l] /\ ~(v = w /\ l \in ls))
      /\ Marked(t.dirty)
  <2>1. DOMAIN s.dirty = AllWindows /\ \A v \in AllWindows : s.dirty[v] \in [Lns(v) -> BOOLEAN]
    BY <1>0 DEF Marked
  <2>2. t.dirty = [v \in AllWindows |-> IF v = w THEN [l \in Lns(v) |-> s.dirty[v][l] /\ l \notin ls] ELSE s.dirty[v]]
    BY <1>0, <1>1, <2>1
  <2> QED
    BY <2>1, <2>2 DEF Marked
<1>5. /\ \A v \in AllWindows : \A l \in Lns(v) : t.forced[v][l] = (s.forced[v][l] /\ ~(v = w /\ l \in ls))
      /\ Marked(t.forced)
  <2>1. DOMAIN s.forced = AllWindows /\ \A v \in AllWindows : s.forced[v] \in [Lns(v) -> BOOLEAN]
    BY <1>0 DEF Marked
  <2>2. t.forced = [v \in AllWindows |-> IF v = w THEN [l \in Lns(v) |-> s.forced[v][l] /\ l \notin ls] ELSE s.forced[v]]
    BY <1>0, <1>1, <2>1
  <2> QED
    BY <2>1, <2>2 DEF Marked
<1>6. Sound(t)
  BY <1>1, <1>2, <1>3, <1>4, <1>5 DEF Sound
<1>7. ASSUME NEW y \in Rows, NEW x \in Columns, Recorded(s, y, x), s.virt[y][x] # s.text[s.row[y]][x]
      PROVE  Recorded(t, y, x)
  <2> PICK p : p = s.row[y]
    OBVIOUS
  <2>1. PICK v \in Windows : On(v, y, x) /\ Flagged(s, v, LineOf(s, v, y - Area(v).y))
    BY <1>7 DEF Recorded
  <2>2. p \in Rows /\ x \in s.first[p] .. s.last[p]
    BY <1>7 DEF Sound, Ordered, Recorded
  <2>3. LineOf(s, v, y - Area(v).y) \in Lns(v) /\ v \in AllWindows
    BY <2>1, StorageIs, WindowsAre DEF On
  <2>4. CASE y - Area(w).y \in ys
    <3>1. x - Area(w).x \notin Cols(w)
      BY <1>7, <2>2, <2>4
    <3>2. x \in t.first[p] .. t.last[p]
      <4>1. /\ t.first[p] = IF p \in ps THEN ResetFirst(s, w, p) ELSE s.first[p]
            /\ t.last[p] = IF p \in ps THEN ResetLast(s, w, p) ELSE s.last[p]
        BY <1>1, <2>2
      <4> QED
        BY <1>0, <2>2, <3>1, <4>1, ResetsOutside
    <3>3. v # w
      BY <2>1, <3>1 DEF On
    <3>4. Flagged(t, v, LineOf(s, v, y - Area(v).y))
      BY <1>4, <1>5, <2>1, <2>3, <3>3 DEF Flagged
    <3>5. LineOf(t, v, y - Area(v).y) = LineOf(s, v, y - Area(v).y)
      BY <1>2, SameLines
    <3> QED
      BY <1>2, <2>1, <3>2, <3>4, <3>5 DEF Recorded
  <2>5. CASE y - Area(w).y \notin ys
    <3>1. p \notin ps
      <4>1. SUFFICES ASSUME NEW z \in ys, p = Storage(s, w, z) PROVE FALSE
        BY DEF Lines
      <4>2. y = z + Area(w).y
        <5>1. z \in Lns(w) /\ s.row[y] = Storage(s, w, z)
          BY <4>1
        <5> QED
          BY <5>1, StorageApart
      <4> QED
        BY <1>0, <2>5, <4>2, AreaIs DEF Lns
    <3>2. x \in t.first[p] .. t.last[p]
      BY <1>1, <2>2, <3>1
    <3>3. ~(v = w /\ LineOf(s, v, y - Area(v).y) \in ls)
      <4>1. SUFFICES ASSUME v = w, NEW z \in ys, LineOf(s, w, y - Area(w).y) = LineOf(s, w, z) PROVE FALSE
        OBVIOUS
      <4> QED
        BY <2>1, <2>5, <4>1, LinesApart DEF On
    <3>4. Flagged(t, v, LineOf(s, v, y - Area(v).y))
      BY <1>4, <1>5, <2>1, <2>3, <3>3 DEF Flagged
    <3>5. LineOf(t, v, y - Area(v).y) = LineOf(s, v, y - Area(v).y)
      BY <1>2, SameLines
    <3> QED
      BY <1>2, <2>1, <3>2, <3>4, <3>5 DEF Recorded
  <2> QED
    BY <2>4, <2>5
<1>8. Only(t, A)
  BY <1>2, <1>7 DEF Only, Lost
<1> QED
  BY <1>1, <1>6, <1>8

\* The cells a record names are those of the window in it.
LEMMA NamedIs ==
  ASSUME NEW s, Sound(s), NEW w \in AllWindows, NEW p \in Rows, NEW x \in Columns
  PROVE  x \in Named(s, w, p) <=> x \in s.first[p] .. s.last[p] /\ x - Area(w).x \in Cols(w)
<1>1. s.first[p] \in 0 .. V /\ s.last[p] \in 0 .. V
  BY DEF Sound, Records
<1> QED
  BY <1>1, AreaIs, SizesAre DEF Named, Less, More, Cols, Columns

LEMMA CopyOutSafe ==
  ASSUME NEW s, NEW A, Sound(s), Only(s, A), NEW w \in Windows
  PROVE  LET t == CopyOut(s, w)
         IN  /\ Sound(t) /\ Only(t, A) /\ t.cur = s.cur /\ t.vcur = s.vcur /\ t.region = s.region
             /\ t.row = s.row /\ t.text = s.text
             /\ \A y \in Rows, x \in Columns :
                  \/ s.virt[y][x] = s.text[s.row[y]][x]
                  \/ y - Area(w).y \in Copied(s, w) /\ x \in Named(s, w, s.row[y])
                  => t.virt[y][x] = s.text[s.row[y]][x]
<1> PICK ys : ys = Copied(s, w)
  OBVIOUS
<1> PICK u : u = CopyRows(s, w, ys)
  OBVIOUS
<1> PICK t : t = ResetRows(u, w, ys)
  OBVIOUS
<1>0. ys \in SUBSET Lns(w) /\ w \in AllWindows
  BY WindowsAre DEF Copied, Lns
<1>1. /\ Sound(u) /\ Only(u, A)
      /\ \A f \in Fields \ {"virt", "vflag", "vfirst", "vlast"} : u[f] = s[f]
      /\ \A y \in Rows, x \in Columns :
           y - Area(w).y \in ys /\ x \in Named(s, w, s.row[y]) => u.virt[y][x] = s.text[s.row[y]][x]
      /\ \A y \in Rows, x \in Columns :
           s.virt[y][x] = s.text[s.row[y]][x] => u.virt[y][x] = s.text[s.row[y]][x]
  BY <1>0, CopyRowsSafe
<1>2. /\ u.row = s.row /\ u.text = s.text /\ u.first = s.first /\ u.last = s.last
      /\ u.cur = s.cur /\ u.vcur = s.vcur /\ u.region = s.region
  BY <1>1 DEF Fields
<1>3. ASSUME NEW y \in Rows, NEW x \in Columns, y - Area(w).y \in ys,
             x \in u.first[u.row[y]] .. u.last[u.row[y]], x - Area(w).x \in Cols(w)
      PROVE  u.virt[y][x] = u.text[u.row[y]][x]
  <2>1. s.row[y] \in Rows
    BY DEF Sound, Ordered
  <2>2. x \in Named(s, w, s.row[y])
    BY <1>0, <1>2, <1>3, <2>1, NamedIs
  <2> QED
    BY <1>1, <1>2, <1>3, <2>2
<1>4. /\ Sound(t) /\ Only(t, A)
      /\ \A f \in Fields \ {"first", "last", "dirty", "forced"} : t[f] = u[f]
  <2>1. \A y \in Rows, x \in Columns :
          /\ y - Area(w).y \in ys
          /\ x \in u.first[u.row[y]] .. u.last[u.row[y]]
          /\ x - Area(w).x \in Cols(w)
          => u.virt[y][x] = u.text[u.row[y]][x]
    BY <1>3
  <2>2. Sound(u) /\ Only(u, A) /\ ys \in SUBSET Lns(w)
    BY <1>0, <1>1
  <2>3. LET r == ResetRows(u, w, ys)
        IN  /\ Sound(r) /\ Only(r, A)
            /\ \A f \in Fields \ {"first", "last", "dirty", "forced"} : r[f] = u[f]
    BY ONLY w \in Windows, <2>1, <2>2, ResetRowsSafe
  <2> QED
    BY <2>3
<1>5. /\ t.virt = u.virt /\ t.cur = s.cur /\ t.vcur = s.vcur /\ t.region = s.region /\ t.row = s.row
      /\ t.text = s.text
  BY <1>2, <1>4 DEF Fields
<1>6. CopyOut(s, w) = t
  BY DEF CopyOut
<1> QED
  BY <1>1, <1>4, <1>5, <1>6

LEMMA NoutRefreshedSafe ==
  ASSUME NEW s, NEW A, Sound(s), Only(s, A), NEW w \in Windows
  PROVE  LET t == NoutRefreshed(s, w)
         IN  /\ Sound(t) /\ Only(t, A) /\ t.cur = s.cur /\ t.region = s.region
             /\ t.vcur = <<Area(w).y + s.cur[w][1], Area(w).x + s.cur[w][2]>>
<1> PICK g : g = IF w = "root" /\ flags.sub THEN Gather(s) ELSE s
  OBVIOUS
<1> PICK u : u = TakeClear(PlaceCursor(g, w), w)
  OBVIOUS
<1>0. w \in AllWindows /\ DOMAIN s = Fields
  BY WindowsAre DEF Sound
<1>1. Sound(g) /\ Only(g, A) /\ g.cur = s.cur /\ g.region = s.region
  <2>1. CASE w = "root" /\ flags.sub
    <3>1. Gather(s).cur = s.cur /\ Gather(s).region = s.region
      BY <1>0 DEF Gather, Fields
    <3> QED
      BY <2>1, <3>1, GatherSafe
  <2>2. CASE ~(w = "root" /\ flags.sub)
    BY <2>2
  <2> QED
    BY <2>1, <2>2
<1>2. /\ Sound(u) /\ Only(u, A) /\ u.cur = g.cur /\ u.region = g.region
      /\ u.vcur = <<Area(w).y + g.cur[w][1], Area(w).x + g.cur[w][2]>>
  BY <1>0, <1>1, PlaceSafe
<1>3. NoutRefreshed(s, w) = CopyOut(u, w)
  BY DEF NoutRefreshed
<1>4. LET t == CopyOut(u, w) IN Sound(t) /\ Only(t, A) /\ t.cur = u.cur /\ t.vcur = u.vcur /\ t.region = u.region
  BY <1>2, CopyOutSafe
<1> QED
  BY <1>1, <1>2, <1>3, <1>4

\* Refreshing the root brings every recorded cell to the virtual screen.
LEMMA RootCopiesAll ==
  ASSUME NEW s, Sound(s), Only(s, {})
  PROVE  AllCopied(NoutRefreshed(s, "root"))
<1> PICK g : g = IF "root" = "root" /\ flags.sub THEN Gather(s) ELSE s
  OBVIOUS
<1> PICK u : u = TakeClear(PlaceCursor(g, "root"), "root")
  OBVIOUS
<1>1. Sound(g) /\ Only(g, {}) /\ (flags.sub => \A y \in Lns("sub") : ~Flagged(g, "sub", y))
  BY GatherSafe
<1>2. Sound(u) /\ Only(u, {}) /\ u.dirty = g.dirty /\ u.forced = g.forced
  BY <1>1, RootIs, PlaceSafe
<1>3. NoutRefreshed(s, "root") = CopyOut(u, "root")
  BY DEF NoutRefreshed
<1>4. LET t == CopyOut(u, "root")
      IN  /\ t.row = u.row /\ t.text = u.text
          /\ \A y \in Rows, x \in Columns :
               \/ u.virt[y][x] = u.text[u.row[y]][x]
               \/ y - Area("root").y \in Copied(u, "root") /\ x \in Named(u, "root", u.row[y])
               => t.virt[y][x] = u.text[u.row[y]][x]
  BY <1>2, RootIs, CopyOutSafe
<1>5. ASSUME NEW y \in Rows, NEW x \in Columns, u.virt[y][x] # u.text[u.row[y]][x]
      PROVE  y - Area("root").y \in Copied(u, "root") /\ x \in Named(u, "root", u.row[y])
  <2>1. Recorded(u, y, x)
    BY <1>2, <1>5 DEF Only, Lost
  <2>2. PICK w \in Windows : On(w, y, x) /\ Flagged(u, w, LineOf(u, w, y - Area(w).y))
    BY <2>1 DEF Recorded
  <2>3. w = "root"
    <3>1. SUFFICES ASSUME w = "sub" PROVE FALSE
      BY WindowsAre DEF AllWindows
    <3>2. flags.sub /\ y - Area("sub").y \in Lns("sub") /\ Flagged(u, "sub", y - Area("sub").y)
      BY <2>2, <3>1, WindowsAre DEF On, LineOf
    <3> QED
      BY <1>1, <1>2, <3>2 DEF Flagged
  <2>4. y - 0 = y /\ y \in Rows /\ x - 0 = x /\ u.row[y] \in Rows
    <3>1. y - 0 = y /\ x - 0 = x
      BY SizesAre DEF Rows, Columns
    <3> QED
      BY <1>2, <3>1 DEF Sound, Ordered
  <2>5. x \in u.first[u.row[y]] .. u.last[u.row[y]] /\ u.first[u.row[y]] \in 0 .. V /\ u.last[u.row[y]] \in 0 .. V
    BY <1>2, <2>1, <2>4 DEF Recorded, Sound, Records
  <2>6. y \in Copied(u, "root")
    BY <2>2, <2>3, <2>4, <2>5, RootIs, SizesAre DEF Copied, Storage, Lns, Rows, Columns
  <2>7. x \in Named(u, "root", u.row[y])
    BY <1>2, <2>4, <2>5, NamedIs, RootIs
  <2> QED
    BY <2>4, <2>6, <2>7, RootIs
<1> QED
  BY <1>3, <1>4, <1>5 DEF AllCopied

\* doupdate shows what the record of the virtual screen names.
LEMMA UpdatedSafe ==
  ASSUME NEW s, NEW A, Sound(s), Only(s, A)
  PROVE  LET t == Updated(s)
         IN  Sound(t) /\ Only(t, A) /\ t.cur = s.cur /\ t.vcur = s.vcur /\ t.region = s.region
<1> PICK t : t = Updated(s)
  OBVIOUS
<1>0. DOMAIN s = Fields
  BY DEF Sound
<1>1. /\ DOMAIN t = Fields
      /\ \A f \in Fields \ {"shown", "vflag", "vfirst", "vlast", "vclear"} : t[f] = s[f]
      /\ t.shown = [y \in Rows |-> [x \in Columns |->
                       IF s.vclear \/ (s.vflag[y] /\ x \in s.vfirst[y] .. s.vlast[y])
                       THEN s.virt[y][x] ELSE s.shown[y][x]]]
      /\ t.vflag = [y \in Rows |-> FALSE]
      /\ t.vfirst = [y \in Rows |-> V] /\ t.vlast = [y \in Rows |-> 0] /\ t.vclear = FALSE
  BY <1>0 DEF Updated, Fields
<1>2. /\ t.text = s.text /\ t.row = s.row /\ t.subrow = s.subrow /\ t.cur = s.cur /\ t.clear = s.clear
      /\ t.region = s.region /\ t.virt = s.virt /\ t.first = s.first /\ t.last = s.last
      /\ t.dirty = s.dirty /\ t.forced = s.forced /\ t.odd = s.odd /\ t.vcur = s.vcur
  BY <1>1 DEF Fields
<1>3. ASSUME NEW y \in Rows, NEW x \in Columns PROVE t.shown[y][x] = s.virt[y][x] /\ t.shown[y][x] \in Cells
  <2>1. t.shown[y][x] = IF s.vclear \/ (s.vflag[y] /\ x \in s.vfirst[y] .. s.vlast[y])
                        THEN s.virt[y][x] ELSE s.shown[y][x]
    BY <1>1
  <2>2. s.virt[y][x] # s.shown[y][x] => s.vclear \/ (s.vflag[y] /\ x \in s.vfirst[y] .. s.vlast[y])
    BY DEF Sound, Virtual
  <2>3. s.virt[y][x] \in Cells
    BY DEF Sound, Virtual, Grid
  <2> QED
    BY <2>1, <2>2, <2>3
<1>4. t.shown \in Grid
  <2>1. t.shown = [y \in Rows |-> t.shown[y]] /\ \A y \in Rows : t.shown[y] = [x \in Columns |-> t.shown[y][x]]
    BY <1>1
  <2>2. \A y \in Rows : t.shown[y] \in [Columns -> Cells]
    BY <1>3, <2>1
  <2> QED
    BY <2>1, <2>2 DEF Grid
<1>5. Virtual(t.virt, t.shown, t.vflag, t.vfirst, t.vlast, t.vclear)
  <2>0. V \in 0 .. V /\ 0 \in 0 .. V
    BY SizesAre
  <2>1. /\ t.vflag \in [Rows -> BOOLEAN] /\ t.vclear \in BOOLEAN
        /\ t.vfirst \in [Rows -> 0 .. V] /\ t.vlast \in [Rows -> 0 .. V]
    BY <1>1, <2>0
  <2> QED
    BY <1>2, <1>3, <1>4, <2>1 DEF Sound, Virtual
<1>6. Sound(t)
  BY <1>1, <1>2, <1>5 DEF Sound
<1>7. Only(t, A)
  BY <1>2 DEF Only, Lost, Recorded, Flagged, LineOf
<1> QED
  BY <1>2, <1>6, <1>7

\* The window takes back the cursor it gave to the screen.
LEMMA RefreshedSafe ==
  ASSUME NEW s, NEW A, Sound(s), Only(s, A), NEW w \in Windows
  PROVE  LET t == Refreshed(s, w)
         IN  Sound(t) /\ Only(t, A) /\ t.cur[w][1] = s.cur[w][1] /\ t.cur[w][2] = s.cur[w][2] /\ t.region = s.region
<1> PICK u : u = NoutRefreshed(s, w)
  OBVIOUS
<1> PICK v : v = Updated(u)
  OBVIOUS
<1> PICK c : c = <<More(0, v.vcur[1] - Area(w).y), More(0, v.vcur[2] - Area(w).x)>>
  OBVIOUS
<1>0. w \in AllWindows /\ Cursor(s.cur[w], w)
  BY WindowsAre DEF Sound, Cursors
<1>1. /\ Sound(u) /\ Only(u, A) /\ u.cur = s.cur /\ u.region = s.region
      /\ u.vcur = <<Area(w).y + s.cur[w][1], Area(w).x + s.cur[w][2]>>
  BY NoutRefreshedSafe
<1>2. Sound(v) /\ Only(v, A) /\ v.cur = s.cur /\ v.region = s.region /\ v.vcur = u.vcur
  BY <1>1, UpdatedSafe
<1>3. c[1] = s.cur[w][1] /\ c[2] = s.cur[w][2]
  <2>1. v.vcur[1] = Area(w).y + s.cur[w][1] /\ v.vcur[2] = Area(w).x + s.cur[w][2]
    BY <1>1, <1>2
  <2>2. s.cur[w][1] \in Nat /\ s.cur[w][2] \in Nat
    BY <1>0 DEF Cursor, Lns, Cols
  <2> QED
    BY <1>0, <2>1, <2>2, AreaIs DEF More
<1>4. Cursor(c, w)
  BY <1>0, <1>3 DEF Cursor
<1>5. Refreshed(s, w) = [v EXCEPT !.cur[w] = c]
  BY DEF Refreshed, TakeCursor
<1>6. Sound([v EXCEPT !.cur[w] = c]) /\ Only([v EXCEPT !.cur[w] = c], A)
  BY <1>0, <1>2, <1>4, CurSafe
<1>7. [v EXCEPT !.cur[w] = c].cur[w] = c /\ [v EXCEPT !.cur[w] = c].region = v.region
  BY <1>0, <1>2 DEF Sound, Fields, Cursors
<1> QED
  BY <1>2, <1>3, <1>5, <1>6, <1>7

-----------------------------------------------------------------------------
(* __sync and touching windows whole.                                      *)

\* A step that leaves the cursors and the regions alone.
Same(s, t) == t.cur = s.cur /\ t.region = s.region /\ t.row = s.row /\ t.subrow = s.subrow

LEMMA TouchRowsSame ==
  ASSUME NEW s, Sound(s), NEW w, NEW from, NEW to, NEW force
  PROVE  Same(s, TouchRows(s, w, from, to, force))
<1>1. DOMAIN s = Fields
  BY DEF Sound
<1> QED
  BY <1>1 DEF Same, TouchRows, Fields

LEMMA TouchWinSafe ==
  ASSUME NEW s, NEW A, Sound(s), Only(s, A), NEW w \in Windows
  PROVE  /\ Sound(TouchWin(s, w)) /\ Only(TouchWin(s, w), A \ Band(w, Lns(w)))
         /\ Same(s, TouchWin(s, w))
<1>1. TouchWin(s, w) = TouchFull(s, w, Lns(w), FALSE)
  BY DEF TouchWin, Lns
<1>2. Same(s, TouchFull(s, w, Lns(w), FALSE))
  BY TouchRowsSame DEF TouchFull
<1>3. /\ Sound(TouchFull(s, w, Lns(w), FALSE))
      /\ Only(TouchFull(s, w, Lns(w), FALSE), A \ Band(w, Lns(w)))
  <2>1. Lns(w) \in SUBSET Lns(w)
    OBVIOUS
  <2> QED
    BY ONLY Sound(s), Only(s, A), w \in Windows, <2>1, TouchFullSafe
<1> QED
  BY <1>1, <1>2, <1>3

LEMMA OnlyMore ==
  ASSUME NEW s, NEW A, NEW B, Only(s, A), A \subseteq B
  PROVE  Only(s, B)
  BY DEF Only

LEMMA SyncUpSafe ==
  ASSUME NEW s, NEW A, Sound(s), Only(s, A), NEW w \in Windows
  PROVE  Sound(SyncUp(s, w)) /\ Only(SyncUp(s, w), A) /\ Same(s, SyncUp(s, w))
<1>1. ASSUME NEW u, Sound(u), Only(u, A), NEW v \in Windows
      PROVE  Sound(TouchWin(u, v)) /\ Only(TouchWin(u, v), A) /\ Same(u, TouchWin(u, v))
  <2>1. Sound(TouchWin(u, v)) /\ Only(TouchWin(u, v), A \ Band(v, Lns(v))) /\ Same(u, TouchWin(u, v))
    BY <1>1, TouchWinSafe
  <2> QED
    BY <2>1, OnlyMore
<1>2. CASE w = "root"
  BY <1>1, <1>2 DEF SyncUp
<1>3. CASE w # "root"
  <2>1. Sound(TouchWin(s, w)) /\ Only(TouchWin(s, w), A) /\ Same(s, TouchWin(s, w))
    BY <1>1
  <2>2. LET t == TouchWin(s, w)
        IN  Sound(TouchWin(t, "root")) /\ Only(TouchWin(t, "root"), A) /\ Same(t, TouchWin(t, "root"))
    BY <1>1, <2>1, RootIs
  <2> QED
    BY <1>3, <2>1, <2>2 DEF SyncUp, Same
<1> QED
  BY <1>2, <1>3

LEMMA SyncSafe ==
  ASSUME NEW s, NEW A, Sound(s), Only(s, A), NEW w \in Windows
  PROVE  LET t == Sync(s, w)
         IN  Sound(t) /\ Only(t, A) /\ t.cur[w][1] = s.cur[w][1] /\ t.cur[w][2] = s.cur[w][2] /\ t.region = s.region
<1> PICK u : u = IF w \in flags.immed THEN Refreshed(s, w) ELSE s
  OBVIOUS
<1>1. Sound(u) /\ Only(u, A) /\ u.cur[w][1] = s.cur[w][1] /\ u.cur[w][2] = s.cur[w][2] /\ u.region = s.region
  BY RefreshedSafe
<1>2. Sync(s, w) = SyncParent(u, w)
  BY DEF Sync
<1>3. Sound(SyncUp(u, w)) /\ Only(SyncUp(u, w), A) /\ Same(u, SyncUp(u, w))
  BY <1>1, SyncUpSafe
<1> QED
  BY <1>1, <1>2, <1>3 DEF SyncParent, Same

-----------------------------------------------------------------------------
(* What has happened stays on record, and most steps leave the cursor, the *)
(* regions and the order of the lines alone.                               *)

Kept(s, t) == "odd" \in DOMAIN s => "odd" \in DOMAIN t /\ (s.odd # {} => t.odd # {})

LEMMA KeptOdds ==
  ASSUME NEW s, NEW t, Odds(s), Kept(s, t)
  PROVE  Odds(t)
  BY DEF Odds, Kept

LEMMA KeptThrough ==
  ASSUME NEW s, NEW t, NEW u, Kept(s, t), Kept(t, u)
  PROVE  Kept(s, u)
  BY DEF Kept

LEMMA KeptByCells ==
  ASSUME NEW s, NEW w
  PROVE  /\ \A lines : Kept(s, WriteRows(s, w, lines))
         /\ \A y, line : Kept(s, Write(s, w, y, line))
         /\ \A ys : Kept(s, EraseRows(s, w, ys))
         /\ \A q, xs : Kept(s, Erased(s, w, q, xs))
         /\ \A q, x, cell : Kept(s, Put(s, w, q, x, cell))
  BY DEF Kept, WriteRows, Write, EraseRows, Erased, Put

LEMMA KeptByRecord ==
  ASSUME NEW s, NEW w
  PROVE  /\ \A l, x : Kept(s, TellFirst(s, w, l, x))
         /\ \A l, x : Kept(s, TellLast(s, w, l, x))
         /\ \A from, to, force : Kept(s, TouchRows(s, w, from, to, force))
         /\ \A y, a, b : Kept(s, TouchLine(s, w, y, a, b))
         /\ \A ys, force : Kept(s, TouchFull(s, w, ys, force))
         /\ Kept(s, TouchWin(s, w))
<1>1. \A from, to, force : Kept(s, TouchRows(s, w, from, to, force))
  BY DEF Kept, TouchRows
<1> QED
  BY <1>1 DEF Kept, TellFirst, TellLast, TouchLine, TouchFull, TouchWin

LEMMA KeptByCursor ==
  ASSUME NEW s, NEW w
  PROVE  /\ \A c : Kept(s, [s EXCEPT !.cur[w] = c])
         /\ \A x : Kept(s, [s EXCEPT !.cur[w][2] = x])
         /\ \A y, x : Kept(s, At(s, w, y, x))
         /\ \A y : Kept(s, NextLine(s, w, y))
         /\ \A k, when : Kept(s, Odd(s, k, when))
<1>1. \A t, k, when : Kept(t, Odd(t, k, when))
  BY DEF Kept, Odd
<1>2. \A c : Kept(s, [s EXCEPT !.cur[w] = c])
  BY DEF Kept
<1>3. \A x : Kept(s, [s EXCEPT !.cur[w][2] = x])
  BY DEF Kept
<1>4. \A y, x : Kept(s, At(s, w, y, x))
  BY DEF Kept, At
<1>5. ASSUME NEW y PROVE Kept(s, NextLine(s, w, y))
  <2>1. CASE y = Bottom(s, w)
    BY <1>2, <2>1 DEF NextLine
  <2>2. CASE y # Bottom(s, w)
    BY <1>1, <1>2, <2>2, KeptThrough DEF NextLine
  <2> QED
    BY <2>1, <2>2
<1> QED
  BY <1>1, <1>2, <1>3, <1>4, <1>5

LEMMA KeptBySync ==
  ASSUME NEW s, NEW w
  PROVE  Kept(s, Refreshed(s, w)) /\ Kept(s, Sync(s, w))
<1>1. \A t : Kept(t, Gather(t))
  BY DEF Kept, Gather
<1>2. \A t : Kept(t, TakeClear(PlaceCursor(t, w), w))
  BY DEF Kept, TakeClear, PlaceCursor
<1>3. \A t, ys : Kept(t, CopyRows(t, w, ys))
  BY DEF Kept, CopyRows
<1>4. \A t, ys : Kept(t, ResetRows(t, w, ys))
  BY DEF Kept, ResetRows
<1>5. \A t : Kept(t, CopyOut(t, w))
  BY <1>3, <1>4, KeptThrough DEF CopyOut
<1>6. Kept(s, NoutRefreshed(s, w))
  <2> PICK g : g = IF w = "root" /\ flags.sub THEN Gather(s) ELSE s
    OBVIOUS
  <2>1. Kept(s, g)
    BY <1>1 DEF Kept
  <2>2. Kept(g, CopyOut(TakeClear(PlaceCursor(g, w), w), w))
    BY <1>2, <1>5, KeptThrough
  <2> QED
    BY <2>1, <2>2, KeptThrough DEF NoutRefreshed
<1>7. \A t : Kept(t, TakeCursor(Updated(t), w))
  BY DEF Kept, TakeCursor, Updated
<1>8. Kept(s, Refreshed(s, w))
  BY <1>6, <1>7, KeptThrough DEF Refreshed
<1>9. \A t : Kept(t, SyncUp(t, w))
  BY KeptByRecord, KeptThrough DEF SyncUp
<1>10. Kept(s, Sync(s, w))
  <2> PICK u : u = IF w \in flags.immed THEN Refreshed(s, w) ELSE s
    OBVIOUS
  <2>1. Kept(s, u)
    BY <1>8 DEF Kept
  <2>2. Kept(u, SyncParent(u, w))
    BY <1>9 DEF SyncParent, Kept
  <2> QED
    BY <2>1, <2>2, KeptThrough DEF Sync
<1> QED
  BY <1>8, <1>10

LEMMA SameCells ==
  ASSUME NEW s, DOMAIN s = Fields, NEW w
  PROVE  /\ \A lines : Same(s, WriteRows(s, w, lines))
         /\ \A y, line : Same(s, Write(s, w, y, line))
         /\ \A ys : Same(s, EraseRows(s, w, ys))
         /\ \A q, xs : Same(s, Erased(s, w, q, xs))
         /\ \A q, x, cell : Same(s, Put(s, w, q, x, cell))
         /\ \A l, x : Same(s, TellFirst(s, w, l, x))
         /\ \A l, x : Same(s, TellLast(s, w, l, x))
         /\ \A from, to, force : Same(s, TouchRows(s, w, from, to, force))
         /\ \A y, a, b : Same(s, TouchLine(s, w, y, a, b))
         /\ \A ys, force : Same(s, TouchFull(s, w, ys, force))
<1>1. \A lines : Same(s, WriteRows(s, w, lines))
  BY DEF Same, WriteRows, Fields
<1>2. \A q, xs : Same(s, Erased(s, w, q, xs))
  BY DEF Same, Erased, Fields
<1>3. \A q, x, cell : Same(s, Put(s, w, q, x, cell))
  BY DEF Same, Put, Fields
<1>4. \A l, x : Same(s, TellFirst(s, w, l, x)) /\ Same(s, TellLast(s, w, l, x))
  BY DEF Same, TellFirst, TellLast, Fields
<1>5. \A from, to, force : Same(s, TouchRows(s, w, from, to, force))
  BY DEF Same, TouchRows, Fields
<1> QED
  BY <1>1, <1>2, <1>3, <1>4, <1>5 DEF Write, EraseRows, TouchLine, TouchFull

\* Something that is not odd is not marked.
LEMMA OddSafe ==
  ASSUME NEW s, NEW A, Sound(s), Only(s, A), NEW kind, NEW when, ~when
  PROVE  LET t == Odd(s, kind, when)
         IN  Sound(t) /\ Only(t, A) /\ Same(s, t)
<1> PICK t : t = Odd(s, kind, when)
  OBVIOUS
<1>0. DOMAIN s = Fields /\ Cursors(s.cur) /\ Clears(s.clear) /\ s.vclear \in BOOLEAN
  BY DEF Sound, Virtual
<1>1. DOMAIN t = Fields /\ \A f \in Fields : t[f] = s[f]
  BY <1>0 DEF Odd, Fields
<1>2. t.cur = s.cur /\ t.clear = s.clear /\ t.vclear = s.vclear /\ t.region = s.region /\ t.row = s.row /\ t.subrow = s.subrow
  BY <1>1 DEF Fields
<1>3. Sound(t) /\ Only(t, A)
  BY <1>0, <1>1, <1>2, SameSafe
<1> QED
  BY <1>2, <1>3 DEF Same

LEMMA OddIs ==
  ASSUME NEW s, "odd" \in DOMAIN s, NEW kind, NEW when, when
  PROVE  Odds(Odd(s, kind, when))
  BY DEF Odds, Odd

LEMMA OddField == ASSUME NEW s, Sound(s) PROVE DOMAIN s = Fields /\ "odd" \in DOMAIN s
  BY DEF Sound, Fields

-----------------------------------------------------------------------------
(* A line of storage, wherever it is.                                      *)

\* The cells of the line of storage p in columns xs of w.
Held(s, w, p, xs) == {c \in Rows \X Columns : s.row[c[1]] = p /\ c[2] - Area(w).x \in xs}

LEMMA HeldIs ==
  ASSUME NEW s, Sound(s), NEW w \in Windows, NEW y \in Lns(w), NEW xs
  PROVE  Held(s, w, Storage(s, w, y), xs) = Part(w, y, xs)
<1> PICK q : q = Storage(s, w, y)
  OBVIOUS
<1>1. y + Area(w).y - Area(w).y = y
  BY WindowsAre, PlaceIs
<1>2. q = s.row[y + Area(w).y] /\ \A z \in Rows : s.row[z] = q => z = y + Area(w).y
  BY StorageIs, StorageApart
<1>3. ASSUME NEW z \in Rows PROVE s.row[z] = q <=> z - Area(w).y = y
  <2>1. ASSUME z - Area(w).y = y PROVE s.row[z] = q
    <3>1. z = y + Area(w).y
      BY <2>1, WindowsAre, AreaIs, SizesAre DEF Rows, Lns
    <3> QED
      BY <1>2, <3>1
  <2>2. ASSUME s.row[z] = q PROVE z - Area(w).y = y
    <3>1. z = y + Area(w).y
      BY <1>2, <2>2
    <3> QED
      BY <3>1, WindowsAre, AreaIs DEF Lns
  <2> QED
    BY <2>1, <2>2
<1> QED
  BY <1>3 DEF Held, Part

LEMMA ErasedSafe ==
  ASSUME NEW s, NEW A, Sound(s), Only(s, A), NEW w \in AllWindows, NEW q \in Rows, NEW xs
  PROVE  Sound(Erased(s, w, q, xs)) /\ Only(Erased(s, w, q, xs), A \cup Held(s, w, q, xs))
<1> PICK t : t = Erased(s, w, q, xs)
  OBVIOUS
<1> PICK line : line = [x \in xs |-> Blank]
  OBVIOUS
<1>0. DOMAIN s = Fields /\ s.text \in Grid
  BY DEF Sound
<1>1. DOMAIN t = Fields /\ \A f \in Fields \ {"text"} : t[f] = s[f]
  BY <1>0 DEF Erased, Fields
<1>2. t.text = [s.text EXCEPT ![q] = Over(s.text[q], w, line)]
  BY <1>0 DEF Erased, Fields, Grid
<1>3. s.text[q] \in [Columns -> Cells] /\ DOMAIN line = xs /\ \A x \in DOMAIN line : line[x] \in Cells
  <2>1. Blank \in Cells
    BY DEF Blank, Cells, Widths
  <2> QED
    BY <1>0, <2>1 DEF Grid
<1>4. /\ Over(s.text[q], w, line) \in [Columns -> Cells]
      /\ \A x \in Columns : x - Area(w).x \notin DOMAIN line => Over(s.text[q], w, line)[x] = s.text[q][x]
  BY <1>3, OverIs
<1>5. t.text \in Grid
  BY <1>0, <1>2, <1>4 DEF Grid
<1>6. ASSUME NEW y \in Rows, NEW x \in Columns, <<y, x>> \notin Held(s, w, q, xs)
      PROVE  t.text[s.row[y]][x] = s.text[s.row[y]][x]
  <2>1. s.row[y] \in Rows
    BY DEF Sound, Ordered
  <2> QED
    BY <1>0, <1>2, <1>3, <1>4, <1>6, <2>1 DEF Held, Grid
<1>7. Sound(t) /\ Only(t, A \cup Held(s, w, q, xs))
  BY <1>1, <1>5, <1>6, TextSafe
<1> QED
  BY <1>7

LEMMA PutSafe ==
  ASSUME NEW s, NEW A, Sound(s), Only(s, A), NEW w \in AllWindows, NEW q \in Rows, NEW x \in Cols(w), NEW cell \in Cells
  PROVE  Sound(Put(s, w, q, x, cell)) /\ Only(Put(s, w, q, x, cell), A \cup Held(s, w, q, {x}))
<1> PICK t : t = Put(s, w, q, x, cell)
  OBVIOUS
<1> PICK k : k = x + Area(w).x
  OBVIOUS
<1>00. k \in Columns /\ k - Area(w).x = x
  BY AreaIs, SizesAre DEF Cols, Columns
<1>0. DOMAIN s = Fields /\ s.text \in Grid /\ k \in Columns /\ k - Area(w).x = x
  BY <1>00 DEF Sound
<1>1. DOMAIN t = Fields /\ \A f \in Fields \ {"text"} : t[f] = s[f]
  BY <1>0 DEF Put, Fields
<1>2. t.text = [s.text EXCEPT ![q] = [s.text[q] EXCEPT ![k] = cell]]
  BY <1>0 DEF Put, Fields, Grid
<1>3. s.text[q] \in [Columns -> Cells]
  BY <1>0 DEF Grid
<1>4. t.text \in Grid
  BY <1>0, <1>2, <1>3 DEF Grid
<1>5. ASSUME NEW y \in Rows, NEW z \in Columns, <<y, z>> \notin Held(s, w, q, {x})
      PROVE  t.text[s.row[y]][z] = s.text[s.row[y]][z]
  <2>1. s.row[y] \in Rows
    BY DEF Sound, Ordered
  <2>2. s.row[y] = q => z # k
    BY <1>0, <1>5 DEF Held
  <2> QED
    BY <1>0, <1>2, <1>3, <2>1, <2>2 DEF Grid
<1>6. Sound(t) /\ Only(t, A \cup Held(s, w, q, {x}))
  <2> PICK B : B = Held(s, w, q, {x})
    OBVIOUS
  <2>1. \A y \in Rows, z \in Columns : <<y, z>> \notin B => t.text[s.row[y]][z] = s.text[s.row[y]][z]
    BY <1>5
  <2>2. Sound(t) /\ Only(t, A \cup B)
    BY ONLY Sound(s), Only(s, A), <1>1, <1>4, <2>1, TextSafe
  <2> QED
    BY <2>2
<1> QED
  BY <1>6

\* The record of line l is told of columns a to b of the window.
Tell(s, w, l, a, b) == TellLast(TellFirst(s, w, l, a), w, l, b)

LEMMA TellSafe ==
  ASSUME NEW s, NEW A, Sound(s), Only(s, A), NEW w \in Windows, NEW l \in Lns(w), NEW a \in 0 .. Area(w).v, NEW b \in 0 .. Area(w).v
  PROVE  LET t == Tell(s, w, l, a, b)
         IN  Sound(t) /\ Only(t, A \ Held(s, w, StorageOf(s, w, l), (a .. b) \cap Cols(w))) /\ Same(s, t)
<1> PICK u : u = TellFirst(s, w, l, a)
  OBVIOUS
<1> PICK t : t = TellLast(u, w, l, b)
  OBVIOUS
<1> PICK q : q = StorageOf(s, w, l)
  OBVIOUS
<1>0. DOMAIN s = Fields /\ w \in AllWindows /\ q \in Rows
  BY WindowsAre, StorageOfIs DEF Sound
<1>1. Sound(u) /\ Only(u, A) /\ Same(s, u)
  BY <1>0, TellFirstSafe, SameCells
<1>2. Sound(t) /\ Only(t, A) /\ Same(u, t)
  <2>1. DOMAIN u = Fields
    BY <1>1 DEF Sound
  <2> QED
    BY <1>0, <1>1, <2>1, TellLastSafe, SameCells
<1>3. StorageOf(u, w, l) = q /\ Same(s, t)
  BY <1>1, <1>2 DEF StorageOf, Same
<1>4. /\ u.first = [s.first EXCEPT ![q] = Less(@, a + Area(w).x)]
      /\ u.dirty = [s.dirty EXCEPT ![w] = [@ EXCEPT ![l] = TRUE]]
      /\ u.last = s.last
  BY <1>0 DEF TellFirst, Fields
<1>5. /\ t.last = [u.last EXCEPT ![q] = More(@, b + Area(w).x)]
      /\ t.first = u.first /\ t.dirty = u.dirty
  BY <1>1, <1>3 DEF TellLast, Fields, Sound
<1>6. t.first[q] = Less(s.first[q], a + Area(w).x) /\ t.last[q] = More(s.last[q], b + Area(w).x)
  BY <1>0, <1>4, <1>5 DEF Sound, Records
<1>7. Flagged(t, w, l)
  BY <1>0, <1>4, <1>5 DEF Flagged, Sound, Marked
<1>8. ASSUME NEW y \in Rows, NEW x \in Columns, <<y, x>> \in Held(s, w, q, (a .. b) \cap Cols(w))
      PROVE  Recorded(t, y, x)
  <2>1. s.row[y] = q /\ t.row[y] = q /\ x - Area(w).x \in Cols(w) /\ x - Area(w).x \in a .. b
    BY <1>3, <1>8 DEF Held, Same
  <2>2. x \in t.first[q] .. t.last[q]
    <3>1. s.first[q] \in 0 .. V /\ s.last[q] \in 0 .. V
      BY <1>0 DEF Sound, Records
    <3> QED
      BY <1>0, <1>6, <2>1, <3>1, AreaIs, SizesAre DEF Less, More, Columns
  <2>3. y - Area(w).y \in Lns(w) /\ LineOf(t, w, y - Area(w).y) = l
    <3>1. CASE w = "root"
      <4>1. q = l /\ y - Area(w).y = y
        BY <3>1, RootIs, SizesAre DEF StorageOf, Rows
      <4> QED
        BY <2>1, <3>1, <4>1, RootIs DEF LineOf
    <3>2. CASE w = "sub"
      <4>1. l \in Lns("sub") /\ flags.sub /\ q = s.row[l + SubArea.y] /\ l + SubArea.y \in Rows
        BY <1>0, <3>2, WindowsAre, PlaceIs DEF StorageOf, Sound, Ordered, Area
      <4>2. y = l + SubArea.y
        BY <2>1, <4>1 DEF Sound, Ordered
      <4>3. y - Area(w).y = l
        BY <3>2, <4>1, <4>2, SizeAssumption DEF Area, Lns
      <4> QED
        BY <3>2, <4>1, <4>3 DEF LineOf
    <3> QED
      BY <1>0, <3>1, <3>2 DEF AllWindows
  <2>4. On(w, y, x) /\ Flagged(t, w, LineOf(t, w, y - Area(w).y))
    BY <1>7, <2>1, <2>3 DEF On
  <2> QED
    BY <2>1, <2>2, <2>4 DEF Recorded
<1>9. Only(t, A \ Held(s, w, q, (a .. b) \cap Cols(w)))
  BY <1>2, <1>8 DEF Only, Lost
<1>10. Tell(s, w, l, a, b) = t
  BY DEF Tell
<1> QED
  BY <1>2, <1>3, <1>9, <1>10

LEMMA BlankIs == Blank \in Cells
  BY DEF Blank, Cells, Widths

\* What the program writes.
Chars == {" ", "a"} \cup Wide

LEMMA GlyphIs ==
  ASSUME NEW c \in Chars, NEW hi \in BOOLEAN
  PROVE  /\ Width(c) \in 1 .. 2 /\ (Width(c) # 2 => Width(c) = 1)
         /\ Glyph(c) \in Cells /\ Rest(c) \in Cells /\ Lit(Glyph(c), hi) \in Cells /\ Lit(Rest(c), hi) \in Cells
<1>1. Width(c) \in 1 .. 2 /\ (Width(c) # 2 => Width(c) = 1)
  BY DEF Width
<1>2. c \in {" ", "a"} \cup Wide /\ Width(c) \in Widths /\ -1 \in Widths
  BY <1>1 DEF Chars, Widths
<1>3. Glyph(c) \in Cells /\ Rest(c) \in Cells
  BY <1>2 DEF Glyph, Rest, Cells
<1>4. \A cell \in Cells : Lit(cell, hi) \in Cells
  BY DEF Lit, Cells
<1>5. Lit(Glyph(c), hi) \in Cells /\ Lit(Rest(c), hi) \in Cells
  BY <1>3, <1>4
<1> QED
  BY <1>1, <1>3, <1>5

LEMMA EraseRowsSafe ==
  ASSUME NEW s, NEW A, Sound(s), Only(s, A), NEW w \in Windows, NEW ys \in SUBSET Lns(w)
  PROVE  Sound(EraseRows(s, w, ys)) /\ Only(EraseRows(s, w, ys), A \cup Band(w, ys))
<1> PICK lines : lines = [y \in ys |-> [x \in 0 .. Area(w).v - 1 |-> Blank]]
  OBVIOUS
<1>1. /\ DOMAIN lines \subseteq Lns(w)
      /\ \A y \in DOMAIN lines : \A x \in DOMAIN lines[y] : lines[y][x] \in Cells
  BY BlankIs
<1>2. Written(w, lines) = Band(w, ys)
  BY DEF Written, Band, Cols
<1>3. EraseRows(s, w, ys) = WriteRows(s, w, lines)
  BY DEF EraseRows
<1>4. Sound(WriteRows(s, w, lines)) /\ Only(WriteRows(s, w, lines), A \cup Written(w, lines))
  BY ONLY Sound(s), Only(s, A), w \in Windows, <1>1, WriteRowsSafe
<1> QED
  BY <1>2, <1>3, <1>4

-----------------------------------------------------------------------------
(* Editing in a line.                                                      *)

\* A line is written and then touched where it was.
LEMMA TouchedSafe ==
  ASSUME NEW s, Sound(s), NEW w \in Windows, NEW y \in Lns(w), NEW xs,
         Only(s, Part(w, y, xs)), NEW a \in Cols(w), NEW b \in Cols(w), xs \subseteq a .. b
  PROVE  LET t == TouchLine(s, w, y, a, b)
         IN  Sound(t) /\ Only(t, {}) /\ Same(s, t)
<1>1. Part(w, y, xs) \ Part(w, y, a .. b) = {}
  BY DEF Part
<1> PICK A : A = Part(w, y, xs)
  OBVIOUS
<1>2. Sound(TouchLine(s, w, y, a, b)) /\ Only(TouchLine(s, w, y, a, b), A \ Part(w, y, a .. b))
  BY TouchLineSafe
<1>3. Same(s, TouchLine(s, w, y, a, b))
  BY SameCells DEF Sound
<1> QED
  BY <1>1, <1>2, <1>3

\* A row is written: the rest of the state is as it was.
LEMMA WrittenSafe ==
  ASSUME NEW s, Sound(s), Only(s, {}), NEW w \in Windows, NEW y \in Lns(w), NEW line,
         \A x \in DOMAIN line : line[x] \in Cells
  PROVE  LET t == Write(s, w, y, line)
         IN  Sound(t) /\ Only(t, Part(w, y, DOMAIN line)) /\ Same(s, t)
<1>1. Sound(Write(s, w, y, line)) /\ Only(Write(s, w, y, line), {} \cup Part(w, y, DOMAIN line))
  BY WriteSafe
<1>2. Same(s, Write(s, w, y, line))
  BY SameCells DEF Sound
<1> QED
  BY <1>1, <1>2

\* What the record of the line of a row is told.
LEMMA ToldSafe ==
  ASSUME NEW s, NEW A, Sound(s), Only(s, A), NEW w \in Windows, NEW y \in Lns(w),
         NEW a \in 0 .. Area(w).v, NEW b \in 0 .. Area(w).v
  PROVE  LET t == Tell(s, w, LineOf(s, w, y), a, b)
         IN  Sound(t) /\ Only(t, A \ Part(w, y, (a .. b) \cap Cols(w))) /\ Same(s, t)
<1> PICK l : l = LineOf(s, w, y)
  OBVIOUS
<1>1. l \in Lns(w) /\ StorageOf(s, w, l) = Storage(s, w, y)
  BY StorageIs
<1>2. Held(s, w, StorageOf(s, w, l), (a .. b) \cap Cols(w)) = Part(w, y, (a .. b) \cap Cols(w))
  BY <1>1, HeldIs
<1>3. LET t == Tell(s, w, l, a, b)
      IN  Sound(t) /\ Only(t, A \ Held(s, w, StorageOf(s, w, l), (a .. b) \cap Cols(w))) /\ Same(s, t)
  BY <1>1, TellSafe
<1> QED
  BY <1>2, <1>3

LEMMA TellKeeps ==
  ASSUME NEW s, NEW A, Sound(s), Only(s, A), NEW w \in Windows, NEW l \in Lns(w),
         NEW a \in 0 .. Area(w).v, NEW b \in 0 .. Area(w).v
  PROVE  LET t == Tell(s, w, l, a, b)
         IN  Sound(t) /\ Only(t, A) /\ Same(s, t)
<1> PICK t, B : t = Tell(s, w, l, a, b) /\ B = Held(s, w, StorageOf(s, w, l), (a .. b) \cap Cols(w))
  OBVIOUS
<1>1. Sound(t) /\ Only(t, A \ B) /\ Same(s, t)
  BY TellSafe
<1> QED
  BY <1>1, OnlyMore

LEMMA CursorIs ==
  ASSUME NEW s, Sound(s), NEW w \in AllWindows
  PROVE  s.cur[w][1] \in Lns(w) /\ s.cur[w][2] \in Cols(w)
  BY DEF Sound, Cursors, Cursor

LEMMA LineSame ==
  ASSUME NEW s, NEW t, Same(s, t), NEW w, NEW y
  PROVE  LineOf(t, w, y) = LineOf(s, w, y) /\ Storage(t, w, y) = Storage(s, w, y)
  BY DEF Same, LineOf, Storage

\* The last column of a window, and the columns from x on.
LEMMA ColsAre ==
  ASSUME NEW w \in AllWindows
  PROVE  /\ Area(w).v - 1 \in Cols(w) /\ 0 \in Cols(w) /\ 1 \in Cols(w) /\ Area(w).v \in 0 .. Area(w).v
         /\ Area(w).v - 1 \in 0 .. Area(w).v /\ 0 \in 0 .. Area(w).v
         /\ 0 \in Lns(w) /\ Area(w).h - 1 \in Lns(w) /\ Area(w).v \notin Cols(w)
         /\ \A x \in Cols(w) : x \in 0 .. Area(w).v /\ x .. Area(w).v - 1 \subseteq Cols(w)
  BY AreaIs DEF Cols, Lns

LEMMA InsStrSafe ==
  ASSUME NEW s, Sound(s), Only(s, {}), NEW w \in Windows
  PROVE  Safe(InsStr(s, w, "a", 2), {})
<1> PICK y, x, v : y = s.cur[w][1] /\ x = s.cur[w][2] /\ v = Area(w).v
  OBVIOUS
<1> PICK line : line = Text(s, w, y)
  OBVIOUS
<1> PICK new : new = [z \in x .. v - 1 |-> IF z < x + 2 THEN [Glyph("a") EXCEPT !.col = 1] ELSE line[z - 2]]
  OBVIOUS
<1> PICK l : l = LineOf(s, w, y)
  OBVIOUS
<1>0. w \in AllWindows /\ y \in Lns(w) /\ x \in Cols(w) /\ v \in Nat \ {0, 1} /\ l \in Lns(w)
  BY WindowsAre, CursorIs, AreaIs, StorageIs
<1>1. \A z \in DOMAIN new : new[z] \in Cells
  <2>1. [Glyph("a") EXCEPT !.col = 1] \in Cells
    BY DEF Glyph, Cells, Widths
  <2>2. ASSUME NEW z \in x .. v - 1, ~(z < x + 2) PROVE line[z - 2] \in Cells
    <3>1. z - 2 \in Cols(w)
      BY <1>0, <2>2 DEF Cols
    <3> QED
      BY <1>0, <3>1, TextIs
  <2> QED
    BY <2>1, <2>2
<1> PICK t : t = Write(s, w, y, new)
  OBVIOUS
<1> PICK A : A = Part(w, y, x .. v - 1)
  OBVIOUS
<1>2. Sound(t) /\ Only(t, A) /\ Same(s, t)
  <2>1. DOMAIN new = x .. v - 1
    OBVIOUS
  <2>2. Sound(t) /\ Only(t, Part(w, y, DOMAIN new)) /\ Same(s, t)
    BY <1>0, <1>1, WrittenSafe
  <2> QED
    BY <2>1, <2>2
<1> PICK u : u = Tell(t, w, l, 0, v - 1)
  OBVIOUS
<1>3. Sound(u) /\ Only(u, A) /\ Same(t, u)
  BY <1>0, <1>2, ColsAre, TellKeeps
<1>4. LET q == TouchLine(u, w, y, x, v - 1) IN Sound(q) /\ Only(q, {})
  BY <1>0, <1>3, ColsAre, TouchedSafe
<1>5. LET q == Sync(TouchLine(u, w, y, x, v - 1), w) IN Sound(q) /\ Only(q, {})
  BY <1>4, SyncSafe
<1>6. InsStr(s, w, "a", 2) = Sync(TouchLine(u, w, y, x, v - 1), w)
  BY DEF InsStr, Tell
<1> QED
  BY <1>5, <1>6 DEF Safe

\* The column of the character a cell is part of.
LEMMA StartIs ==
  ASSUME NEW s, Sound(s), NEW w \in Windows, NEW y \in Lns(w), NEW x \in Cols(w), NEW sx,
         sx = IF Text(s, w, y)[x].col < 0 THEN x + Text(s, w, y)[x].col ELSE x
  PROVE  (sx \in Cols(w) /\ ~(sx < 0)) \/ sx < 0
<1> PICK k : k = Text(s, w, y)[x].col
  OBVIOUS
<1>1. k \in {-1, 1, 2} /\ sx = IF k < 0 THEN x + k ELSE x
  BY TextIs DEF Widths
<1>2. x \in Nat /\ x <= Area(w).v - 1 /\ Area(w).v \in Nat
  BY WindowsAre, AreaIs DEF Cols
<1>3. CASE k < 0
  <2>1. sx = x - 1 /\ sx \in Int
    BY <1>1, <1>2, <1>3
  <2> QED
    BY <1>2, <2>1 DEF Cols
<1>4. CASE ~(k < 0)
  <2>1. sx = x
    BY <1>1, <1>4
  <2> QED
    BY <1>2, <2>1 DEF Cols
<1> QED
  BY <1>3, <1>4

LEMMA OddTouched ==
  ASSUME NEW s, "odd" \in DOMAIN s, NEW kind, NEW when, when, NEW w, NEW y, NEW a, NEW b
  PROVE  Odds(Sync(TouchLine(Odd(s, kind, when), w, y, a, b), w))
<1> PICK o : o = Odd(s, kind, when)
  OBVIOUS
<1> PICK t : t = TouchLine(o, w, y, a, b)
  OBVIOUS
<1>1. Odds(o)
  BY OddIs
<1>2. Kept(o, t)
  BY KeptByRecord
<1>3. Odds(t)
  BY <1>1, <1>2, KeptOdds
<1>4. Kept(t, Sync(t, w))
  BY KeptBySync
<1> QED
  BY <1>3, <1>4, KeptOdds

LEMMA InsWchSafe ==
  ASSUME NEW s, Sound(s), Only(s, {}), NEW w \in Windows, NEW c \in Chars
  PROVE  Safe(InsWch(s, w, c), {})
<1>a. PICK y, x, v : y = s.cur[w][1] /\ x = s.cur[w][2] /\ v = Area(w).v
  OBVIOUS
<1>b. PICK line, l, cw : line = Text(s, w, y) /\ l = LineOf(s, w, y) /\ cw = Width(c)
  OBVIOUS
<1>c. PICK sx : sx = IF line[x].col < 0 THEN x + line[x].col ELSE x
  OBVIOUS
<1>e. PICK new : new = Inserted(line, c, sx, v)
  OBVIOUS
<1>f. PICK t, u : t = Write(s, w, y, new) /\ u = Tell(t, w, l, sx, v - 1)
  OBVIOUS
<1>g. PICK o, r : o = Odd(u, "half", sx < 0) /\ r = Sync(TouchLine(o, w, y, sx, v - 1), w)
  OBVIOUS
<1>0. w \in AllWindows /\ y \in Lns(w) /\ x \in Cols(w) /\ v \in Nat \ {0, 1} /\ l \in Lns(w)
  BY <1>a, <1>b, WindowsAre, CursorIs, AreaIs, StorageIs
<1>1. InsWch(s, w, c) = IF cw > v - sx THEN s ELSE r
  BY <1>a, <1>b, <1>c, <1>e, <1>f, <1>g DEF InsWch, Tell
<1>2. (sx \in Cols(w) /\ ~(sx < 0)) \/ sx < 0
  BY <1>0, <1>b, <1>c, StartIs
<1>3. CASE sx < 0
  <2>1. "odd" \in DOMAIN u
    <3>1. "odd" \in DOMAIN t
      BY <1>f, KeptByCells, OddField DEF Kept
    <3>2. "odd" \in DOMAIN TellFirst(t, w, l, sx)
      BY <3>1, KeptByRecord DEF Kept
    <3> QED
      BY <1>f, <3>2, KeptByRecord DEF Kept, Tell
  <2>2. Odds(r)
    BY <1>3, <1>g, <2>1, OddTouched
  <2> QED
    BY <1>1, <2>2 DEF Safe
<1>4. CASE sx \in Cols(w) /\ ~(sx < 0)
  <2>1. ASSUME NEW z \in sx .. v - 1 PROVE new[z] \in Cells
    <3>1. Glyph(c) \in Cells /\ Rest(c) \in Cells /\ Blank \in Cells /\ cw \in 1 .. 2
      BY <1>b, GlyphIs, BlankIs
    <3>2. z \in Cols(w) /\ (z >= sx + cw => z - cw \in Cols(w))
      BY <1>0, <1>4, <1>a, <3>1 DEF Cols
    <3>3. line[z] \in Cells /\ (z >= sx + cw => line[z - cw] \in Cells)
      BY <1>0, <1>b, <3>2, TextIs
    <3>4. \/ new[z] = Glyph(c) \/ new[z] = Rest(c) \/ new[z] = Blank \/ new[z] = line[z]
          \/ z >= sx + cw /\ new[z] = line[z - cw]
      BY <1>b, <1>e DEF Inserted
    <3> QED
      BY <3>1, <3>3, <3>4
  <2>a. PICK A : A = Part(w, y, sx .. v - 1)
    OBVIOUS
  <2>2. Sound(t) /\ Only(t, A) /\ Same(s, t)
    <3>1. DOMAIN new = sx .. v - 1
      BY <1>e DEF Inserted
    <3>2. \A z \in DOMAIN new : new[z] \in Cells
      BY <2>1, <3>1
    <3>3. Sound(t) /\ Only(t, Part(w, y, DOMAIN new)) /\ Same(s, t)
      BY <1>0, <1>f, <3>2, WrittenSafe
    <3> QED
      BY <2>a, <3>1, <3>3
  <2>3. Sound(u) /\ Only(u, A)
    <3>1. sx \in 0 .. Area(w).v /\ v - 1 \in 0 .. Area(w).v
      BY <1>0, <1>4, <1>a, ColsAre
    <3> QED
      BY <1>0, <1>f, <2>2, <3>1, TellKeeps
  <2>4. Sound(o) /\ Only(o, A)
    BY <1>4, <1>g, <2>3, OddSafe
  <2>5. Sound(TouchLine(o, w, y, sx, v - 1)) /\ Only(TouchLine(o, w, y, sx, v - 1), {})
    <3>1. v - 1 \in Cols(w)
      BY <1>0, <1>a, ColsAre
    <3>2. sx .. v - 1 \subseteq sx .. v - 1
      OBVIOUS
    <3> QED
      BY <1>0, <1>4, <2>4, <2>a, <3>1, <3>2, TouchedSafe
  <2>6. Sound(r) /\ Only(r, {})
    BY <1>g, <2>5, SyncSafe
  <2> QED
    BY <1>1, <2>6 DEF Safe
<1> QED
  BY <1>2, <1>3, <1>4

LEMMA DelChSafe ==
  ASSUME NEW s, Sound(s), Only(s, {}), NEW w \in Windows
  PROVE  Safe(DelCh(s, w), {})
<1>a. PICK y, x, v : y = s.cur[w][1] /\ x = s.cur[w][2] /\ v = Area(w).v
  OBVIOUS
<1>b. PICK line : line = Text(s, w, y)
  OBVIOUS
<1>c. PICK sx : sx = IF line[x].col < 0 THEN x + line[x].col ELSE x
  OBVIOUS
<1>d. PICK cw : cw = line[sx].col
  OBVIOUS
<1>e. PICK new : new = [z \in sx .. v - 1 |-> IF z + cw < v THEN line[z + cw] ELSE Blank]
  OBVIOUS
<1>f. PICK t : t = Write(s, w, y, new)
  OBVIOUS
<1>g. PICK o, r : o = Odd(t, "half", sx < 0 \/ cw < 0) /\ r = Sync(TouchLine(o, w, y, sx, v - 1), w)
  OBVIOUS
<1>0. w \in AllWindows /\ y \in Lns(w) /\ x \in Cols(w) /\ v \in Nat \ {0, 1}
  BY <1>a, WindowsAre, CursorIs, AreaIs
<1>1. DelCh(s, w) = r
  BY <1>a, <1>b, <1>c, <1>d, <1>e, <1>f, <1>g DEF DelCh
<1>2. (sx \in Cols(w) /\ ~(sx < 0)) \/ sx < 0
  BY <1>0, <1>b, <1>c, StartIs
<1>3. CASE sx < 0 \/ cw < 0
  <2>1. "odd" \in DOMAIN t
    BY <1>f, KeptByCells, OddField DEF Kept
  <2>2. Odds(r)
    BY <1>3, <1>g, <2>1, OddTouched
  <2> QED
    BY <1>1, <2>2 DEF Safe
<1>4. CASE ~(sx < 0 \/ cw < 0)
  <2>0. sx \in Cols(w) /\ cw \in 1 .. 2
    <3>1. sx \in Cols(w)
      BY <1>2, <1>4
    <3>2. cw \in {-1, 1, 2}
      BY <1>0, <1>b, <1>d, <3>1, TextIs DEF Widths
    <3>3. ~(cw < 0)
      BY <1>4
    <3> QED
      BY <3>1, <3>2, <3>3
  <2>1. ASSUME NEW z \in sx .. v - 1 PROVE new[z] \in Cells
    <3>2. z + cw < v => z + cw \in Cols(w)
      BY <1>0, <1>a, <2>0 DEF Cols
    <3>3. z + cw < v => line[z + cw] \in Cells
      BY <1>0, <1>b, <3>2, TextIs
    <3> QED
      BY <1>e, <3>3, BlankIs
  <2>a. PICK A : A = Part(w, y, sx .. v - 1)
    OBVIOUS
  <2>2. Sound(t) /\ Only(t, A) /\ Same(s, t)
    <3>1. DOMAIN new = sx .. v - 1
      BY <1>e
    <3>2. \A z \in DOMAIN new : new[z] \in Cells
      BY <2>1, <3>1
    <3>3. Sound(t) /\ Only(t, Part(w, y, DOMAIN new)) /\ Same(s, t)
      BY <1>0, <1>f, <3>2, WrittenSafe
    <3> QED
      BY <2>a, <3>1, <3>3
  <2>4. Sound(o) /\ Only(o, A)
    BY <1>4, <1>g, <2>2, OddSafe
  <2>5. Sound(TouchLine(o, w, y, sx, v - 1)) /\ Only(TouchLine(o, w, y, sx, v - 1), {})
    <3>1. v - 1 \in Cols(w)
      BY <1>0, <1>a, ColsAre
    <3>2. sx .. v - 1 \subseteq sx .. v - 1
      OBVIOUS
    <3> QED
      BY <1>0, <2>0, <2>4, <2>a, <3>1, <3>2, TouchedSafe
  <2>6. Sound(r) /\ Only(r, {})
    BY <1>g, <2>5, SyncSafe
  <2> QED
    BY <1>1, <2>6 DEF Safe
<1> QED
  BY <1>3, <1>4

\* mvwchgat at a cell of the window
LEMMA ChgAtSafe ==
  ASSUME NEW s, Sound(s), Only(s, {}), NEW w \in Windows, NEW y \in Lns(w), NEW x \in Cols(w), NEW n \in Nat \ {0}
  PROVE  Safe(ChgAt(s, w, y, x, n), {})
<1> PICK l, count, line : l = LineOf(s, w, y) /\ count = Less(n, Area(w).v - x) /\ line = Text(s, w, y)
  OBVIOUS
<1> PICK new : new = [z \in x .. x + count - 1 |-> [line[z] EXCEPT !.hi = TRUE]]
  OBVIOUS
<1> PICK t : t = Write(s, w, y, new)
  OBVIOUS
<1> PICK u : u = Tell(t, w, l, x, x + count)
  OBVIOUS
<1>0. w \in AllWindows /\ Area(w).v \in Nat \ {0, 1}
  BY WindowsAre, AreaIs
<1>1. count \in Nat \ {0} /\ x \in Nat /\ x + count \in 0 .. Area(w).v /\ x \in 0 .. Area(w).v
      /\ x .. x + count - 1 \subseteq Cols(w)
  BY <1>0 DEF Less, Cols
<1>2. ASSUME NEW z \in DOMAIN new PROVE new[z] \in Cells
  <2>1. z \in x .. x + count - 1 /\ z \in Cols(w)
    BY <1>1
  <2>2. line[z] \in Cells
    BY <1>0, <2>1, TextIs
  <2>3. [line[z] EXCEPT !.hi = TRUE] \in Cells
    BY <2>2 DEF Cells
  <2> QED
    BY <2>1, <2>3
<1> PICK A : A = Part(w, y, x .. x + count - 1)
  OBVIOUS
<1>3. Sound(t) /\ Only(t, A) /\ Same(s, t)
  <2>1. DOMAIN new = x .. x + count - 1
    OBVIOUS
  <2>2. Sound(t) /\ Only(t, Part(w, y, DOMAIN new)) /\ Same(s, t)
    BY <1>2, WrittenSafe
  <2> QED
    BY <2>1, <2>2
<1>4. Sound(u) /\ Only(u, {})
  <2>1. u = Tell(t, w, LineOf(t, w, y), x, x + count)
    BY <1>3, LineSame
  <2>2. Sound(u) /\ Only(u, A \ Part(w, y, (x .. x + count) \cap Cols(w)))
    BY ONLY w \in Windows, y \in Lns(w), <1>1, <1>3, <2>1, ToldSafe
  <2>3. A \ Part(w, y, (x .. x + count) \cap Cols(w)) = {}
    <3>1. x .. x + count - 1 \subseteq (x .. x + count) \cap Cols(w)
      BY <1>1
    <3> QED
      BY <3>1 DEF Part
  <2> QED
    BY <2>2, <2>3
<1>5. ChgAt(s, w, y, x, n) = u
  BY DEF ChgAt, Tell
<1> QED
  BY <1>4, <1>5 DEF Safe

LEMMA ClrToEolSafe ==
  ASSUME NEW s, Sound(s), Only(s, {}), NEW w \in Windows
  PROVE  LET t == ClrToEol(s, w)
         IN  Sound(t) /\ Only(t, {}) /\ t.cur[w][1] = s.cur[w][1] /\ t.region = s.region
<1> PICK y, x, v, q : y = s.cur[w][1] /\ x = s.cur[w][2] /\ v = Area(w).v /\ q = Storage(s, w, y)
  OBVIOUS
<1> PICK t : t = Erased(s, w, q, x .. v - 1)
  OBVIOUS
<1> PICK u : u = TouchLine(t, w, y, x, v - 1)
  OBVIOUS
<1>0. w \in AllWindows /\ y \in Lns(w) /\ x \in Cols(w) /\ q \in Rows /\ DOMAIN s = Fields
  BY WindowsAre, CursorIs, StorageIs, OddField
<1>1. Sound(t) /\ Only(t, Part(w, y, x .. v - 1)) /\ Same(s, t)
  <2>1. Sound(t) /\ Only(t, {} \cup Held(s, w, q, x .. v - 1))
    BY <1>0, ErasedSafe
  <2>2. Held(s, w, q, x .. v - 1) = Part(w, y, x .. v - 1)
    BY <1>0, HeldIs
  <2>3. Same(s, t)
    BY <1>0, SameCells
  <2> QED
    BY <2>1, <2>2, <2>3
<1>2. Sound(u) /\ Only(u, {}) /\ Same(t, u)
  BY <1>0, <1>1, ColsAre, TouchedSafe
<1>3. LET r == Sync(u, w) IN Sound(r) /\ Only(r, {}) /\ r.cur[w][1] = u.cur[w][1] /\ r.region = u.region
  BY <1>2, SyncSafe
<1>4. ClrToEol(s, w) = Sync(u, w)
  BY DEF ClrToEol
<1> QED
  BY <1>1, <1>2, <1>3, <1>4 DEF Same

-----------------------------------------------------------------------------
(* Counting.                                                               *)

LEMMA LeastThere ==
  ASSUME NEW S, S \subseteq Nat, S # {}
  PROVE  \E n \in S : \A m \in S : n <= m
<1>1. S \subseteq Nat /\ S # {}
  OBVIOUS
<1>2. PICK n \in S : \A m \in S : ~(<<m, n>> \in OpToRel(<, Nat))
  BY ONLY <1>1, NatLessThanWellFounded, WFMin
<1>3. \A m \in S : ~(m < n)
  BY <1>1, <1>2 DEF OpToRel
<1> QED
  BY <1>1, <1>3

LEMMA Induct ==
  ASSUME NEW n \in Nat, NEW S, 0 \in S, \A i \in 1 .. n : i - 1 \in S => i \in S
  PROVE  \A i \in 0 .. n : i \in S
<1>1. SUFFICES ASSUME {i \in 0 .. n : i \notin S} # {} PROVE FALSE
  OBVIOUS
<1>2. {i \in 0 .. n : i \notin S} \subseteq Nat
  OBVIOUS
<1>3. PICK i \in 0 .. n : i \notin S /\ \A m \in 0 .. n : m \notin S => i <= m
  BY <1>1, <1>2, LeastThere
<1>4. i # 0
  BY <1>3
<1>5. i \in 1 .. n /\ i - 1 \in 0 .. n
  BY <1>4
<1>6. i - 1 \in S
  BY <1>3, <1>5
<1> QED
  BY <1>3, <1>5, <1>6

-----------------------------------------------------------------------------
(* Moving lines.                                                           *)

\* The lines of the root are moved only when no subwindow has them.
Alone(w) == w = "root" => ~flags.sub

Still(s, t) == t.cur = s.cur /\ t.region = s.region

\* The root's lines change places, or the subwindow's cells are copied.
LEMMA SwapSafe ==
  ASSUME NEW s, NEW A, Sound(s), Only(s, A), ~flags.sub, NEW y \in Rows, NEW z \in Rows
  PROVE  LET t == Exchange(s, "root", y, z)
         IN  /\ Sound(t) /\ Still(s, t)
             /\ \A r \in Rows, x \in Columns : r \notin {y, z} /\ Lost(t, r, x) => <<r, x>> \in A
<1>t. PICK t : t = Exchange(s, "root", y, z)
  OBVIOUS
<1>0. DOMAIN s = Fields
  BY DEF Sound
<1>1. /\ DOMAIN t = Fields /\ \A f \in Fields \ {"row"} : t[f] = s[f]
      /\ t.row = [s.row EXCEPT ![y] = s.row[z], ![z] = s.row[y]]
  BY <1>0, <1>t DEF Exchange, Fields
<1>2. /\ t.text = s.text /\ t.subrow = s.subrow /\ t.cur = s.cur /\ t.clear = s.clear
      /\ t.region = s.region /\ t.virt = s.virt /\ t.vflag = s.vflag /\ t.vfirst = s.vfirst
      /\ t.vlast = s.vlast /\ t.vclear = s.vclear /\ t.shown = s.shown /\ t.odd = s.odd
      /\ t.first = s.first /\ t.last = s.last /\ t.dirty = s.dirty /\ t.forced = s.forced
  BY <1>1 DEF Fields
<1>3. Ordered(t.row, t.subrow)
  <2>1. s.row \in [Rows -> Rows] /\ \A a, b \in Rows : s.row[a] = s.row[b] => a = b
    BY DEF Sound, Ordered
  <2>2. t.row \in [Rows -> Rows]
    BY <1>1, <2>1
  <2>3. \A a \in Rows : t.row[a] = IF a = z THEN s.row[y] ELSE IF a = y THEN s.row[z] ELSE s.row[a]
    BY <1>1, <2>1
  <2>4. \A a, b \in Rows : t.row[a] = t.row[b] => a = b
    BY <2>1, <2>3
  <2>5. ASSUME NEW q \in Rows PROVE \E a \in Rows : t.row[a] = q
    <3>1. PICK a \in Rows : s.row[a] = q
      BY DEF Sound, Ordered
    <3> QED
      BY <2>3, <3>1
  <2> QED
    BY <1>2, <2>2, <2>4, <2>5 DEF Sound, Ordered
<1>4. Sound(t)
  BY <1>1, <1>2, <1>3 DEF Sound
<1>5. ASSUME NEW r \in Rows, NEW x \in Columns, r \notin {y, z}, Lost(t, r, x)
      PROVE  <<r, x>> \in A
  <2>1. t.row[r] = s.row[r]
    BY <1>1, <1>5 DEF Sound, Ordered
  <2>2. Windows = {"root"}
    BY DEF Windows
  <2>3. r - Area("root").y = r
    BY RootIs, SizesAre DEF Rows
  <2>4. LineOf(t, "root", r) = LineOf(s, "root", r)
    BY <2>1 DEF LineOf
  <2>5. Recorded(s, r, x) => Recorded(t, r, x)
    BY <1>2, <2>1, <2>2, <2>3, <2>4 DEF Recorded, Flagged
  <2>6. Lost(s, r, x)
    BY <1>2, <1>5, <2>1, <2>5 DEF Lost
  <2> QED
    BY <2>6 DEF Only
<1> QED
  BY <1>2, <1>4, <1>5, <1>t DEF Still

LEMMA ExchangeSafe ==
  ASSUME NEW s, NEW A, Sound(s), NEW w \in Windows, Alone(w),
         NEW ys \in SUBSET Lns(w), NEW y \in ys, NEW z \in ys, Only(s, A \cup Band(w, ys))
  PROVE  LET t == Exchange(s, w, y, z)
         IN  Sound(t) /\ Only(t, A \cup Band(w, ys)) /\ Still(s, t)
<1>t. PICK t : t = Exchange(s, w, y, z)
  OBVIOUS
<1>0. w \in AllWindows /\ y \in Lns(w) /\ z \in Lns(w)
  BY WindowsAre
<1>1. CASE w = "root"
  <2>1. y \in Rows /\ z \in Rows /\ ~flags.sub
    BY <1>0, <1>1, RootIs DEF Alone
  <2>2. /\ Sound(t) /\ Still(s, t)
        /\ \A r \in Rows, x \in Columns : r \notin {y, z} /\ Lost(t, r, x) => <<r, x>> \in A \cup Band(w, ys)
    BY <1>t, <1>1, <2>1, SwapSafe
  <2>3. \A r \in Rows, x \in Columns : r \in {y, z} => <<r, x>> \in Band(w, ys)
    <3>1. \A r \in Rows : r - Area("root").y = r
      BY RootIs, SizesAre DEF Rows
    <3>2. \A x \in Columns : x - Area("root").x \in Cols("root")
      BY RootIs, SizesAre DEF Columns
    <3> QED
      BY <1>1, <3>1, <3>2 DEF Band
  <2> QED
    BY <1>t, <2>2, <2>3 DEF Only
<1>2. CASE w = "sub"
  <2>a. PICK line : line = [x \in 0 .. SubArea.v - 1 |-> Text(s, w, y)[x]]
    OBVIOUS
  <2>1. DOMAIN line = Cols(w) /\ \A x \in DOMAIN line : line[x] \in Cells
    <3>1. Cols(w) = 0 .. SubArea.v - 1
      BY <1>2 DEF Cols, Area
    <3> QED
      BY <1>0, <2>a, <3>1, TextIs
  <2>2. t = Write(s, w, z, line)
    BY <1>2, <1>t, <2>a DEF Exchange
  <2>3. Sound(t) /\ Only(t, (A \cup Band(w, ys)) \cup Part(w, z, DOMAIN line))
    BY <1>0, <2>1, <2>2, WriteSafe
  <2>4. Part(w, z, DOMAIN line) \subseteq Band(w, ys)
    BY <2>1 DEF Part, Band
  <2>5. Same(s, t)
    BY <2>2, SameCells, OddField
  <2> QED
    BY <1>t, <2>3, <2>4, <2>5, OnlyMore DEF Still, Same
<1> QED
  BY <1>0, <1>1, <1>2 DEF AllWindows

LEMMA KeptByExchange ==
  ASSUME NEW s, NEW w, NEW y, NEW z
  PROVE  Kept(s, Exchange(s, w, y, z))
<1>1. Kept(s, [s EXCEPT !.row[y] = s.row[z], !.row[z] = s.row[y]])
  BY DEF Kept
<1> QED
  BY <1>1, KeptByCells DEF Exchange

\* The loop of winsdelln runs.
LEMMA RowsMovedIs ==
  ASSUME NEW s, NEW w, NEW y, NEW last, NEW k, NEW n
  PROVE  \E f : /\ f[0] = s
                /\ \A i \in 1 .. H : f[i] = RowStep(f[i - 1], w, y, last, k, n, i)
                /\ RowsMoved(s, w, y, last, k, n) = f[H]
<1> DEFINE Run(g, m) == g = [i \in 0 .. m |-> IF i = 0 THEN s ELSE RowStep(g[i - 1], w, y, last, k, n, i)]
           S == {m \in 0 .. H : \E g : Run(g, m)}
<1>0. H \in Nat
  BY SizesAre
<1>1. 0 \in S
  <2>1. PICK g : g = [i \in 0 .. 0 |-> s]
    OBVIOUS
  <2>2. g = [i \in 0 .. 0 |-> IF i = 0 THEN s ELSE RowStep(g[i - 1], w, y, last, k, n, i)]
    BY <2>1
  <2> QED
    BY <1>0, <2>2
<1>2. ASSUME NEW m \in 1 .. H, m - 1 \in S PROVE m \in S
  <2>1. PICK g : Run(g, m - 1)
    BY <1>2
  <2>2. /\ \A i \in 0 .. m - 1 : g[i] = IF i = 0 THEN s ELSE RowStep(g[i - 1], w, y, last, k, n, i)
    BY <2>1
  <2>3. PICK h : h = [i \in 0 .. m |-> IF i = m THEN RowStep(g[m - 1], w, y, last, k, n, m) ELSE g[i]]
    OBVIOUS
  <2>4. \A i \in 0 .. m - 1 : h[i] = g[i]
    BY <2>3
  <2>5. ASSUME NEW i \in 0 .. m
        PROVE  h[i] = IF i = 0 THEN s ELSE RowStep(h[i - 1], w, y, last, k, n, i)
    <3>1. CASE i = m
      <4>1. m - 1 \in 0 .. m - 1 /\ i # 0
        BY <3>1
      <4>2. h[i] = RowStep(g[m - 1], w, y, last, k, n, m)
        BY <2>3, <3>1
      <4> QED
        BY <2>4, <3>1, <4>1, <4>2
    <3>2. CASE i # m
      <4>1. i \in 0 .. m - 1 /\ (i # 0 => i - 1 \in 0 .. m - 1)
        BY <3>2
      <4> QED
        BY <2>2, <2>4, <4>1
    <3> QED
      BY <3>1, <3>2
  <2>6. h = [i \in 0 .. m |-> IF i = 0 THEN s ELSE RowStep(h[i - 1], w, y, last, k, n, i)]
    BY <2>3, <2>5
  <2>7. m \in 0 .. H
    OBVIOUS
  <2> QED
    BY <2>6, <2>7
<1>3. H \in S
  <2> HIDE DEF S
  <2>1. \A i \in 0 .. H : i \in S
    BY <1>0, <1>1, <1>2, Induct
  <2> QED
    BY <1>0, <2>1
<1>4. \E g : Run(g, H)
  BY <1>3
<1>5. PICK f : f = CHOOSE g : Run(g, H)
  OBVIOUS
<1>6. f = [i \in 0 .. H |-> IF i = 0 THEN s ELSE RowStep(f[i - 1], w, y, last, k, n, i)]
  BY <1>4, <1>5
<1>7. RowsMoved(s, w, y, last, k, n) = f[H]
  BY <1>5 DEF RowsMoved
<1>8. f[0] = s
  BY <1>0, <1>6
<1>9. \A i \in 1 .. H : f[i] = RowStep(f[i - 1], w, y, last, k, n, i)
  BY <1>0, <1>6
<1> QED
  BY ONLY <1>7, <1>8, <1>9

LEMMA RowStepSafe ==
  ASSUME NEW s, NEW A, NEW t, Sound(t), NEW w \in Windows, Alone(w),
         NEW y \in Nat, NEW last \in Nat, y .. last \subseteq Lns(w), NEW k \in Nat, NEW n \in Int, NEW i \in 1 .. H,
         Only(t, A \cup Band(w, y .. last)), Still(s, t)
  PROVE  LET u == RowStep(t, w, y, last, k, n, i)
         IN  Sound(u) /\ Only(u, A \cup Band(w, y .. last)) /\ Still(s, u)
<1>z. PICK z : z = IF n > 0 THEN last - k - (i - 1) ELSE y + (i - 1)
  OBVIOUS
<1>0. z \in Int /\ i \in Int
  BY <1>z, SizesAre
<1>u. PICK u : u = RowStep(t, w, y, last, k, n, i)
  OBVIOUS
<1>1. u = IF z < y \/ z + k > last THEN t
          ELSE IF n > 0 THEN Exchange(t, w, z, z + k) ELSE Exchange(t, w, z + k, z)
  BY <1>u, <1>z DEF RowStep
<1>2. CASE z < y \/ z + k > last
  BY <1>u, <1>1, <1>2
<1>3. CASE ~(z < y \/ z + k > last)
  <2>y. PICK ys : ys = y .. last
    OBVIOUS
  <2>1. z \in ys /\ z + k \in ys /\ ys \in SUBSET Lns(w)
    BY <1>0, <1>3, <2>y
  <2>2. ASSUME NEW a \in ys, NEW b \in ys
        PROVE  LET v == Exchange(t, w, a, b) IN Sound(v) /\ Only(v, A \cup Band(w, ys)) /\ Still(t, v)
    BY <2>1, <2>y, ExchangeSafe
  <2>3. Sound(u) /\ Only(u, A \cup Band(w, ys)) /\ Still(t, u)
    <3>1. u = Exchange(t, w, z, z + k) \/ u = Exchange(t, w, z + k, z)
      BY <1>1, <1>3
    <3> QED
      BY <2>1, <2>2, <3>1
  <2>4. Still(s, u)
    BY <2>3 DEF Still
  <2> QED
    BY <1>u, <2>y, <2>3, <2>4
<1> QED
  BY <1>2, <1>3

LEMMA RowsMovedSafe ==
  ASSUME NEW s, NEW A, Sound(s), Only(s, A), NEW w \in Windows, Alone(w),
         NEW y \in Nat, NEW last \in Nat, y .. last \subseteq Lns(w), NEW k \in Nat, NEW n \in Int
  PROVE  LET t == RowsMoved(s, w, y, last, k, n)
         IN  Sound(t) /\ Only(t, A \cup Band(w, y .. last)) /\ Still(s, t)
<1>1. PICK f : /\ f[0] = s
               /\ \A i \in 1 .. H : f[i] = RowStep(f[i - 1], w, y, last, k, n, i)
               /\ RowsMoved(s, w, y, last, k, n) = f[H]
  BY RowsMovedIs
<1> DEFINE Good(t) == Sound(t) /\ Only(t, A \cup Band(w, y .. last)) /\ Still(s, t)
           S == {i \in 0 .. H : Good(f[i])}
<1>0. H \in Nat
  BY SizesAre
<1>2. 0 \in S
  <2>1. Only(s, A \cup Band(w, y .. last))
    BY OnlyMore
  <2>2. Still(s, s)
    BY DEF Still
  <2> QED
    BY <1>0, <1>1, <2>1, <2>2
<1>3. ASSUME NEW i \in 1 .. H, i - 1 \in S PROVE i \in S
  <2>1. Good(f[i - 1])
    BY <1>3
  <2>2. Good(RowStep(f[i - 1], w, y, last, k, n, i))
    BY <2>1, RowStepSafe
  <2> HIDE DEF Good
  <2> QED
    BY <1>1, <2>2
<1>4. H \in S
  <2> HIDE DEF S
  <2>1. \A i \in 0 .. H : i \in S
    BY <1>0, <1>2, <1>3, Induct
  <2> QED
    BY <1>0, <2>1
<1> QED
  BY <1>1, <1>4

LEMMA KeptByRowsMoved ==
  ASSUME NEW s, NEW w, NEW y, NEW last, NEW k, NEW n
  PROVE  Kept(s, RowsMoved(s, w, y, last, k, n))
<1>1. PICK f : /\ f[0] = s
               /\ \A i \in 1 .. H : f[i] = RowStep(f[i - 1], w, y, last, k, n, i)
               /\ RowsMoved(s, w, y, last, k, n) = f[H]
  BY RowsMovedIs
<1> DEFINE S == {i \in 0 .. H : Kept(s, f[i])}
<1>0. H \in Nat
  BY SizesAre
<1>2. 0 \in S
  BY <1>0, <1>1 DEF Kept
<1>3. ASSUME NEW i \in 1 .. H, i - 1 \in S PROVE i \in S
  <2>1. Kept(s, f[i - 1])
    BY <1>3
  <2>2. Kept(f[i - 1], RowStep(f[i - 1], w, y, last, k, n, i))
    <3>1. \A t, a, b : Kept(t, t) /\ Kept(t, Exchange(t, w, a, b))
      BY KeptByExchange DEF Kept
    <3> QED
      BY <3>1 DEF RowStep
  <2>3. Kept(s, f[i])
    BY <1>1, <2>1, <2>2, KeptThrough
  <2> QED
    BY <2>3
<1>4. H \in S
  <2> HIDE DEF S
  <2>1. \A i \in 0 .. H : i \in S
    BY <1>0, <1>2, <1>3, Induct
  <2> QED
    BY <1>0, <2>1
<1> QED
  BY <1>1, <1>4

LEMMA LinkedSafe ==
  ASSUME NEW s, NEW A, Sound(s), Only(s, A), NEW w \in Windows
  PROVE  Sound(Linked(s, w)) /\ Only(Linked(s, w), A) /\ Still(s, Linked(s, w))
<1>1. CASE w = "root"
  BY <1>1 DEF Linked, Still
<1>2. CASE w # "root"
  <2>t. PICK t : t = Linked(s, w)
    OBVIOUS
  <2>0. DOMAIN s = Fields /\ flags.sub /\ Lns("sub") = 0 .. SubArea.h - 1
    BY <1>2, WindowsAre, OddField DEF AllWindows, Lns, Area
  <2>1. /\ DOMAIN t = Fields /\ \A f \in Fields \ {"subrow"} : t[f] = s[f]
        /\ t.subrow = [z \in Lns("sub") |-> s.row[z + SubArea.y]]
    BY <1>2, <2>0, <2>t DEF Linked, Fields
  <2>2. t.subrow = s.subrow
    <3>1. s.subrow \in [Lns("sub") -> Rows] /\ \A z \in Lns("sub") : s.subrow[z] = s.row[z + SubArea.y]
      BY <2>0 DEF Sound, Ordered
    <3> QED
      BY <2>1, <3>1
  <2>3. \A f \in Fields : t[f] = s[f]
    BY <2>1, <2>2
  <2>4. t.cur = s.cur /\ t.clear = s.clear /\ t.vclear = s.vclear /\ t.region = s.region
    BY <2>3 DEF Fields
  <2>5. Cursors(t.cur) /\ Clears(t.clear) /\ t.vclear \in BOOLEAN /\ (s.vclear => t.vclear)
    BY <2>4 DEF Sound, Virtual
  <2>6. Sound(t) /\ Only(t, A)
    BY <2>1, <2>3, <2>5, SameSafe
  <2> QED
    BY <2>4, <2>6, <2>t DEF Still
<1> QED
  BY <1>1, <1>2

\* k of the rows y to last of w.
Some(w, y, last, k) == y \in Nat /\ last \in Nat /\ y .. last \subseteq Lns(w) /\ k \in Nat /\ k <= last + 1 - y

\* The rows y to last were moved and are in the record.
LEMMA MoveRowsSafe ==
  ASSUME NEW s, NEW A, Sound(s), Only(s, A), NEW w \in Windows, Alone(w),
         NEW y, NEW last, NEW k, Some(w, y, last, k), NEW n \in Int
  PROVE  LET t == MoveRows(s, w, y, last, k, n)
         IN  /\ Sound(t) /\ Only(t, A \ Band(w, y .. last)) /\ t.region = s.region
             /\ t.cur[w][1] = s.cur[w][1] /\ t.cur[w][2] = s.cur[w][2]
<1>a. PICK t, u, v, r : /\ t = RowsMoved(s, w, y, last, k, n) /\ u = RowsBlanked(t, w, y, last, k, n)
                        /\ v = TouchFull(u, w, y .. last, FALSE) /\ r = Linked(v, w)
  OBVIOUS
<1>b. PICK B : B = Band(w, y .. last)
  OBVIOUS
<1>0. y \in Nat /\ last \in Nat /\ y .. last \subseteq Lns(w) /\ k \in Nat /\ k <= last + 1 - y
  BY DEF Some
<1>1. Sound(t) /\ Only(t, A \cup B) /\ Still(s, t)
  BY <1>0, <1>a, <1>b, RowsMovedSafe
<1>2. Sound(u) /\ Only(u, A \cup B) /\ Same(t, u)
  <2>a. PICK ys : ys = IF n > 0 THEN y .. y + k - 1 ELSE last - k + 1 .. last
    OBVIOUS
  <2>1. ys \subseteq y .. last
    BY <1>0, <2>a
  <2>2. ys \in SUBSET Lns(w) /\ Band(w, ys) \subseteq B
    BY <1>0, <1>b, <2>1 DEF Band
  <2>3. u = EraseRows(t, w, ys)
    BY <1>a, <2>a DEF RowsBlanked
  <2>4. Sound(u) /\ Only(u, (A \cup B) \cup Band(w, ys))
    BY <1>1, <2>2, <2>3, EraseRowsSafe
  <2>5. Only(u, A \cup B)
    BY <2>2, <2>4, OnlyMore
  <2> QED
    BY <1>1, <2>3, <2>4, <2>5, SameCells, OddField
<1>3. Sound(v) /\ Only(v, A \ B) /\ Same(u, v)
  <2>1. y .. last \in SUBSET Lns(w)
    BY <1>0
  <2>2. Sound(v) /\ Only(v, (A \cup B) \ Band(w, y .. last))
    BY <1>a, <1>2, <2>1, TouchFullSafe
  <2>3. (A \cup B) \ B \subseteq A \ B
    OBVIOUS
  <2>4. Only(v, A \ B)
    BY <1>b, <2>2, <2>3, OnlyMore
  <2> QED
    BY <1>a, <1>2, <2>2, <2>4, SameCells, OddField
<1>4. Sound(r) /\ Only(r, A \ B) /\ Still(v, r)
  BY <1>a, <1>3, LinkedSafe
<1>5. LET q == Sync(r, w) IN Sound(q) /\ Only(q, A \ B) /\ q.cur[w][1] = r.cur[w][1] /\ q.cur[w][2] = r.cur[w][2]
                             /\ q.region = r.region
  BY <1>4, SyncSafe
<1>6. MoveRows(s, w, y, last, k, n) = Sync(r, w)
  BY <1>a DEF MoveRows
<1>7. r.cur = s.cur /\ r.region = s.region
  BY <1>1, <1>2, <1>3, <1>4 DEF Same, Still
<1> QED
  BY <1>5, <1>6, <1>7, <1>b

LEMMA KeptByMoveRows ==
  ASSUME NEW s, NEW w, NEW y, NEW last, NEW k, NEW n
  PROVE  Kept(s, MoveRows(s, w, y, last, k, n))
<1>a. PICK t, u, v, r : /\ t = RowsMoved(s, w, y, last, k, n) /\ u = RowsBlanked(t, w, y, last, k, n)
                        /\ v = TouchFull(u, w, y .. last, FALSE) /\ r = Linked(v, w)
  OBVIOUS
<1>1. Kept(s, t)
  BY <1>a, KeptByRowsMoved
<1>2. Kept(t, u)
  BY <1>a, KeptByCells DEF RowsBlanked
<1>3. Kept(u, v)
  BY <1>a, KeptByRecord
<1>4. Kept(v, r)
  <2>1. Kept(v, v) /\ Kept(v, [v EXCEPT !.subrow = [z \in 0 .. SubArea.h - 1 |-> v.row[z + SubArea.y]]])
    BY DEF Kept
  <2> QED
    BY <1>a, <2>1 DEF Linked
<1>5. Kept(r, Sync(r, w))
  BY KeptBySync
<1>6. MoveRows(s, w, y, last, k, n) = Sync(r, w)
  BY <1>a DEF MoveRows
<1>7. Kept(s, u) /\ Kept(u, r)
  BY <1>1, <1>2, <1>3, <1>4, KeptThrough
<1>8. Kept(s, r)
  BY <1>7, KeptThrough
<1> QED
  BY <1>5, <1>6, <1>8, KeptThrough

\* The rows winsdelln moves: to the end of the region, or of the window.
MovedTo(s, w) ==
  IF s.cur[w][1] >= s.region[w][1] /\ s.cur[w][1] <= Bottom(s, w) THEN Bottom(s, w) ELSE Area(w).h - 1

LEMMA KeptByInsDel ==
  ASSUME NEW s, NEW w, NEW n
  PROVE  Kept(s, InsDel(s, w, n))
<1>a. PICK o, when : when = (w = "root" /\ flags.sub) /\ o = Odd(s, "moved", when)
  OBVIOUS
<1>b. PICK last, k : last = MovedTo(s, w) /\ k = Less(IF n > 0 THEN n ELSE -n, last + 1 - s.cur[w][1])
  OBVIOUS
<1>1. Kept(s, o)
  BY <1>a, KeptByCursor
<1>2. Kept(o, MoveRows(o, w, s.cur[w][1], last, k, n))
  BY KeptByMoveRows
<1>3. InsDel(s, w, n) = IF n = 0 THEN s ELSE MoveRows(o, w, s.cur[w][1], last, k, n)
  BY <1>a, <1>b DEF InsDel, MovedTo
<1>4. Kept(s, s)
  BY DEF Kept
<1> QED
  BY <1>1, <1>2, <1>3, <1>4, KeptThrough

LEMMA InsDelSafe ==
  ASSUME NEW s, NEW A, Sound(s), Only(s, A), NEW w \in Windows, NEW n \in Int \ {0}
  PROVE  LET t == InsDel(s, w, n)
         IN  \/ Odds(t)
             \/ /\ Sound(t) /\ Only(t, A \ Band(w, s.cur[w][1] .. MovedTo(s, w))) /\ t.region = s.region
                /\ t.cur[w][1] = s.cur[w][1] /\ t.cur[w][2] = s.cur[w][2]
<1>a. PICK o, when : when = (w = "root" /\ flags.sub) /\ o = Odd(s, "moved", when)
  OBVIOUS
<1>b. PICK y, last, k : /\ y = s.cur[w][1] /\ last = MovedTo(s, w)
                        /\ k = Less(IF n > 0 THEN n ELSE -n, last + 1 - y)
  OBVIOUS
<1>t. PICK t : t = MoveRows(o, w, y, last, k, n)
  OBVIOUS
<1>1. InsDel(s, w, n) = t
  BY <1>a, <1>b, <1>t DEF InsDel, MovedTo
<1>2. CASE when
  <2>1. Odds(o)
    BY <1>2, <1>a, OddField, OddIs
  <2>2. Odds(t)
    BY <1>t, <2>1, KeptByMoveRows, KeptOdds
  <2> QED
    BY <1>1, <2>2
<1>3. CASE ~when
  <2>0. w \in AllWindows /\ y \in Lns(w) /\ Area(w).h \in Nat
    BY <1>b, WindowsAre, CursorIs, AreaIs
  <2>1. last \in Lns(w) /\ y <= last
    <3>1. s.region[w][2] \in Lns(w)
      BY <2>0 DEF Sound, Regions
    <3> QED
      BY <1>b, <2>0, <3>1 DEF MovedTo, Bottom, Lns
  <2>2. Some(w, y, last, k)
    BY <1>b, <2>0, <2>1 DEF Some, Lns, Less
  <2>3. Sound(o) /\ Only(o, A) /\ Same(s, o) /\ Alone(w)
    BY <1>3, <1>a, OddSafe DEF Alone
  <2>4. /\ Sound(t) /\ Only(t, A \ Band(w, y .. last)) /\ t.region = o.region
        /\ t.cur[w][1] = o.cur[w][1] /\ t.cur[w][2] = o.cur[w][2]
    <3>1. n \in Int
      OBVIOUS
    <3>2. LET r == MoveRows(o, w, y, last, k, n)
          IN  /\ Sound(r) /\ Only(r, A \ Band(w, y .. last)) /\ r.region = o.region
              /\ r.cur[w][1] = o.cur[w][1] /\ r.cur[w][2] = o.cur[w][2]
      BY ONLY w \in Windows, <2>2, <2>3, <3>1, MoveRowsSafe
    <3> QED
      BY <1>t, <3>2
  <2> QED
    BY <1>1, <1>b, <2>3, <2>4 DEF Same
<1> QED
  BY <1>2, <1>3

\* A window whose cursor may be outside: wscrl goes to the top of its region.
Starts(s, w, A) ==
  /\ Sound(At(s, w, s.region[w][1], 1)) /\ Only(At(s, w, s.region[w][1], 1), A)
  /\ s.region[w][1] \in Lns(w) /\ DOMAIN s = Fields /\ w \in DOMAIN s.cur

\* wscrl moves the lines of the region; the cursor goes back to its cell.
LEMMA ScrollSafe ==
  ASSUME NEW s, NEW A, NEW w \in Windows, NEW n \in Int \ {0}, Starts(s, w, A)
  PROVE  LET t == Scroll(s, w, n)
         IN  \/ Odds(t)
             \/ /\ Sound(t) /\ Only(t, A \ Band(w, s.region[w][1] .. s.region[w][2])) /\ t.region = s.region
                /\ (s.cur[w][1] \in Lns(w) /\ s.cur[w][2] \in Cols(w)
                     => t.cur[w][1] = s.cur[w][1] /\ t.cur[w][2] = s.cur[w][2])
<1>t. PICK top, bottom : top = s.region[w][1] /\ bottom = s.region[w][2]
  OBVIOUS
<1>s. /\ Sound(At(s, w, top, 1)) /\ Only(At(s, w, top, 1), A)
      /\ top \in Lns(w) /\ DOMAIN s = Fields /\ w \in DOMAIN s.cur
  BY <1>t DEF Starts
<1>a. PICK a, u, t : a = At(s, w, top, 1) /\ u = InsDel(a, w, -n) /\ t = At(u, w, s.cur[w][1], s.cur[w][2])
  OBVIOUS
<1>0. w \in AllWindows /\ 1 \in Cols(w)
  BY WindowsAre, ColsAre
<1>1. a.region = s.region /\ a.cur[w][1] = top
  BY <1>0, <1>a, <1>s DEF At, Lns, Cols, Fields
<1>2. Scroll(s, w, n) = t
  BY <1>a, <1>t DEF Scroll
<1>3. \/ Odds(u)
      \/ Sound(u) /\ Only(u, A \ Band(w, a.cur[w][1] .. MovedTo(a, w))) /\ u.region = a.region
  <2>1. -n \in Int \ {0}
    OBVIOUS
  <2> QED
    BY <1>a, <1>s, <2>1, InsDelSafe
<1>4. MovedTo(a, w) = bottom
  <2>1. a.region[w][1] = top /\ a.region[w][2] = bottom /\ top <= bottom /\ top \in Int
    <3>1. a.region[w][1] <= a.region[w][2]
      BY <1>0, <1>a, <1>s DEF Sound, Regions
    <3> QED
      BY <1>1, <1>s, <1>t, <3>1 DEF Lns
  <2> QED
    BY <1>1, <2>1 DEF MovedTo, Bottom
<1>5. CASE Odds(u)
  <2>1. Kept(u, t)
    BY <1>a, KeptByCursor
  <2>2. Odds(t)
    BY <1>5, <2>1, KeptOdds
  <2> QED
    BY <1>2, <2>2
<1>6. CASE Sound(u) /\ Only(u, A \ Band(w, top .. bottom)) /\ u.region = s.region
  <2>1. Sound(t) /\ Only(t, A \ Band(w, top .. bottom))
    BY <1>0, <1>6, <1>a, AtSafe
  <2>2. t.region = u.region
    BY <1>6, <1>a, OddField DEF At, Fields
  <2>3. ASSUME s.cur[w][1] \in Lns(w) /\ s.cur[w][2] \in Cols(w)
        PROVE  t.cur[w][1] = s.cur[w][1] /\ t.cur[w][2] = s.cur[w][2]
    <3>1. t = [u EXCEPT !.cur[w] = <<s.cur[w][1], s.cur[w][2]>>]
      BY <1>a, <2>3 DEF At, Lns, Cols
    <3>2. DOMAIN u = Fields /\ w \in DOMAIN u.cur
      BY <1>0, <1>6 DEF Sound, Cursors
    <3>3. t.cur[w] = <<s.cur[w][1], s.cur[w][2]>>
      BY <3>1, <3>2 DEF Fields
    <3> QED
      BY <3>3
  <2> QED
    BY <1>2, <1>6, <1>t, <2>1, <2>2, <2>3
<1> QED
  BY <1>1, <1>3, <1>4, <1>5, <1>6

-----------------------------------------------------------------------------
(* Whole windows.                                                          *)

\* Rows are written, and the window is touched.
LEMMA WrittenWhole ==
  ASSUME NEW s, Sound(s), NEW w \in Windows, Only(s, Band(w, Lns(w)))
  PROVE  LET t == TouchWin(s, w) IN Sound(t) /\ Only(t, {}) /\ Same(s, t)
<1>a. PICK A, t : A = Band(w, Lns(w)) /\ t = TouchWin(s, w)
  OBVIOUS
<1>1. Sound(t) /\ Only(t, A \ Band(w, Lns(w))) /\ Same(s, t)
  BY <1>a, TouchWinSafe
<1>2. A \ Band(w, Lns(w)) = {}
  BY <1>a
<1> QED
  BY <1>a, <1>1, <1>2

LEMMA EraseSafe ==
  ASSUME NEW s, Sound(s), Only(s, {}), NEW w \in Windows
  PROVE  LET t == Erase(s, w) IN Sound(t) /\ Only(t, {})
<1>a. PICK t, u : t = EraseRows(s, w, Lns(w)) /\ u = TouchWin(t, w)
  OBVIOUS
<1>0. w \in AllWindows
  BY WindowsAre
<1>1. Sound(t) /\ Only(t, Band(w, Lns(w)))
  <2>1. Lns(w) \in SUBSET Lns(w)
    OBVIOUS
  <2>2. Sound(t) /\ Only(t, {} \cup Band(w, Lns(w)))
    BY <1>a, <2>1, EraseRowsSafe
  <2> QED
    BY <2>2
<1>2. Sound(u) /\ Only(u, {})
  BY <1>a, <1>1, WrittenWhole
<1>3. Sound(At(u, w, 0, 0)) /\ Only(At(u, w, 0, 0), {})
  BY <1>0, <1>2, AtSafe
<1>4. Erase(s, w) = At(u, w, 0, 0)
  BY <1>a DEF Erase, Lns
<1> QED
  BY <1>3, <1>4

LEMMA ClearSafe ==
  ASSUME NEW s, Sound(s), Only(s, {}), NEW w \in Windows
  PROVE  LET t == Clear(s, w) IN Sound(t) /\ Only(t, {})
<1>a. PICK t, u : t = Erase(s, w) /\ u = [t EXCEPT !.clear[w] = TRUE]
  OBVIOUS
<1>0. w \in AllWindows
  BY WindowsAre
<1>1. Sound(t) /\ Only(t, {})
  BY <1>a, EraseSafe
<1>2. /\ DOMAIN t = Fields /\ Cursors(t.cur) /\ Clears(t.clear) /\ t.vclear \in BOOLEAN
  BY <1>1 DEF Sound, Virtual
<1>3. /\ DOMAIN u = Fields /\ \A f \in Fields \ {"clear"} : u[f] = t[f]
      /\ u.clear = [t.clear EXCEPT ![w] = TRUE]
  BY <1>a, <1>2 DEF Fields
<1>4. u.cur = t.cur /\ u.vclear = t.vclear
  BY <1>3 DEF Fields
<1>5. Cursors(u.cur) /\ Clears(u.clear) /\ u.vclear \in BOOLEAN /\ (t.vclear => u.vclear)
  BY <1>2, <1>3, <1>4 DEF Clears
<1>6. \A f \in Fields \ {"cur", "clear", "vcur", "vclear"} : u[f] = t[f]
  BY <1>3
<1>7. Sound(u) /\ Only(u, {})
  BY <1>1, <1>3, <1>5, <1>6, SameSafe
<1>8. Clear(s, w) = u
  BY <1>a DEF Clear
<1> QED
  BY <1>7, <1>8

LEMMA BorderCells ==
  ASSUME NEW s, Sound(s), NEW w \in Windows, NEW y \in Lns(w), NEW c \in Chars, NEW x \in Cols(w)
  PROVE  BorderEdge(s, w, c, y)[x] \in Cells /\ BorderRow(s, w, c, y)[x] \in Cells
<1>a. PICK line, endx, corners : /\ line = Text(s, w, y) /\ endx = Area(w).v - 1
                                 /\ corners = (w = "root" /\ w \in flags.scroll)
  OBVIOUS
<1>b. PICK cut : cut = Remainder(s, w, Storage(s, w, y), 1)
  OBVIOUS
<1>c. PICK left : left = [z \in 0 .. endx |-> IF z = 0 THEN Glyph(c)
                                   ELSE IF z \in cut THEN [line[z] EXCEPT !.ch = " ", !.col = 1]
                                   ELSE line[z]]
  OBVIOUS
<1>d. PICK pcw : pcw = left[endx - 1].col
  OBVIOUS
<1>e. PICK right : right = IF pcw = 1 THEN {} ELSE IF pcw < 0 THEN endx - 1 + pcw .. endx - 1 ELSE {endx - 1}
  OBVIOUS
<1>0. x \in 0 .. endx /\ Glyph(c) \in Cells /\ Blank \in Cells /\ line[x] \in Cells
  <2>1. Glyph(c) \in Cells /\ Blank \in Cells
    BY GlyphIs, BlankIs
  <2>2. line[x] \in Cells
    BY <1>a, TextIs
  <2> QED
    BY <1>a, <2>1, <2>2 DEF Cols
<1>1. BorderEdge(s, w, c, y) = [z \in 0 .. endx |-> IF z \in {0, endx} /\ corners THEN line[z] ELSE Glyph(c)]
  BY <1>a DEF BorderEdge
<1>2. BorderRow(s, w, c, y) = [z \in 0 .. endx |-> IF z = endx THEN Glyph(c) ELSE IF z \in right THEN Blank ELSE left[z]]
  BY <1>a, <1>b, <1>c, <1>d, <1>e DEF BorderRow
<1>3. left[x] \in Cells
  <2>1. [line[x] EXCEPT !.ch = " ", !.col = 1] \in Cells
    BY <1>0 DEF Cells, Widths
  <2> QED
    BY <1>0, <1>c, <2>1
<1> QED
  BY <1>0, <1>1, <1>2, <1>3

LEMMA BorderSafe ==
  ASSUME NEW s, Sound(s), Only(s, {}), NEW w \in Windows, NEW c \in Chars
  PROVE  LET t == Border(s, w, c) IN Sound(t) /\ Only(t, {})
<1>a. PICK end : end = Area(w).h - 1
  OBVIOUS
<1>b. PICK lines : lines = [y \in 0 .. end |-> IF y \in {0, end} THEN BorderEdge(s, w, c, y) ELSE BorderRow(s, w, c, y)]
  OBVIOUS
<1>c. PICK t : t = WriteRows(s, w, lines)
  OBVIOUS
<1>1. DOMAIN lines = Lns(w)
  BY <1>a, <1>b DEF Lns
<1>2. ASSUME NEW y \in Lns(w)
      PROVE  DOMAIN lines[y] = Cols(w) /\ \A x \in DOMAIN lines[y] : lines[y][x] \in Cells
  <2>1. lines[y] = BorderEdge(s, w, c, y) \/ lines[y] = BorderRow(s, w, c, y)
    BY <1>a, <1>b DEF Lns
  <2>2. DOMAIN BorderEdge(s, w, c, y) = Cols(w) /\ DOMAIN BorderRow(s, w, c, y) = Cols(w)
    BY DEF BorderEdge, BorderRow, Cols
  <2> QED
    BY <2>1, <2>2, BorderCells
<1>3. Sound(t) /\ Only(t, {} \cup Written(w, lines))
  <2>1. DOMAIN lines \subseteq Lns(w) /\ \A y \in DOMAIN lines : \A x \in DOMAIN lines[y] : lines[y][x] \in Cells
    BY <1>1, <1>2
  <2> QED
    BY <1>c, <2>1, WriteRowsSafe
<1>4. Written(w, lines) \subseteq Band(w, Lns(w))
  BY <1>1, <1>2 DEF Written, Band
<1>5. Only(t, Band(w, Lns(w)))
  BY <1>3, <1>4, OnlyMore
<1>6. LET u == TouchWin(t, w) IN Sound(u) /\ Only(u, {})
  BY <1>3, <1>5, WrittenWhole
<1>7. Border(s, w, c) = TouchWin(t, w)
  BY <1>a, <1>b, <1>c DEF Border
<1> QED
  BY <1>6, <1>7

LEMMA TouchLnSafe ==
  ASSUME NEW s, Sound(s), Only(s, {}), NEW w \in Windows, NEW y \in Lns(w)
  PROVE  LET t == TouchLn(s, w, y, 1) IN Sound(t) /\ Only(t, {})
<1>a. PICK ys : ys = y .. Less(y + 1, Area(w).h) - 1
  OBVIOUS
<1>1. ys \in SUBSET Lns(w)
  BY <1>a, WindowsAre, AreaIs DEF Lns, Less
<1>2. Sound(TouchFull(s, w, ys, TRUE)) /\ Only(TouchFull(s, w, ys, TRUE), {} \ Band(w, ys))
  BY <1>1, TouchFullSafe
<1>3. TouchLn(s, w, y, 1) = TouchFull(s, w, ys, TRUE)
  BY <1>a DEF TouchLn
<1> QED
  BY <1>2, <1>3

LEMMA TouchOverlapSafe ==
  ASSUME NEW s, Sound(s), Only(s, {}), flags.sub, NEW w \in AllWindows
  PROVE  LET t == TouchOverlap(s, w) IN Sound(t) /\ Only(t, {})
<1>0. w \in Windows
  BY DEF Windows, AllWindows
<1>1. CASE w = "sub"
  <2>1. Sound(TouchWin(s, w)) /\ Only(TouchWin(s, w), {} \ Band(w, Lns(w)))
    BY <1>0, TouchWinSafe
  <2> QED
    BY <1>1, <2>1 DEF TouchOverlap
<1>2. CASE w = "root"
  <2>a. PICK ys : ys = SubArea.y .. SubArea.y + SubArea.h - 1
    OBVIOUS
  <2>b. PICK from, to : from = [y \in ys |-> SubArea.x] /\ to = [y \in ys |-> SubArea.x + SubArea.v - 1]
    OBVIOUS
  <2>1. ys \subseteq Lns(w)
    BY <1>2, <2>a, SizeAssumption, RootIs DEF Lns
  <2>2. SubArea.x \in Cols(w) /\ SubArea.x + SubArea.v - 1 \in Cols(w)
    BY <1>2, SizeAssumption, RootIs DEF Cols
  <2>3. DOMAIN from = ys /\ DOMAIN to = ys /\ \A y \in ys : from[y] \in Cols(w) /\ to[y] \in Cols(w)
    BY <2>b, <2>2
  <2>4. Sound(TouchRows(s, w, from, to, FALSE)) /\ Only(TouchRows(s, w, from, to, FALSE), {} \ Told(w, from, to))
    BY <1>0, <2>1, <2>3, TouchRowsSafe
  <2>5. TouchOverlap(s, w) = TouchRows(s, w, from, to, FALSE)
    BY <1>2, <2>a, <2>b DEF TouchOverlap
  <2> QED
    BY <2>4, <2>5
<1> QED
  BY <1>1, <1>2 DEF AllWindows

\* A set of columns has a first and a last one.
LEMMA EndsAre ==
  ASSUME NEW n \in Nat, NEW S, S \subseteq 0 .. n, S # {}
  PROVE  Min(S) \in S /\ Max(S) \in S /\ \A x \in S : Min(S) <= x /\ x <= Max(S)
<1>1. \E x \in S : \A z \in S : x <= z
  <2>1. S \subseteq Nat
    OBVIOUS
  <2> QED
    BY <2>1, LeastThere
<1>2. \E x \in S : \A z \in S : z <= x
  <2> DEFINE T == {n - x : x \in S}
  <2>0. \A x \in S : x \in Int /\ 0 <= x /\ x <= n
    OBVIOUS
  <2>1. T \subseteq Nat /\ T # {}
    BY <2>0
  <2>2. PICK k \in T : \A z \in T : k <= z
    BY <2>1, LeastThere
  <2>3. PICK x \in S : k = n - x
    BY <2>2
  <2>4. ASSUME NEW z \in S PROVE z <= x
    <3>1. k <= n - z
      BY <2>2
    <3>2. z \in Int /\ x \in Int
      BY <2>0
    <3> QED
      BY <2>3, <3>1, <3>2
  <2> QED
    BY <2>4
<1>3. Min(S) \in S /\ \A x \in S : Min(S) <= x
  BY <1>1 DEF Min
<1>4. Max(S) \in S /\ \A x \in S : Max(S) >= x
  <2>1. \E x \in S : \A z \in S : x >= z
    <3>1. \A x, z \in S : z <= x <=> x >= z
      OBVIOUS
    <3> QED
      BY <1>2, <3>1
  <2> QED
    BY <2>1 DEF Max
<1>5. \A x \in S : Max(S) >= x <=> x <= Max(S)
  BY <1>4
<1> QED
  BY <1>3, <1>4, <1>5

\* The cells of a row that wclrtobot changes.
Changing(s, w, y) ==
  {x \in (IF y = s.cur[w][1] THEN s.cur[w][2] ELSE 0) .. Area(w).v - 1 : Text(s, w, y)[x] # Blank}

LEMMA ClrToBotSafe ==
  ASSUME NEW s, Sound(s), Only(s, {}), NEW w \in Windows
  PROVE  Safe(ClrToBot(s, w), {})
<1>a. PICK ys : ys = {y \in s.cur[w][1] .. Area(w).h - 1 : Changing(s, w, y) # {}}
  OBVIOUS
<1>b. PICK lines : lines = [y \in ys |-> [x \in Changing(s, w, y) |-> Blank]]
  OBVIOUS
<1>c. PICK from, to : from = [y \in ys |-> Min(Changing(s, w, y))] /\ to = [y \in ys |-> Max(Changing(s, w, y))]
  OBVIOUS
<1>d. PICK t, u : t = WriteRows(s, w, lines) /\ u = TouchRows(t, w, from, to, FALSE)
  OBVIOUS
<1>0. w \in AllWindows /\ s.cur[w][1] \in Lns(w) /\ s.cur[w][2] \in Cols(w) /\ Area(w).v - 1 \in Nat /\ Area(w).h \in Nat
  <2>1. w \in AllWindows
    BY WindowsAre
  <2> QED
    BY <2>1, CursorIs, AreaIs
<1>1. ys \subseteq Lns(w)
  BY <1>0, <1>a DEF Lns
<1>2. \A y : Changing(s, w, y) \subseteq 0 .. Area(w).v - 1
  BY <1>0 DEF Changing, Cols
<1>3. ASSUME NEW y \in ys
      PROVE  /\ from[y] \in Cols(w) /\ to[y] \in Cols(w)
             /\ \A x \in Changing(s, w, y) : x \in from[y] .. to[y]
  <2>a. PICK S : S = Changing(s, w, y)
    OBVIOUS
  <2>1. S \subseteq 0 .. Area(w).v - 1 /\ S # {}
    BY <1>2, <1>a, <2>a
  <2>2. from[y] = Min(S) /\ to[y] = Max(S)
    BY <1>c, <2>a
  <2>3. Min(S) \in S /\ Max(S) \in S /\ \A x \in S : Min(S) <= x /\ x <= Max(S)
    BY <1>0, <2>1, EndsAre
  <2>4. from[y] \in S /\ to[y] \in S /\ \A x \in S : from[y] <= x /\ x <= to[y]
    BY <2>2, <2>3
  <2>5. \A x \in S : x \in Int
    BY <2>1
  <2> QED
    BY <2>1, <2>4, <2>5, <2>a DEF Cols
<1>4. Sound(t) /\ Only(t, Written(w, lines))
  <2>1. DOMAIN lines \subseteq Lns(w) /\ \A y \in DOMAIN lines : \A x \in DOMAIN lines[y] : lines[y][x] \in Cells
    BY <1>1, <1>b, BlankIs
  <2>2. Sound(t) /\ Only(t, {} \cup Written(w, lines))
    BY <1>d, <2>1, WriteRowsSafe
  <2> QED
    BY <2>2
<1>5. Sound(u) /\ Only(u, Written(w, lines) \ Told(w, from, to))
  <2>a. PICK B : B = Written(w, lines)
    OBVIOUS
  <2>1. DOMAIN from \subseteq Lns(w) /\ DOMAIN to = DOMAIN from /\ \A y \in DOMAIN from : from[y] \in Cols(w) /\ to[y] \in Cols(w)
    BY <1>1, <1>3, <1>c
  <2>2. Sound(u) /\ Only(u, B \ Told(w, from, to))
    BY <1>4, <1>d, <2>1, <2>a, TouchRowsSafe
  <2> QED
    BY <2>2, <2>a
<1>6. Written(w, lines) \subseteq Told(w, from, to)
  <2>1. \A y : y \in DOMAIN lines <=> y \in ys
    BY <1>b
  <2>2. \A y \in ys : y \in DOMAIN from /\ \A x \in DOMAIN lines[y] : x \in from[y] .. to[y]
    BY <1>3, <1>b, <1>c
  <2> QED
    BY <2>1, <2>2 DEF Written, Told
<1>7. Written(w, lines) \ Told(w, from, to) = {}
  BY <1>6
<1>8. Sound(Sync(u, w)) /\ Only(Sync(u, w), {})
  BY <1>5, <1>7, SyncSafe
<1>9. ClrToBot(s, w) = Sync(u, w)
  BY <1>a, <1>b, <1>c, <1>d DEF ClrToBot, Changing
<1> QED
  BY <1>8, <1>9 DEF Safe

-----------------------------------------------------------------------------
(* From line to line.                                                      *)

LEMMA ScrolledSafe ==
  ASSUME NEW s, NEW A, Sound(s), Only(s, A), NEW w \in Windows, NEW n \in Int \ {0}
  PROVE  LET t == Scroll(s, w, n)
         IN  \/ Odds(t)
             \/ /\ Sound(t) /\ Only(t, A \ Band(w, s.region[w][1] .. s.region[w][2])) /\ t.region = s.region
                /\ t.cur[w][1] = s.cur[w][1] /\ t.cur[w][2] = s.cur[w][2]
<1>0. w \in AllWindows /\ s.cur[w][1] \in Lns(w) /\ s.cur[w][2] \in Cols(w)
  BY WindowsAre, CursorIs
<1>1. Starts(s, w, A)
  <2>1. s.region[w][1] \in Lns(w) /\ DOMAIN s = Fields /\ w \in DOMAIN s.cur
    BY <1>0 DEF Sound, Regions, Cursors
  <2>2. Sound(At(s, w, s.region[w][1], 1)) /\ Only(At(s, w, s.region[w][1], 1), A)
    BY <1>0, AtSafe
  <2> QED
    BY <2>1, <2>2 DEF Starts
<1> QED
  BY <1>0, <1>1, ScrollSafe

LEMMA KeptByScroll ==
  ASSUME NEW s, NEW w, NEW n
  PROVE  Kept(s, Scroll(s, w, n))
<1>a. PICK a, u, t : a = At(s, w, s.region[w][1], 1) /\ u = InsDel(a, w, -n) /\ t = At(u, w, s.cur[w][1], s.cur[w][2])
  OBVIOUS
<1>1. Kept(s, a) /\ Kept(a, u) /\ Kept(u, t)
  BY <1>a, KeptByCursor, KeptByInsDel
<1>2. Kept(s, t)
  BY <1>1, KeptThrough
<1>3. Kept(s, s)
  BY DEF Kept
<1> QED
  BY <1>2, <1>3, <1>a DEF Scroll

LEMMA NextLineSafe ==
  ASSUME NEW s, NEW A, Sound(s), Only(s, A), NEW w \in Windows, NEW y \in Lns(w)
  PROVE  LET t == NextLine(s, w, y)
         IN  \/ Odds(t)
             \/ Sound(t) /\ Only(t, A) /\ t.cur[w][1] \in Lns(w) /\ t.cur[w][2] = 0 /\ t.region = s.region
<1>0. w \in AllWindows /\ Area(w).h \in Nat /\ 0 \in Cols(w)
  BY WindowsAre, AreaIs, ColsAre
<1>1. ASSUME NEW z \in Lns(w)
      PROVE  LET t == [s EXCEPT !.cur[w] = <<z, 0>>]
             IN  Sound(t) /\ Only(t, A) /\ t.cur[w][1] = z /\ t.cur[w][2] = 0 /\ t.region = s.region
  <2>1. Cursor(<<z, 0>>, w)
    BY <1>0 DEF Cursor
  <2>2. Sound([s EXCEPT !.cur[w] = <<z, 0>>]) /\ Only([s EXCEPT !.cur[w] = <<z, 0>>], A)
    BY <1>0, <2>1, CurSafe
  <2>3. DOMAIN s = Fields /\ w \in DOMAIN s.cur
    BY <1>0 DEF Sound, Cursors
  <2>4. [s EXCEPT !.cur[w] = <<z, 0>>].cur[w] = <<z, 0>> /\ [s EXCEPT !.cur[w] = <<z, 0>>].region = s.region
    BY <2>3 DEF Fields
  <2> QED
    BY <2>2, <2>4
<1>2. CASE y = Bottom(s, w)
  BY <1>1, <1>2 DEF NextLine
<1>3. CASE y # Bottom(s, w)
  <2>a. PICK t, when : t = [s EXCEPT !.cur[w] = <<y + 1, 0>>] /\ when = (y + 1 = Area(w).h)
    OBVIOUS
  <2>1. NextLine(s, w, y) = Odd(t, "below", when)
    BY <1>3, <2>a DEF NextLine
  <2>2. CASE when
    <3>1. "odd" \in DOMAIN t
      BY <2>a, OddField
    <3> QED
      BY <2>1, <2>2, <3>1, OddIs
  <2>3. CASE ~when
    <3>1. y + 1 \in Lns(w)
      <4>1. y \in 0 .. Area(w).h - 1
        BY DEF Lns
      <4>2. y + 1 # Area(w).h
        BY <2>3, <2>a
      <4>3. y + 1 \in 0 .. Area(w).h - 1
        BY ONLY <1>0, <4>1, <4>2
      <4> QED
        BY <4>3 DEF Lns
    <3>2. Sound(t) /\ Only(t, A) /\ t.cur[w][1] = y + 1 /\ t.cur[w][2] = 0 /\ t.region = s.region
      BY <1>1, <2>a, <3>1
    <3>3. LET r == Odd(t, "below", when) IN Sound(r) /\ Only(r, A) /\ Same(t, r)
      BY <2>3, <3>2, OddSafe
    <3> QED
      BY <2>1, <3>1, <3>2, <3>3 DEF Same
  <2> QED
    BY <2>2, <2>3, <2>a
<1> QED
  BY <1>2, <1>3

\* The column is set, of a state that may be odd.
LEMMA ColumnOdd ==
  ASSUME NEW s, Safe(s, {}), NEW w \in Windows, NEW x \in Cols(w)
  PROVE  Safe([s EXCEPT !.cur[w][2] = x], {})
<1>1. CASE Odds(s)
  <2>1. Kept(s, [s EXCEPT !.cur[w][2] = x])
    BY KeptByCursor
  <2> QED
    BY <1>1, <2>1, KeptOdds DEF Safe
<1>2. CASE Sound(s) /\ Only(s, {})
  <2>1. w \in AllWindows
    BY WindowsAre
  <2>2. Sound([s EXCEPT !.cur[w][2] = x]) /\ Only([s EXCEPT !.cur[w][2] = x], {})
    BY <1>2, <2>1, ColumnSafe
  <2> QED
    BY <2>2 DEF Safe
<1> QED
  BY <1>1, <1>2 DEF Safe

LEMMA SyncOdd ==
  ASSUME NEW s, Safe(s, {}), NEW w \in Windows
  PROVE  Safe(Sync(s, w), {})
<1>1. CASE Odds(s)
  BY <1>1, KeptBySync, KeptOdds DEF Safe
<1>2. CASE Sound(s) /\ Only(s, {})
  <2>1. Sound(Sync(s, w)) /\ Only(Sync(s, w), {})
    BY <1>2, SyncSafe
  <2> QED
    BY <2>1 DEF Safe
<1> QED
  BY <1>1, <1>2 DEF Safe

LEMMA AtOdd ==
  ASSUME NEW s, Safe(s, {}), NEW w \in Windows, NEW y, NEW x
  PROVE  Safe(At(s, w, y, x), {})
<1>1. CASE Odds(s)
  <2>1. Kept(s, At(s, w, y, x))
    BY KeptByCursor
  <2> QED
    BY <1>1, <2>1, KeptOdds DEF Safe
<1>2. CASE Sound(s) /\ Only(s, {})
  <2>1. w \in AllWindows
    BY WindowsAre
  <2>2. Sound(At(s, w, y, x)) /\ Only(At(s, w, y, x), {})
    BY <1>2, <2>1, AtSafe
  <2> QED
    BY <2>2 DEF Safe
<1> QED
  BY <1>1, <1>2 DEF Safe

LEMMA AddNewlineSafe ==
  ASSUME NEW s, Sound(s), Only(s, {}), NEW w \in Windows
  PROVE  Safe(AddNewline(s, w).s, {})
<1>a. PICK y : y = s.cur[w][1]
  OBVIOUS
<1>0. y \in Lns(w) /\ 0 \in Cols(w)
  BY <1>a, WindowsAre, CursorIs, ColsAre
<1>1. CASE y # Bottom(s, w)
  <2>1. AddNewline(s, w).s = NextLine(s, w, y)
    BY <1>1, <1>a DEF AddNewline, Done
  <2>2. Safe(NextLine(s, w, y), {})
    BY <1>0, NextLineSafe DEF Safe
  <2> QED
    BY <2>1, <2>2
<1>2. CASE y = Bottom(s, w)
  <2>t. PICK t : t = Scroll(s, w, 1)
    OBVIOUS
  <2>1. AddNewline(s, w).s = [t EXCEPT !.cur[w][2] = 0]
    BY <1>2, <1>a, <2>t DEF AddNewline, Done
  <2>2. Safe(t, {})
    <3>1. 1 \in Int \ {0}
      OBVIOUS
    <3>2. Odds(t) \/ (Sound(t) /\ Only(t, {} \ Band(w, s.region[w][1] .. s.region[w][2])))
      BY <2>t, <3>1, ScrolledSafe
    <3> QED
      BY <3>2 DEF Safe
  <2> QED
    BY <1>0, <2>1, <2>2, ColumnOdd
<1> QED
  BY <1>1, <1>2

LEMMA InsChSafe ==
  ASSUME NEW s, Sound(s), Only(s, {}), NEW w \in Windows
  PROVE  Safe(InsCh(s, w, "a"), {})
<1>a. PICK y, x, v : y = s.cur[w][1] /\ x = s.cur[w][2] /\ v = Area(w).v
  OBVIOUS
<1>b. PICK line : line = Text(s, w, y)
  OBVIOUS
<1>c. PICK new : new = [z \in x .. v - 1 |-> IF z = x THEN [Glyph("a") EXCEPT !.col = 1] ELSE line[z - 1]]
  OBVIOUS
<1>d. PICK t, u : t = Write(s, w, y, new) /\ u = TouchLine(t, w, y, x, v - 1)
  OBVIOUS
<1>e. PICK r, q : r = Refreshed(u, w) /\ q = Scroll(r, w, 1)
  OBVIOUS
<1>0. w \in AllWindows /\ y \in Lns(w) /\ x \in Cols(w) /\ v \in Nat \ {0, 1}
  BY <1>a, WindowsAre, CursorIs, AreaIs
<1>1. InsCh(s, w, "a") = IF (w = "root" /\ y = H - 1) /\ w \in flags.scroll THEN [q EXCEPT !.cur[w][1] = @ - 1] ELSE u
  BY <1>a, <1>b, <1>c, <1>d, <1>e DEF InsCh
<1>2. ASSUME NEW z \in x .. v - 1 PROVE new[z] \in Cells
  <2>1. [Glyph("a") EXCEPT !.col = 1] \in Cells
    BY DEF Glyph, Cells, Widths
  <2>2. z # x => z - 1 \in Cols(w)
    BY <1>0, <1>a DEF Cols
  <2>3. z # x => line[z - 1] \in Cells
    BY <1>0, <1>b, <2>2, TextIs
  <2> QED
    BY <1>c, <2>1, <2>3
<1>f. PICK A : A = Part(w, y, x .. v - 1)
  OBVIOUS
<1>3. Sound(t) /\ Only(t, A) /\ Same(s, t)
  <2>1. DOMAIN new = x .. v - 1
    BY <1>c
  <2>2. \A z \in DOMAIN new : new[z] \in Cells
    BY <1>2, <2>1
  <2>3. Sound(t) /\ Only(t, Part(w, y, DOMAIN new)) /\ Same(s, t)
    BY <1>0, <1>d, <2>2, WrittenSafe
  <2> QED
    BY <1>f, <2>1, <2>3
<1>4. Sound(u) /\ Only(u, {}) /\ Same(t, u)
  <2>1. v - 1 \in Cols(w)
    BY <1>0, <1>a, ColsAre
  <2>2. x .. v - 1 \subseteq x .. v - 1
    OBVIOUS
  <2> QED
    BY <1>0, <1>3, <1>d, <1>f, <2>1, <2>2, TouchedSafe
<1>5. Sound(r) /\ Only(r, {}) /\ r.cur[w][1] = y
  <2>1. u.cur[w][1] = y
    BY <1>3, <1>4, <1>a DEF Same
  <2> QED
    BY <1>4, <1>e, <2>1, RefreshedSafe
<1>6. Odds(q) \/ (Sound(q) /\ Only(q, {}) /\ q.cur[w][1] = y)
  <2>1. 1 \in Int \ {0}
    OBVIOUS
  <2>2. \/ Odds(q)
        \/ Sound(q) /\ Only(q, {} \ Band(w, r.region[w][1] .. r.region[w][2])) /\ q.cur[w][1] = r.cur[w][1]
    BY <1>5, <1>e, <2>1, ScrolledSafe
  <2> QED
    BY <1>5, <2>2
<1>7. ASSUME w = "root", y = H - 1 PROVE Safe([q EXCEPT !.cur[w][1] = @ - 1], {})
  <2>1. CASE Odds(q)
    <3>1. Kept(q, [q EXCEPT !.cur[w][1] = @ - 1])
      BY DEF Kept
    <3> QED
      BY <2>1, <3>1, KeptOdds DEF Safe
  <2>2. CASE Sound(q) /\ Only(q, {}) /\ q.cur[w][1] = y
    <3>1. Cursor(q.cur[w], w)
      BY <1>0, <2>2 DEF Sound, Cursors
    <3>2. y - 1 \in Lns(w)
      BY <1>7, RootIs, SizesAre DEF Rows
    <3>c. PICK c : c = [q.cur[w] EXCEPT ![1] = y - 1]
      OBVIOUS
    <3>3. Cursor(c, w)
      BY <3>1, <3>2, <3>c DEF Cursor
    <3>4. [q EXCEPT !.cur[w][1] = @ - 1] = [q EXCEPT !.cur[w] = c]
      <4>1. 1 \in DOMAIN q.cur[w] /\ w \in DOMAIN q.cur /\ "cur" \in DOMAIN q
        BY <1>0, <2>2, <3>1 DEF Cursor, Sound, Cursors, Fields
      <4> QED
        BY <2>2, <3>c, <4>1
    <3>5. Sound([q EXCEPT !.cur[w] = c]) /\ Only([q EXCEPT !.cur[w] = c], {})
      BY <1>0, <2>2, <3>3, CurSafe
    <3> QED
      BY <3>4, <3>5 DEF Safe
  <2> QED
    BY <1>6, <2>1, <2>2
<1> QED
  BY <1>1, <1>4, <1>7 DEF Safe

-----------------------------------------------------------------------------
(* A character is added.                                                   *)

\* What is left of a character cut in two is next to its first half.
LEMMA RemainderIs ==
  ASSUME NEW s, NEW w \in AllWindows, NEW p, NEW x \in Cols(w)
  PROVE  LET last == x + Cardinality(Remainder(s, w, p, x)) - 1
         IN  last \in x - 1 .. Area(w).v - 1 /\ Remainder(s, w, p, x) = x .. last
<1> DEFINE Second(z) == Cell(s, w, p, z).col < 0
<1>a. PICK v, R : v = Area(w).v /\ R = Remainder(s, w, p, x)
  OBVIOUS
<1>0. x \in Nat /\ x < v /\ v \in Nat
  BY <1>a, AreaIs DEF Cols
<1>1. R = {e \in x .. v - 1 : \A z \in x .. e : Second(z)}
  BY <1>a DEF Remainder
<1> HIDE DEF Second
<1>2. \E m \in x - 1 .. v - 1 : R = x .. m
  <2> DEFINE S == {z \in x .. v - 1 : ~Second(z)}
  <2>1. CASE S = {}
    <3>1. \A z \in x .. v - 1 : Second(z)
      BY <2>1
    <3>2. R = x .. v - 1
      BY <1>0, <1>1, <3>1
    <3> QED
      BY <1>0, <3>2
  <2>2. CASE S # {}
    <3>1. S \subseteq Nat
      BY <1>0
    <3>2. PICK z \in S : \A m \in S : z <= m
      <4> HIDE DEF S
      <4> QED
        BY <2>2, <3>1, LeastThere
    <3>3. z \in x .. v - 1 /\ ~Second(z) /\ \A m \in x .. z - 1 : Second(m)
      BY <1>0, <3>2
    <3>4. ASSUME NEW e PROVE e \in R <=> e \in x .. z - 1
      <4>1. e \in R => e \in x .. z - 1
        BY <1>0, <1>1, <3>3
      <4>2. e \in x .. z - 1 => e \in R
        BY <1>0, <1>1, <3>3
      <4> QED
        BY <4>1, <4>2
    <3>5. z - 1 \in x - 1 .. v - 1
      BY <1>0, <3>3
    <3>6. R = x .. z - 1
      BY <3>4
    <3> QED
      BY <3>5, <3>6
  <2> QED
    BY <2>1, <2>2
<1>3. PICK m \in x - 1 .. v - 1 : R = x .. m
  BY <1>2
<1>4. Cardinality(R) = m - x + 1
  <2>1. x \in Int /\ m \in Int /\ (x > m => m - x + 1 = 0)
    BY <1>0
  <2>2. Cardinality(x .. m) = IF x > m THEN 0 ELSE m - x + 1
    BY <2>1, FS_Interval
  <2> QED
    BY <1>3, <2>1, <2>2
<1> QED
  BY <1>0, <1>3, <1>4, <1>a

\* The cells of the character are all that is not in the record.
LEMMA PutCellsSafe ==
  ASSUME NEW s, Sound(s), Only(s, {}), NEW w \in Windows, NEW c \in Chars, NEW hi \in BOOLEAN,
         NEW y, NEW x, y = s.cur[w][1], x = s.cur[w][2], x + Width(c) <= Area(w).v
  PROVE  LET t == PutCells(s, w, LineOf(s, w, y), Storage(s, w, y), c, hi)
         IN  Sound(t) /\ Only(t, Part(w, y, x .. x + Width(c) - 1)) /\ Same(s, t)
<1>a. PICK l, p : l = LineOf(s, w, y) /\ p = Storage(s, w, y)
  OBVIOUS
<1>b. PICK t, u, q : /\ t = TellFirst(s, w, l, x)
                     /\ u = Put(t, w, p, x, Lit(Glyph(c), hi))
                     /\ q = Put(u, w, p, x + 1, Lit(Rest(c), hi))
  OBVIOUS
<1>0. /\ w \in AllWindows /\ y \in Lns(w) /\ x \in Cols(w) /\ x \in 0 .. Area(w).v
      /\ l \in Lns(w) /\ p \in Rows
  <2>1. w \in AllWindows
    BY WindowsAre
  <2>2. y \in Lns(w) /\ x \in Cols(w)
    BY <2>1, CursorIs
  <2> QED
    BY <1>a, <2>1, <2>2, ColsAre, StorageIs
<1>g. /\ Width(c) \in 1 .. 2 /\ (Width(c) # 2 => Width(c) = 1)
      /\ Lit(Glyph(c), hi) \in Cells /\ Lit(Rest(c), hi) \in Cells
  BY GlyphIs
<1>1. Sound(t) /\ Only(t, {}) /\ Same(s, t)
  <2>1. Sound(t) /\ Only(t, {})
    BY <1>0, <1>b, TellFirstSafe
  <2>2. Same(s, t)
    BY <1>b, OddField, SameCells
  <2> QED
    BY <2>1, <2>2
<1>2. Sound(u) /\ Only(u, Part(w, y, {x})) /\ Same(s, u)
  <2>1. Sound(u) /\ Only(u, {} \cup Held(t, w, p, {x}))
    BY <1>0, <1>1, <1>b, <1>g, PutSafe
  <2>2. p = Storage(t, w, y)
    BY <1>1, <1>a, LineSame
  <2>3. Held(t, w, p, {x}) = Part(w, y, {x})
    BY <1>0, <1>1, <2>2, HeldIs
  <2>4. Same(t, u)
    BY <1>1, <1>b, OddField, SameCells
  <2>5. Same(s, u)
    BY <1>1, <2>4 DEF Same
  <2> QED
    BY <2>1, <2>3, <2>5
<1>3. CASE Width(c) = 2
  <2>1. x + 1 \in Cols(w)
    BY <1>0, <1>3, AreaIs DEF Cols
  <2>2. Sound(q) /\ Only(q, Part(w, y, {x}) \cup Held(u, w, p, {x + 1}))
    BY <1>0, <1>2, <1>b, <1>g, <2>1, PutSafe
  <2>3. p = Storage(u, w, y)
    BY <1>2, <1>a, LineSame
  <2>4. Held(u, w, p, {x + 1}) = Part(w, y, {x + 1})
    BY <1>0, <1>2, <2>3, HeldIs
  <2>5. Same(s, q)
    <3>1. Same(u, q)
      BY <1>2, <1>b, OddField, SameCells
    <3> QED
      BY <1>2, <3>1 DEF Same
  <2>6. x .. x + Width(c) - 1 = {x, x + 1}
    BY <1>0, <1>3 DEF Cols
  <2>7. Part(w, y, {x}) \cup Part(w, y, {x + 1}) \subseteq Part(w, y, {x, x + 1})
    BY DEF Part
  <2>8. Only(q, Part(w, y, x .. x + Width(c) - 1))
    <3>1. Only(q, Part(w, y, {x}) \cup Part(w, y, {x + 1}))
      BY <2>2, <2>4
    <3>2. Only(q, Part(w, y, {x, x + 1}))
      BY <2>7, <3>1, OnlyMore
    <3> QED
      BY <2>6, <3>2
  <2>9. PutCells(s, w, l, p, c, hi) = q
    BY <1>3, <1>b DEF PutCells
  <2> QED
    BY <1>a, <2>2, <2>5, <2>8, <2>9
<1>4. CASE Width(c) # 2
  <2>1. x .. x + Width(c) - 1 = {x}
    BY <1>0, <1>4, <1>g DEF Cols
  <2>2. PutCells(s, w, l, p, c, hi) = u
    BY <1>4, <1>b DEF PutCells
  <2> QED
    BY <1>2, <1>a, <2>1, <2>2
<1> QED
  BY <1>3, <1>4

LEMMA KeptByPutCells ==
  ASSUME NEW s, NEW w, NEW l, NEW p, NEW c, NEW hi
  PROVE  Kept(s, PutCells(s, w, l, p, c, hi))
<1>a. PICK x : x = s.cur[w][2]
  OBVIOUS
<1>b. PICK t, u, q : /\ t = TellFirst(s, w, l, x)
                     /\ u = Put(t, w, p, x, Lit(Glyph(c), hi))
                     /\ q = Put(u, w, p, x + 1, Lit(Rest(c), hi))
  OBVIOUS
<1>1. Kept(s, t) /\ Kept(t, u) /\ Kept(u, q)
  BY <1>b, KeptByRecord, KeptByCells
<1>2. Kept(s, u) /\ Kept(s, q)
  BY <1>1, KeptThrough
<1>3. PutCells(s, w, l, p, c, hi) = q \/ PutCells(s, w, l, p, c, hi) = u
  BY <1>a, <1>b DEF PutCells
<1> QED
  BY <1>2, <1>3

\* The end of the line: what is told of it, and the next line.
LEMMA FilledSafe ==
  ASSUME NEW s, Sound(s), NEW w \in Windows, NEW y \in Lns(w), NEW l \in Lns(w), NEW x \in Cols(w),
         Only(s, Part(w, y, x .. Area(w).v - 1))
  PROVE  Safe(NextLine(TouchLine(TellLast(s, w, l, Area(w).v - 1), w, y, x, Area(w).v - 1), w, y), {})
<1>a. PICK v, xs : v = Area(w).v - 1 /\ xs = x .. v
  OBVIOUS
<1>b. PICK t, u : t = TellLast(s, w, l, v) /\ u = TouchLine(t, w, y, x, v)
  OBVIOUS
<1>0. w \in AllWindows /\ v \in Cols(w) /\ v \in 0 .. Area(w).v
  BY <1>a, WindowsAre, ColsAre
<1>1. Sound(t) /\ Only(t, Part(w, y, xs))
  BY <1>0, <1>a, <1>b, TellLastSafe
<1>2. Sound(u) /\ Only(u, {})
  <2>1. xs \subseteq x .. v
    BY <1>a
  <2> QED
    BY <1>0, <1>1, <1>b, <2>1, TouchedSafe
<1>3. Safe(NextLine(u, w, y), {})
  BY <1>2, NextLineSafe DEF Safe
<1> QED
  BY <1>3, <1>a, <1>b

LEMMA KeptByFilled ==
  ASSUME NEW s, NEW w, NEW y, NEW l, NEW x, NEW v
  PROVE  Kept(s, NextLine(TouchLine(TellLast(s, w, l, v), w, y, x, v), w, y))
<1>b. PICK t, u, q : t = TellLast(s, w, l, v) /\ u = TouchLine(t, w, y, x, v) /\ q = NextLine(u, w, y)
  OBVIOUS
<1>1. Kept(s, t) /\ Kept(t, u) /\ Kept(u, q)
  BY <1>b, KeptByRecord, KeptByCursor
<1>2. Kept(s, q)
  BY <1>1, KeptThrough
<1> QED
  BY <1>2, <1>b

\* The character that fills a line is shown where the line is after scrolling.
LEMMA LineFilledSafe ==
  ASSUME NEW s, Sound(s), NEW w \in Windows, NEW y \in Lns(w), NEW l \in Lns(w), NEW x \in Cols(w),
         Only(s, Part(w, y, x .. Area(w).v - 1))
  PROVE  Safe(LineFilled(s, w, l, y, x), {})
<1>a. PICK v, A : v = Area(w).v /\ A = Part(w, y, x .. v - 1)
  OBVIOUS
<1>b. PICK q, t : q = [s EXCEPT !.cur[w][2] = v] /\ t = Scroll(q, w, 1)
  OBVIOUS
<1>0. w \in AllWindows /\ DOMAIN s = Fields /\ w \in DOMAIN s.cur /\ Cursor(s.cur[w], w)
  BY WindowsAre DEF Sound, Cursors
<1>1. CASE y = Bottom(s, w)
  <2>1. LineFilled(s, w, l, y, x) = NextLine(TouchLine(TellLast(t, w, l, v - 1), w, y, x, v - 1), w, y)
    BY <1>1, <1>a, <1>b DEF LineFilled
  <2>2. q.region = s.region /\ DOMAIN q = Fields /\ w \in DOMAIN q.cur
    BY <1>0, <1>b DEF Fields
  <2>3. s.region[w][1] \in Lns(w) /\ y \in s.region[w][1] .. s.region[w][2]
    <3>1. s.region[w][1] \in Lns(w) /\ s.region[w][1] <= s.region[w][2] /\ s.region[w][2] = y
      BY <1>0, <1>1 DEF Sound, Regions, Bottom
    <3> QED
      BY <3>1 DEF Lns
  <2>4. At(q, w, s.region[w][1], 1) = At(s, w, s.region[w][1], 1)
    <3>1. \A a, b : [q EXCEPT !.cur[w] = <<a, b>>] = [s EXCEPT !.cur[w] = <<a, b>>]
      BY <1>0, <1>b DEF Fields
    <3>2. 1 \in Cols(w)
      BY <1>0, ColsAre
    <3> QED
      BY <2>3, <3>1, <3>2 DEF At, Lns, Cols
  <2>5. Starts(q, w, A)
    <3>1. Sound(At(s, w, s.region[w][1], 1)) /\ Only(At(s, w, s.region[w][1], 1), A)
      BY <1>0, <1>a, AtSafe
    <3> QED
      BY <2>2, <2>3, <2>4, <3>1 DEF Starts
  <2>6. Odds(t) \/ (Sound(t) /\ Only(t, A \ Band(w, q.region[w][1] .. q.region[w][2])))
    <3>1. 1 \in Int \ {0}
      OBVIOUS
    <3> QED
      BY <1>b, <2>5, <3>1, ScrollSafe
  <2>7. CASE Odds(t)
    <3>1. Kept(t, LineFilled(s, w, l, y, x))
      BY <2>1, KeptByFilled
    <3> QED
      BY <2>7, <3>1, KeptOdds DEF Safe
  <2>8. CASE Sound(t) /\ Only(t, A \ Band(w, q.region[w][1] .. q.region[w][2]))
    <3>1. Only(t, A)
      BY <2>8, OnlyMore
    <3> QED
      BY <1>a, <2>1, <2>8, <3>1, FilledSafe
  <2> QED
    BY <2>6, <2>7, <2>8
<1>2. CASE y # Bottom(s, w)
  <2>1. LineFilled(s, w, l, y, x) = NextLine(TouchLine(TellLast(s, w, l, v - 1), w, y, x, v - 1), w, y)
    BY <1>2, <1>a DEF LineFilled
  <2> QED
    BY <1>a, <2>1, FilledSafe
<1> QED
  BY <1>1, <1>2

LEMMA KeptByLineFilled ==
  ASSUME NEW s, NEW w, NEW l, NEW y, NEW x
  PROVE  Kept(s, LineFilled(s, w, l, y, x))
<1>a. PICK v : v = Area(w).v
  OBVIOUS
<1>b. PICK q, t : q = [s EXCEPT !.cur[w][2] = v] /\ t = Scroll(q, w, 1)
  OBVIOUS
<1>c. PICK F, G : /\ F = NextLine(TouchLine(TellLast(t, w, l, v - 1), w, y, x, v - 1), w, y)
                  /\ G = NextLine(TouchLine(TellLast(s, w, l, v - 1), w, y, x, v - 1), w, y)
  OBVIOUS
<1>1. LineFilled(s, w, l, y, x) = F \/ LineFilled(s, w, l, y, x) = G
  BY <1>a, <1>b, <1>c DEF LineFilled
<1>2. Kept(s, q) /\ Kept(q, t) /\ Kept(t, F) /\ Kept(s, G)
  BY <1>b, <1>c, KeptByCursor, KeptByScroll, KeptByFilled
<1>3. Kept(s, F)
  BY <1>2, KeptThrough
<1> QED
  BY <1>1, <1>2, <1>3

\* What follows the character is blank, and both are told of.
LEMMA FollowedSafe ==
  ASSUME NEW s, Sound(s), NEW w \in Windows, NEW y \in Lns(w), NEW x \in Cols(w), NEW end \in Cols(w), x < end,
         Only(s, Part(w, y, x .. end - 1))
  PROVE  LET p == Storage(s, w, y)
         IN  Safe(Followed(s, w, LineOf(s, w, y), p, y, x, end, Remainder(s, w, p, end)), {})
<1>a. PICK p, l, rest, last : /\ p = Storage(s, w, y) /\ l = LineOf(s, w, y) /\ rest = Remainder(s, w, p, end)
                              /\ last = end + Cardinality(rest) - 1
  OBVIOUS
<1>b. PICK t, u, q : t = Erased(s, w, p, rest) /\ u = TellLast(t, w, l, last) /\ q = TouchLine(u, w, y, x, last)
  OBVIOUS
<1>0. w \in AllWindows /\ p \in Rows /\ l \in Lns(w)
  BY <1>a, WindowsAre, StorageIs
<1>1. last \in end - 1 .. Area(w).v - 1 /\ rest = end .. last
  BY <1>0, <1>a, RemainderIs
<1>2. last \in Cols(w) /\ last \in 0 .. Area(w).v /\ x .. end - 1 \subseteq x .. last /\ rest \subseteq x .. last
  <2>1. x \in Nat /\ end \in Nat /\ x < end /\ Area(w).v \in Nat
    BY <1>0, AreaIs DEF Cols
  <2>2. last \in 0 .. Area(w).v - 1
    BY <1>1, <2>1
  <2>3. x .. end - 1 \subseteq x .. last /\ end .. last \subseteq x .. last
    BY <1>1, <2>1
  <2> QED
    BY <1>1, <2>1, <2>2, <2>3 DEF Cols
<1>c. PICK xs : xs = x .. last
  OBVIOUS
<1>3. Sound(t) /\ Only(t, Part(w, y, xs)) /\ Same(s, t)
  <2>1. Sound(t) /\ Only(t, Part(w, y, x .. end - 1) \cup Held(s, w, p, rest))
    BY <1>0, <1>b, ErasedSafe
  <2>2. Held(s, w, p, rest) = Part(w, y, rest)
    BY <1>a, HeldIs
  <2>3. Part(w, y, x .. end - 1) \cup Part(w, y, rest) \subseteq Part(w, y, xs)
    BY <1>2, <1>c DEF Part
  <2>4. Only(t, Part(w, y, x .. end - 1) \cup Part(w, y, rest))
    BY <2>1, <2>2
  <2>5. Only(t, Part(w, y, xs))
    BY <2>3, <2>4, OnlyMore
  <2>6. Same(s, t)
    BY <1>b, OddField, SameCells
  <2> QED
    BY <2>1, <2>5, <2>6
<1>4. Sound(u) /\ Only(u, Part(w, y, xs))
  BY <1>0, <1>2, <1>3, <1>b, TellLastSafe
<1>5. Sound(q) /\ Only(q, {})
  <2>1. xs \subseteq x .. last
    BY <1>c
  <2> QED
    BY <1>2, <1>4, <1>b, <2>1, TouchedSafe
<1>6. Safe([q EXCEPT !.cur[w][2] = end], {})
  BY <1>5, ColumnOdd DEF Safe
<1>7. Followed(s, w, l, p, y, x, end, rest) = [q EXCEPT !.cur[w][2] = end]
  BY <1>a, <1>b DEF Followed
<1> QED
  BY <1>6, <1>7, <1>a

LEMMA KeptByFollowed ==
  ASSUME NEW s, NEW w, NEW l, NEW p, NEW y, NEW x, NEW end, NEW rest
  PROVE  Kept(s, Followed(s, w, l, p, y, x, end, rest))
<1>a. PICK last : last = end + Cardinality(rest) - 1
  OBVIOUS
<1>b. PICK t, u, q, r : /\ t = Erased(s, w, p, rest) /\ u = TellLast(t, w, l, last) /\ q = TouchLine(u, w, y, x, last)
                        /\ r = [q EXCEPT !.cur[w][2] = end]
  OBVIOUS
<1>1. Kept(s, t) /\ Kept(t, u) /\ Kept(u, q) /\ Kept(q, r)
  BY <1>b, KeptByCells, KeptByRecord, KeptByCursor
<1>2. Kept(s, u)
  BY <1>1, KeptThrough
<1>3. Kept(s, q)
  BY <1>1, <1>2, KeptThrough
<1>4. Kept(s, r)
  BY <1>1, <1>3, KeptThrough
<1>5. Followed(s, w, l, p, y, x, end, rest) = r
  BY <1>a, <1>b DEF Followed
<1> QED
  BY <1>4, <1>5

\* The character is in its cells: outside the corner they are all told of.
LEMMA PlacedSafe ==
  ASSUME NEW s, Sound(s), NEW w \in Windows, NEW y \in Lns(w), NEW x \in Cols(w),
         NEW end \in Int, x < end, end <= Area(w).v, Only(s, Part(w, y, x .. end - 1))
  PROVE  Safe(Placed(s, w, LineOf(s, w, y), Storage(s, w, y), y, x, end).s, {})
<1>a. PICK l, p : l = LineOf(s, w, y) /\ p = Storage(s, w, y)
  OBVIOUS
<1>b. PICK r : r = Placed(s, w, l, p, y, x, end).s
  OBVIOUS
<1>0. w \in AllWindows /\ l \in Lns(w) /\ x \in Nat /\ Area(w).v \in Nat
  BY <1>a, WindowsAre, StorageIs, AreaIs DEF Cols
<1>1. CASE end = Area(w).v /\ y = Bottom(s, w) /\ w \notin flags.scroll
  <2>a. PICK t : t = [s EXCEPT !.cur[w][2] = end]
    OBVIOUS
  <2>1. r = Odd(t, "corner", TRUE)
    BY <1>1, <1>b, <2>a DEF Placed, Fail
  <2>2. "odd" \in DOMAIN t
    BY <2>a, OddField
  <2>3. Odds(r)
    BY <2>1, <2>2, OddIs
  <2> QED
    BY <1>a, <1>b, <2>3 DEF Safe
<1>2. CASE end = Area(w).v /\ ~(y = Bottom(s, w) /\ w \notin flags.scroll)
  <2>1. r = Sync(LineFilled(s, w, l, y, x), w)
    BY <1>2, <1>b DEF Placed, Done
  <2>2. Safe(LineFilled(s, w, l, y, x), {})
    BY <1>0, <1>2, LineFilledSafe
  <2>3. Safe(r, {})
    BY <2>1, <2>2, SyncOdd
  <2> QED
    BY <1>a, <1>b, <2>3
<1>3. CASE end # Area(w).v
  <2>1. end \in Cols(w) /\ end # 0
    BY <1>0, <1>3 DEF Cols
  <2>2. r = Sync(Followed(s, w, l, p, y, x, end, Remainder(s, w, p, end)), w)
    BY <1>3, <1>b, <2>1 DEF Placed, Done
  <2>3. Safe(Followed(s, w, l, p, y, x, end, Remainder(s, w, p, end)), {})
    BY <1>a, <2>1, FollowedSafe
  <2>4. Safe(r, {})
    BY <2>2, <2>3, SyncOdd
  <2> QED
    BY <1>a, <1>b, <2>4
<1> QED
  BY <1>1, <1>2, <1>3

LEMMA KeptByPlaced ==
  ASSUME NEW s, NEW w, NEW l, NEW p, NEW y, NEW x, NEW end
  PROVE  Kept(s, Placed(s, w, l, p, y, x, end).s)
<1>a. PICK t, f, g, c : /\ t = [s EXCEPT !.cur[w][2] = end] /\ f = LineFilled(s, w, l, y, x)
                        /\ g = Followed(s, w, l, p, y, x, end, Remainder(s, w, p, end))
                        /\ c = [s EXCEPT !.cur[w][2] = 0]
  OBVIOUS
<1>b. PICK o, sf, sg, sc : o = Odd(t, "corner", TRUE) /\ sf = Sync(f, w) /\ sg = Sync(g, w) /\ sc = Sync(c, w)
  OBVIOUS
<1>1. Placed(s, w, l, p, y, x, end).s \in {o, sf, sg, sc}
  BY <1>a, <1>b DEF Placed, Done, Fail
<1>2. Kept(s, t) /\ Kept(s, f) /\ Kept(s, g) /\ Kept(s, c)
  BY <1>a, KeptByCursor, KeptByLineFilled, KeptByFollowed
<1>3. Kept(t, o) /\ Kept(f, sf) /\ Kept(g, sg) /\ Kept(c, sc)
  BY <1>b, KeptByCursor, KeptBySync
<1>4. Kept(s, o) /\ Kept(s, sf) /\ Kept(s, sg) /\ Kept(s, sc)
  BY <1>2, <1>3, KeptThrough
<1> QED
  BY <1>1, <1>4

LEMMA PutAtSafe ==
  ASSUME NEW s, Sound(s), Only(s, {}), NEW w \in Windows, NEW c \in Chars, NEW hi \in BOOLEAN,
         NEW x, x = s.cur[w][2], x + Width(c) <= Area(w).v
  PROVE  Safe(PutAt(s, w, c, hi, x).s, {})
<1>a. PICK y, l, p, end : /\ y = s.cur[w][1] /\ l = LineOf(s, w, y) /\ p = Storage(s, w, y)
                          /\ end = x + Width(c)
  OBVIOUS
<1>b. PICK t : t = PutCells(s, w, l, p, c, hi)
  OBVIOUS
<1>0. w \in AllWindows /\ y \in Lns(w) /\ x \in Cols(w) /\ p = StorageOf(s, w, l)
  <2>1. w \in AllWindows
    BY WindowsAre
  <2>2. y \in Lns(w) /\ x \in Cols(w)
    BY <1>a, <2>1, CursorIs
  <2> QED
    BY <1>a, <2>1, <2>2, StorageIs
<1>1. Sound(t) /\ Only(t, Part(w, y, x .. end - 1)) /\ Same(s, t)
  <2>1. y = s.cur[w][1] /\ x = s.cur[w][2] /\ x + Width(c) <= Area(w).v
    BY <1>a
  <2>2. t = PutCells(s, w, LineOf(s, w, y), Storage(s, w, y), c, hi)
    BY <1>a, <1>b
  <2>3. Sound(t) /\ Only(t, Part(w, y, x .. x + Width(c) - 1)) /\ Same(s, t)
    BY <2>1, <2>2, PutCellsSafe
  <2>4. x \in Int /\ Width(c) \in Int /\ end \in Int
    BY <1>0, <1>a, GlyphIs DEF Cols
  <2>5. x + Width(c) - 1 = end - 1
    BY <1>a, <2>4
  <2> QED
    BY <2>3, <2>5
<1>2. l = LineOf(t, w, y) /\ p = Storage(t, w, y)
  BY <1>1, <1>a, LineSame
<1>3. end \in Int /\ x < end /\ end <= Area(w).v
  <2>1. Width(c) \in 1 .. 2 /\ x \in Int
    BY <1>0, GlyphIs DEF Cols
  <2> QED
    BY <1>a, <2>1
<1>4. Safe(Placed(t, w, l, p, y, x, end).s, {})
  BY <1>0, <1>1, <1>2, <1>3, PlacedSafe
<1>5. PutAt(s, w, c, hi, x) = Placed(t, w, l, p, y, x, end)
  BY <1>0, <1>a, <1>b DEF PutAt
<1> QED
  BY <1>4, <1>5

LEMMA KeptByPutAt ==
  ASSUME NEW s, NEW w, NEW c, NEW hi, NEW x
  PROVE  Kept(s, PutAt(s, w, c, hi, x).s)
<1>a. PICK y, l, p, end : /\ y = s.cur[w][1] /\ l = LineOf(s, w, y) /\ p = StorageOf(s, w, l)
                          /\ end = x + Width(c)
  OBVIOUS
<1>b. PICK t, u : t = PutCells(s, w, l, p, c, hi) /\ u = Placed(t, w, l, p, y, x, end).s
  OBVIOUS
<1>1. Kept(s, t) /\ Kept(t, u)
  BY <1>b, KeptByPutCells, KeptByPlaced
<1>2. Kept(s, u)
  BY <1>1, KeptThrough
<1>3. PutAt(s, w, c, hi, x).s = u
  BY <1>a, <1>b DEF PutAt
<1> QED
  BY <1>2, <1>3

\* The end of the line is cleared where the line is after scrolling, and the
\* cursor is at the start of a line.
LEMMA WrapSafe ==
  ASSUME NEW s, Sound(s), Only(s, {}), NEW w \in Windows, NEW y, NEW x, y = s.cur[w][1], x = s.cur[w][2]
  PROVE  LET t == Wrap(s, w, LineOf(s, w, y), x)
         IN  Odds(t) \/ (Sound(t) /\ Only(t, {}) /\ t.cur[w][2] = 0)
<1>a. PICK l, end, xs : l = LineOf(s, w, y) /\ end = Area(w).v - 1 /\ xs = x .. end
  OBVIOUS
<1>b. PICK t : t = IF y = Bottom(s, w) THEN Scroll(s, w, 1) ELSE s
  OBVIOUS
<1>c. PICK q, e, u, f : /\ q = StorageOf(t, w, l) /\ e = Erased(t, w, q, xs) /\ u = Tell(e, w, l, x, end)
                        /\ f = TouchLine(u, w, y, x, end)
  OBVIOUS
<1>d. PICK r : r = NextLine(f, w, y)
  OBVIOUS
<1>1. Wrap(s, w, l, x) = r
  BY <1>a, <1>b, <1>c, <1>d DEF Wrap, Tell
<1>0. /\ w \in AllWindows /\ y \in Lns(w) /\ x \in Cols(w) /\ l \in Lns(w)
      /\ end \in Cols(w) /\ x \in 0 .. Area(w).v /\ end \in 0 .. Area(w).v /\ xs \subseteq Cols(w)
  <2>1. w \in AllWindows
    BY WindowsAre
  <2>2. y \in Lns(w) /\ x \in Cols(w)
    BY <2>1, CursorIs
  <2> QED
    BY <1>a, <2>1, <2>2, StorageIs, ColsAre
<1>2. Odds(t) \/ (Sound(t) /\ Only(t, {}))
  <2>1. CASE y = Bottom(s, w)
    <3>1. 1 \in Int \ {0}
      OBVIOUS
    <3>2. t = Scroll(s, w, 1)
      BY <1>b, <2>1
    <3>3. Odds(t) \/ (Sound(t) /\ Only(t, {} \ Band(w, s.region[w][1] .. s.region[w][2])))
      BY <3>1, <3>2, ScrolledSafe
    <3> QED
      BY <3>3
  <2>2. CASE y # Bottom(s, w)
    BY <1>b, <2>2
  <2> QED
    BY <2>1, <2>2
<1>3. CASE Odds(t)
  <2>1. Kept(t, e) /\ Kept(u, f) /\ Kept(f, r)
    BY <1>c, <1>d, KeptByCells, KeptByRecord, KeptByCursor
  <2>2. Kept(e, u)
    <3>a. PICK a : a = TellFirst(e, w, l, x)
      OBVIOUS
    <3>1. u = TellLast(a, w, l, end)
      BY <1>c, <3>a DEF Tell
    <3>2. Kept(e, a) /\ Kept(a, u)
      BY <3>a, <3>1, KeptByRecord
    <3> QED
      BY <3>2, KeptThrough
  <2>3. Odds(e)
    BY <1>3, <2>1, KeptOdds
  <2>4. Odds(u)
    BY <2>2, <2>3, KeptOdds
  <2>5. Odds(f)
    BY <2>1, <2>4, KeptOdds
  <2>6. Odds(r)
    BY <2>1, <2>5, KeptOdds
  <2> QED
    BY <1>1, <1>a, <2>6
<1>4. CASE Sound(t) /\ Only(t, {})
  <2>0. q \in Rows
    BY <1>0, <1>4, <1>c, StorageOfIs
  <2>1. Sound(e) /\ Only(e, Held(t, w, q, xs)) /\ Same(t, e)
    <3>1. Sound(e) /\ Only(e, {} \cup Held(t, w, q, xs))
      BY <1>0, <1>4, <1>c, <2>0, ErasedSafe
    <3>2. Same(t, e)
      BY <1>4, <1>c, OddField, SameCells
    <3> QED
      BY <3>1, <3>2
  <2>2. StorageOf(e, w, l) = q /\ Held(e, w, q, xs) = Held(t, w, q, xs)
    BY <1>c, <2>1 DEF Same, StorageOf, Held
  <2>3. (x .. end) \cap Cols(w) = xs
    BY <1>0, <1>a
  <2>4. Sound(u) /\ Only(u, {})
    <3>a. PICK A : A = Held(t, w, q, xs)
      OBVIOUS
    <3>1. Sound(u) /\ Only(u, A \ Held(e, w, StorageOf(e, w, l), (x .. end) \cap Cols(w)))
      BY <1>0, <1>c, <2>1, <3>a, TellSafe
    <3>2. Held(e, w, StorageOf(e, w, l), (x .. end) \cap Cols(w)) = A
      BY <2>2, <2>3, <3>a
    <3>3. A \ A = {}
      OBVIOUS
    <3> QED
      BY <3>1, <3>2, <3>3
  <2>5. Sound(f) /\ Only(f, {})
    <3>1. Sound(f) /\ Only(f, {} \ Part(w, y, x .. end))
      BY <1>0, <1>c, <2>4, TouchLineSafe
    <3> QED
      BY <3>1
  <2>6. Odds(r) \/ (Sound(r) /\ Only(r, {}) /\ r.cur[w][2] = 0)
    BY <1>0, <1>d, <2>5, NextLineSafe
  <2> QED
    BY <1>1, <1>a, <2>6
<1> QED
  BY <1>2, <1>3, <1>4

LEMMA KeptByWrap ==
  ASSUME NEW s, NEW w, NEW l, NEW sx
  PROVE  Kept(s, Wrap(s, w, l, sx))
<1>a. PICK y, x, end : y = s.cur[w][1] /\ x = s.cur[w][2] /\ end = Area(w).v - 1
  OBVIOUS
<1>b. PICK t : t = IF y = Bottom(s, w) THEN Scroll(s, w, 1) ELSE s
  OBVIOUS
<1>c. PICK e, a, u, f, r : /\ e = Erased(t, w, StorageOf(t, w, l), x .. end) /\ a = TellFirst(e, w, l, x)
                           /\ u = TellLast(a, w, l, end) /\ f = TouchLine(u, w, y, sx, end) /\ r = NextLine(f, w, y)
  OBVIOUS
<1>1. Wrap(s, w, l, sx) = r
  BY <1>a, <1>b, <1>c DEF Wrap
<1>2. Kept(s, t)
  <2>1. Kept(s, Scroll(s, w, 1)) /\ Kept(s, s)
    BY KeptByScroll DEF Kept
  <2> QED
    BY <1>b, <2>1
<1>3. Kept(t, e) /\ Kept(e, a) /\ Kept(a, u) /\ Kept(u, f) /\ Kept(f, r)
  BY <1>c, KeptByCells, KeptByRecord, KeptByCursor
<1>4. Kept(s, e)
  BY <1>2, <1>3, KeptThrough
<1>5. Kept(s, a)
  BY <1>3, <1>4, KeptThrough
<1>6. Kept(s, u)
  BY <1>3, <1>5, KeptThrough
<1>7. Kept(s, f)
  BY <1>3, <1>6, KeptThrough
<1>8. Kept(s, r)
  BY <1>3, <1>7, KeptThrough
<1> QED
  BY <1>1, <1>8

\* A character of one or two columns is added: it is in the record, or it cut a
\* wide character in two, filled a corner or went below the region.
LEMMA AddSpacingSafe ==
  ASSUME NEW s, Sound(s), Only(s, {}), NEW w \in Windows, NEW c \in Chars, NEW hi \in BOOLEAN
  PROVE  Safe(AddSpacing(s, w, c, hi).s, {})
<1>a. PICK y, x, l, v : y = s.cur[w][1] /\ x = s.cur[w][2] /\ l = LineOf(s, w, y) /\ v = Area(w).v
  OBVIOUS
<1>b. PICK half, fits : half = (Cell(s, w, Storage(s, w, y), x).col < 0) /\ fits = (Width(c) <= v - x)
  OBVIOUS
<1>c. PICK t, split : /\ t = TellFirst(Erased(s, w, Storage(s, w, y), {x - 1} \cap 0 .. x), w, l, x - 1)
                      /\ split = Odd(t, "half", TRUE)
  OBVIOUS
<1>d. PICK begun, sx : begun = (IF half THEN split ELSE s) /\ sx = (IF half THEN x - 1 ELSE x)
  OBVIOUS
<1>e. PICK u, z : u = (IF fits THEN begun ELSE Wrap(begun, w, l, sx)) /\ z = (IF fits THEN sx ELSE 0)
  OBVIOUS
<1>f. PICK r : r = AddSpacing(s, w, c, hi).s
  OBVIOUS
<1>1. r = s \/ r = begun \/ r = PutAt(u, w, c, hi, z).s
  BY <1>a, <1>b, <1>c, <1>d, <1>e, <1>f DEF AddSpacing, Fail
<1>0. w \in AllWindows /\ x \in Cols(w) /\ v \in Nat \ {0, 1} /\ Width(c) \in 1 .. 2
  BY <1>a, WindowsAre, CursorIs, AreaIs, GlyphIs
<1>2. CASE half
  <2>1. "odd" \in DOMAIN t
    BY <1>c, OddField DEF TellFirst, Erased
  <2>2. Odds(split)
    BY <1>c, <2>1, OddIs
  <2>3. Odds(begun)
    BY <1>2, <1>d, <2>2
  <2>4. Kept(begun, u)
    <3>1. Kept(begun, Wrap(begun, w, l, sx)) /\ Kept(begun, begun)
      BY KeptByWrap DEF Kept
    <3> QED
      BY <1>e, <3>1
  <2>5. Odds(u)
    BY <2>3, <2>4, KeptOdds
  <2>6. Odds(PutAt(u, w, c, hi, z).s)
    BY <2>5, KeptByPutAt, KeptOdds
  <2> QED
    BY <1>1, <1>f, <2>3, <2>6 DEF Safe
<1>3. CASE ~half
  <2>1. begun = s /\ sx = x
    BY <1>3, <1>d
  <2>2. CASE fits
    <3>1. x + Width(c) <= Area(w).v
      <4>1. x \in Int
        BY <1>0 DEF Cols
      <4>2. Width(c) <= v - x
        BY <1>b, <2>2
      <4>3. Width(c) \in Int /\ v \in Int
        BY <1>0
      <4>4. x + Width(c) <= v
        BY <4>1, <4>2, <4>3
      <4> QED
        BY <1>a, <4>4
    <3>2. Safe(PutAt(s, w, c, hi, x).s, {})
      BY <1>a, <3>1, PutAtSafe
    <3>3. u = s /\ z = x
      BY <1>e, <2>1, <2>2
    <3> QED
      BY <1>1, <1>f, <2>1, <3>2, <3>3 DEF Safe
  <2>3. CASE ~fits
    <3>1. u = Wrap(s, w, l, x) /\ z = 0
      BY <1>e, <2>1, <2>3
    <3>2. Odds(u) \/ (Sound(u) /\ Only(u, {}) /\ u.cur[w][2] = 0)
      BY <1>a, <3>1, WrapSafe
    <3>3. CASE Odds(u)
      <4>1. Odds(PutAt(u, w, c, hi, z).s)
        BY <3>3, KeptByPutAt, KeptOdds
      <4> QED
        BY <1>1, <1>f, <2>1, <4>1 DEF Safe
    <3>4. CASE Sound(u) /\ Only(u, {}) /\ u.cur[w][2] = 0
      <4>1. 0 + Width(c) <= Area(w).v
        BY <1>0, <1>a
      <4>2. Safe(PutAt(u, w, c, hi, 0).s, {})
        BY <3>4, <4>1, PutAtSafe
      <4> QED
        BY <1>1, <1>f, <2>1, <3>1, <4>2 DEF Safe
    <3> QED
      BY <3>2, <3>3, <3>4
  <2> QED
    BY <2>2, <2>3
<1> QED
  BY <1>2, <1>3

LEMMA KeptByAddSpacing ==
  ASSUME NEW s, NEW w, NEW c, NEW hi
  PROVE  Kept(s, AddSpacing(s, w, c, hi).s)
<1>a. PICK y, x, l, v : y = s.cur[w][1] /\ x = s.cur[w][2] /\ l = LineOf(s, w, y) /\ v = Area(w).v
  OBVIOUS
<1>b. PICK half, fits : half = (Cell(s, w, Storage(s, w, y), x).col < 0) /\ fits = (Width(c) <= v - x)
  OBVIOUS
<1>c. PICK e, t, split : /\ e = Erased(s, w, Storage(s, w, y), {x - 1} \cap 0 .. x)
                         /\ t = TellFirst(e, w, l, x - 1) /\ split = Odd(t, "half", TRUE)
  OBVIOUS
<1>d. PICK begun, sx : begun = (IF half THEN split ELSE s) /\ sx = (IF half THEN x - 1 ELSE x)
  OBVIOUS
<1>e. PICK u, z : u = (IF fits THEN begun ELSE Wrap(begun, w, l, sx)) /\ z = (IF fits THEN sx ELSE 0)
  OBVIOUS
<1>f. PICK r : r = PutAt(u, w, c, hi, z).s
  OBVIOUS
<1>1. AddSpacing(s, w, c, hi).s \in {s, begun, r}
  BY <1>a, <1>b, <1>c, <1>d, <1>e, <1>f DEF AddSpacing, Fail
<1>2. Kept(s, e) /\ Kept(e, t) /\ Kept(t, split) /\ Kept(s, s)
  BY <1>c, KeptByCells, KeptByRecord, KeptByCursor DEF Kept
<1>3. Kept(s, t)
  BY <1>2, KeptThrough
<1>4. Kept(s, split)
  BY <1>2, <1>3, KeptThrough
<1>5. Kept(s, begun)
  BY <1>2, <1>4, <1>d
<1>6. Kept(begun, u)
  <2>1. Kept(begun, Wrap(begun, w, l, sx)) /\ Kept(begun, begun)
    BY KeptByWrap DEF Kept
  <2> QED
    BY <1>e, <2>1
<1>7. Kept(u, r)
  BY <1>f, KeptByPutAt
<1>8. Kept(s, u)
  BY <1>5, <1>6, KeptThrough
<1>9. Kept(s, r)
  BY <1>7, <1>8, KeptThrough
<1> QED
  BY <1>1, <1>2, <1>5, <1>9

\* The blanks of a tab: round i.
Again(r, w, c, n, i) == IF i > n \/ ~r.ok THEN r ELSE AddSpacing(r.s, w, c, FALSE)

LEMMA AddTimesIs ==
  ASSUME NEW s, NEW w, NEW c, NEW n
  PROVE  AddTimes(s, w, c, n) = Again(Again(Done(s), w, c, n, 1), w, c, n, 2)
<1> DEFINE Run(g) == g = [i \in 0 .. TabSize |->
                            IF i = 0 THEN Done(s)
                            ELSE IF i > n \/ ~g[i - 1].ok THEN g[i - 1] ELSE AddSpacing(g[i - 1].s, w, c, FALSE)]
<1>0. ASSUME NEW g
      PROVE  Run(g) <=> g = [i \in 0 .. 2 |-> IF i = 0 THEN Done(s) ELSE Again(g[i - 1], w, c, n, i)]
  BY DEF Again, TabSize
<1>1. \E g : Run(g)
  <2>a. PICK a, b, d : a = Done(s) /\ b = Again(a, w, c, n, 1) /\ d = Again(b, w, c, n, 2)
    OBVIOUS
  <2>g. PICK g : g = [i \in 0 .. 2 |-> IF i = 0 THEN a ELSE IF i = 1 THEN b ELSE d]
    OBVIOUS
  <2>1. g[0] = a /\ g[1] = b /\ g[2] = d
    BY <2>g
  <2>2. ASSUME NEW i \in 0 .. 2 PROVE g[i] = IF i = 0 THEN Done(s) ELSE Again(g[i - 1], w, c, n, i)
    <3>1. i = 0 \/ (i = 1 /\ i - 1 = 0) \/ (i = 2 /\ i - 1 = 1)
      OBVIOUS
    <3> QED
      BY <2>1, <2>a, <3>1
  <2>3. g = [i \in 0 .. 2 |-> IF i = 0 THEN Done(s) ELSE Again(g[i - 1], w, c, n, i)]
    BY <2>2, <2>g
  <2> QED
    BY <1>0, <2>3
<1>2. PICK f : f = CHOOSE h : Run(h)
  OBVIOUS
<1>3. AddTimes(s, w, c, n) = f[2]
  BY <1>2 DEF AddTimes, TabSize
<1> HIDE DEF Run
<1>4. Run(f)
  BY <1>1, <1>2
<1>5. f = [i \in 0 .. 2 |-> IF i = 0 THEN Done(s) ELSE Again(f[i - 1], w, c, n, i)]
  BY <1>0, <1>4
<1>6. f[0] = Done(s)
  BY <1>5
<1>7. f[1] = Again(f[0], w, c, n, 1)
  BY <1>5
<1>8. f[2] = Again(f[1], w, c, n, 2)
  BY <1>5
<1> QED
  BY <1>3, <1>6, <1>7, <1>8

\* A character of the program, in a state that may be odd.
LEMMA AddSpacingOdd ==
  ASSUME NEW s, Safe(s, {}), NEW w \in Windows, NEW c \in Chars, NEW hi \in BOOLEAN
  PROVE  Safe(AddSpacing(s, w, c, hi).s, {})
<1>1. CASE Odds(s)
  BY <1>1, KeptByAddSpacing, KeptOdds DEF Safe
<1>2. CASE Sound(s) /\ Only(s, {})
  BY <1>2, AddSpacingSafe
<1> QED
  BY <1>1, <1>2 DEF Safe

LEMMA AddTimesOdd ==
  ASSUME NEW s, Safe(s, {}), NEW w \in Windows, NEW c \in Chars, NEW n
  PROVE  Safe(AddTimes(s, w, c, n).s, {})
<1>1. ASSUME NEW r, NEW i, Safe(r.s, {}) PROVE Safe(Again(r, w, c, n, i).s, {})
  <2>1. Safe(AddSpacing(r.s, w, c, FALSE).s, {})
    BY <1>1, AddSpacingOdd
  <2>2. Again(r, w, c, n, i) = r \/ Again(r, w, c, n, i) = AddSpacing(r.s, w, c, FALSE)
    BY DEF Again
  <2> QED
    BY <1>1, <2>1, <2>2
<1>2. Safe(Done(s).s, {})
  BY DEF Done
<1> QED
  BY <1>1, <1>2, AddTimesIs

\* What the strings of the program are made of.
Keys == {"a", "W", "NL", "TAB", "BS", "CR"}

LEMMA KeysAre ==
  ASSUME NEW k \in Keys \cup Chars
  PROVE  \/ k \in {"BS", "CR", "NL"}
         \/ k \notin {"BS", "CR", "NL"} /\ (k = "TAB" \/ (k # "TAB" /\ k \in Chars))
  BY DEF Keys, Chars, Wide

LEMMA AddCharSafe ==
  ASSUME NEW s, Sound(s), Only(s, {}), NEW w \in Windows, NEW k \in Keys \cup Chars
  PROVE  Safe(AddChar(s, w, k).s, {})
<1>0. w \in AllWindows /\ 0 \in Cols(w) /\ s.cur[w][2] \in Cols(w) /\ Safe(s, {})
  BY WindowsAre, ColsAre, CursorIs DEF Safe
<1>1. CASE k = "BS"
  <2>1. AddChar(s, w, k).s = [s EXCEPT !.cur[w][2] = More(0, s.cur[w][2] - 1)]
    <3>1. AddChar(s, w, k) = Done([s EXCEPT !.cur[w][2] = More(0, @ - 1)])
      BY <1>1 DEF AddChar
    <3> QED
      BY <3>1 DEF Done
  <2>2. More(0, s.cur[w][2] - 1) \in Cols(w)
    <3>1. s.cur[w][2] \in Nat /\ s.cur[w][2] < Area(w).v /\ Area(w).v \in Nat
      BY <1>0, AreaIs DEF Cols
    <3>2. More(0, s.cur[w][2] - 1) = IF 0 > s.cur[w][2] - 1 THEN 0 ELSE s.cur[w][2] - 1
      BY DEF More
    <3>3. s.cur[w][2] - 1 < 0 \/ s.cur[w][2] - 1 \in 0 .. Area(w).v - 1
      BY <3>1
    <3> QED
      BY <1>0, <3>1, <3>2, <3>3 DEF Cols
  <2> QED
    BY <1>0, <2>1, <2>2, ColumnOdd
<1>2. CASE k = "CR"
  <2>1. AddChar(s, w, k).s = [s EXCEPT !.cur[w][2] = 0]
    BY <1>2 DEF AddChar, Done
  <2> QED
    BY <1>0, <2>1, ColumnOdd
<1>3. CASE k = "NL"
  <2>a. PICK t : t = ClrToEol(s, w)
    OBVIOUS
  <2>1. AddChar(s, w, k).s = s \/ AddChar(s, w, k).s = AddNewline(t, w).s
    BY <1>3, <2>a DEF AddChar, Fail
  <2>2. Sound(t) /\ Only(t, {})
    BY <2>a, ClrToEolSafe
  <2>3. Safe(AddNewline(t, w).s, {})
    BY <2>2, AddNewlineSafe
  <2> QED
    BY <1>0, <2>1, <2>3
<1>4. CASE k \notin {"BS", "CR", "NL"}
  <2>a. PICK c, n : c = (IF k = "TAB" THEN " " ELSE k) /\ n = (IF k = "TAB" THEN TabCount(s, w) ELSE 1)
    OBVIOUS
  <2>1. AddChar(s, w, k) = AddTimes(s, w, c, n)
    BY <1>4, <2>a DEF AddChar
  <2>2. c \in Chars
    <3>1. " " \in Chars
      BY DEF Chars
    <3>2. k = "TAB" \/ k \in Chars
      BY <1>4, KeysAre
    <3> QED
      BY <2>a, <3>1, <3>2
  <2> QED
    BY <1>0, <2>1, <2>2, AddTimesOdd
<1> QED
  BY <1>1, <1>2, <1>3, <1>4

LEMMA KeptByAddTimes ==
  ASSUME NEW s, NEW w, NEW c, NEW n
  PROVE  Kept(s, AddTimes(s, w, c, n).s)
<1>1. ASSUME NEW r, NEW i PROVE Kept(r.s, Again(r, w, c, n, i).s)
  <2>1. Kept(r.s, AddSpacing(r.s, w, c, FALSE).s) /\ Kept(r.s, r.s)
    BY KeptByAddSpacing DEF Kept
  <2>2. Again(r, w, c, n, i) = r \/ Again(r, w, c, n, i) = AddSpacing(r.s, w, c, FALSE)
    BY DEF Again
  <2> QED
    BY <2>1, <2>2
<1>a. PICK a, b, d : a = Done(s) /\ b = Again(a, w, c, n, 1) /\ d = Again(b, w, c, n, 2)
  OBVIOUS
<1>2. Kept(a.s, b.s) /\ Kept(b.s, d.s) /\ a.s = s
  BY <1>1, <1>a DEF Done
<1>3. Kept(s, d.s)
  BY <1>2, KeptThrough
<1> QED
  BY <1>3, <1>a, AddTimesIs

LEMMA KeptByAddNewline ==
  ASSUME NEW s, NEW w
  PROVE  Kept(s, AddNewline(s, w).s)
<1>a. PICK t, q, r : t = Scroll(s, w, 1) /\ q = [t EXCEPT !.cur[w][2] = 0] /\ r = NextLine(s, w, s.cur[w][1])
  OBVIOUS
<1>1. AddNewline(s, w).s = q \/ AddNewline(s, w).s = r
  BY <1>a DEF AddNewline, Done
<1>2. Kept(s, t) /\ Kept(t, q) /\ Kept(s, r)
  BY <1>a, KeptByScroll, KeptByCursor
<1>3. Kept(s, q)
  BY <1>2, KeptThrough
<1> QED
  BY <1>1, <1>2, <1>3

LEMMA KeptByAddChar ==
  ASSUME NEW s, NEW w, NEW k
  PROVE  Kept(s, AddChar(s, w, k).s)
<1>a. PICK back, start, e, f, new :
        /\ back = [s EXCEPT !.cur[w][2] = More(0, s.cur[w][2] - 1)] /\ start = [s EXCEPT !.cur[w][2] = 0]
        /\ e = Erased(s, w, Storage(s, w, s.cur[w][1]), s.cur[w][2] .. Area(w).v - 1)
        /\ f = TouchLine(e, w, s.cur[w][1], s.cur[w][2], Area(w).v - 1)
        /\ new = Sync(f, w)
  OBVIOUS
<1>b. PICK next : next = AddNewline(new, w).s
  OBVIOUS
<1>1. new = ClrToEol(s, w)
  BY <1>a DEF ClrToEol
<1>2. Kept(s, back) /\ Kept(s, start) /\ Kept(s, e) /\ Kept(e, f) /\ Kept(f, new) /\ Kept(new, next) /\ Kept(s, s)
  BY <1>a, <1>b, KeptByCursor, KeptByCells, KeptByRecord, KeptBySync, KeptByAddNewline DEF Kept
<1>3. Kept(s, f)
  BY <1>2, KeptThrough
<1>4. Kept(s, new)
  BY <1>2, <1>3, KeptThrough
<1>5. Kept(s, next)
  BY <1>2, <1>4, KeptThrough
<1>6. CASE k = "BS"
  <2>1. AddChar(s, w, k) = Done([s EXCEPT !.cur[w][2] = More(0, @ - 1)])
    BY <1>6 DEF AddChar
  <2>2. AddChar(s, w, k).s = [s EXCEPT !.cur[w][2] = More(0, @ - 1)]
    BY <2>1 DEF Done
  <2> QED
    BY <2>2 DEF Kept
<1>7. CASE k = "CR"
  <2>1. AddChar(s, w, k).s = start
    BY <1>7, <1>a DEF AddChar, Done
  <2> QED
    BY <1>2, <2>1
<1>8. CASE k = "NL"
  <2>1. AddChar(s, w, k).s = s \/ AddChar(s, w, k).s = next
    BY <1>8, <1>1, <1>b DEF AddChar, Fail
  <2> QED
    BY <1>2, <1>5, <2>1
<1>9. CASE k \notin {"BS", "CR", "NL"}
  <2>1. AddChar(s, w, k) = AddTimes(s, w, IF k = "TAB" THEN " " ELSE k, IF k = "TAB" THEN TabCount(s, w) ELSE 1)
    BY <1>9 DEF AddChar
  <2> QED
    BY <2>1, KeptByAddTimes
<1> QED
  BY <1>6, <1>7, <1>8, <1>9

LEMMA AddCharOdd ==
  ASSUME NEW s, Safe(s, {}), NEW w \in Windows, NEW k \in Keys \cup Chars
  PROVE  Safe(AddChar(s, w, k).s, {})
<1>1. CASE Odds(s)
  BY <1>1, KeptByAddChar, KeptOdds DEF Safe
<1>2. CASE Sound(s) /\ Only(s, {})
  BY <1>2, AddCharSafe
<1> QED
  BY <1>1, <1>2 DEF Safe

-----------------------------------------------------------------------------
(* Strings, lines and copies.                                              *)

LEMMA AddStrIs ==
  ASSUME NEW s, NEW w, NEW str, NEW S0, str \in Seq(S0)
  PROVE  \E f : /\ f[0] = s
                /\ \A i \in 1 .. Len(str) : f[i] = AddChar(f[i - 1], w, str[i]).s
                /\ AddStr(s, w, str) = f[Len(str)]
<1>a. PICK n : n = Len(str)
  OBVIOUS
<1> DEFINE Run(g, m) == g = [i \in 0 .. m |-> IF i = 0 THEN s ELSE AddChar(g[i - 1], w, str[i]).s]
           S == {m \in 0 .. n : \E g : Run(g, m)}
<1>0. n \in Nat
  BY <1>a
<1>1. 0 \in S
  <2>1. PICK g : g = [i \in 0 .. 0 |-> s]
    OBVIOUS
  <2>2. g = [i \in 0 .. 0 |-> IF i = 0 THEN s ELSE AddChar(g[i - 1], w, str[i]).s]
    BY <2>1
  <2> QED
    BY <1>0, <2>2
<1>2. ASSUME NEW m \in 1 .. n, m - 1 \in S PROVE m \in S
  <2>1. PICK g : Run(g, m - 1)
    BY <1>2
  <2>2. \A i \in 0 .. m - 1 : g[i] = IF i = 0 THEN s ELSE AddChar(g[i - 1], w, str[i]).s
    BY <2>1
  <2>3. PICK h : h = [i \in 0 .. m |-> IF i = m THEN AddChar(g[m - 1], w, str[m]).s ELSE g[i]]
    OBVIOUS
  <2>4. \A i \in 0 .. m - 1 : h[i] = g[i]
    BY <1>0, <2>3
  <2>5. ASSUME NEW i \in 0 .. m
        PROVE  h[i] = IF i = 0 THEN s ELSE AddChar(h[i - 1], w, str[i]).s
    <3>1. CASE i = m
      <4>1. m - 1 \in 0 .. m - 1 /\ i # 0
        BY <1>0, <3>1
      <4>2. h[i] = AddChar(g[m - 1], w, str[m]).s
        BY <2>3, <3>1
      <4> QED
        BY <2>4, <3>1, <4>1, <4>2
    <3>2. CASE i # m
      <4>1. i \in 0 .. m - 1 /\ (i # 0 => i - 1 \in 0 .. m - 1)
        BY <1>0, <3>2
      <4> QED
        BY <2>2, <2>4, <4>1
    <3> QED
      BY <3>1, <3>2
  <2>6. h = [i \in 0 .. m |-> IF i = 0 THEN s ELSE AddChar(h[i - 1], w, str[i]).s]
    BY <2>3, <2>5
  <2>7. m \in 0 .. n
    BY <1>0
  <2> QED
    BY <2>6, <2>7
<1>3. n \in S
  <2> HIDE DEF S
  <2>1. \A i \in 0 .. n : i \in S
    BY <1>0, <1>1, <1>2, Induct
  <2> QED
    BY <1>0, <2>1
<1>4. \E g : Run(g, n)
  BY <1>3
<1>5. PICK f : f = CHOOSE g : Run(g, n)
  OBVIOUS
<1>6. f = [i \in 0 .. n |-> IF i = 0 THEN s ELSE AddChar(f[i - 1], w, str[i]).s]
  BY <1>4, <1>5
<1>7. AddStr(s, w, str) = f[n]
  BY <1>5, <1>a DEF AddStr
<1>8. f[0] = s
  BY <1>0, <1>6
<1>9. \A i \in 1 .. n : f[i] = AddChar(f[i - 1], w, str[i]).s
  BY <1>0, <1>6
<1> QED
  BY ONLY <1>7, <1>8, <1>9, <1>a

\* The characters of a string are added one after the other.
LEMMA AddStrSafe ==
  ASSUME NEW s, Sound(s), Only(s, {}), NEW w \in Windows, NEW str \in Seq(Keys)
  PROVE  Safe(AddStr(s, w, str), {})
<1>1. PICK f : /\ f[0] = s
               /\ \A i \in 1 .. Len(str) : f[i] = AddChar(f[i - 1], w, str[i]).s
               /\ AddStr(s, w, str) = f[Len(str)]
  BY AddStrIs
<1>a. PICK n : n = Len(str)
  OBVIOUS
<1> DEFINE S == {i \in 0 .. n : Safe(f[i], {})}
<1>0. n \in Nat /\ \A i \in 1 .. n : str[i] \in Keys \cup Chars
  BY <1>a
<1>2. 0 \in S
  BY <1>0, <1>1 DEF Safe
<1>3. ASSUME NEW i \in 1 .. n, i - 1 \in S PROVE i \in S
  <2>1. Safe(f[i - 1], {})
    BY <1>3
  <2>2. Safe(AddChar(f[i - 1], w, str[i]).s, {})
    BY <1>0, <2>1, AddCharOdd
  <2>3. f[i] = AddChar(f[i - 1], w, str[i]).s /\ i \in 0 .. n
    BY <1>0, <1>1, <1>a
  <2> QED
    BY <2>2, <2>3
<1>4. n \in S
  <2> HIDE DEF S
  <2>1. \A i \in 0 .. n : i \in S
    BY <1>0, <1>2, <1>3, Induct
  <2> QED
    BY <1>0, <2>1
<1> QED
  BY <1>1, <1>4, <1>a

\* The loop of whline or wvline runs.
LEMMA DrawLineIs ==
  ASSUME NEW s, NEW w, NEW c, NEW places, NEW S0, places \in Seq(S0), places # <<>>
  PROVE  \E f : /\ f[0] = s
                /\ \A i \in 1 .. Len(places) : f[i] = AddChar(At(f[i - 1], w, places[i][1], places[i][2]), w, c).s
                /\ DrawLine(s, w, c, places) = Sync(At(f[Len(places)], w, s.cur[w][1], s.cur[w][2]), w)
<1>a. PICK n : n = Len(places)
  OBVIOUS
<1> DEFINE Run(g, m) == g = [i \in 0 .. m |-> IF i = 0 THEN s ELSE AddChar(At(g[i - 1], w, places[i][1], places[i][2]), w, c).s]
           S == {m \in 0 .. n : \E g : Run(g, m)}
<1>0. n \in Nat
  BY <1>a
<1>1. 0 \in S
  <2>1. PICK g : g = [i \in 0 .. 0 |-> s]
    OBVIOUS
  <2>2. g = [i \in 0 .. 0 |-> IF i = 0 THEN s ELSE AddChar(At(g[i - 1], w, places[i][1], places[i][2]), w, c).s]
    BY <2>1
  <2> QED
    BY <1>0, <2>2
<1>2. ASSUME NEW m \in 1 .. n, m - 1 \in S PROVE m \in S
  <2>1. PICK g : Run(g, m - 1)
    BY <1>2
  <2>2. \A i \in 0 .. m - 1 : g[i] = IF i = 0 THEN s ELSE AddChar(At(g[i - 1], w, places[i][1], places[i][2]), w, c).s
    BY <2>1
  <2>3. PICK h : h = [i \in 0 .. m |-> IF i = m THEN AddChar(At(g[m - 1], w, places[m][1], places[m][2]), w, c).s ELSE g[i]]
    OBVIOUS
  <2>4. \A i \in 0 .. m - 1 : h[i] = g[i]
    BY <1>0, <2>3
  <2>5. ASSUME NEW i \in 0 .. m
        PROVE  h[i] = IF i = 0 THEN s ELSE AddChar(At(h[i - 1], w, places[i][1], places[i][2]), w, c).s
    <3>1. CASE i = m
      <4>1. m - 1 \in 0 .. m - 1 /\ i # 0
        BY <1>0, <3>1
      <4>2. h[i] = AddChar(At(g[m - 1], w, places[m][1], places[m][2]), w, c).s
        BY <2>3, <3>1
      <4> QED
        BY <2>4, <3>1, <4>1, <4>2
    <3>2. CASE i # m
      <4>1. i \in 0 .. m - 1 /\ (i # 0 => i - 1 \in 0 .. m - 1)
        BY <1>0, <3>2
      <4> QED
        BY <2>2, <2>4, <4>1
    <3> QED
      BY <3>1, <3>2
  <2>6. h = [i \in 0 .. m |-> IF i = 0 THEN s ELSE AddChar(At(h[i - 1], w, places[i][1], places[i][2]), w, c).s]
    BY <2>3, <2>5
  <2>7. m \in 0 .. n
    BY <1>0
  <2> QED
    BY <2>6, <2>7
<1>3. n \in S
  <2> HIDE DEF S
  <2>1. \A i \in 0 .. n : i \in S
    BY <1>0, <1>1, <1>2, Induct
  <2> QED
    BY <1>0, <2>1
<1>4. \E g : Run(g, n)
  BY <1>3
<1>5. PICK f : f = CHOOSE g : Run(g, n)
  OBVIOUS
<1>6. f = [i \in 0 .. n |-> IF i = 0 THEN s ELSE AddChar(At(f[i - 1], w, places[i][1], places[i][2]), w, c).s]
  BY <1>4, <1>5
<1>7. DrawLine(s, w, c, places) = Sync(At(f[n], w, s.cur[w][1], s.cur[w][2]), w)
  BY <1>5, <1>a DEF DrawLine
<1>8. f[0] = s
  BY <1>0, <1>6
<1>9. \A i \in 1 .. n : f[i] = AddChar(At(f[i - 1], w, places[i][1], places[i][2]), w, c).s
  BY <1>0, <1>6
<1> QED
  BY ONLY <1>7, <1>8, <1>9, <1>a

LEMMA DrawLineSafe ==
  ASSUME NEW s, Sound(s), Only(s, {}), NEW w \in Windows, NEW places, NEW S0, places \in Seq(S0)
  PROVE  Safe(DrawLine(s, w, "a", places), {})
<1>e. CASE places = <<>>
  BY <1>e DEF DrawLine, Safe
<1>n. CASE places # <<>>
  <2>c. PICK c : c = "a"
    OBVIOUS
  <2>1. PICK f : /\ f[0] = s
                 /\ \A i \in 1 .. Len(places) : f[i] = AddChar(At(f[i - 1], w, places[i][1], places[i][2]), w, c).s
                 /\ DrawLine(s, w, c, places) = Sync(At(f[Len(places)], w, s.cur[w][1], s.cur[w][2]), w)
    BY <1>n, DrawLineIs
  <2>a. PICK n : n = Len(places)
    OBVIOUS
  <2> DEFINE S == {i \in 0 .. n : Safe(f[i], {})}
  <2>0. n \in Nat /\ c \in Keys \cup Chars
    BY <2>a, <2>c DEF Keys
  <2>2. 0 \in S
    BY <2>0, <2>1 DEF Safe
  <2>3. ASSUME NEW i \in 1 .. n, i - 1 \in S PROVE i \in S
    <3>1. Safe(f[i - 1], {})
      BY <2>3
    <3>2. Safe(At(f[i - 1], w, places[i][1], places[i][2]), {})
      BY <3>1, AtOdd
    <3>3. Safe(AddChar(At(f[i - 1], w, places[i][1], places[i][2]), w, c).s, {})
      BY <2>0, <3>2, AddCharOdd
    <3>4. f[i] = AddChar(At(f[i - 1], w, places[i][1], places[i][2]), w, c).s /\ i \in 0 .. n
      BY <2>0, <2>1, <2>a
    <3> QED
      BY <3>3, <3>4
  <2>4. n \in S
    <3> HIDE DEF S
    <3>1. \A i \in 0 .. n : i \in S
      BY <2>0, <2>2, <2>3, Induct
    <3> QED
      BY <2>0, <3>1
  <2>5. Safe(At(f[n], w, s.cur[w][1], s.cur[w][2]), {})
    <3>1. Safe(f[n], {})
      BY <2>4
    <3> QED
      BY <3>1, AtOdd
  <2>6. Safe(Sync(At(f[n], w, s.cur[w][1], s.cur[w][2]), w), {})
    BY <2>5, SyncOdd
  <2> QED
    BY <2>1, <2>6, <2>a, <2>c
<1> QED
  BY <1>e, <1>n

LEMMA PlacesAre ==
  ASSUME NEW s, Sound(s), NEW w \in Windows
  PROVE  HPlaces(s, w, "a", 2) \in Seq(Int \X Int) /\ VPlaces(s, w, 2) \in Seq(Int \X Int)
<1>a. PICK y, x : y = s.cur[w][1] /\ x = s.cur[w][2]
  OBVIOUS
<1>0. y \in Nat /\ x \in Nat /\ x < Area(w).v /\ y < Area(w).h /\ Area(w).v \in Nat /\ Area(w).h \in Nat /\ Width("a") = 1
  BY <1>a, WindowsAre, CursorIs, AreaIs DEF Lns, Cols, Width, Wide
<1>1. HPlaces(s, w, "a", 2) \in Seq(Int \X Int)
  <2>a. PICK k : k = Less(2, (Area(w).v - x) \div Width("a"))
    OBVIOUS
  <2>1. k \in Nat
    BY <1>0, <2>a DEF Less
  <2>2. HPlaces(s, w, "a", 2) = [i \in 1 .. k |-> <<y, x + (i - 1) * Width("a")>>]
    BY <1>a, <2>a DEF HPlaces
  <2>3. \A i \in 1 .. k : <<y, x + (i - 1) * Width("a")>> \in Int \X Int
    BY <1>0
  <2> QED
    BY <2>1, <2>2, <2>3
<1>2. VPlaces(s, w, 2) \in Seq(Int \X Int)
  <2>a. PICK k : k = Less(2, Area(w).h - y)
    OBVIOUS
  <2>1. k \in Nat
    BY <1>0, <2>a DEF Less
  <2>2. VPlaces(s, w, 2) = [i \in 1 .. k |-> <<y + i - 1, x>>]
    BY <1>a, <2>a DEF VPlaces
  <2>3. \A i \in 1 .. k : <<y + i - 1, x>> \in Int \X Int
    BY <1>0
  <2> QED
    BY <2>1, <2>2, <2>3
<1> QED
  BY <1>1, <1>2

LEMMA CopySize == SubArea.h * SubArea.v \in Nat
<1>1. SubArea.h \in Nat /\ SubArea.v \in Nat
  BY SizeAssumption
<1> QED
  BY <1>1

\* Cell i is a cell of the subwindow.
LEMMA CopyPlace ==
  ASSUME NEW i \in 1 .. SubArea.h * SubArea.v
  PROVE  (i - 1) \div SubArea.v \in Lns("sub") /\ (i - 1) % SubArea.v \in Cols("sub")
<1>a. PICK h, v, n : h = SubArea.h /\ v = SubArea.v /\ n = i - 1
  OBVIOUS
<1>0. h \in Nat \ {0} /\ v \in Nat \ {0} /\ Area("sub") = SubArea
  BY <1>a, SizeAssumption DEF Area
<1>b. PICK m : m = h * v
  OBVIOUS
<1>1. m \in Nat /\ n \in Nat /\ n < m
  <2>1. m \in Nat
    BY ONLY <1>0, <1>b
  <2>2. i \in 1 .. m
    BY <1>a, <1>b
  <2> QED
    BY <1>a, <2>1, <2>2
<1>c. PICK q, r : q = n \div v /\ r = n % v
  OBVIOUS
<1>2. q \in Nat /\ r \in 0 .. v - 1 /\ n = v * q + r
  BY ONLY <1>0, <1>1, <1>c
<1>3. q < h
  <2>1. SUFFICES ASSUME q >= h PROVE FALSE
    BY <1>0, <1>2
  <2>2. q - h \in Nat /\ v * q = v * h + v * (q - h)
    BY ONLY <1>0, <1>2, <2>1
  <2>3. v * (q - h) >= 0 /\ v * h = m
    BY ONLY <1>0, <1>b, <2>2
  <2> QED
    BY ONLY <1>0, <1>1, <1>2, <2>2, <2>3
<1>4. (i - 1) \div SubArea.v = q /\ (i - 1) % SubArea.v = r
  BY ONLY <1>a, <1>c
<1>5. q \in 0 .. h - 1 /\ r \in 0 .. v - 1
  BY ONLY <1>0, <1>2, <1>3
<1>6. Lns("sub") = 0 .. h - 1 /\ Cols("sub") = 0 .. v - 1
  BY ONLY <1>0, <1>a DEF Lns, Cols
<1> QED
  BY ONLY <1>4, <1>5, <1>6

\* The loops of copywin run.
LEMMA CopyWinIs ==
  ASSUME NEW s, NEW overlay
  PROVE  \E f : /\ f[0] = s
                /\ \A i \in 1 .. SubArea.h * SubArea.v : f[i] = CopyCell(f[i - 1], overlay, i)
                /\ CopyWin(s, overlay) = TouchWin(f[SubArea.h * SubArea.v], "root")
<1>a. PICK n : n = SubArea.h * SubArea.v
  OBVIOUS
<1> DEFINE Run(g, m) == g = [i \in 0 .. m |-> IF i = 0 THEN s ELSE CopyCell(g[i - 1], overlay, i)]
           S == {m \in 0 .. n : \E g : Run(g, m)}
<1>0. n \in Nat
  BY <1>a, CopySize
<1>1. 0 \in S
  <2>1. PICK g : g = [i \in 0 .. 0 |-> s]
    OBVIOUS
  <2>2. g = [i \in 0 .. 0 |-> IF i = 0 THEN s ELSE CopyCell(g[i - 1], overlay, i)]
    BY <2>1
  <2> QED
    BY <1>0, <2>2
<1>2. ASSUME NEW m \in 1 .. n, m - 1 \in S PROVE m \in S
  <2>1. PICK g : Run(g, m - 1)
    BY <1>2
  <2>2. \A i \in 0 .. m - 1 : g[i] = IF i = 0 THEN s ELSE CopyCell(g[i - 1], overlay, i)
    BY <2>1
  <2>3. PICK h : h = [i \in 0 .. m |-> IF i = m THEN CopyCell(g[m - 1], overlay, m) ELSE g[i]]
    OBVIOUS
  <2>4. \A i \in 0 .. m - 1 : h[i] = g[i]
    BY <1>0, <2>3
  <2>5. ASSUME NEW i \in 0 .. m
        PROVE  h[i] = IF i = 0 THEN s ELSE CopyCell(h[i - 1], overlay, i)
    <3>1. CASE i = m
      <4>1. m - 1 \in 0 .. m - 1 /\ i # 0
        BY <1>0, <3>1
      <4>2. h[i] = CopyCell(g[m - 1], overlay, m)
        BY <2>3, <3>1
      <4> QED
        BY <2>4, <3>1, <4>1, <4>2
    <3>2. CASE i # m
      <4>1. i \in 0 .. m - 1 /\ (i # 0 => i - 1 \in 0 .. m - 1)
        BY <1>0, <3>2
      <4> QED
        BY <2>2, <2>4, <4>1
    <3> QED
      BY <3>1, <3>2
  <2>6. h = [i \in 0 .. m |-> IF i = 0 THEN s ELSE CopyCell(h[i - 1], overlay, i)]
    BY <2>3, <2>5
  <2>7. m \in 0 .. n
    BY <1>0
  <2> QED
    BY <2>6, <2>7
<1>3. n \in S
  <2> HIDE DEF S
  <2>1. \A i \in 0 .. n : i \in S
    BY <1>0, <1>1, <1>2, Induct
  <2> QED
    BY <1>0, <2>1
<1>4. \E g : Run(g, n)
  BY <1>3
<1>5. PICK f : f = CHOOSE g : Run(g, n)
  OBVIOUS
<1>6. f = [i \in 0 .. n |-> IF i = 0 THEN s ELSE CopyCell(f[i - 1], overlay, i)]
  BY <1>4, <1>5
<1>7. CopyWin(s, overlay) = TouchWin(f[n], "root")
  BY <1>5, <1>a DEF CopyWin
<1>8. f[0] = s /\ \A i \in 1 .. n : f[i] = CopyCell(f[i - 1], overlay, i)
  <2>1. f[0] = s
    BY <1>0, <1>6
  <2>2. \A i \in 1 .. n : f[i] = CopyCell(f[i - 1], overlay, i)
    BY <1>0, <1>6
  <2> QED
    BY <2>1, <2>2
<1>9. 1 .. n = 1 .. SubArea.h * SubArea.v /\ f[n] = f[SubArea.h * SubArea.v]
  BY ONLY <1>a
<1> QED
  BY ONLY <1>7, <1>8, <1>9

LEMMA CopyCellSafe ==
  ASSUME NEW s, Safe(s, {}), flags.sub, NEW overlay, NEW i \in 1 .. SubArea.h * SubArea.v
  PROVE  Safe(CopyCell(s, overlay, i), {})
<1>a. PICK y, x : y = (i - 1) \div SubArea.v /\ x = (i - 1) % SubArea.v
  OBVIOUS
<1>b. PICK cell : cell = Text(s, "sub", y)[x]
  OBVIOUS
<1>c. PICK t : t = At(s, "root", y, x)
  OBVIOUS
<1>1. CopyCell(s, overlay, i) = s \/ CopyCell(s, overlay, i) = AddSpacing(t, "root", cell.ch, cell.hi).s
  BY <1>a, <1>b, <1>c DEF CopyCell
<1>2. CASE Odds(s)
  <2>1. Odds(t)
    BY <1>2, <1>c, KeptByCursor, KeptOdds
  <2>2. Odds(AddSpacing(t, "root", cell.ch, cell.hi).s)
    BY <2>1, KeptByAddSpacing, KeptOdds
  <2> QED
    BY <1>1, <1>2, <2>2 DEF Safe
<1>3. CASE Sound(s) /\ Only(s, {})
  <2>1. "sub" \in Windows /\ y \in Lns("sub") /\ x \in Cols("sub")
    BY <1>a, CopyPlace DEF Windows
  <2>2. cell \in Cells
    BY <1>3, <1>b, <2>1, TextIs
  <2>3. cell.ch \in Chars /\ cell.hi \in BOOLEAN
    BY <2>2 DEF Cells, Chars
  <2>4. Safe(t, {})
    BY <1>3, <1>c, RootIs, AtOdd DEF Safe
  <2>5. Safe(AddSpacing(t, "root", cell.ch, cell.hi).s, {})
    BY <2>3, <2>4, RootIs, AddSpacingOdd
  <2> QED
    BY <1>1, <2>5
<1> QED
  BY <1>2, <1>3 DEF Safe

LEMMA CopyWinSafe ==
  ASSUME NEW s, Sound(s), Only(s, {}), flags.sub, NEW overlay
  PROVE  Safe(CopyWin(s, overlay), {})
<1>1. PICK f : /\ f[0] = s
               /\ \A i \in 1 .. SubArea.h * SubArea.v : f[i] = CopyCell(f[i - 1], overlay, i)
               /\ CopyWin(s, overlay) = TouchWin(f[SubArea.h * SubArea.v], "root")
  BY CopyWinIs
<1>a. PICK n : n = SubArea.h * SubArea.v
  OBVIOUS
<1> DEFINE S == {i \in 0 .. n : Safe(f[i], {})}
<1>0. n \in Nat
  BY <1>a, CopySize
<1>2. 0 \in S
  BY <1>0, <1>1 DEF Safe
<1>3. ASSUME NEW i \in 1 .. n, i - 1 \in S PROVE i \in S
  <2>1. Safe(f[i - 1], {})
    BY <1>3
  <2>2. Safe(CopyCell(f[i - 1], overlay, i), {})
    BY <1>a, <2>1, CopyCellSafe
  <2>3. f[i] = CopyCell(f[i - 1], overlay, i) /\ i \in 0 .. n
    BY <1>0, <1>1, <1>a
  <2> QED
    BY <2>2, <2>3
<1>4. n \in S
  <2> HIDE DEF S
  <2>1. \A i \in 0 .. n : i \in S
    BY <1>0, <1>2, <1>3, Induct
  <2> QED
    BY <1>0, <2>1
<1>5. CASE Odds(f[n])
  <2>1. Odds(TouchWin(f[n], "root"))
    BY <1>5, KeptByRecord, KeptOdds
  <2> QED
    BY <1>1, <1>a, <2>1 DEF Safe
<1>6. CASE Sound(f[n]) /\ Only(f[n], {})
  <2>1. Sound(TouchWin(f[n], "root")) /\ Only(TouchWin(f[n], "root"), {} \ Band("root", Lns("root")))
    BY <1>6, RootIs, TouchWinSafe
  <2>2. Sound(TouchWin(f[n], "root")) /\ Only(TouchWin(f[n], "root"), {})
    BY <2>1
  <2> QED
    BY <1>1, <1>a, <2>2 DEF Safe
<1> QED
  BY <1>4, <1>5, <1>6 DEF Safe

-----------------------------------------------------------------------------
(* The program.                                                            *)

\* An edit that leaves the window sound, with every change in the record.
Fine == \E t : Safe(t, {}) /\ Edit(t)

LEMMA StringsAre == Strings \subseteq Seq(Keys)
<1>1. \A a \in Keys : <<a>> \in Seq(Keys)
  OBVIOUS
<1>2. \A a, b \in Keys : <<a, b>> \in Seq(Keys)
  OBVIOUS
<1>3. {"a", "W", "NL", "TAB", "BS", "CR"} = Keys /\ "a" \in Keys /\ "W" \in Keys /\ "NL" \in Keys
  BY DEF Keys
<1> HIDE DEF Keys
<1> QED
  BY <1>1, <1>2, <1>3 DEF Strings

LEMMA WritesFine ==
  ASSUME NEW s, Sound(s), Only(s, {}), NEW w \in Windows, Writes(s, w)
  PROVE  Fine
<1>1. CASE \E str \in Strings : Edit(AddStr(s, w, str))
  <2>1. PICK str \in Strings : Edit(AddStr(s, w, str))
    BY <1>1
  <2>2. Safe(AddStr(s, w, str), {})
    BY StringsAre, AddStrSafe
  <2> QED
    BY <2>1, <2>2 DEF Fine
<1>2. CASE \E places \in {HPlaces(s, w, "a", 2), VPlaces(s, w, 2)} : Edit(DrawLine(s, w, "a", places))
  <2>1. PICK places \in {HPlaces(s, w, "a", 2), VPlaces(s, w, 2)} : Edit(DrawLine(s, w, "a", places))
    BY <1>2
  <2>2. places \in Seq(Int \X Int)
    BY PlacesAre
  <2>3. Safe(DrawLine(s, w, "a", places), {})
    BY <2>2, DrawLineSafe
  <2> QED
    BY <2>1, <2>3 DEF Fine
<1> QED
  BY <1>1, <1>2 DEF Writes

LEMMA InsertsFine ==
  ASSUME NEW s, Sound(s), Only(s, {}), NEW w \in Windows, Inserts(s, w)
  PROVE  Fine
<1>1. Safe(InsCh(s, w, "a"), {}) /\ Safe(InsStr(s, w, "a", 2), {}) /\ Safe(DelCh(s, w), {})
  BY InsChSafe, InsStrSafe, DelChSafe
<1>2. \A c \in {"a", "W"} : Safe(InsWch(s, w, c), {})
  <2>1. {"a", "W"} \subseteq Chars
    BY DEF Chars, Wide
  <2>2. \A c \in Chars : Safe(InsWch(s, w, c), {})
    BY InsWchSafe
  <2> QED
    BY <2>1, <2>2
<1> QED
  BY <1>1, <1>2 DEF Inserts, Fine

LEMMA MovesFine ==
  ASSUME NEW s, Sound(s), Only(s, {}), NEW w \in Windows, MovesLines(s, w)
  PROVE  Fine
<1>1. ASSUME NEW n \in Int \ {0} PROVE Safe(InsDel(s, w, n), {})
  <2>1. Odds(InsDel(s, w, n)) \/ (Sound(InsDel(s, w, n)) /\ Only(InsDel(s, w, n), {} \ Band(w, s.cur[w][1] .. MovedTo(s, w))))
    BY InsDelSafe
  <2> QED
    BY <2>1 DEF Safe
<1>2. ASSUME NEW n \in Int \ {0} PROVE Safe(Scroll(s, w, n), {})
  <2>1. \/ Odds(Scroll(s, w, n))
        \/ Sound(Scroll(s, w, n)) /\ Only(Scroll(s, w, n), {} \ Band(w, s.region[w][1] .. s.region[w][2]))
    BY ScrolledSafe
  <2> QED
    BY <2>1 DEF Safe
<1>3. CASE \E n \in {-2, -1, 1, 2} : Edit(InsDel(s, w, n))
  <2>1. PICK n \in {-2, -1, 1, 2} : Edit(InsDel(s, w, n))
    BY <1>3
  <2>2. n \in Int \ {0}
    OBVIOUS
  <2> QED
    BY <1>1, <2>1, <2>2 DEF Fine
<1>4. CASE \E n \in {-1, 1} : w \in flags.scroll /\ Edit(Scroll(s, w, n))
  <2>1. PICK n \in {-1, 1} : Edit(Scroll(s, w, n))
    BY <1>4
  <2>2. n \in Int \ {0}
    OBVIOUS
  <2> QED
    BY <1>2, <2>1, <2>2 DEF Fine
<1> QED
  BY <1>3, <1>4 DEF MovesLines

LEMMA ErasesFine ==
  ASSUME NEW s, Sound(s), Only(s, {}), NEW w \in Windows, Erases(s, w)
  PROVE  Fine
<1>1. Safe(ClrToEol(s, w), {}) /\ Safe(ClrToBot(s, w), {})
  BY ClrToEolSafe, ClrToBotSafe DEF Safe
<1> QED
  BY <1>1 DEF Erases, Fine

LEMMA MarksFine ==
  ASSUME NEW s, Sound(s), Only(s, {}), NEW w \in Windows, Marks(s, w)
  PROVE  Fine
<1>0. s.cur[w][1] \in Lns(w) /\ s.cur[w][2] \in Cols(w)
  BY WindowsAre, CursorIs
<1>1. \A n \in {1, V} : Safe(ChgAt(s, w, s.cur[w][1], s.cur[w][2], n), {})
  <2>1. {1, V} \subseteq Nat \ {0}
    BY SizesAre
  <2>2. \A n \in Nat \ {0} : Safe(ChgAt(s, w, s.cur[w][1], s.cur[w][2], n), {})
    BY <1>0, ChgAtSafe
  <2> QED
    BY <2>1, <2>2
<1>2. Safe(TouchLn(s, w, s.cur[w][1], 1), {})
  BY <1>0, TouchLnSafe DEF Safe
<1> QED
  BY <1>1, <1>2 DEF Marks, Fine

LEMMA WholeFine ==
  ASSUME Sound(st), Only(st, {}), NEW w \in Windows, WholeWindow(w)
  PROVE  Fine
<1>1. Safe(Erase(st, w), {}) /\ Safe(Clear(st, w), {})
  BY EraseSafe, ClearSafe DEF Safe
<1>2. Safe(Border(st, w, "a"), {})
  <2>1. "a" \in Chars
    BY DEF Chars
  <2> QED
    BY <2>1, BorderSafe DEF Safe
<1>3. Safe(SyncUp(st, w), {})
  BY SyncUpSafe DEF Safe
<1> QED
  BY <1>1, <1>2, <1>3 DEF WholeWindow, Fine

LEMMA CopiesFine ==
  ASSUME Sound(st), Only(st, {}), Copies
  PROVE  Fine
<1>0. flags.sub
  BY DEF Copies
<1>1. \A overlay \in BOOLEAN : Safe(CopyWin(st, overlay), {})
  BY <1>0, CopyWinSafe
<1>2. \A w \in AllWindows : Safe(TouchOverlap(st, w), {})
  BY <1>0, TouchOverlapSafe DEF Safe
<1> QED
  BY <1>1, <1>2 DEF Copies, Fine

LEMMA EditsFine ==
  ASSUME Sound(st), Only(st, {}), NEW w \in Windows, EditWindow(w)
  PROVE  Fine
<1>1. CASE WholeWindow(w)
  BY <1>1, WholeFine
<1>2. CASE ~WholeWindow(w)
  <2>1. PICK spot \in Spots[w] :
          LET s == At(st, w, spot[1], spot[2])
          IN  Writes(s, w) \/ Inserts(s, w) \/ MovesLines(s, w) \/ Erases(s, w) \/ Marks(s, w)
    BY <1>2 DEF EditWindow
  <2>a. PICK s : s = At(st, w, spot[1], spot[2])
    OBVIOUS
  <2>2. Sound(s) /\ Only(s, {})
    BY <2>a, WindowsAre, AtSafe
  <2>3. Writes(s, w) \/ Inserts(s, w) \/ MovesLines(s, w) \/ Erases(s, w) \/ Marks(s, w)
    BY <2>1, <2>a
  <2> QED
    BY <2>2, <2>3, WritesFine, InsertsFine, MovesFine, ErasesFine, MarksFine
<1> QED
  BY <1>1, <1>2

-----------------------------------------------------------------------------
(* The invariant: the parts of the windows fit together, and every cell    *)
(* the virtual screen does not have yet is in the record of a line that a  *)
(* refresh of the window looks at.                                         *)
WInv ==
  /\ edits \in 0 .. MaxEdits
  /\ Sound(st)
  /\ Only(st, {})

\* The flags do not change, and Sound and Only are about the state and them.
LEMMA Carried ==
  ASSUME UNCHANGED flags, Sound(st'), Only(st', {})
  PROVE  Sound(st)' /\ Only(st, {})'
<1>1. Sound(st)'
  BY DEF Sound, Ordered
<1>2. Only(st, {})'
  <2>1. Windows' = Windows
    BY DEF Windows
  <2>2. ASSUME NEW y, NEW x PROVE Recorded(st, y, x)' <=> Recorded(st', y, x)
    BY <2>1 DEF Recorded, On, Flagged, LineOf
  <2> QED
    BY <2>2 DEF Only, Lost
<1> QED
  BY <1>1, <1>2

LEMMA WStarts == Init => WInv
<1> SUFFICES ASSUME Init PROVE WInv
  OBVIOUS
<1>1. PICK picture \in Pictures :
       st = [text |-> picture, row |-> [y \in Rows |-> y],
             subrow |-> [y \in 0 .. SubArea.h - 1 |-> y + SubArea.y],
             first |-> [p \in Rows |-> V], last |-> [p \in Rows |-> 0],
             dirty |-> [w \in AllWindows |-> [l \in 0 .. Area(w).h - 1 |-> FALSE]],
             forced |-> [w \in AllWindows |-> [l \in 0 .. Area(w).h - 1 |-> FALSE]],
             cur |-> [w \in AllWindows |-> <<0, 0>>],
             clear |-> [w \in AllWindows |-> FALSE],
             region |-> [w \in AllWindows |-> IF w = "root" THEN flags.region
                                              ELSE <<0, SubArea.h - 1>>],
             virt |-> picture, vflag |-> [y \in Rows |-> FALSE],
             vfirst |-> [y \in Rows |-> V], vlast |-> [y \in Rows |-> 0],
             vcur |-> <<0, 0>>, vclear |-> FALSE, shown |-> picture, odd |-> {}]
  BY DEF Init
<1>0. /\ edits = 0 /\ MaxEdits \in Nat /\ picture \in Grid
      /\ flags.region[1] \in Rows /\ flags.region[2] \in Rows /\ flags.region[1] <= flags.region[2]
  BY SizeAssumption, ProgramAssumption DEF Init, Grid
<1>2. DOMAIN st = Fields /\ st.odd = {}
  BY <1>1 DEF Fields
<1>3. st.text \in Grid
  BY <1>0, <1>1
<1>4. Ordered(st.row, st.subrow)
  <2>1. st.row = [y \in Rows |-> y] /\ st.subrow = [y \in Lns("sub") |-> y + SubArea.y]
    BY <1>1 DEF Lns, Area
  <2>2. \A y \in Lns("sub") : y + SubArea.y \in Rows
    BY RootIs, PlaceIs DEF Area
  <2> QED
    BY <2>1, <2>2 DEF Ordered
<1>5. Records(st.first, st.last)
  BY <1>1, SizesAre DEF Records
<1>6. Marked(st.dirty) /\ Marked(st.forced)
  BY <1>1 DEF Marked, Lns
<1>7. Cursors(st.cur)
  <2>1. \A w \in AllWindows : Cursor(<<0, 0>>, w)
    BY ColsAre DEF Cursor
  <2> QED
    BY <1>1, <2>1 DEF Cursors
<1>8. Clears(st.clear)
  BY <1>1 DEF Clears
<1>9. Regions(st.region)
  <2>1. SubArea.h \in Nat \ {0}
    BY SizeAssumption
  <2>2. ASSUME NEW w \in AllWindows
        PROVE  st.region[w][1] \in Lns(w) /\ st.region[w][2] \in Lns(w) /\ st.region[w][1] <= st.region[w][2]
    <3>1. CASE w = "root"
      BY <1>0, <1>1, <3>1, RootIs
    <3>2. CASE w # "root"
      <4>1. st.region[w] = <<0, SubArea.h - 1>> /\ Lns(w) = 0 .. SubArea.h - 1
        BY <1>1, <3>2 DEF Lns, Area
      <4> QED
        BY <2>1, <4>1
    <3> QED
      BY <3>1, <3>2
  <2> QED
    BY <2>2 DEF Regions
<1>10. Virtual(st.virt, st.shown, st.vflag, st.vfirst, st.vlast, st.vclear)
  <2>1. st.virt = picture /\ st.shown = picture /\ st.vclear = FALSE
    BY <1>1
  <2>2. st.vflag = [y \in Rows |-> FALSE] /\ st.vfirst = [y \in Rows |-> V] /\ st.vlast = [y \in Rows |-> 0]
    BY <1>1
  <2>3. st.vflag \in [Rows -> BOOLEAN]
    BY <2>2
  <2>4. st.vfirst \in [Rows -> 0 .. V] /\ st.vlast \in [Rows -> 0 .. V]
    BY <2>2, SizesAre
  <2> QED
    BY <1>0, <2>1, <2>3, <2>4 DEF Virtual
<1>11. Only(st, {})
  <2>1. \A y \in Rows, x \in Columns : st.virt[y][x] = st.text[st.row[y]][x]
    BY <1>1
  <2> QED
    BY <2>1 DEF Only, Lost
<1> QED
  BY <1>0, <1>2, <1>3, <1>4, <1>5, <1>6, <1>7, <1>8, <1>9, <1>10, <1>11 DEF WInv, Sound

LEMMA WSteps ==
  ASSUME Cases = {}, WInv, [Next]_vars
  PROVE  WInv'
<1>0. Sound(st) /\ Only(st, {}) /\ edits \in 0 .. MaxEdits
  BY DEF WInv
<1>1. CASE Fine
  <2>1. PICK t : Safe(t, {}) /\ Edit(t)
    BY <1>1 DEF Fine
  <2>2. st' = t /\ edits' = edits + 1 /\ UNCHANGED flags /\ edits < MaxEdits /\ t.odd = {}
    BY <2>1 DEF Edit
  <2>3. Sound(st') /\ Only(st', {})
    BY <2>1, <2>2 DEF Safe, Odds
  <2>4. edits' \in 0 .. MaxEdits
    BY <1>0, <2>2, SizeAssumption
  <2> QED
    BY <2>2, <2>3, <2>4, Carried DEF WInv
<1>2. ASSUME NEW w \in Windows, WNoutRefresh(w) PROVE WInv'
  <2>1. st' = NoutRefreshed(st, w) /\ UNCHANGED flags /\ edits' = edits
    BY <1>2 DEF WNoutRefresh
  <2>2. Sound(st') /\ Only(st', {})
    BY <1>0, <2>1, NoutRefreshedSafe
  <2> QED
    BY <1>0, <2>1, <2>2, Carried DEF WInv
<1>3. ASSUME NEW w \in Windows, WRefresh(w) PROVE WInv'
  <2>1. st' = Refreshed(st, w) /\ UNCHANGED flags /\ edits' = edits
    BY <1>3 DEF WRefresh
  <2>2. Sound(st') /\ Only(st', {})
    BY <1>0, <2>1, RefreshedSafe
  <2> QED
    BY <1>0, <2>1, <2>2, Carried DEF WInv
<1>4. CASE DoUpdate
  <2>1. st' = Updated(st) /\ UNCHANGED flags /\ edits' = edits
    BY <1>4 DEF DoUpdate
  <2>2. Sound(st') /\ Only(st', {})
    BY <1>0, <2>1, UpdatedSafe
  <2> QED
    BY <1>0, <2>1, <2>2, Carried DEF WInv
<1>5. CASE UNCHANGED vars
  <2>1. st' = st /\ UNCHANGED flags /\ edits' = edits
    BY <1>5 DEF vars
  <2>2. Sound(st') /\ Only(st', {})
    BY <1>0, <2>1
  <2> QED
    BY <1>0, <2>1, <2>2, Carried DEF WInv
<1>6. ASSUME NEW w \in Windows, EditWindow(w) PROVE Fine
  BY <1>0, <1>6, EditsFine
<1>7. CASE Copies
  BY <1>0, <1>1, <1>7, CopiesFine
<1> QED
  BY <1>1, <1>2, <1>3, <1>4, <1>5, <1>6, <1>7 DEF Next

\* The parts of the window's state keep their types and fit together, whatever
\* the program writes: the inductive invariant.
THEOREM WindowInvariant ==
  ASSUME Cases = {} PROVE Spec => []WInv
<1>1. Init => WInv
  BY WStarts
<1>2. WInv /\ [Next]_vars => WInv'
  BY WSteps
<1> QED
  BY <1>1, <1>2, PTL DEF Spec

\* Whatever calls edited the window and its subwindow, a refresh of the window
\* brings every cell that was changed to the virtual screen.
THEOREM EditsReachScreen ==
  ASSUME Cases = {} PROVE Spec => []NothingLost
<1>1. WInv => NothingLost
  BY RootCopiesAll DEF WInv, NothingLost
<1> QED
  BY <1>1, WindowInvariant, PTL

\* What differs from the terminal is in the record of the virtual screen that
\* doupdate reads.
THEOREM VirtualRecorded ==
  ASSUME Cases = {} PROVE Spec => []VirtRecorded
<1>1. WInv => VirtRecorded
  BY DEF WInv, Sound, Virtual, VirtRecorded
<1> QED
  BY <1>1, WindowInvariant, PTL

\* The cursor of each window stays on a cell of it, and the cells, the records
\* and the lines of the window have their types.
THEOREM CursorsInside ==
  ASSUME Cases = {} PROVE Spec => []CursorInside
<1>1. WInv => CursorInside
  <2> SUFFICES ASSUME WInv PROVE CursorInside
    OBVIOUS
  <2>0. Sound(st) /\ edits \in 0 .. MaxEdits
    BY DEF WInv
  <2>1. \A grid \in {st.text, st.virt, st.shown} : \A y \in Rows, x \in Columns : grid[y][x] \in Cells
    <3>1. \A grid \in {st.text, st.virt, st.shown} : grid \in Grid
      BY <2>0 DEF Sound, Virtual
    <3> QED
      BY <3>1 DEF Grid
  <2>2. {st.row[y] : y \in Rows} = Rows
    BY <2>0 DEF Sound, Ordered
  <2>3. \A p \in Rows : st.first[p] \in 0 .. V /\ st.last[p] \in 0 .. V
    BY <2>0 DEF Sound, Records
  <2>4. \A w \in AllWindows : DOMAIN st.dirty[w] = 0 .. Area(w).h - 1
    BY <2>0 DEF Sound, Marked, Lns
  <2>5. \A w \in AllWindows : st.cur[w][1] \in 0 .. Area(w).h - 1 /\ st.cur[w][2] \in 0 .. Area(w).v - 1
    BY <2>0, CursorIs DEF Lns, Cols
  <2>6. st.odd \subseteq Cases
    BY <2>0 DEF Sound
  <2> QED
    BY <2>0, <2>1, <2>2, <2>3, <2>4, <2>5, <2>6 DEF CursorInside, TypeOK
<1> QED
  BY <1>1, WindowInvariant, PTL
=============================================================================
