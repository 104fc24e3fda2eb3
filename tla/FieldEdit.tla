------------------------------ MODULE FieldEdit ------------------------------
(***************************************************************************)
(* The text of a field of libform: its lines, the cursor, the part that is *)
(* shown, and the requests that edit and move                              *)
(* (lib/libform/internals.c: _formi_add_char(), _formi_manipulate_field(), *)
(* _formi_wrap_field()).                                                   *)
(*                                                                         *)
(* A field is a record: lines, each with its string, the tail that memory  *)
(* holds behind the string, its hard return and the length expanded last   *)
(* noted for it; cur and start, the lines of the  *)
(* cursor and at the top of what is shown, 0 when start_line points to a   *)
(* line that was freed; row_count; and the free list, of which only the    *)
(* hard returns matter that its lines keep.                                *)
(*                                                                         *)
(* There are no tabs, and text is justified left.  met collects what a     *)
(* request meets where the code goes wrong: see Cases.                     *)
(***************************************************************************)
EXTENDS Integers, FiniteSets, SequencesExt

CONSTANTS
  Kinds,             \* the fields: [static, wrap, blank, rows, cols, nrows, max]
  Texts,             \* what the program puts into buffer 0
  Letters,           \* what the user types beside blanks
  Blank, Return,     \* a blank, and a line break in the text the user sees
  MaxText,           \* bound: characters in the field
  Cases              \* which of the following a request may meet:
                     \*   "abort": an assertion fails, or a search does not end
                     \*   "freed": it reads or writes a line on the free list or
                     \*     a line that a failed wrap freed
                     \*   "below": an unsigned place goes below 0, or a place
                     \*     goes past the end of the string
                     \*   "stale": a line from the free list brings its hard
                     \*     return, the line after a new line gets one, or a
                     \*     character that was refused leaves its length
                     \*   "lost": text goes that was not meant
                     \*   "behind": what a deleted line left in memory behind its
                     \*     end is taken for text
                     \*   "apart": the cursor is not where its character is shown
                     \*   "grows": a new line beyond the limit of the field

VARIABLES kind, field

vars == <<kind, field>>

Chars == Letters \cup {Blank}

rows == kind.rows
cols == kind.cols

single == kind.rows + kind.nrows = 1

Least(a, b) == IF a < b THEN a ELSE b
Most(a, b)  == IF a > b THEN a ELSE b

-----------------------------------------------------------------------------
(***************************************************************************)
(* Lines.                                                                  *)
(***************************************************************************)

Line(s, hard) == [str |-> s, tail |-> <<>>, hard |-> hard, exp |-> Len(s)]

\* _formi_tab_expanded_length(): the columns of str[from .. to].  A place past
\* the end counts from the beginning.
Expanded(s, from, to) ==
  LET n == IF to < 0 THEN Len(s) ELSE Least(to + 1, Len(s))
  IN  IF s = <<>> THEN 0 ELSE IF from <= n /\ (to < 0 \/ from <= to) THEN n - from ELSE n

StrOf(f, i) == f.lines[i].str

\* The string in memory up to its NUL: the length says where the line ends.
Mem(f, i) == StrOf(f, i) \o f.lines[i].tail

IsBlank(s, i) == i + 1 \in DOMAIN s /\ s[i + 1] = Blank

Met(c, f) == [f EXCEPT !.met = @ \cup {c}]

MetIf(cond, c, f) == IF cond THEN Met(c, f) ELSE f

Done(f) == [f |-> f, ok |-> TRUE]

Deny(f) == [f |-> f, ok |-> FALSE]

\* add_to_free()
RemoveLine(f, j) ==
  LET n == Len(f.lines)
  IN  IF n = 1 THEN f
      ELSE [f EXCEPT !.lines = RemoveAt(@, j),
                     !.free = <<f.lines[j].hard>> \o @,
                     !.cur = IF @ > j \/ (@ = j /\ j > 1) THEN @ - 1
                             ELSE IF j = n /\ f.start = n THEN n - 1 ELSE @,
                     !.start = IF @ = j THEN 0 ELSE IF @ > j THEN @ - 1 ELSE @]

StartNext(f) ==
  IF f.start \in 1 .. Len(f.lines) - 1 THEN [f EXCEPT !.start = @ + 1] ELSE Met("freed", f)

\* The line of the cursor is now another: lengthBefore characters lie before it.
CursorJoined(f, s, lengthBefore) ==
  LET x == f.rowX + lengthBefore
  IN  [f EXCEPT !.rowX = x, !.curX = Most(0, Expanded(s, 0, x) - 1)]

\* The lines from start to row, or to the last if row lies above.
RowsTo(f, row) == IF row >= f.start THEN row - f.start ELSE Len(f.lines) - f.start

\* Mutant: the cursor's row is not brought up to date.
JoinUncounted(f, row) == [f EXCEPT !.count = @ - 1]

JoinCounted(f, row) ==
  IF f.start = 0 THEN Met("freed", f)
  ELSE [f EXCEPT !.ypos = IF @ > RowsTo(f, row) THEN @ - 1 ELSE @, !.count = @ - 1]

\* Mutant: the hard return of the line that is joined is forgotten.
JoinSoft(f, row) ==
  LET s == StrOf(f, row) \o StrOf(f, row + 1)
      g == [f EXCEPT !.lines[row] = Line(s, FALSE)]
      h == IF f.cur # row + 1 THEN g
           ELSE [CursorJoined(g, s, Len(StrOf(f, row))) EXCEPT
                   !.cur = row,
                   !.ypos = IF @ > 0 THEN @ - 1 ELSE @,
                   !.start = IF f.ypos = 0 /\ @ > 1 THEN @ - 1 ELSE @]
  IN  JoinCounted(RemoveLine(h, row + 1), row)

\* _formi_join_line() with JOIN_NEXT_NW, and with JOIN_PREV_NW
JoinNext(f, row) ==
  LET s == StrOf(f, row) \o StrOf(f, row + 1)
      g == [f EXCEPT !.lines[row] = Line(s, f.lines[row + 1].hard)]
      h == IF f.cur # row + 1 THEN g
           ELSE [CursorJoined(g, s, Len(StrOf(f, row))) EXCEPT
                   !.cur = row,
                   !.ypos = IF @ > 0 THEN @ - 1 ELSE @,
                   !.start = IF f.ypos = 0 /\ @ > 1 THEN @ - 1 ELSE @]
  IN  JoinCounted(RemoveLine(h, row + 1), row)

JoinPrev(f, row) ==
  LET s == StrOf(f, row - 1) \o StrOf(f, row)
      g == [f EXCEPT !.lines[row - 1] = Line(s, f.lines[row].hard)]
      h == IF f.cur # row THEN g
           ELSE [CursorJoined(g, s, Len(StrOf(f, row - 1))) EXCEPT !.cur = row - 1]
  IN  JoinCounted(RemoveLine(h, row), row - 1)

\* The line a split puts to use: one from the free list keeps its hard return.
NewHard(f) == f.free # <<>> /\ Head(f.free)

\* split_line() at pos > 0 or hard
Split(f, hard, pos, row) ==
  LET l     == f.lines[row]
      after == Line(SubSeq(l.str, pos + 1, Len(l.str)), l.hard \/ NewHard(f))
      g == [f EXCEPT !.lines = InsertAt([@ EXCEPT ![row] = Line(SubSeq(l.str, 1, pos), hard)],
                                        row + 1, after),
                     !.free = IF @ = <<>> THEN @ ELSE Tail(@),
                     !.cur = IF @ > row THEN @ + 1 ELSE @,
                     !.start = IF @ > row THEN @ + 1 ELSE @,
                     !.count = @ + 1,
                     !.met = IF NewHard(f) /\ ~l.hard /\ row < Len(f.lines)
                             THEN @ \cup {"stale"} ELSE @]
      moved == [CursorJoined(g, after.str, -pos) EXCEPT !.cur = row + 1, !.ypos = @ + 1]
  IN  IF l.tail # <<>> THEN Met("behind", f)
      ELSE IF pos > Len(l.str) THEN Met("below", f)
      ELSE IF f.cur # row \/ f.rowX < pos THEN g
      ELSE IF moved.ypos < rows THEN moved
      ELSE [StartNext(moved) EXCEPT !.ypos = rows - 1]

-----------------------------------------------------------------------------
(***************************************************************************)
(* Words.  A word goes on over the end of a line.                          *)
(***************************************************************************)

\* The first place from p on that is blank, or is not; the end if there is none.
SkipTo(s, p, blank) ==
  LET some == {q \in p .. Len(s) - 1 : IsBlank(s, q) = blank}
  IN  IF some = {} THEN Len(s) ELSE Min(some)

\* The last such place before p or at it; -1 if there is none.
SkipBack(s, p, blank) ==
  LET some == {q \in 0 .. p : q >= 0 /\ IsBlank(s, q) = blank}
  IN  IF some = {} THEN -1 ELSE Max(some)

NotEmptyAfter(f, row) ==
  LET some == {r \in row + 1 .. Len(f.lines) : StrOf(f, r) # <<>>}
  IN  IF some = {} THEN 0 ELSE Min(some)

NotEmptyBefore(f, row) ==
  LET some == {r \in 1 .. row - 1 : StrOf(f, r) # <<>>}
  IN  IF some = {} THEN 0 ELSE Max(some)

\* find_eow() without joining: the place after the blanks after a word.  The
\* search ends at the NUL, not where the line does.
RECURSIVE SkipWord(_, _, _, _)
SkipWord(f, row, p, inWord) ==
  LET s == Mem(f, row)
      q == SkipTo(s, p, inWord)
      r == NotEmptyAfter(f, row)
  IN  IF q < Len(s) THEN IF inWord THEN SkipWord(f, row, q, FALSE) ELSE [row |-> row, at |-> q]
      ELSE IF r # 0 THEN SkipWord(f, r, 0, inWord)
      ELSE IF row = Len(f.lines) THEN [row |-> row, at |-> q]
      ELSE [row |-> Len(f.lines), at |-> 0]

FindEow(f, row, p) == SkipWord(f, row, p, TRUE)

\* find_sow(): back over blanks, and then over the word.  On a blank at the
\* beginning of a line it does not end.
RECURSIVE BackOver(_, _, _, _)
BackOver(f, row, p, blanks) ==
  LET s    == StrOf(f, row)
      onto == p > 0 /\ (IsBlank(s, p) \/ IsBlank(s, p - 1))
      q    == IF blanks THEN IF ~onto THEN p
                             ELSE SkipBack(s, IF IsBlank(s, p - 1) THEN p - 1 ELSE p, FALSE)
              ELSE SkipBack(s, p, TRUE)
      r    == NotEmptyBefore(f, row)
  IN  IF q < 0
      THEN IF r = 0 THEN [row |-> 1, at |-> 0, ends |-> TRUE]
           ELSE LET e == Len(StrOf(f, r)) - 1
                IN  BackOver(f, r, e, blanks /\ IsBlank(StrOf(f, r), e))
      ELSE IF blanks
        THEN IF IsBlank(s, q) THEN [row |-> row, at |-> q, ends |-> FALSE]
             ELSE BackOver(f, row, q, FALSE)
        ELSE [row |-> row, at |-> q, ends |-> TRUE]

\* The place after the blank before the word.
AfterBlank(f, w) ==
  IF w.at = 0 \/ ~w.ends THEN w
  ELSE IF w.at + 1 < Len(StrOf(f, w.row)) THEN [w EXCEPT !.at = @ + 1]
  ELSE IF w.row < Len(f.lines) THEN [w EXCEPT !.row = @ + 1, !.at = 0]
  ELSE w

FindSow(f, row, p) == AfterBlank(f, BackOver(f, row, p, TRUE))

-----------------------------------------------------------------------------
(***************************************************************************)
(* _formi_wrap_field(): from the line above loc, lines that are too short  *)
(* take the next, lines that are too long are split before a word.         *)
(***************************************************************************)

\* The line is too long up to this word, if words are wrapped.
IsWord(f, row) == kind.wrap /\ ~IsBlank(StrOf(f, row), cols - 1)

SplitPlace(f, row) ==
  IF IsWord(f, row) /\ ~IsBlank(StrOf(f, row), cols - 2)
  THEN FindSow(f, row, cols - 1)
  ELSE [row |-> row, at |-> cols - 1, ends |-> TRUE]

\* A blank stays on the line.
AfterOne(s, at) == IF IsBlank(s, at) /\ at # Len(s) - 1 THEN at + 1 ELSE at

RECURSIVE WrapFrom(_, _), WrapLong(_, _, _)
WrapFrom(f, row) ==
  IF row > Len(f.lines) THEN Done(f)
  ELSE IF f.lines[row].exp > cols THEN WrapLong(f, row, SplitPlace(f, row))
  ELSE IF f.lines[row].exp = cols THEN WrapFrom(f, row + 1)
  ELSE IF row = Len(f.lines) THEN Done(f)
  ELSE IF f.lines[row].hard THEN WrapFrom(f, row + 1)
  ELSE WrapFrom(JoinNext(f, row), row)

WrapLong(f, row, w) ==
  IF ~w.ends THEN Done(Met("abort", f))
  ELSE IF IsWord(f, row) /\ (w.at = 0 \/ ~IsBlank(StrOf(f, w.row), w.at - 1)) THEN Deny(f)
  ELSE WrapFrom(Split(MetIf(Len(StrOf(f, row)) <= cols, "stale", f), FALSE,
                      AfterOne(StrOf(f, w.row), w.at), w.row),
                w.row + 1)

Wraps == ~single /\ (kind.static \/ rows > 1)

TooManyRows(f) ==
  \/ kind.static /\ f.count > rows + kind.nrows
  \/ kind.max # 0 /\ f.count > kind.max

\* The lines from the one above loc are copies when the wrap failed, and
\* start_line one of them; all that was done to the lines is undone.
Restored(f, g, from) ==
  MetIf(f.start < from, "apart",
        [f EXCEPT !.free = g.free, !.met = @ \cup (g.met \cap {"abort"}), !.start = Most(@, from)])

\* Mutant: the lines are not counted after the wrap.
WrapUncounted(f, from, w) == IF w.ok THEN w ELSE Deny(Restored(f, w.f, from))

WrapOrRestore(f, from, w) ==
  IF w.ok /\ ~TooManyRows(w.f) THEN w ELSE Deny(Restored(f, w.f, from))

Wrap(f, loc) ==
  LET from == Most(1, loc - 1)
  IN  IF Wraps THEN WrapOrRestore(f, from, WrapFrom(f, from)) ELSE Done(f)

-----------------------------------------------------------------------------
(***************************************************************************)
(* The cursor.                                                             *)
(***************************************************************************)

CurStr(f) == StrOf(f, f.cur)

CurMem(f) == Mem(f, f.cur)

CurLen(f) == Len(CurStr(f))

Place(f) == f.startChar + f.rowX

Under(f) == f.cur < Len(f.lines)

\* tab_fit_window() without tabs
FitWindow(f) == Most(0, Len(StrOf(f, 1)) - cols + 1)

\* Unsigned places do not go below 0.
At(f, x) == [MetIf(x < 0, "below", f) EXCEPT !.rowX = Most(0, x)]

\* _formi_set_cursor_xpos(), justified left
SetCursorX(f, noscroll) ==
  LET p == Place(f)
      s == CurMem(f)
      n == Expanded(s, f.startChar, p)
      x == IF n < cols /\ p < CurLen(f) THEN n - 1 ELSE n
      start == FitWindow(f)
  IN  IF x < cols THEN [f EXCEPT !.curX = x]
      ELSE IF kind.static
        THEN [f EXCEPT !.startChar = 0,
                       !.curX = IF f.rowX = CurLen(f) - 1 THEN cols - 1
                                ELSE Expanded(s, 0, f.rowX - 1) - 1]
        ELSE IF noscroll THEN [f EXCEPT !.curX = cols - 1]
        ELSE [At(f, p - start) EXCEPT !.startChar = start, !.curX = Expanded(s, start, p - 1)]

\* The cursor goes to a line, at the column it is in or the last before it.
InLine(f) ==
  LET x == Most(0, Min({f.curX, f.lines[f.cur].exp - 1, CurLen(f) - 1}))
  IN  [f EXCEPT !.rowX = x, !.curX = x]

ToNext(f) ==
  LET g == [f EXCEPT !.cur = @ + 1]
  IN  IF f.ypos + 1 >= rows THEN StartNext(g) ELSE [g EXCEPT !.ypos = @ + 1]

ToPrev(f) ==
  LET g == [f EXCEPT !.cur = @ - 1]
  IN  IF f.ypos > 0 THEN [g EXCEPT !.ypos = @ - 1] ELSE [g EXCEPT !.start = @ - 1]

\* adjust_ypos()
AdjustYpos(f) ==
  LET start == Most(1, f.cur - rows + 1)
  IN  [f EXCEPT !.start = start, !.ypos = f.cur - start]

Home(f) == [f EXCEPT !.rowX = 0, !.curX = 0]

-----------------------------------------------------------------------------
(***************************************************************************)
(* _formi_add_char()                                                       *)
(***************************************************************************)

\* check_field_size()
HasRoom(f) ==
  LET n == Len(StrOf(f, 1))
  IN  IF kind.static THEN IF single THEN n <= cols ELSE f.count <= rows + kind.nrows
      ELSE kind.max = 0 \/ IF rows = 1 THEN n < kind.max ELSE f.count <= kind.max

\* All lines but the first go to the free list, the last of them first.
OneLine(f, s) ==
  LET freed == [i \in 1 .. Len(f.lines) - 1 |-> f.lines[i + 1].hard]
  IN  [Home(f) EXCEPT !.lines = <<Line(s, f.lines[1].hard)>>, !.free = Reverse(freed) \o @,
                      !.cur = 1, !.start = 1, !.startChar = 0, !.ypos = 0, !.count = 1]

\* With O_BLANK the first character takes the place of the text, from the
\* beginning of any line.
Blanked(f) == kind.blank /\ ~f.touched /\ Place(f) = 0

\* The character ends what memory holds behind an empty line.
WithChar(f, s) == [f EXCEPT !.lines[f.cur] = Line(s, @.hard)]

\* Back out: the character at row_xpos goes, and expanded stays, by which the
\* line may be split although it fits.
BackOut(f, inserted, old) ==
  LET s == CurStr(f)
      p == f.rowX
      goes == ~f.overlay \/ p >= Len(s) - 1
      g == [MetIf(f.startChar > 0 \/ (goes /\ ~inserted), "lost", f) EXCEPT
              !.lines[f.cur].str = IF goes THEN RemoveAt(s, p + 1) ELSE [s EXCEPT ![p + 1] = old]]
  IN  Wrap(g, g.cur).f

\* In the bottom right corner the field scrolls by a line.
Typed(f) ==
  LET g == [f EXCEPT !.touched = kind.blank, !.rowX = @ + 1]
      h == [g EXCEPT !.curX = Expanded(CurStr(f), 0, f.rowX)]
  IN  IF single THEN SetCursorX(g, FALSE)
      ELSE IF h.curX >= cols /\ h.ypos = rows - 1
        THEN [StartNext(h) EXCEPT !.ypos = @ - 1]
        ELSE h

\* When lines are joined and split again, the column after the last character
\* becomes that of the character.
Refused(f) == Deny(MetIf(~single /\ f.curX # f.rowX, "apart", f))

Added(inserted, old, w) ==
  IF w.ok /\ HasRoom(w.f) THEN Done(Typed(w.f)) ELSE Refused(BackOut(w.f, inserted, old))

AddTo(f, c) ==
  LET s == CurStr(f)
      p == Place(f)
  IN  IF p > Len(s) THEN Done(Met("below", f))
      ELSE IF f.overlay /\ p < Len(s)
        THEN Added(FALSE, s[p + 1], Wrap(WithChar(f, [s EXCEPT ![p + 1] = c]), f.cur))
      ELSE IF ~HasRoom(f) THEN Deny(f)
      ELSE Added(TRUE, c, Wrap(WithChar(f, InsertAt(s, p + 1, c)), f.cur))

AddChar(f, c) ==
  AddTo(IF Blanked(f) THEN MetIf(f.cur # 1, "lost", OneLine(f, <<>>)) ELSE f, c)

-----------------------------------------------------------------------------
(***************************************************************************)
(* _formi_manipulate_field(): requests that move.  A request is a function *)
(* from the field to the field after it, and to whether it was done.       *)
(***************************************************************************)

\* Without a line below, the cursor does not go past the last character.
NextChar(f, right) ==
  LET over == f.curX + 1 >= f.lines[f.cur].exp
  IN  IF \/ right /\ f.curX >= cols - 1
         \/ single /\ kind.static /\ f.rowX = cols - 1
         \/ single /\ Place(f) + 1 > CurLen(f)
         \/ ~single /\ over /\ (right \/ ~Under(f))
      THEN Deny(f)
      ELSE IF single THEN Done(SetCursorX([f EXCEPT !.rowX = @ + 1], right))
      ELSE IF over THEN Done(Home(ToNext(f)))
      ELSE Done([f EXCEPT !.rowX = @ + 1, !.curX = @ + 1])

PrevChar(f, left) ==
  LET g == ToPrev(f)
  IN  IF \/ left /\ f.curX = 0
         \/ single /\ Place(f) = 0
         \/ ~single /\ f.curX = 0 /\ f.ypos = 0 /\ f.start = 1
      THEN Deny(f)
      ELSE IF single
        THEN IF f.rowX = 0 THEN Done([f EXCEPT !.startChar = @ - 1])
             ELSE Done(SetCursorX([f EXCEPT !.rowX = @ - 1], FALSE))
      ELSE IF f.curX > 0 THEN Done([At(f, f.rowX - 1) EXCEPT !.curX = @ - 1])
      ELSE IF f.cur = 1 THEN Done(Met("freed", f))
      ELSE LET n == CurLen(g)
               e == g.lines[g.cur].exp
           IN  Done([MetIf(e # n, "stale", g) EXCEPT !.rowX = Most(0, n - 1),
                                                     !.curX = Most(0, e - 1)])

NextLine(f, down) ==
  IF ~Under(f) \/ (down /\ f.ypos >= rows - 1) THEN Deny(f) ELSE Done(InLine(ToNext(f)))

PrevLine(f, up) ==
  IF f.cur = 1 \/ (f.ypos = 0 /\ (up \/ f.start = 1)) THEN Deny(f) ELSE Done(InLine(ToPrev(f)))

BegField(f) == Done([Home(f) EXCEPT !.startChar = 0, !.start = 1, !.cur = 1, !.ypos = 0])

BegLine(f) == Done([Home(f) EXCEPT !.startChar = 0])

\* The end of a line that others follow is its last character.  In a field of
\* one line that is not full the cursor goes one too far.
EndLine(f) ==
  LET n == CurLen(f)
      e == f.lines[f.cur].exp
  IN  IF ~single
      THEN LET g == MetIf(e # n, "stale", f)
           IN  IF Under(f) THEN Done([At(g, n - 1) EXCEPT !.curX = Most(0, e - 1)])
               ELSE Done([g EXCEPT !.rowX = n, !.curX = e])
      ELSE IF e < cols
        THEN Done(SetCursorX([Met("below", f) EXCEPT !.rowX = n + 1, !.startChar = 0], FALSE))
      ELSE IF kind.static
        THEN Done(SetCursorX([f EXCEPT !.rowX = cols - 1, !.startChar = 0], FALSE))
        ELSE LET start == FitWindow(f) + 1
             IN  Done(SetCursorX([At(f, n - start) EXCEPT !.startChar = start], FALSE))

\* Fewer lines than the field has rows are not scrolled back to the first.
EndField(f) ==
  LET n == Len(f.lines)
  IN  EndLine(IF f.count > rows
              THEN [f EXCEPT !.cur = n, !.start = n - (rows - 1), !.ypos = rows - 1]
              ELSE MetIf(f.start # 1, "apart", [f EXCEPT !.cur = n, !.ypos = f.count - 1]))

InRow(f, row, at) ==
  AdjustYpos([f EXCEPT !.cur = row, !.rowX = at,
                       !.curX = Expanded(Mem(f, row), 0, at) - 1])

\* The string of the line the request came from is asked about a place in
\* another.
ToEow(f, w) ==
  LET s == CurMem(f)
      g == MetIf(w.at > Len(StrOf(f, w.row)), "behind", f)
      far == Expanded(s, f.startChar, w.at) >= cols
  IN  IF w.at > Len(s) THEN Done(Met("below", f))
      ELSE IF w.at = Len(s) THEN Deny(f)
      ELSE IF ~single THEN Done(InRow(g, w.row, w.at))
      ELSE Done(SetCursorX(IF far THEN [g EXCEPT !.startChar = w.at, !.rowX = 0]
                           ELSE At(g, w.at - g.startChar), FALSE))

NextWord(f) == ToEow(f, FindEow(f, f.cur, Place(f)))

ToSow(f, w) ==
  IF ~w.ends THEN Done(Met("abort", f))
  ELSE IF ~single THEN Done(InRow(f, w.row, w.at))
  ELSE Done(SetCursorX(IF w.at > f.startChar THEN [f EXCEPT !.rowX = w.at - f.startChar]
                       ELSE [f EXCEPT !.startChar = w.at, !.rowX = 0], FALSE))

PrevWord(f) ==
  LET p == IF f.startChar > 0 THEN Place(f) - 1 ELSE Place(f)
  IN  IF p > 0 THEN ToSow(f, FindSow(f, f.cur, p))
      ELSE IF f.cur = 1 THEN Deny(f)
      ELSE ToSow(f, FindSow(f, f.cur - 1, Most(0, Len(StrOf(f, f.cur - 1)) - 1)))

\* _formi_scroll_fwd() and _formi_scroll_back(): the cursor stays behind.
Scroll(f, start) == Done(MetIf(start # f.start, "apart", [f EXCEPT !.start = start]))

ScrollFwd(f, amt) ==
  LET bottom == f.start + rows - 1
      n == Len(f.lines)
  IN  Scroll(f, IF bottom > n THEN f.start ELSE f.start + Least(amt, n - bottom))

ScrollBack(f, amt) == Scroll(f, Most(1, f.start - amt))

\* _formi_hscroll_fwd() and _formi_hscroll_back()
HScrollFwd(f, amt) ==
  LET start == Least(f.startChar + amt, CurLen(f) - cols + 1)
      to == Most(0, start)
  IN  Done([MetIf(start < 0, "below", f) EXCEPT
              !.startChar = to, !.curX = Expanded(CurMem(f), to, f.rowX + to) - 1])

HScrollBack(f, amt) ==
  LET to == Most(0, f.startChar - amt)
      x  == Expanded(CurMem(f), to, f.rowX + to) - 1
      g  == [f EXCEPT !.startChar = to, !.curX = x]
  IN  Done(IF x < 0 \/ x >= cols THEN Home(g) ELSE g)

-----------------------------------------------------------------------------
(***************************************************************************)
(* _formi_manipulate_field(): requests that edit.                          *)
(***************************************************************************)

\* The line after a hard return that the user adds gets one too.
HardSplit(f, pos) ==
  LET g == Split(f, TRUE, pos, f.cur)
      h == MetIf(~f.lines[f.cur].hard /\ Under(f), "stale", g)
  IN  MetIf(single \/ TooManyRows(h), "grows", [h EXCEPT !.lines[h.cur].hard = TRUE])

NewLine(f) == Done(Home(HardSplit(f, Place(f))))

InsLine(f) == Done(HardSplit(f, 0))

\* When the wrap fails, the line that is put back in order was freed.
FreedUnless(w) == IF w.ok THEN w ELSE Deny(Met("freed", w.f))

Rewrap(f, row) == FreedUnless(Wrap(f, row))

Cut(f, i) == WithChar(f, RemoveAt(CurStr(f), i))

ShiftedTo(f, start, p) == SetCursorX([At(f, p - start) EXCEPT !.startChar = start], FALSE)

\* The last character of the last line is gone: the cursor goes with it.
EndCut(f) ==
  LET n == CurLen(f)
  IN  IF n <= 1 THEN Home(f)
      ELSE IF single THEN ShiftedTo(f, FitWindow(f), n - 1)
      ELSE [f EXCEPT !.rowX = n - 1, !.curX = n - 2]

\* A return after the last character of a line goes before that character.
DelChar(f) ==
  LET n == CurLen(f)
      p == Place(f)
      atEnd == ~single /\ (n = 0 \/ p = n - 1)
      hard  == f.lines[f.cur].hard
      cut == IF p = n - 1 THEN EndCut(Cut(f, p + 1)) ELSE Cut(f, p + 1)
  IN  IF ~Under(f) /\ (p >= n \/ (atEnd /\ hard)) THEN Deny(f)
      ELSE IF atEnd /\ hard
        THEN Rewrap(JoinNext([f EXCEPT !.lines[f.cur].hard = FALSE], f.cur), f.cur)
      ELSE IF p >= n \/ (atEnd /\ Under(f)) THEN Done(Met("lost", f))
      ELSE IF single THEN Done(cut)
      ELSE Rewrap(cut, f.cur)

\* At the beginning of a line, a return before it goes instead of a character.
CutBefore(f, i) ==
  [Cut(f, i) EXCEPT !.rowX = @ - 1, !.curX = IF i > 1 THEN Least(i - 1, CurLen(f) - 1) ELSE 0]

\* The join wraps, and the line is wrapped again that may be free by then.
JoinedTwice(f, w) ==
  IF ~w.ok THEN w
  ELSE IF w.f.count < f.count - 1 THEN Done(Met("freed", w.f))
  ELSE Rewrap(w.f, f.cur - 1)

CutJoined(f) ==
  IF f.rowX = 0 THEN Done(Met("below", f)) ELSE Rewrap(CutBefore(f, f.rowX), f.cur)

DelPrev(f) ==
  LET p == Place(f)
      home == f.curX = 0 /\ f.startChar = 0 /\ f.start = 1 /\ f.ypos = 0
  IN  IF home \/ (p = 0 /\ f.cur = 1) THEN Deny(f)
      ELSE IF single THEN Done(ShiftedTo(Cut(f, p), FitWindow(Cut(f, p)), p - 1))
      ELSE IF p > 0 THEN Rewrap(CutBefore(f, p), f.cur)
      ELSE IF f.lines[f.cur - 1].hard
        THEN JoinedTwice(f, Rewrap(JoinPrev([f EXCEPT !.lines[f.cur - 1].hard = FALSE], f.cur),
                                   f.cur - 1))
      ELSE CutJoined(JoinPrev(f, f.cur))

\* A word is deleted as if the field had one line.
WordStart(f, p) ==
  LET s == CurStr(f)
  IN  IF p = 0 \/ (IsBlank(s, p - 1) /\ ~IsBlank(s, p)) THEN p ELSE FindSow(f, 1, p).at

WithoutWord(f, from, to) ==
  LET s == CurStr(f)
      x == from - f.startChar
  IN  SetCursorX(At([f EXCEPT !.lines[1].str = SubSeq(s, 1, from) \o SubSeq(s, to + 1, Len(s))],
                    IF x > 0 THEN x - 1 ELSE x), FALSE)

DelWord(f) ==
  Done(IF single /\ f.lines[1].tail # <<>> THEN Met("behind", f)
       ELSE IF single THEN WithoutWord(f, WordStart(f, Place(f)), FindEow(f, 1, Place(f)).at)
       ELSE Met("lost", f))

\* The line of a field with more than one is not unlinked: the walk that counts
\* the lines above it does not end.  An only line becomes empty, and its string
\* stays in memory.
DelLine(f) ==
  Done(IF ~single /\ f.count > 1 THEN Met("freed", f)
       ELSE [MetIf(f.startChar > 0, "apart", Home(f)) EXCEPT
               !.lines[f.cur] = [Line(<<>>, @.hard) EXCEPT !.tail = CurMem(f)], !.ypos = 0])

\* The character under the cursor stays; the blank goes that parts the words of
\* this line and the next.
ClrEol(f) ==
  LET s == CurStr(f)
  IN  Done(IF f.rowX >= Len(s) THEN Met("below", f)
           ELSE [MetIf(f.startChar > 0 \/ (Under(f) /\ ~f.lines[f.cur].hard), "lost", f)
                   EXCEPT !.lines[f.cur] = [@ EXCEPT !.str = SubSeq(s, 1, f.rowX + 1),
                                                     !.exp = f.curX + 1]])

\* The rest of the line stays.
ClrEof(f) ==
  LET below == SubSeq(f.lines, f.cur + 1, Len(f.lines))
      freed == [i \in DOMAIN below |-> below[i].hard]
  IN  Done([f EXCEPT !.lines = SubSeq(@, 1, f.cur), !.free = Reverse(freed) \o @,
                     !.count = @ - Len(below)])

ClrField(f) == Done(OneLine(f, <<>>))

Mode(f, overlay) == Done([f EXCEPT !.overlay = overlay])

-----------------------------------------------------------------------------
Empty == [lines |-> <<Line(<<>>, FALSE)>>, cur |-> 1, start |-> 1, rowX |-> 0, curX |-> 0,
          ypos |-> 0, startChar |-> 0, count |-> 1, overlay |-> FALSE, touched |-> FALSE,
          free |-> <<>>, met |-> {}]

\* field_buffer_init()
Loaded(s) == Wrap([Empty EXCEPT !.lines = <<Line(s, FALSE)>>], 1)

Init ==
  /\ kind \in Kinds
  /\ \E s \in Texts : Loaded(s).ok /\ field = Loaded(s).f

\* A line without a hard return at the end of the free list is as good as a new
\* one.
Used(free) == SubSeq(free, 1, Max({0} \cup {i \in DOMAIN free : free[i]}))

Request(r) ==
  /\ r.f.met \subseteq Cases
  /\ field' = [r.f EXCEPT !.met = {}, !.free = Used(@)]
  /\ UNCHANGED kind

\* A request is done when the assertion at its end holds.
Manipulate(r) ==
  Request([r EXCEPT !.f = MetIf(r.ok /\ @.curX < @.rowX, "abort", @)])

TextOf(f) ==
  FlattenSeq([i \in DOMAIN f.lines |->
                f.lines[i].str \o IF f.lines[i].hard /\ i < Len(f.lines) THEN <<Return>> ELSE <<>>])

OffsetOf(f) == Len(TextOf([f EXCEPT !.lines = SubSeq(@, 1, f.cur - 1) \o <<Line(<<>>, FALSE)>>])) + Place(f)

Fits == Len(TextOf(field)) < MaxText

\* form_driver()
Type == Fits /\ \E c \in Chars : Request(AddChar(field, c))

\* _formi_manipulate_field()
Move ==
  \/ \E b \in BOOLEAN : Manipulate(NextChar(field, b)) \/ Manipulate(PrevChar(field, b))
  \/ \E b \in BOOLEAN : Manipulate(NextLine(field, b)) \/ Manipulate(PrevLine(field, b))
  \/ Manipulate(BegField(field)) \/ Manipulate(BegLine(field))
  \/ Manipulate(EndField(field)) \/ Manipulate(EndLine(field))
  \/ Manipulate(NextWord(field)) \/ Manipulate(PrevWord(field))

ScrollLines ==
  \E amt \in {1, rows, rows \div 2} :
    Manipulate(ScrollFwd(field, amt)) \/ Manipulate(ScrollBack(field, amt))

ScrollChars ==
  /\ single
  /\ \E amt \in {1, cols, cols \div 2} :
       Manipulate(HScrollFwd(field, amt)) \/ Manipulate(HScrollBack(field, amt))

Edit ==
  \/ Fits /\ (Manipulate(NewLine(field)) \/ Manipulate(InsLine(field)))
  \/ Fits /\ Manipulate(AddChar(field, Blank))
  \/ Manipulate(DelChar(field)) \/ Manipulate(DelPrev(field))
  \/ Manipulate(DelWord(field)) \/ Manipulate(DelLine(field))
  \/ Manipulate(ClrEol(field)) \/ Manipulate(ClrEof(field)) \/ Manipulate(ClrField(field))
  \/ \E b \in BOOLEAN : Manipulate(Mode(field, b))

Next == Type \/ Move \/ ScrollLines \/ ScrollChars \/ Edit

Spec == Init /\ [][Next]_vars

-----------------------------------------------------------------------------
\* Wrapping, joining and splitting lines change no text: what the user does to
\* the lines of the field is what an editor does to a text, and the cursor stays
\* at the character it was at.
Editor == INSTANCE TextEditor WITH text <- TextOf(field), pos <- OffsetOf(field)

ImplementsEditor == Editor!Spec

\* The cursor is in its line and the line is among those shown, at the row where
\* the cursor is; in a field of more than one line the column is the one that is
\* shown, too.
CursorShown ==
  /\ field.start \in 1 .. field.cur /\ field.cur <= Len(field.lines)
  /\ field.ypos = field.cur - field.start /\ field.ypos < rows
  /\ Place(field) <= CurLen(field)
  /\ IF single THEN field.curX \in 0 .. cols - 1 ELSE field.curX = field.rowX

\* The lines of a field that wraps fit its columns, a word goes on in the next line
\* only where the line is full, and there are as many lines as were counted, which
\* is no more than the field may have.
Wrapped ==
  /\ field.count = Len(field.lines)
  /\ ~TooManyRows(field)
  /\ Wraps => \A i \in DOMAIN field.lines : Len(StrOf(field, i)) <= cols
  /\ Wraps /\ kind.wrap => \A i \in 1 .. Len(field.lines) - 1 :
       LET n == Len(StrOf(field, i))
       IN  field.lines[i].hard \/ n = cols \/ IsBlank(StrOf(field, i), n - 1)
=============================================================================
