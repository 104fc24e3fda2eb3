-------------------------------- MODULE Slk ---------------------------------
(***************************************************************************)
(* The soft labels of lib/libcurses/slk.c: where the labels are on the     *)
(* line taken from the screen, what is written there, and what the calls   *)
(* make of them, as functions of the state of the labels.  Columns count   *)
(* from 0; every character is one byte and one column wide.                *)
(*                                                                         *)
(*   term    the terminal has labels of its own, and no line is taken      *)
(*   row     the line taken: what its window holds, column by column       *)
(*   pen     the attributes of that window, in which labels are drawn      *)
(*   pens    those of each column                                          *)
(*   shown   what of it has gone to the virtual screen, or what the labels *)
(*           of the terminal are                                           *)
(***************************************************************************)
EXTENDS Integers, SequencesExt

Blank == " "
Unprintable == "bell"
Invalid == "invalid"                       \* a byte that begins no character
Justifies == {"left", "center", "right"}
MaxSlkCols == 8
Labels == 8
Formats == {"3-2-3", "4-4"}

SoftLabel(text, justify, x) == [text |-> text, justify |-> justify, x |-> x]
NewLabel == SoftLabel(<<>>, "left", 0)
Plain == "normal"
BlankRow(cols) == [c \in 0 .. cols - 1 |-> Blank]
PlainRow(cols) == [c \in 0 .. cols - 1 |-> Plain]

Result(s, ok) == [s |-> s, ok |-> ok]

(***************************************************************************)
(* __slk_resize: where the labels begin.                                   *)
(***************************************************************************)
LabelLen(cols) == Min({(cols \div Labels) - 1, MaxSlkCols})
Position323(cols, k) ==
  LET step == LabelLen(cols) + 1
  IN  CASE k <= 3      -> (k - 1) * step
        [] k = 4       -> (cols \div 2) - step
        [] k = 5       -> (cols \div 2) + 1
        [] OTHER       -> cols - 3 * step + 1 + (k - 6) * step
Position44(cols, k) ==
  LET half == Labels \div 2
  IN  IF k <= half THEN (k - 1) * LabelLen(cols)
      ELSE cols - LabelLen(cols) * half + 1 + (k - half - 1) * LabelLen(cols)
Position(format, cols, k) == IF format = "3-2-3" THEN Position323(cols, k) ELSE Position44(cols, k)

(***************************************************************************)
(* __slk_set_finalise: the text in its place between blanks.               *)
(***************************************************************************)
Indent(justify, spc, width) ==
  CASE justify = "left" -> 0 [] justify = "center" -> (spc - width) \div 2 [] justify = "right" -> spc - width
Label(l, spc) ==
  LET width == Min({Len(l.text), spc})
      x     == Indent(l.justify, spc, width)
  IN  [i \in 1 .. spc |-> IF i > x /\ i <= x + width THEN l.text[i - x] ELSE Blank]

(***************************************************************************)
(* __slk_draw.  The last label is inserted character by character if it    *)
(* comes up to the end of the line: one past it is an error.               *)
(***************************************************************************)
Written(row, x, chars) ==
  [c \in DOMAIN row |-> IF c >= x /\ c < x + Len(chars) THEN chars[c - x + 1] ELSE row[c]]
InLine(s, k) == s.labels[k].x + s.len <= s.cols
Draw(s, k) ==
  LET label == Label(s.labels[k], s.len)
  IN  IF s.hidden THEN Result(s, TRUE)
      ELSE IF s.term THEN Result([s EXCEPT !.shown[k] = label], TRUE)
      ELSE Result([s EXCEPT !.row = Written(@, s.labels[k].x, label),
                               !.pens = Written(@, s.labels[k].x, [i \in 1 .. s.len |-> s.pen])],
                  k # s.n \/ s.len = 0 \/ InLine(s, k))
Redraw(s) == FoldLeft(LAMBDA r, k : LET d == Draw(r.s, k) IN Result(d.s, r.ok /\ d.ok),
                      Result(s, TRUE), [k \in 1 .. s.n |-> k])

(***************************************************************************)
(* __slk_init and __slk_ripoffline.  A terminal may have more labels than  *)
(* there is room for, and wider ones: what the calls then write and read   *)
(* is not defined.                                                         *)
(***************************************************************************)
TermFits(num, width, maxLabel) == num <= Labels /\ width <= maxLabel
\* switches: whether the terminal can turn its labels off and on
TermInit(num, width, switches) ==
  [n |-> num, pen |-> "none", cols |-> 0, format |-> "4-4", row |-> <<>>, pens |-> <<>>,
   labels |-> [k \in 1 .. num |-> NewLabel],
   len |-> width, hidden |-> FALSE, term |-> TRUE, shown |-> [k \in 1 .. num |-> <<>>], switches |-> switches]

\* the line has the width of the terminal, and is blank, before the labels are placed
Resized(s, cols) ==
  [s EXCEPT !.cols = cols, !.len = LabelLen(cols),
            !.labels = [k \in 1 .. s.n |-> SoftLabel(@[k].text, @[k].justify, Position(s.format, cols, k))],
            !.row = BlankRow(cols), !.pens = PlainRow(cols)]
SlkResize(s, cols) == IF s.term THEN Result(s, TRUE) ELSE Redraw(Resized(s, cols))
\* coloured: no_color_video has standout
LineInit(format, cols, coloured) ==
  SlkResize([n |-> Labels, pen |-> IF coloured THEN "reverse" ELSE "standout", cols |-> cols, format |-> format,
             row |-> BlankRow(cols), pens |-> PlainRow(cols),
             labels |-> [k \in 1 .. Labels |-> NewLabel], len |-> 0, hidden |-> FALSE, term |-> FALSE, shown |-> BlankRow(cols), switches |-> FALSE], cols).s

(***************************************************************************)
(* The calls.                                                              *)
(***************************************************************************)
\* leading blanks are skipped, the text ends before what is not printable; a
\* text with an invalid byte before that is not taken
FirstOf(text, from, ends(_)) == Min({i \in from .. Len(text) : ends(text[i])} \cup {Len(text) + 1})
LabelStart(text) == FirstOf(text, 1, LAMBDA c : c # Blank)
LabelEnd(text) == FirstOf(text, LabelStart(text), LAMBDA c : c \in {Unprintable, Invalid})
LabelText(text) == SubSeq(text, LabelStart(text), LabelEnd(text) - 1)
Converts(text) == LabelEnd(text) \notin DOMAIN text \/ text[LabelEnd(text)] # Invalid
SlkSet(s, labnum, text, justify) ==
  IF labnum \notin 1 .. s.n \/ justify \notin Justifies \/ ~Converts(text) THEN Result(s, FALSE)
  ELSE Result(Draw([s EXCEPT !.labels[labnum] = SoftLabel(LabelText(text), justify, @.x)], labnum).s, TRUE)

NoLabel == <<"none">>
\* the text, kept without its leading blanks
SlkLabel(s, labnum) == IF labnum \in 1 .. s.n THEN s.labels[labnum].text ELSE NoLabel

\* the calls that only reach the window, if there is one
OnWindow(s) == ~s.term
\* slk_attrset and its kin: what is drawn from now on
SlkAttrSet(s, pen) == IF OnWindow(s) THEN Result([s EXCEPT !.pen = pen], TRUE) ELSE Result(s, FALSE)
SlkNoutrefresh(s) == IF OnWindow(s) THEN Result([s EXCEPT !.shown = s.row], TRUE) ELSE Result(s, FALSE)

SlkClear(s) ==
  IF s.term THEN Result([s EXCEPT !.hidden = TRUE], s.switches)
  ELSE Result([s EXCEPT !.hidden = TRUE, !.row = BlankRow(s.cols), !.pens = PlainRow(s.cols), !.shown = BlankRow(s.cols)], TRUE)

\* a label that cannot be drawn keeps them all from the screen
SlkRestore(s) ==
  LET drawn == Redraw([s EXCEPT !.hidden = FALSE])
  IN  IF s.term THEN Result([s EXCEPT !.hidden = FALSE], s.switches)
      ELSE IF ~drawn.ok THEN drawn
      ELSE SlkNoutrefresh(drawn.s)

(***************************************************************************)
(* What a program may count on.                                            *)
(***************************************************************************)
Columns(s, k) == s.labels[k].x .. s.labels[k].x + s.len - 1
\* the labels are in the line and apart from each other; with four and four
\* the last one goes one column beyond the end, and loses a character
LabelsApart(s) ==
  /\ \A k, l \in 1 .. s.n : k # l => Columns(s, k) \cap Columns(s, l) = {}
  /\ \A k \in 1 .. s.n : k < s.n \/ s.format = "3-2-3" \/ s.len = 0 => Columns(s, k) \subseteq 0 .. s.cols - 1
  /\ s.format = "4-4" /\ s.len > 0 => ~InLine(s, s.n)
\* the line has every label where it belongs, or nothing
RowShowsLabels(s) ==
  IF s.hidden THEN s.row = BlankRow(s.cols)
  ELSE \A k \in 1 .. s.n : \A c \in Columns(s, k) \cap 0 .. s.cols - 1 :
         s.row[c] = Label(s.labels[k], s.len)[c - s.labels[k].x + 1]
\* and blanks between them
GapsBlank(s) == \A c \in 0 .. s.cols - 1 : (s.row[c] = Blank /\ s.pens[c] = Plain) \/ \E k \in 1 .. s.n : c \in Columns(s, k)
\* slk_restore() shows what slk_clear() took away, but not with four and four;
\* the terminal is not told of the labels set meanwhile
Restores(s) ==
  LET restored == SlkRestore(s)
  IN  IF s.term THEN restored.s.shown = s.shown /\ restored.ok = s.switches
      ELSE restored.ok = (s.format = "3-2-3" \/ s.len = 0)
             /\ (restored.ok => restored.s.shown = restored.s.row)
=============================================================================
