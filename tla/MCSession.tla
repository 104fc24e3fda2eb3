----------------------------- MODULE MCSession -----------------------------
(* Instances of Session for TLC, and of the soft labels. *)
EXTENDS Session, Slk

TwoHeights == {4, 5}
SomeRips == {<<>>, <<1, -1>>}

-----------------------------------------------------------------------------
SomeTexts == {<<" ", "a", "b", "c", "d">>, <<"a", "bell", "invalid">>}
Garbled == <<"a", "invalid", "bell">>
Sets(s) == {SlkSet(s, k, text, justify).s : k \in {1, s.n}, text \in SomeTexts, justify \in Justifies}
Hides(s) == {SlkClear(s).s, SlkRestore(s).s}
Resizes(s) == {SlkNoutrefresh(SlkResize(s, cols).s).s : cols \in {16, 27}}
Begin == {LineInit(format, cols, FALSE) : format \in Formats, cols \in {16, 27}}
ByCalls(states, calls(_)) == UNION {calls(s) : s \in states}
Calls(s) == Sets(s) \cup Hides(s) \cup Resizes(s)
Lines == ByCalls(ByCalls(ByCalls(Begin, Calls), Calls), Calls)
\* a terminal with two labels of three columns
TermLines == ByCalls({TermInit(2, 3, switches) : switches \in BOOLEAN}, Sets)

\* the places of the labels for all widths of at least one column for each
ASSUME LabelsPlaced == \A format \in Formats, cols \in 8 .. 100 : LabelsApart(LineInit(format, cols, FALSE))
\* the line of labels after three calls
ASSUME LinesShowLabels == \A s \in Lines : RowShowsLabels(s) /\ Restores(s)
\* and nothing between them, also when a resize has moved the labels
ASSUME LinesClean == \A s \in Lines : GapsBlank(s)
\* a label that was set is the label's until it is set again, shown or not
ASSUME LabelsKept ==
  \A s \in ByCalls(Begin, Calls), text \in SomeTexts, justify \in {"left", "right"} :
    /\ SlkLabel(s, s.n + 1) = NoLabel
    /\ SlkSet(s, 1, Garbled, justify) = Result(s, FALSE)
    /\ \A k \in 1 .. s.n : LET set == SlkSet(s, k, text, justify).s
                          IN  \A t \in {set} \cup Hides(set) \cup Resizes(set) :
                                /\ SlkLabel(t, k) = LabelText(text)
                                /\ \A l \in 1 .. s.n \ {k} : SlkLabel(t, l) = SlkLabel(s, l)
\* new attributes are those of the labels that are set after, and of all that are
\* drawn again
ASSUME LabelsInPens ==
  \A s \in Begin, coloured \in BOOLEAN :
    LET new  == SlkAttrSet(LineInit(s.format, s.cols, coloured), "bold").s
        set  == SlkSet(new, 2, <<"a">>, "left").s
        Pens(t, k) == {t.pens[c] : c \in Columns(t, k) \cap 0 .. t.cols - 1}
        start == {IF coloured THEN "reverse" ELSE "standout"}
    IN  s.len > 0 =>
        /\ \A k \in 1 .. s.n : Pens(set, k) \subseteq IF k = 2 THEN {"bold"} ELSE start
        /\ \A k \in 1 .. s.n : Pens(SlkRestore(SlkClear(set).s).s, k) \subseteq {"bold"}
\* the labels of a terminal: those set while they are hidden are not there later
ASSUME TermLabelsShown ==
  \A s \in TermLines :
    /\ \E k \in 1 .. s.n : s.shown[k] = Label(s.labels[k], s.len)
    /\ Restores(SlkClear(s).s)
    /\ \A t \in ByCalls({SlkClear(s).s}, Sets) : SlkRestore(t).s.shown = s.shown
=============================================================================
