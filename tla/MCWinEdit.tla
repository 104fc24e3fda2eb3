----------------------------- MODULE MCWinEdit -----------------------------
(***************************************************************************)
(* A window of three lines and four columns, and a subwindow of two by two *)
(* in its bottom right corner.                                             *)
(***************************************************************************)
EXTENDS WinEdit, Rendition, SequencesExt

TheSub == [y |-> 1, x |-> 2, h |-> 2, v |-> 2]
TheSpots == [w \in AllWindows |-> IF w = "root" THEN {<<0, 1>>, <<1, 3>>, <<2, 2>>} ELSE {<<0, 0>>, <<1, 1>>}]

Empty == [y \in Rows |-> [x \in Columns |-> Blank]]
\* Wide characters in the window and in the subwindow, and a letter in each.
Mixed == [y \in Rows |-> [x \in Columns |->
            CASE y < 2 /\ x = y + 1 -> Glyph("W")
              [] y < 2 /\ x = y + 2 -> Rest("W")
              [] y = x -> Glyph("a")
              [] OTHER -> Blank]]
ThePictures == {Mixed}

Program(sub, scroll, immed, sync, region) ==
  [sub |-> sub, scroll |-> scroll, immed |-> immed, sync |-> sync, region |-> region]
ThePrograms ==
  { Program(FALSE, {"root"}, {}, {}, <<0, 2>>),
    Program(FALSE, {"root"}, {}, {}, <<0, 1>>),
    Program(FALSE, {"root"}, {"root"}, {}, <<1, 2>>),
    Program(TRUE, {}, {}, {}, <<0, 2>>),
    Program(TRUE, {"sub"}, {}, {"sub"}, <<0, 2>>),
    Program(TRUE, {"sub"}, {"sub"}, {}, <<0, 2>>) }

-----------------------------------------------------------------------------
(* Renditions and colours: a terminal, and others with other strings.      *)
Term == [type |-> "ansi", standout |-> "off standout", underscore |-> "off underscore", me |-> "sgr0", alt |-> "alt",
         op |-> "off colour", enters |-> Attrs, ncv |-> {}, standoutIs |-> "standout", change |-> FALSE]
Terms == {[Term EXCEPT !.standout = so, !.underscore = ul, !.me = me, !.op = op] :
            so \in {"off standout", "sgr0"}, ul \in {"off underscore", "sgr0"},
            me \in {"sgr0", "sgr0 alt", Missing}, op \in {"off colour", "sgr0", Missing}}
Started(t) == [StartColor(NewScreen(t)) EXCEPT !.pairs[1] = Pair(Red, -1)]
Looks == {Look(attrs, pair) : attrs \in SUBSET Attrs, pair \in 0 .. 1}
PenOf(t, look) ==
  [attrs |-> {a \in look.attrs : HasMode(t, a)}, pair |-> look.pair,
   tty |-> Hardware(t, {a \in look.attrs : HasMode(t, a)}), colours |-> OwnColours]

\* From every state of the pen curses gets to every rendition, and what it
\* believes is what the terminal has; at the end nothing is left on.
PenFollows(t, s, from, to) ==
  LET p == PutAttr(s, PenOf(t, from), to)
      q == UnsetAttr(s, PenOf(t, from))
  IN  /\ PenRight(s, p, to) /\ p.tty = Hardware(t, p.attrs) /\ p.pair = to.pair
      /\ q.tty = {} /\ q.attrs = {} /\ (t.op # Missing => q.pair = 0)
ASSUME PenFollowsCells == \A t \in Terms : \A s \in {Started(t)}, from, to \in Looks : PenFollows(t, s, from, to)
\* Where standout is reverse video, or its end also ends ACS, it does not.
ASSUME PenMistaken ==
  \A t \in {[Term EXCEPT !.standoutIs = "reverse"], [Term EXCEPT !.standout = "sgr0 alt"]} :
    \E from, to \in Looks : ~PenFollows(t, Started(t), from, to)

\* Colours start once, and nothing is written in a pair before init_pair.
Proper(s, c) == c.op \in {"add", "back"} /\ c.look.pair # 0 => c.look.pair \in s.used
Call(s, c) ==
  CASE ~Proper(s, c)    -> s
    [] c.op = "init"    -> InitPair(s, c.pair, c.fore, c.back)
    [] c.op = "default" -> AssumeDefaultColors(s, c.fore, c.back)
    [] c.op = "add"     -> AddCh(s, c.x, c.look)
    [] c.op = "back"    -> SetBackground(s, c.look)
    [] OTHER            -> Refresh(s)
InitCall(fore, back) == [op |-> "init", pair |-> 1, fore |-> fore, back |-> back]
DefaultCall(fore, back) == [op |-> "default", fore |-> fore, back |-> back]
Calls == {[op |-> "refresh"], InitCall(Red, Black), InitCall(-1, Cyan), DefaultCall(-1, -1), DefaultCall(Blue, White),
          [op |-> "back", look |-> Look({"bold"}, 1)], [op |-> "back", look |-> Normal]}
  \cup {[op |-> "add", x |-> x, look |-> look] : x \in Row, look \in {Normal, Look({"underscore"}, 1), Look({}, 1)}}
After(screens, n) == FoldLeft(LAMBDA seen, k : seen \cup {Call(s, c) : s \in seen, c \in Calls}, screens, [k \in 1 .. n |-> k])
Fresh(t) == {NewScreen(t), AssumeDefaultColors(NewScreen(t), Red, -1)}
ColourTerms == {Term, [Term EXCEPT !.type = "other", !.op = "sgr0"], [Term EXCEPT !.ncv = {"underscore"}]}

\* After a refresh every cell shows the colours its pair has now.
ASSUME ColoursFollowPairs ==
  \A t \in ColourTerms : \A s \in After({StartColor(s) : s \in Fresh(t)}, 4) : ShowsWindow(Refresh(s))
\* Without orig_pair the pen keeps a pair whose colours have changed.
ASSUME PenKeepsColours ==
  \E s \in After({StartColor(NewScreen([Term EXCEPT !.op = Missing]))}, 4) : ~ShowsWindow(Refresh(s))
\* init_pair does not change what is shown in a pair that was not initialised,
\* not even where it was before colours were started once more.
ASSUME FirstInitLost ==
  \A again \in BOOLEAN :
    LET s == StartColor(NewScreen(Term))
        r == Refresh(AddCh(IF again THEN InitPair(s, 1, Red, Black) ELSE s, 1, Look({}, 1)))
    IN  ~ShowsWindow(Refresh(IF again THEN AddCh(InitPair(StartColor(r), 1, Blue, Black), 1, Look({}, 1))
                             ELSE InitPair(r, 1, Red, Black)))
\* A cell without a colour shows that of the terminal or white on black.
ASSUME NoColourVaries ==
  \A colours \in {OwnColours, WhiteOnBlack} :
    \E s \in After({StartColor(NewScreen([Term EXCEPT !.ncv = {"underscore"}]))}, 3) :
      LET r == Refresh(s) IN \E x \in Row : r.cur[x].pair = 0 /\ r.shown[x].colours = colours

\* pair_content gives what init_pair set; the default colours are exchanged
\* only after start_color.
ASSUME PairsReadBack ==
  /\ \A type \in {"ansi", "other"}, fore, back \in -1 .. 7 :
       PairContent(InitPair(StartColor(NewScreen([Term EXCEPT !.type = type])), 1, fore, back), 1) = Pair(fore, back)
  /\ \A s \in {NewScreen([Term EXCEPT !.type = "other"])}, fore, back \in -1 .. 7 :
       (AssumeDefaultColors(StartColor(s), fore, back) = StartColor(AssumeDefaultColors(s, fore, back)))
         = ({fore, back} \cap {Red, Blue, Yellow, Cyan} = {})
\* A colour the terminal cannot change is reported as changed afterwards.
ASSUME ColourKept ==
  LET r == InitColor(Term, [c \in 0 .. 7 |-> 0], Red, 500) IN ~r.ok /\ r.contents[Red] = 500

\* Attributes are turned on and off one by one, but turning off standout
\* turns off all of them, and nothing turns on the alternate character set.
ASSUME AttributesSet ==
  \A w \in {Look(attrs \ {"alt"}, pair) : attrs \in SUBSET Attrs, pair \in 0 .. 1} : \A attrs \in SUBSET Attrs :
    /\ WattrOn(Term, w, attrs, 0) = [w EXCEPT !.attrs = @ \cup (attrs \ {"alt"})]
    /\ WattrSet(Term, w, attrs, 1) = Look(attrs \ {"alt"}, 1)
    /\ WattrOff(Term, w, attrs, FALSE) = IF "standout" \in attrs THEN Normal ELSE [w EXCEPT !.attrs = @ \ attrs]
\* The background read back is the one set.
ASSUME BackgroundReadBack ==
  \A s \in {NewScreen(Term), StartColor(NewScreen(Term))}, look \in Looks : Background(SetBackground(s, look)) = look
=============================================================================
