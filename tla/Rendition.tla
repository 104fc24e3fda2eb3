------------------------------ MODULE Rendition ------------------------------
(***************************************************************************)
(* How text is shown: the attributes and colour pairs of a window and its  *)
(* cells (attributes.c, standout.c, underscore.c, addbytes.c,              *)
(* background.c), the tables of colours (color.c), and the pen: what       *)
(* curses believes the terminal writes with, while it turns attributes on  *)
(* and off (putattr and __unsetattr of refresh.c, the masks of setterm.c). *)
(*                                                                         *)
(* A rendition is a set of attributes and the number of a pair, 0 for no   *)
(* colour.  The strings of a terminal that turn something off are told     *)
(* apart by what the library finds out about them and what they do.        *)
(***************************************************************************)
EXTENDS Integers, FiniteSets
LOCAL INSTANCE SequencesExt

TermAttrs == {"bold", "reverse"}
Attrs == {"standout", "underscore", "alt"} \cup TermAttrs
Everything == Attrs \cup {"colour"}
Missing == "no string"
Look(attrs, pair) == [attrs |-> attrs, pair |-> pair]
Normal == Look({}, 0)
Pair(fore, back) == [fore |-> fore, back |-> back]
OwnColours == Pair(-1, -1)                \* those of the terminal

(***************************************************************************)
(* _cursesi_setterm: what stays on after a string was sent, as far as the  *)
(* library can tell from the text of the strings.                          *)
(***************************************************************************)
DoesEscM(str) == str \in {"sgr0", "sgr0 alt"}
Includes(str, of) == str = of \/ (str = "sgr0 alt" /\ of = "alt")
\* what a string also turns off: all but ACS, or what a string equal to it does
AlsoOff(t, str, self) ==
  IF str = Missing THEN {}
  ELSE IF DoesEscM(str) THEN Everything \ {self, "alt"}
  ELSE (IF str = t.standout THEN {"standout"} ELSE {}) \cup (IF str = t.underscore THEN {"underscore"} ELSE {})
       \cup (IF str = t.me THEN TermAttrs ELSE {}) \cup (IF str = t.op THEN {"colour"} ELSE {})
MaskOp(t) == Everything \ ({"colour"} \cup AlsoOff(t, t.op, "colour"))
MaskUe(t) == Everything \ ({"underscore"} \cup AlsoOff(t, t.underscore, "underscore"))
MaskSe(t) == Everything \ ({"standout"} \cup AlsoOff(t, t.standout, "standout"))
MaskMe(t) == IF t.me # Missing /\ t.alt # Missing /\ Includes(t.me, t.alt) THEN {} ELSE {"alt"}

(***************************************************************************)
(* The pen: the attributes and the pair curses believes in, and those of   *)
(* the terminal, where standout may be reverse video.                      *)
(***************************************************************************)
Hardware(t, attrs) == {IF a = "standout" THEN t.standoutIs ELSE a : a \in attrs}
Clears(t, str) ==
  CASE str = "sgr0 alt"       -> Everything
    [] str = "sgr0"           -> Everything \ {"alt"}
    [] str = "off standout"   -> Hardware(t, {"standout"})
    [] str = "off underscore" -> {"underscore"}
    [] str = "off colour"     -> {"colour"}
    [] str = "alt"            -> {"alt"}
    [] OTHER                  -> {}
Sent(t, p, str, mask) ==
  [attrs |-> p.attrs \cap mask, pair |-> IF "colour" \in mask THEN p.pair ELSE 0,
   tty |-> p.tty \ Clears(t, str), colours |-> IF "colour" \in Clears(t, str) THEN OwnColours ELSE p.colours]

(***************************************************************************)
(* The attributes of a window.                                             *)
(***************************************************************************)
HasMode(t, a) == a \in t.enters /\ (IF a \in TermAttrs THEN t.me # Missing ELSE t[a] # Missing)
\* __wattr_on and __wattr_off: nothing turns on the alternate character set, and
\* turning off standout turns off everything
WattrOn(t, w, attrs, pair) ==
  Look(w.attrs \cup {a \in attrs \ {"alt"} : HasMode(t, a)}, IF pair # 0 THEN pair ELSE w.pair)
WattrOff(t, w, attrs, colour) ==
  LET rest == IF "standout" \in attrs THEN Normal
              ELSE [w EXCEPT !.attrs = @ \ (IF t.me # Missing THEN attrs \cap TermAttrs ELSE {})]
  IN  Look(rest.attrs \ (IF t.underscore # Missing THEN attrs \cap {"underscore"} ELSE {}),
           IF colour THEN 0 ELSE rest.pair)
WattrSet(t, w, attrs, pair) == WattrOn(t, WattrOff(t, w, Attrs, TRUE), attrs, pair)
\* _cursesi_waddbytes: the colour of the character, of the window or of the background
CellLook(w, b, ch) ==
  LET pair == IF ch.pair # 0 THEN ch.pair ELSE w.pair
  IN  Look(w.attrs \cup ch.attrs \cup b.attrs, IF pair # 0 THEN pair ELSE b.pair)

(***************************************************************************)
(* Colours.  Screen s has the tables, one row of a window, what            *)
(* __virtscr, curscr and the terminal show of it, and the pen.             *)
(***************************************************************************)
Black == 0
Red == 1
Yellow == 3
Blue == 4
Cyan == 6
White == 7
COLORS == 8
COLOR_PAIRS == 3
DefaultPair == 510                        \* MAX_PAIRS - 1
PairNumbers == (0 .. COLOR_PAIRS - 1) \cup {DefaultPair}
WhiteOnBlack == Pair(White, Black)

Row == 1 .. 2
NewScreen(t) ==
  [term |-> t, type |-> "none", using |-> FALSE, default |-> WhiteOnBlack, pairs |-> [p \in PairNumbers |-> Pair(0, 0)],
   used |-> {}, nca |-> {}, battr |-> Normal, cells |-> [x \in Row |-> Normal], dirty |-> {},
   virt |-> [x \in Row |-> Normal], cur |-> [x \in Row |-> Normal],
   shown |-> [x \in Row |-> [attrs |-> {}, colours |-> OwnColours]],
   pen |-> [attrs |-> {}, pair |-> 0, tty |-> {}, colours |-> OwnColours]]

Touched(s) == [s EXCEPT !.dirty = Row]
\* the other order of the colours of setf and setb
Swap(type, c) ==
  IF type # "other" THEN c
  ELSE CASE c = Red -> Blue [] c = Blue -> Red [] c = Yellow -> Cyan [] c = Cyan -> Yellow [] OTHER -> c
Swapped(type, fore, back) == Pair(Swap(type, fore), Swap(type, back))

\* the number of the default pair or-ed to that of a pair
WithDefault(pair) == IF pair % 2 = 0 THEN DefaultPair ELSE DefaultPair + 1
\* start_color: pair 0 is white on black at the end, not the default of the terminal
StartColor(s) ==
  IF s.term.type = "none" THEN s
  ELSE Touched([s EXCEPT !.type = s.term.type, !.using = TRUE, !.nca = s.term.ncv, !.used = {},
                         !.pairs = [p \in PairNumbers |-> IF p = DefaultPair THEN s.default ELSE WhiteOnBlack],
                         !.battr.pair = WithDefault(@), !.cells = [x \in Row |-> [@[x] EXCEPT !.pair = DefaultPair]],
                         !.pen = IF s.term.op = Missing THEN @ ELSE Sent(s.term, @, s.term.op, MaskOp(s.term))])
\* __change_pair: curscr forgets the colour where it shows the pair
ChangePair(s, pair) ==
  [s EXCEPT !.cur = [x \in Row |-> IF @[x].pair = pair THEN [@[x] EXCEPT !.pair = 0] ELSE @[x]],
            !.dirty = @ \cup {x \in Row : s.cells[x].pair = pair}]
InitPair(s, pair, fore, back) ==
  LET to == Swapped(s.type, fore, back)
      set == [s EXCEPT !.pairs[pair] = to, !.used = @ \cup {pair}]
  IN  IF ~s.using \/ pair \notin 1 .. COLOR_PAIRS - 1 \/ fore >= COLORS \/ back >= COLORS THEN s
      ELSE IF pair \in s.used /\ s.pairs[pair] # to THEN ChangePair(set, pair) ELSE set
PairContent(s, pair) == Swapped(s.type, s.pairs[pair].fore, s.pairs[pair].back)
AssumeDefaultColors(s, fore, back) ==
  LET to == Swapped(s.type, fore, back)
  IN  IF s.using THEN ChangePair([s EXCEPT !.default = to, !.pairs[DefaultPair] = to], DefaultPair)
      ELSE [s EXCEPT !.default = to]
\* init_color: the new value is kept even if the terminal does not take it
InitColor(t, contents, c, value) ==
  [ok |-> c \in DOMAIN contents /\ t.change, contents |-> [k \in DOMAIN contents |-> IF k = c THEN value ELSE contents[k]]]

(***************************************************************************)
(* putattr and __unsetattr.                                                *)
(***************************************************************************)
UnsetColor(s, p) ==
  IF s.type \in {"ansi", "other"} /\ s.term.op # Missing THEN Sent(s.term, p, s.term.op, MaskOp(s.term)) ELSE p
SetColor(s, p, pair) ==
  LET to   == s.pairs[pair]
      from == IF to.fore < 0 \/ to.back < 0 THEN UnsetColor(s, p) ELSE p
      set  == Pair(IF to.fore >= 0 THEN to.fore ELSE from.colours.fore, IF to.back >= 0 THEN to.back ELSE from.colours.back)
  IN  IF p.pair = pair THEN p
      ELSE IF s.type \in {"ansi", "other"} THEN [from EXCEPT !.pair = pair, !.colours = set]
      ELSE [p EXCEPT !.pair = pair]

Leave(t, u, attrs, str, mask) ==
  IF u.off \cap attrs # {} /\ str # Missing THEN [pen |-> Sent(t, u.pen, str, mask), off |-> u.off \cap mask] ELSE u
PutAttr(s, p, look) ==
  LET t == s.term
      u == Leave(t, Leave(t, Leave(t, Leave(t, [pen |-> p, off |-> p.attrs \ look.attrs],
             TermAttrs, t.me, MaskMe(t)), {"underscore"}, t.underscore, MaskUe(t)),
             {"standout"}, t.standout, MaskSe(t)), {"alt"}, t.alt, Everything \ {"alt"}).pen
      c == IF s.using THEN SetColor(s, u, look.pair) ELSE u
      on == {a \in look.attrs \ c.attrs : HasMode(t, a)}
  IN  [c EXCEPT !.attrs = @ \cup on, !.tty = @ \cup Hardware(t, on)]
\* __unsetattr(0), at the end of doupdate
UnsetAttr(s, p) ==
  LET t == s.term
      Off(q, attrs, str, mask) == IF q.attrs \cap attrs # {} THEN Sent(t, q, str, mask) ELSE q
      u == Off(Off(Off(Off(p, {"standout"}, t.standout, MaskSe(t)), {"underscore"}, t.underscore, MaskUe(t)),
               TermAttrs, t.me, MaskMe(t)), {"alt"}, t.alt, Everything \ {"alt"})
  IN  IF s.using THEN UnsetColor(s, u) ELSE u

(***************************************************************************)
(* wnoutrefresh and doupdate: a cell with an attribute that does not go    *)
(* with colours loses its colour on the way.                               *)
(***************************************************************************)
WithoutConflict(s, look) == IF look.attrs \cap s.nca # {} THEN [look EXCEPT !.pair = 0] ELSE look
Noutrefresh(s) ==
  [s EXCEPT !.virt = [x \in Row |-> IF s.dirty # {} /\ x \in Min(s.dirty) .. Max(s.dirty)
                                        THEN WithoutConflict(s, s.cells[x]) ELSE @[x]],
            !.dirty = {}]
PutCell(s, x) ==
  IF s.virt[x] = s.cur[x] THEN s
  ELSE LET p == PutAttr(s, s.pen, s.virt[x])
       IN  [s EXCEPT !.pen = p, !.cur[x] = s.virt[x], !.shown[x] = [attrs |-> p.tty, colours |-> p.colours]]
Refresh(s) ==
  LET drawn == FoldLeft(PutCell, Noutrefresh(s), [x \in Row |-> x])
  IN  [drawn EXCEPT !.pen = UnsetAttr(drawn, @)]
AddCh(s, x, look) == [s EXCEPT !.cells[x] = CellLook(Normal, s.battr, look), !.dirty = @ \cup {x}]
\* wbkgdset
SetBackground(s, look) == [s EXCEPT !.battr = IF s.using /\ look.pair = 0 THEN [look EXCEPT !.pair = DefaultPair] ELSE look]
\* getbkgd
Background(s) == IF s.using /\ s.battr.pair = DefaultPair THEN [s.battr EXCEPT !.pair = 0] ELSE s.battr

(***************************************************************************)
(* What a program may count on.                                            *)
(***************************************************************************)
\* the pen writes with what was asked for, as far as the terminal has it
PenRight(s, p, look) == p.tty = Hardware(s.term, {a \in look.attrs : HasMode(s.term, a)})
\* a cell shows the colours its pair has now; without one it shows those of the
\* terminal or those of pair 0, whatever was shown before it
ColoursRight(s, x) ==
  LET look == s.cur[x]
  IN  s.shown[x].colours \in (IF look.pair = 0 THEN {OwnColours, s.pairs[0]} ELSE {s.pairs[look.pair]})
IsCopied(s) == s.cur = [x \in Row |-> WithoutConflict(s, s.cells[x])]
ShowsWindow(s) == IsCopied(s) /\ \A x \in Row : ColoursRight(s, x) /\ PenRight(s, [tty |-> s.shown[x].attrs], s.cur[x])
=============================================================================
