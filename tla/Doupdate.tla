------------------------------ MODULE Doupdate ------------------------------
(***************************************************************************)
(* doupdate() of lib/libcurses/refresh.c and the terminal it writes to.    *)
(*                                                                         *)
(* Three screens are kept: __virtscr, what the program wants (virt, with   *)
(* the change record of each line), curscr, what curses believes is on the *)
(* terminal (cur), and what is on the terminal (term).  An update runs     *)
(* through the lines, and in a line (makech) through the cells; a step is  *)
(* one cell, or one control sequence.                                      *)
(*                                                                         *)
(* A cell is a character and a colour.  Which of the motions the terminal  *)
(* offers __mvcur picks depends on their lengths: here it may always pick  *)
(* the absolute one, or local motions from where it believes the cursor to *)
(* be, printing the cells of curscr it moves over.                         *)
(***************************************************************************)
EXTENDS Integers, FiniteSets

CONSTANTS
  Space, Glyphs,     \* the blank character, and all characters
  Colours,           \* the colours of a cell; 0 is the terminal's own
  Blank,             \* what the terminal shows where it was cleared
  Setups,            \* the terminals, with the flags of __virtscr: see Setup
  TypeAhead,         \* typeahead() set a descriptor, where input may arrive
  CheckInterval,     \* CHECK_INTERVAL
  LastColumn,        \* the program may leave the cursor in the last column
  RedrawPending,     \* the program may call wrefresh(curscr) between a
                     \* wnoutrefresh() and its doupdate()
  MaxWrites,         \* bound: changes to __virtscr between two updates
  Junk               \* what may be on the terminal before the first update

Cell == [ch : Glyphs, colour : Colours]

Setup == [rows : Nat \ {0}, cols : Nat \ {0},
          colours : SUBSET Colours,    \* those the program uses
          noqch : BOOLEAN,    \* __noqch
          el : Nat,           \* strlen(clr_eol); 0: the terminal has none
          bce : BOOLEAN,      \* back_color_erase
          am : BOOLEAN,       \* auto_right_margin
          xenl : BOOLEAN,     \* the wrap waits for the next character
          toggle : BOOLEAN,   \* enter_am_mode and exit_am_mode
          insert : BOOLEAN,   \* a capability to insert characters
          scroll : BOOLEAN,   \* scrollok()
          leave : BOOLEAN]    \* leaveok()

ASSUME DoupdateAssumption ==
  /\ Space \in Glyphs /\ Junk \in Glyphs
  /\ Colours \subseteq Nat /\ 0 \in Colours
  /\ Blank = [ch |-> Space, colour |-> 0]
  /\ Setups \subseteq Setup
  /\ CheckInterval \in Nat \ {0} /\ MaxWrites \in Nat
  /\ {TypeAhead, LastColumn, RedrawPending} \subseteq BOOLEAN

VARIABLES
  tty,               \* the terminal and the flags, a member of Setups
  virt,              \* the cells of __virtscr
  line,              \* its lines: flags and change pointers
  vpos,              \* its cursor
  vclear,            \* its __CLEAROK
  cur, cpos,         \* curscr: cells and cursor
  term, tpos,        \* the terminal: cells and cursor
  at,                \* <<ly, lx>>: where the update believes the cursor to be
  pc, wy, wx, lch,   \* the loops of doupdate and makech
  fsp,               \* the first column makech looks at
  ce,                \* makech may still clear to the end of the line
  changed,           \* lines since the last look for typeahead
  curwin,            \* the update redraws curscr (wrefresh(curscr))
  cleared,           \* was_cleared
  writes             \* changes since the last update

window   == <<virt, line, vpos, vclear>>
terminal == <<term, tpos>>
loop     == <<pc, wy, wx, lch, fsp, ce, changed, curwin, cleared>>
vars == <<tty, virt, line, vpos, vclear, cur, cpos, term, tpos, at, pc, wy, wx, lch, fsp, ce,
          changed, curwin, cleared, writes>>

L == tty.rows        \* LINES
W == tty.cols        \* COLS

INSTANCE Quickch

\* __SCROLLWIN, which __swflags sets when the last cell cannot be written.
ScrollWin == tty.am /\ ~tty.insert

Screen == [Rows -> [Cols -> Cell]]

LineRecord == [dirty : BOOLEAN, forced : BOOLEAN, first : 0 .. W, last : 0 .. W,
               past : BOOLEAN]

Clean   == [dirty |-> FALSE, forced |-> FALSE, first |-> W, last |-> 0, past |-> FALSE]
AllDirty(l) == [l EXCEPT !.dirty = TRUE, !.first = 0, !.last = W - 1]  \* __touchline

Filled(c) == [y \in Rows |-> [x \in Cols |-> c]]

-----------------------------------------------------------------------------
(* The terminal *)

ScrollUp(cells) == [y \in Rows |-> IF y = L - 1 THEN BlankLine ELSE cells[y + 1]]

\* A character printed at the cursor: [cell, pos] of the terminal afterwards.
\* Column W is the state of a terminal that waits with the wrap.
Printed(cells, pos, c) ==
  LET wraps == pos[2] = W
      y     == IF wraps /\ pos[1] < L - 1 THEN pos[1] + 1 ELSE pos[1]
      x     == IF wraps THEN 0 ELSE pos[2]
      base  == IF wraps /\ pos[1] = L - 1 THEN ScrollUp(cells) ELSE cells
      done  == [base EXCEPT ![y][x] = c]
  IN  IF x < W - 1 THEN [cell |-> done, pos |-> <<y, x + 1>>]
      ELSE IF ~tty.am THEN [cell |-> done, pos |-> <<y, x>>]
      ELSE IF tty.xenl THEN [cell |-> done, pos |-> <<y, W>>]
      ELSE IF y < L - 1 THEN [cell |-> done, pos |-> <<y + 1, 0>>]
      ELSE [cell |-> ScrollUp(done), pos |-> <<y, 0>>]

Limit(n, hi) == IF n < 0 THEN 0 ELSE IF n > hi THEN hi ELSE n

\* Local motions from the believed position o to n: up or down, then left, or
\* right over cells that are printed again if they have no colour.
LocalMove(cells, pos, o, n) ==
  LET y == Limit(pos[1] + n[1] - o[1], L - 1)
      x == Limit(pos[2] + n[2] - o[2], W - 1)
  IN  [cell |-> [cells EXCEPT ![y] = [k \in Cols |->
                   IF /\ k >= pos[2] /\ k < x
                      /\ cur[n[1]][Limit(k + o[2] - pos[2], W - 1)].colour = 0
                   THEN cur[n[1]][Limit(k + o[2] - pos[2], W - 1)]
                   ELSE cells[y][k]]],
       pos  |-> <<y, x>>]

\* domvcur and __mvcur, with the lines whose past-end flag they clear.
Still(o, n) == o = n /\ (curwin \/ ~line[o[1]].past)

NeverMust(o) == FALSE            \* mutant: local motions from everywhere

\* From the last column only the absolute motion is safe.
MustAddress(o) == o[2] = W - 1

Moves(cells, pos, o, n) ==
  IF Still(o, n) THEN {[cell |-> cells, pos |-> pos]}
  ELSE {[cell |-> cells, pos |-> n]}
       \cup (IF MustAddress(o) THEN {} ELSE {LocalMove(cells, pos, o, n)})

PastCleared(o, n) ==
  IF curwin \/ Still(o, n) THEN line
  ELSE [y \in Rows |-> IF y \in {o[1], n[1]} THEN [line[y] EXCEPT !.past = FALSE] ELSE line[y]]

-----------------------------------------------------------------------------
Init == /\ tty \in Setups
        /\ virt = Filled(Blank)
        /\ line = [y \in Rows |-> Clean]
        /\ vpos = <<0, 0>>
        /\ vclear = TRUE
        /\ cur = Filled(Blank) /\ cpos = <<0, 0>>
        /\ term = Filled([ch |-> Junk, colour |-> 0])
        /\ tpos \in {<<0, 0>>, <<L - 1, 0>>}
        /\ at = <<0, 0>>
        /\ pc = "idle" /\ wy = 0 /\ wx = 0 /\ lch = 0 /\ fsp = 0
        /\ ce = FALSE /\ changed = 0 /\ curwin = FALSE /\ cleared = FALSE
        /\ writes = 0

-----------------------------------------------------------------------------
(* The program, between updates: what wnoutrefresh() brings to __virtscr *)

Change == /\ pc = "idle"
          /\ writes < MaxWrites
          /\ writes' = writes + 1
          /\ UNCHANGED <<tty, cur, cpos, terminal, at, loop>>

\* A cell.  addch() in the last column marks the line as past its end; only an
\* update that starts or ends in the last column looks at the mark.
Put(y, x, c, past) ==
  /\ Change
  /\ virt[y][x] # c
  /\ past => LastColumn /\ (x = W - 1 \/ line[y].past)
  /\ virt' = [virt EXCEPT ![y][x] = c]
  /\ line' = [line EXCEPT ![y].dirty = TRUE, ![y].past = past,
                          ![y].first = IF @ > x THEN x ELSE @,
                          ![y].last = IF @ < x THEN x ELSE @]
  /\ UNCHANGED <<vpos, vclear>>

\* The cursor of the window.
MoveCursor(y, x) ==
  /\ Change
  /\ LastColumn \/ x < W - 1
  /\ vpos' = <<y, x>>
  /\ UNCHANGED <<virt, line, vclear>>

\* touchline, wredrawln: the line is redrawn even if nothing changed.
ForceLine(y) ==
  /\ Change
  /\ line' = [line EXCEPT ![y] = [AllDirty(@) EXCEPT !.forced = TRUE]]
  /\ UNCHANGED <<virt, vpos, vclear>>

ClearOk ==
  /\ Change
  /\ vclear' = TRUE
  /\ UNCHANGED <<virt, line, vpos>>

Program == \/ \E y \in Rows, x \in Cols :
                \/ \E c \in [ch : Glyphs, colour : tty.colours], past \in BOOLEAN : Put(y, x, c, past)
                \/ MoveCursor(y, x)
           \/ \E y \in Rows : ForceLine(y)
           \/ ClearOk

-----------------------------------------------------------------------------
(* doupdate *)

\* The start, to the call of quickch.  redraw: wrefresh(curscr).
Begin(redraw) ==
  /\ pc = "idle"
  /\ redraw => RedrawPending \/ \A y \in Rows : ~line[y].dirty
  /\ LET clear == vclear \/ redraw
     IN  /\ cleared' = clear
         /\ term' = IF clear THEN Filled(Blank) ELSE term
         /\ tpos' = IF clear THEN <<0, 0>> ELSE tpos
         /\ at'   = IF clear THEN <<0, 0>> ELSE cpos
         /\ cur'  = IF clear /\ ~redraw THEN Filled(Blank) ELSE cur
         /\ cpos' = IF clear /\ ~redraw THEN <<0, 0>> ELSE cpos
         /\ line' = IF clear /\ ~redraw THEN [y \in Rows |-> AllDirty(line[y])] ELSE line
  /\ vclear' = (redraw /\ vclear)
  /\ curwin' = redraw
  /\ pc' = IF redraw \/ tty.noqch THEN "line" ELSE "quick"
  /\ wy' = 0
  /\ changed' = 0
  /\ writes' = 0
  /\ UNCHANGED <<tty, virt, vpos, wx, lch, fsp, ce>>

\* quickch, if more than a quarter of the lines are dirty.
QuickChange ==
  /\ pc = "quick"
  /\ LET dirty == {y \in Rows : line[y].dirty}
         q == Quickch(virt, cur, term, [y \in Rows |-> line[y].dirty])
     IN  IF Cardinality(dirty) > L \div 4
         THEN /\ cur' = q.cur
              /\ term' = q.term
              /\ line' = [y \in Rows |->
                            IF y \in q.clean THEN [line[y] EXCEPT !.dirty = FALSE]
                            ELSE IF y \in q.touched THEN AllDirty(line[y])
                            ELSE line[y]]
         ELSE UNCHANGED <<cur, term, line>>
  /\ pc' = "line"
  /\ UNCHANGED <<tty, virt, vpos, vclear, cpos, tpos, at, wy, wx, lch, fsp, ce,
                 changed, curwin, cleared, writes>>

\* What the update draws: curscr itself when that is refreshed.
Source == IF curwin THEN cur ELSE virt

Forced(y) == ~curwin /\ ~cleared /\ line[y].forced

NeedsWork(y) == curwin \/ line[y].dirty \/ line[y].forced

First(y) == IF curwin THEN 0 ELSE line[y].first

Last(y) == IF curwin \/ line[y].last > W - 1 THEN W - 1 ELSE line[y].last

\* mutant: one line was drawn and all are clean
ResetAll(y) == [v \in Rows |-> [Clean EXCEPT !.past = line[v].past]]

\* The change pointers of __virtscr are reset whatever was drawn; the flags
\* only if the line was __virtscr's own.
Synced(y) == [line EXCEPT ![y].first = W, ![y].last = 0]

Reset(y) == IF curwin THEN Synced(y)
            ELSE [line EXCEPT ![y] = [Clean EXCEPT !.past = line[y].past]]

\* A line without changes.
SkipLine ==
  /\ pc = "line" /\ wy < L
  /\ ~NeedsWork(wy)
  /\ line' = Synced(wy)
  /\ wy' = wy + 1
  /\ UNCHANGED <<tty, virt, vpos, vclear, cur, cpos, terminal, at, pc, wx, lch, fsp,
                 ce, changed, curwin, cleared, writes>>

\* makech begins.
StartLine ==
  /\ pc = "line" /\ wy < L
  /\ NeedsWork(wy)
  /\ wx' = First(wy)
  /\ fsp' = First(wy)
  /\ lch' = Last(wy)
  /\ ce' = (tty.el > 0 /\ ~curwin)
  /\ pc' = IF First(wy) >= W THEN "done" ELSE "scan"
  /\ UNCHANGED <<tty, window, cur, cpos, terminal, at, wy, changed, curwin, cleared,
                 writes>>

\* The cell csp, which is a blank when curscr is redrawn.
OnScreen(y, x) == IF curwin THEN Blank ELSE cur[y][x]

\* Is the cell at wx to be written?
Differs == wx <= lch /\ (Forced(wy) \/ Source[wy][wx] # OnScreen(wy, wx))

SkipCell ==
  /\ pc = "scan" /\ wx <= lch
  /\ ~Differs
  /\ wx' = wx + 1
  /\ UNCHANGED <<tty, window, cur, cpos, terminal, at, pc, wy, lch, fsp, ce,
                 changed, curwin, cleared, writes>>

\* The cursor goes to the first of a run of cells.
GoTo ==
  /\ pc = "scan"
  /\ Differs
  /\ \E m \in Moves(term, tpos, at, <<wy, wx>>) : term' = m.cell /\ tpos' = m.pos
  /\ line' = PastCleared(at, <<wy, wx>>)
  /\ at' = <<wy, wx>>
  /\ pc' = "put"
  /\ UNCHANGED <<tty, virt, vpos, vclear, cur, cpos, wy, wx, lch, fsp, ce, changed,
                 curwin, cleared, writes>>

\* The last column of a line that is not blank in the colour of its last cell.
LastInk(row, colour) ==
  LET ink == {x \in Cols : row[x] # [ch |-> Space, colour |-> colour]}
  IN  IF ink = {} THEN -1 ELSE CHOOSE x \in ink : \A o \in ink : o <= x

\* May makech clear from wx to the end of the line, and is that worth it?
Lspc == virt[wy][W - 1].colour

Nlsp == IF LastInk(virt[wy], Lspc) < 0 THEN 0 ELSE LastInk(virt[wy], Lspc)
Clsp == IF LastInk(cur[wy], Lspc) >= wx THEN LastInk(cur[wy], Lspc)
        ELSE Limit(wx - 1, W)

AtRest == ce /\ wx >= Nlsp /\ virt[wy][wx] = [ch |-> Space, colour |-> Lspc]

\* mutant: in any colour
WorthAnyColour == Clsp < Nlsp \/ Clsp - Nlsp >= tty.el \/ wy = L - 1

\* The difference is of unsigned numbers: it is large when it is negative.
Worth == /\ Clsp < Nlsp \/ Clsp - Nlsp >= tty.el \/ wy = L - 1
         /\ Lspc = 0 \/ tty.bce

ClearRest ==
  /\ pc = "put"
  /\ Differs /\ AtRest /\ Worth
  /\ term' = [term EXCEPT ![tpos[1]] = [x \in Cols |->
                IF x >= tpos[2] THEN [ch |-> Space, colour |-> IF tty.bce THEN Lspc ELSE 0]
                ELSE @[x]]]
  /\ cur' = [cur EXCEPT ![wy] = [x \in Cols |->
                IF x \in wx .. Clsp THEN [ch |-> Space, colour |-> Lspc] ELSE @[x]]]
  /\ at' = <<at[1], wx>>
  /\ pc' = "done"
  /\ UNCHANGED <<tty, window, cpos, tpos, wy, wx, lch, fsp, ce, changed, curwin,
                 cleared, writes>>

\* mutant: clearing is tried again at the same cell
KeepRestForever ==
  /\ pc = "put"
  /\ Differs /\ AtRest /\ ~Worth
  /\ UNCHANGED vars

KeepRest ==
  /\ pc = "put"
  /\ Differs /\ AtRest /\ ~Worth
  /\ ce' = FALSE
  /\ UNCHANGED <<tty, window, cur, cpos, terminal, at, pc, wy, wx, lch, fsp,
                 changed, curwin, cleared, writes>>

IsCorner == wx = W - 1 /\ wy = L - 1

\* curscr gets the cell, unless it is being redrawn.
Noted(cells) == IF curwin THEN cells ELSE [cells EXCEPT ![wy][wx] = virt[wy][wx]]

\* putch: a cell anywhere but in the corner.
PutCell ==
  /\ pc = "put"
  /\ Differs /\ ~AtRest
  /\ ~IsCorner \/ curwin
  /\ IF IsCorner /\ ScrollWin
     THEN UNCHANGED <<terminal, cur>>
     ELSE /\ LET p == Printed(term, tpos, Source[wy][wx])
             IN  term' = p.cell /\ tpos' = p.pos
          /\ cur' = Noted(cur)
  /\ wx' = wx + 1
  /\ UNCHANGED <<tty, window, cpos, at, pc, wy, lch, fsp, ce, changed, curwin,
                 cleared, writes>>

\* mutant: the cell before the corner is not inserted again
InCornerLost(cells) ==
  IF ~tty.am \/ tty.toggle
  THEN [cells EXCEPT ![L - 1][W - 1] = virt[wy][wx]]
  ELSE [cells EXCEPT ![L - 1][W - 2] = virt[wy][wx]]

\* What putchbr does to the terminal: the cell is written with the margins
\* off, or to the left of the corner, where a character is then inserted.
InCorner(cells) ==
  IF ~tty.am \/ tty.toggle
  THEN [cells EXCEPT ![L - 1][W - 1] = virt[wy][wx]]
  ELSE [cells EXCEPT ![L - 1][W - 1] = virt[wy][wx], ![L - 1][W - 2] = virt[wy][W - 2]]

\* The corner.  Nothing is written there if that would scroll the terminal;
\* putch writes it all the same if scrolling is allowed.  putchbr looks at
\* the cell before, which is a null pointer in the first column of a change.
PutCorner ==
  /\ pc = "put"
  /\ Differs /\ ~AtRest
  /\ IsCorner /\ ~curwin
  /\ IF ScrollWin THEN UNCHANGED <<terminal, cur>>
     ELSE IF tty.scroll THEN
       /\ LET p == Printed(term, tpos, virt[wy][wx]) IN term' = p.cell /\ tpos' = p.pos
       /\ cur' = Noted(cur)
     ELSE /\ term' = InCorner(term)
          /\ tpos' = <<L - 1, W - 1>>
          /\ cur' = Noted(cur)
  /\ at' = <<L - 1, W - 1>>
  /\ pc' = IF ~ScrollWin /\ ~tty.scroll /\ tty.am /\ ~tty.toggle /\ fsp = wx
           THEN "crashed" ELSE "done"
  /\ UNCHANGED <<tty, window, cpos, wy, wx, lch, fsp, ce, changed, curwin, cleared,
                 writes>>

\* The column curses keeps after a run that ended before wx.
Clamped(x) == IF x < W THEN x ELSE W - 1

\* The end of a run of cells.  Without automatic margins the cursor is sent to
\* the last column, where it already is.  __mvcur takes it to be on the next
\* line and goes there first; on the last line, where there is none, it makes
\* up for a scroll that does not happen.
EndRun ==
  /\ pc = "put"
  /\ ~Differs
  /\ at' = <<at[1], Clamped(wx)>>
  /\ IF wx < W \/ tty.am THEN UNCHANGED <<terminal, line>>
     ELSE /\ tpos' = <<IF at[1] = L - 1 THEN Limit(L - 2, L - 1) ELSE at[1], W - 1>>
          /\ line' = PastCleared(<<at[1], W>>, at')
          /\ UNCHANGED term
  /\ pc' = "scan"
  /\ UNCHANGED <<tty, virt, vpos, vclear, cur, cpos, wy, wx, lch, fsp, ce, changed,
                 curwin, cleared, writes>>

\* makech is back: the line is clean, and it may be time to look for input.
\* With input the update is given up.
LineDone ==
  /\ pc = "done" \/ (pc = "scan" /\ wx > lch)
  /\ line' = Reset(wy)
  /\ wy' = wy + 1
  /\ LET looks == TypeAhead /\ changed + 1 = CheckInterval
     IN  /\ changed' = IF looks \/ ~TypeAhead THEN 0 ELSE changed + 1
         /\ \/ pc' = "line"
            \/ looks /\ pc' = "idle"
  /\ UNCHANGED <<tty, virt, vpos, vclear, cur, cpos, terminal, at, wx, lch, fsp, ce,
                 curwin, cleared, writes>>

\* The cursor is put where the program wants it, or left.
Finish ==
  /\ pc = "line" /\ wy = L
  /\ LET dest == IF curwin THEN cpos ELSE vpos
     IN  IF tty.leave /\ ~curwin
         THEN cpos' = at /\ UNCHANGED <<terminal, line>>
         ELSE /\ \E m \in Moves(term, tpos, at, dest) : term' = m.cell /\ tpos' = m.pos
              /\ line' = PastCleared(at, dest)
              /\ cpos' = dest
  /\ pc' = "idle"
  /\ UNCHANGED <<tty, virt, vpos, vclear, cur, at, wy, wx, lch, fsp, ce, changed,
                 curwin, cleared, writes>>

Update == \/ \E redraw \in BOOLEAN : Begin(redraw)
          \/ QuickChange \/ SkipLine \/ StartLine \/ SkipCell \/ GoTo
          \/ ClearRest \/ KeepRest \/ PutCell \/ PutCorner \/ EndRun
          \/ LineDone \/ Finish

Next == Program \/ Update

Spec == Init /\ [][Next]_vars

\* doupdate does not stop in the middle.
FairSpec == Spec /\ WF_vars(pc # "idle" /\ Update)

-----------------------------------------------------------------------------
(* Properties *)

TypeOK ==
  /\ tty \in Setups
  /\ virt \in Screen /\ cur \in Screen /\ term \in Screen
  /\ line \in [Rows -> LineRecord]
  /\ vpos \in Rows \X Cols /\ cpos \in Rows \X Cols /\ at \in Rows \X Cols
  /\ tpos \in Rows \X (0 .. W)
  /\ pc \in {"idle", "quick", "line", "scan", "put", "done", "crashed"}
  /\ wy \in 0 .. L /\ wx \in 0 .. W /\ lch \in Cols /\ fsp \in 0 .. W
  /\ {ce, curwin, cleared, vclear} \subseteq BOOLEAN
  /\ changed \in 0 .. CheckInterval /\ writes \in 0 .. MaxWrites

\* The cell in the corner is not kept up to date on some terminals.
Exempt(y, x) == ScrollWin /\ y = L - 1 /\ x = W - 1

\* No change is ever lost: where __virtscr differs from curscr, the line is
\* dirty and the cell is in its range, also after an update given up for
\* typeahead.
Covered ==
  TypeOK /\ (pc = "idle" => \A y \in Rows, x \in Cols :
    virt[y][x] = cur[y][x] \/ Exempt(y, x) \/ vclear
    \/ (line[y].dirty /\ line[y].first <= x /\ x <= line[y].last))

\* Between updates, what curses believes to be on the terminal is there.
TerminalIsCurscr == (pc = "idle" /\ ~vclear) => \A y \in Rows, x \in Cols :
                       term[y][x] = cur[y][x] \/ Exempt(y, x)

\* And the cursor is where curses believes it to be, so that relative motions
\* of the next update start from the right place.
CursorKnown == (pc = "idle" /\ ~vclear) => tpos = cpos

\* When doupdate returns from an update that was not given up, the terminal
\* shows __virtscr.
Shown == \A y \in Rows, x \in Cols : term[y][x] = virt[y][x] \/ Exempt(y, x)
UpdateShows == [][(Finish /\ ~curwin) => Shown']_vars

\* doupdate always returns.
Returns == (pc # "idle") ~> (pc \in {"idle", "crashed"})
=============================================================================
