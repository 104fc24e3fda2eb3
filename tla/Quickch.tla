------------------------------ MODULE Quickch -------------------------------
(***************************************************************************)
(* quickch() of lib/libcurses/refresh.c as functions of the lines of       *)
(* __virtscr and curscr: which block of unchanged text it finds, how it    *)
(* rotates curscr and what the scroll that scrolln() sends does to the     *)
(* terminal.  A line is a function from the columns to cells; lines are    *)
(* compared as a whole (the code compares hashes first, then the cells).   *)
(***************************************************************************)
EXTENDS Integers

CONSTANTS L,           \* LINES
          W,           \* COLS
          Blank        \* what the terminal shows where it was cleared

Rows == 0 .. L - 1
Cols == 0 .. W - 1

BlankLine == [x \in Cols |-> Blank]

Thresh == L \div 4                                            \* THRESH

\* The first and one past the last of the rows that changed.
Top(virt, cur, dirty) ==
  CHOOSE t \in 0 .. L :
    /\ \A y \in 0 .. t - 1 : ~dirty[y] \/ virt[y] = cur[y]
    /\ t = L \/ (dirty[t] /\ virt[t] # cur[t])

Bot(virt, cur, dirty) ==
  CHOOSE b \in -1 .. L - 1 :
    /\ \A y \in b + 1 .. L - 1 : ~dirty[y] \/ virt[y] = cur[y]
    /\ b = -1 \/ (dirty[b] /\ virt[b] # cur[b])

\* The work-round for coloured inserted lines moves the top down by one at
\* most: the colour it goes on comparing with is read from line[maxx], which
\* is the first cell of the next row, the cell compared next.
AfterColour(virt, top, bot) ==
  IF top + 1 < bot /\ virt[top + 1][0].colour # virt[top][0].colour
  THEN top + 1 ELSE top

\* The blocks of text that are in __virtscr at startw and in curscr at starts.
Blocks(virt, cur, top, bot) ==
  {b \in [bsize : Thresh .. bot - top, startw : top .. bot, starts : top .. bot] :
     /\ b.startw <= bot - b.bsize
     /\ b.starts <= bot - b.bsize
     /\ \A i \in 0 .. b.bsize - 1 : virt[b.startw + i] = cur[b.starts + i]}

\* The search goes from large to small, then from top to bottom.
Best(blocks) ==
  CHOOSE b \in blocks : \A o \in blocks :
    \/ b.bsize > o.bsize
    \/ b.bsize = o.bsize /\ b.startw < o.startw
    \/ b.bsize = o.bsize /\ b.startw = o.startw /\ b.starts <= o.starts

\* Rows top to bot move down by n, with what falls off the end coming back at
\* the other end.
Rotated(rows, top, bot, n) ==
  [y \in Rows |-> IF y \in top .. bot
                  THEN rows[((y - n - top) % (bot - top + 1)) + top]
                  ELSE rows[y]]

\* The rows a scroll by n uncovers.
Uncovered(top, bot, n) == IF n >= 0 THEN top .. top + n - 1 ELSE bot + n + 1 .. bot

\* curscr after the rotation.
Rotation(cur, top, bot, n) ==
  LET moved == Rotated(cur, top, bot, n)
  IN  [y \in Rows |-> IF y \in Uncovered(top, bot, n) THEN BlankLine ELSE moved[y]]

\* The terminal after scrolln: a scrolling region (or deleted and inserted
\* lines) shifts rows top to bot and fills with blank lines.
Scrolled(term, top, bot, n) ==
  [y \in Rows |-> IF y \notin top .. bot THEN term[y]
                  ELSE IF y - n \in top .. bot THEN term[y - n]
                  ELSE BlankLine]

\* The rows marked dirty over their whole width: all but the block.
TouchedEnds(top, bot, block) == {top, bot} \ block      \* mutant

Touched(top, bot, block) == (top .. bot) \ block

-----------------------------------------------------------------------------
\* The whole of quickch: curscr, the terminal, and the rows of __virtscr that
\* are clean or touched afterwards.
Quickch(virt, cur, term, dirty) ==
  LET top0  == Top(virt, cur, dirty)
      bot   == Bot(virt, cur, dirty)
      top   == AfterColour(virt, top0, bot)
      same  == Rows \ (top0 .. bot)
      found == Blocks(virt, cur, top, bot)
  IN  IF found = {}
      THEN [cur |-> cur, term |-> term, clean |-> same, touched |-> {}]
      ELSE LET b == Best(found)
               n == b.startw - b.starts
               block == b.startw .. b.startw + b.bsize - 1
           IN  [cur     |-> Rotation(cur, top, bot, n),
                term    |-> Scrolled(term, top, bot, n),
                clean   |-> same \cup block,
                touched |-> Touched(top, bot, block)]
=============================================================================
