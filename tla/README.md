# TLA+ models of the NetBSD curses libraries

This directory is a verification project for the libraries of this repository:
TLA+ modules for libcurses, libpanel, libmenu, libform and libterminfo, TLC
configurations that check them on small instances, functions compared with what they
promise on all small inputs, and TLAPS proofs of what holds for every size. All source
paths below are relative to the repository.

- `tlc -config MCPanels_deck.cfg MCPanels` (and so on, see *Runs*) checks a model;
- `tlapm PanelsProofs.tla` (and so on for every module named `...Proofs`, see *Proofs*) checks
  proofs.

Two ways of checking are used. What keeps state over interleaved or arbitrarily ordered
steps is a *state machine*: variables, one action per call, handler or step, and a run that
checks invariants and temporal properties. What is a computation without anything in
between (a parser, a layout, a hash function, a table that calls change) is a
*function module*: operators on a record, a promise stated beside them, and an `ASSUME`
in the MC module of a run that says the promise holds of all inputs of a bounded set.
TLC evaluates it before the run.

The code does not keep all its promises. Where a property fails because of the code, the
model has the behaviour too, behind a constant (`Cases`, `LastColumn`, ...) that the passing
run leaves off; the section of the module lists each with its line. Set the constant in the
.cfg to see the property fail.

## 1. The system

The repository holds libcurses (about 22 000 lines of C), the libraries on top of it
(libpanel, libmenu, libform), the one below it (libterminfo), tools and a test suite.
All of it is single-threaded. What interleaves with it is outside: the user types, signals
arrive (SIGTSTP, SIGCONT, SIGWINCH), reads time out, the terminal executes what it is
sent with a state of its own, hooks of the program call the library they are called by, and
other processes replace the terminal database.

```
   program ──► libpanel, libmenu, libform
      │              │
      ▼              ▼
   windows ──wnoutrefresh──► __virtscr ──doupdate──► curscr ─ ─ believed equal ─ ─ terminal
      ▲                                     │                                        │
      │                                     ▼ capabilities, tparm, tputs             │
      │                                  libterminfo ◄── databases ◄── tic           │
      └────────────── wgetch ◄── key symbols ◄── inkey (keymap, inbuf) ◄── keys ─────┘
```

| part | state it keeps | operations | what makes it correct | what is hard | modules |
|---|---|---|---|---|---|
| deck of panels (lib/libpanel) | a tail queue with a phantom for stdscr | new, del, hide, show, top, bottom, above, below | the queue is well linked, holds live panels only, stdscr is at its bottom, and its order is the documented one | hidden panels are encoded as a NULL back pointer; the phantom comes and goes; malloc fails half way | `Panels` |
| windows (newwin.c, delwin.c, mvwin.c, resize.c) | a ring of a window and its subwindows, which share line storage and change pointers | newwin, subwin, derwin, mvwin, wresize, delwin | every line pointer leads to the right cells of live storage | reallocation, moving, and lines that are exchanged while others point to them | `Windows` |
| window contents, wnoutrefresh (add\*.c, ins\*.c, del\*.c, clrto\*.c, touchwin.c, copywin.c, scroll.c, refresh.c) | cells, cursor, change record of each line; `__virtscr` | the output calls, wnoutrefresh | every change is inside the change record, and reaches `__virtscr` | clipping, wide characters cut in two, shared records, scrolling | `WinEdit`, `WinEditProofs` |
| screen update (refresh.c, cr_put.c, tscroll.c) | curscr, its cursor, the change record of `__virtscr` | doupdate | the terminal shows `__virtscr`; curscr is what the terminal shows; the cursor is where it is believed to be | margins, the corner, clearing in colour, scrolling, giving up for typed input | `Quickch`, `Doupdate`, `DoupdateProofs` |
| attributes and colour (attributes.c, color.c, setterm.c, refresh.c) | attributes of windows, the pen of the terminal, tables of colours and pairs | attron..., start_color, init_pair, init_color | cells are shown in the rendition they have | strings that turn off more than one attribute, changing a pair in use | `Rendition` |
| soft labels (slk.c) | eight labels, the line they are drawn on | slk_\* | the line shows the labels in their places | two formats, terminals with labels of their own, resizing | `Slk` |
| key input (getch.c, tty.c) | `inbuf`, its state, pushed-back keys, the read timing of the terminal | wgetch, ungetch, keyok, flushinp, cbreak | keys come out once, in order, as symbols when they form one in time; a call waits as long as it was told to | timeouts and signals between keys, state that outlives a call, modes set by one call and undone by another | `KeyInput` |
| keymap (getch.c) | a tree of keys | define_key, keyok | a sequence is found iff it is defined | sequences that are parts of others | `KeySequences` |
| terminal session (tty.c, tstp.c, resize.c, ripoffline.c) | saved and current termios, handlers, `endwin`, LINES, the windows at the edges | cbreak, raw, endwin, resizeterm, ripoffline, SIGTSTP, SIGWINCH | the terminal has curses' modes exactly while curses runs; windows fit the screen; no change of size is forgotten | handlers that run in the middle of anything | `Session` |
| libmenu | current item, top row, pattern, selection, what is drawn | menu_driver, set_menu_\*, post | the current item is visible; the links form the grid; the window shows the menu | last rows that are not full, cyclic moves, hooks that call the library | `MenuGrid`, `Menu`, `MenuProofs`, `Items` |
| libform: fields and pages | pages, current field, order of fields | form_driver, set_form_\* | the current field is to be visited and on the page shown | order by position, moves over pages, hooks; copies and links of fields | `Form`, `Fields` |
| libform: text of a field | lines, cursor, what is shown | typing and the requests that edit | the lines are those of an editor of a text | wrapping and joining, unsigned places | `TextEditor`, `FieldEdit` |
| libform: field types | library of types, links, arguments | set_field_type, validation | what is accepted is of the type and stays as it is | lengths, precisions, links | `FieldChecks`, `FieldTypes` |
| libterminfo: databases, tic, infocmp | records of terminals in several databases | compile, merge uses, replace, look up | a program finds what the source means | versions, aliases, uses, replacing while others read | `TermDesc`, `Terminfo`, `TermString` |
| libterminfo: tparm, tputs | a stack and variables | tiparm, tputs | what terminfo(5) says | types of parameters, skipping of branches | `Tparm` |
| constant database, nbperf (compat, usr.bin/nbperf) | none across calls | construction of a perfect hash, lookup | every key is found | peeling a random graph | `PerfectHash`, `Cdb` |
| wide key input (get_wch.c), text input (getstr.c), pads, panels' windows, termcap.c, the test harness | | | | | not modelled, see 6 |

PROJECT.json lists every part with its sources and status, and under "hazards" what the
state machines could get wrong, with the property that would notice; section 7 has what functions
could get wrong, or what no model reaches.

## 2. What is modelled

### 2.1 Panels: `PanelDeck`, `Panels`, `MCPanels`, `PanelsProofs`

`Panels` keeps the deck as `_deck.c` does: the macros of `compat/sys/queue.h` on a record of
`next`, `prev` (the *address* of the pointer that points here, written as the element that
holds it) and `last`. `new_panel`, `del_panel`, `hide_panel`, `show_panel`, `top_panel`,
`bottom_panel` and a change of screen are actions; `panel_above` and `panel_below` are
operators. An allocation may fail in `new_panel` after the phantom was inserted.
`aborted` records a failed `assert`.
`PanelDeck` is the deck panel.3 documents: a sequence of visible panels.

Two constants restrict the program:

- `Unfounded = {}`: while the phantom is out of the deck the program shows no panel (`"show"`) and
  lowers none (`"bottom"`). The phantom leaves with the last visible panel, also when hidden panels
  remain (lib/libpanel/del.c:54), and only `new_panel` brings it back. A hidden panel shown before
  has no stdscr below it: the run `panels_unfounded` shows how `PhantomAtBottom` fails. `bottom_panel` then
  inserts behind a phantom that is not in the deck, and `WellLinked` fails, with both in `Unfounded`.
  The phantom may leave in the passing run too: what it excludes are the two calls;
- `StrayOutlives = FALSE`: the screen does not change after a first `new_panel` that failed.
  Otherwise the phantom that stayed behind keeps the old stdscr (lib/libpanel/new.c:65-69);
  set it to TRUE and add `PhantomIsStdscr` to `MCPanels_deck.cfg` to see it fail.

### 2.2 Screen update: `Quickch`, `Doupdate`, `DoupdateProofs`, `MCDoupdate`

Three screens: `virt` (`__virtscr`) with the flags and change pointers of its lines, `cur`
(curscr) and `term`, the terminal itself. The terminal is not part of the repository: its
model (`Printed`, `ScrollUp`) says what printing, wrapping and scrolling do, for terminals
with and without automatic margins, with a wrap that waits (`xenl`) or not.
A step of an update is one cell or one control sequence:

| action | code in lib/libcurses/refresh.c |
|---|---|
| `Put`, `MoveCursor`, `ForceLine`, `ClearOk` | what wnoutrefresh may change in `__virtscr` |
| `Begin` | doupdate up to the call of quickch: `was_cleared`, `__CLEAROK`, redrawing curscr |
| `QuickChange` | quickch and scrolln: `Quickch.tla` holds them as functions of the lines |
| `SkipLine`, `StartLine`, `LineDone` | the loop over the lines, the change pointers, the look for typed input |
| `SkipCell`, `GoTo`, `PutCell`, `PutCorner`, `ClearRest`, `KeepRest`, `EndRun` | makech, putch, putchbr, domvcur |
| `Finish` | the last motion of the cursor |

`__mvcur` (cr_put.c) chooses among motions by length. The model lets it choose either the
absolute motion or local ones at every motion, so its properties do not depend on the costs;
`LocalMove` prints the cells of curscr it moves over, as `plod` does.
A cell is a character and a colour; attributes are in `Rendition`, wide characters in `WinEdit`.

`Setups` holds the terminals and window flags of a run; the terminal is chosen in the
initial state and stays.

Behaviours of the code that break the properties, which the passing runs exclude:

- an update given up for typed input leaves `cury`, `curx` of curscr as they were although the
  cursor has moved (refresh.c:673, a `goto` past the assignments): add `CursorKnown` to
  `MCDoupdate_typeahead.cfg` with the setups of `doupdate_screens` to see it fail;
- `RedrawPending = FALSE`: wrefresh(curscr) with changes pending in `__virtscr` resets their
  record (refresh.c:683); `Covered` fails;
- `LastColumn = FALSE`: an update that ends in the last column of a terminal that waits with
  the wrap, and one that starts there, do not move the cursor (refresh.c:1365) and print on the
  next line; `TerminalIsCurscr` fails;
- putchbr follows a null pointer when the corner is the first cell of a change on a terminal
  that needs insertion (refresh.c:1272, 992): the model's `pc = "crashed"`, and the reason why
  `doupdate_screens` does not check deadlock;
- with `scrollok` the corner is written on a terminal that wraps at once, which scrolls it
  (refresh.c:1269): no setup of the runs has `scroll` with `am` and without `xenl`. Without `scrollok`
  and with an insert capability a redraw of curscr writes it too (`~IsCorner \/ curwin`). In either case
  `TerminalIsCurscr` fails;
- a terminal with automatic margins that cannot insert, and has quickch: a redraw leaves the corner
  unwritten while curscr has it, and quickch moves it up; `TerminalIsCurscr` fails;
- with `leaveok` the cursor stays where the last cell was drawn, in the last column too, as
  with `LastColumn`; `CursorKnown` fails.

Each of the last three is a setup to be added to `Screens` to see the property fail.

### 2.3 Renditions and colours: `Rendition` (functions, in `MCWinEdit`)

`Rendition` holds the attributes of windows and cells (attributes.c, background.c), the masks
setterm.c makes of the strings that end attributes (`Mask`: which attributes a string turns
off besides its own), `PutAttr` and `UnsetAttr` (refresh.c), which compute from the
attributes the pen has what has to be sent for those of a cell, and the tables of color.c with
what `start_color` and `init_pair` do to windows, curscr and the pen. `Hardware` is the terminal: what
the strings sent do to it. Two attributes stand for all of `__TERMATTR`.

| assumption | of | says |
|---|---|---|
| `PenFollowsCells` | 24 terminals, all renditions from all renditions | the terminal gets the rendition of the cell, and curses knows what the terminal has |
| `ColoursFollowPairs` | all sequences of four calls between refreshes | cells are shown in the colours their pair has now |
| `PairsReadBack`, `ColourKept`, `AttributesSet`, `BackgroundReadBack` | all arguments | the inquiry calls give what was set |

What the code does otherwise, each stated by an assumption of its own where there is a name:
ending standout where it is reverse video, as on xterm, ends reverse video while curses
believes it is on, and only the string of "me" is searched for the end of the alternate
character set (`PenMistaken`); a pair counts as used when `init_pair` sets it, not when it is
written in, so the first `init_pair` of a pair that text has changes nothing on the screen
(color.c:310, `FirstInitLost`; a second `start_color` clears the flags again); without `orig_pair` the pen keeps its
pair, and with it the colours the pair had (`PenKeepsColours`); pair 0 is set to -1 and then
overwritten by white on black (color.c:219, `NoColourVaries`); default colours that were set before
`start_color` are not exchanged for terminals with `setf` (color.c:482); `init_color` stores
though it returns ERR (color.c:401); `wattroff(A_STANDOUT)` turns off everything (attributes.c:444);
`attron` never sets `A_ALTCHARSET`, which curses_attributes.3:121 lists. The types of
colour without an implementation (HP, Tektronix) only change the pair. Left out:
underline_char, the filling of wbkgd.

### 2.4 Key input: `KeyInput`, `MCKeyInput`, `KeyInputProofs`

`wgetch` and `inkey` of getch.c, one action per read. `inbuf`, `start`, `end`, `working` and
`state` are the static variables of getch.c; `node` is the local `current`, the place in the
keymap. `vmin`, `ttymin` and `ov` are VMIN/VTIME as in the structures of the screen, in the
terminal and as saved by `__save_termios`. `due` is a history variable: what the program
is still to get. Typing (`Type`), a signal (`Winch`, `ReadSignal`, `RawSignal`) and a
timeout (`ReadTimeout`, `RawTimeout`) may happen at every read.

`Programs` holds the ways a program uses the library in a run. Excluded from the passing run:

- a signal between the keys of a sequence ("assembling" in the `signals` of a program),
  after which the keys kept in `inbuf` are eaten by the next symbol (getch.c:584, 638);
  `InOrder` fails;
- windows with and without `keypad()` in one program: a window without it reads past keys that
  wait in `inbuf` (getch.c:874; `InOrder` fails), and after its timeout the timing stays in the
  terminal (getch.c:877; `BlockingWaits` fails);
- `echo` and a window without `keypad()`: the early return after a timeout leaves cbreak mode on
  (getch.c:878; `ModeKept` fails);
- a key symbol longer than the ring: a full ring counts as empty, the timeout of the call is
  ignored (getch.c:597; `Answers` fails with `Size = 2`).

flushinp (tty.c) forgets what stdio has read ahead, but not the keys in `inbuf` nor those
in the terminal's queue, although curses_tty.3:226 says it discards any pending input; the
model does as the code does.

`KeySequences` (functions, in `MCKeyInput`) is the tree of key sequences: `__init_getch`,
`define_key`, `keyok`, `has_key`, and what inkey makes of keys none of which is late. `NoneHides`
is its invariant. The assumptions say of all keymaps two definitions make that defining gives a new
sequence its symbol and leaves the others alone (`DefinesSequences`), that a symbol that
is deleted is gone until `keyok` brings it back (`DeletesSymbols`), and that the first of several
strings of a terminal counts (`TerminalKeys`). A sequence that continues one with a symbol
(`FollowsLeaf`) is left out: getch.c:301 takes the symbol for a keymap. A sequence that is there,
disabled or deleted, is not defined again although OK is returned; `has_key` is true of a deleted
symbol; the last key indexes as a signed char (getch.c:410, codes of keys are not modelled).

### 2.5 Window contents: `WinEdit`, `WinEditProofs`, `MCWinEdit`

A window as large as the screen, a subwindow that shares its cells, and `__virtscr`. `st` is
one record: cells of the storage, the order of the lines, change pointers (shared through
`firstchp`, `lastchp`), dirty flags of each window, cursors, the flag of a pending clear. An
operator per call computes the record it leaves: `AddStr` (addbytes.c, add_wch.c: control
characters, wide characters that overwrite halves of others, the end of the line, scrolling),
`InsCh`, `InsWch`, `InsStr`, `DelCh`, `InsDel`, `Scroll`, `ClrToEol`, `ClrToBot`, `Erase`, `Clear`,
`Border`, `DrawLine`, `ChgAt`, `TouchLn`, `TouchOverlap`, `CopyWin`, `SyncUp`, and `NoutRefreshed`
(wnoutrefresh: `CopyRows` and `ResetRows` do at once what its loop does row by row, as no row is looked
at twice). The calls that write many lines do so with `WriteRows` and tell the records with
`TouchRows`; what happens cell by cell in the code and may stop or scroll between (`AddStr`,
`DrawLine`, `CopyWin`, the rounds of `RowsMoved`) is a recursive function. `EditWindow` and
`Copies` are the calls a program makes at the places of `Spots`, with `immedok`, `syncok` and
`scrollok` on or off: `mvwinsch` is `At`, then `InsCh`, and `insch` is `InsCh` of `stdscr`. A cell that differs from the terminal is history of `shown`.

`NothingLost` asks what nobody would see on the change record itself: after *any* calls, a
refresh brings every changed cell to `__virtscr`. `VirtRecorded` says the same of doupdate, whose
`Put` (2.2) this module makes concrete.

Left out by `Cases`, since `NothingLost` or `CursorInside` fails with them:

- `"corner"`: a character in the last column of the last line of a window that does not scroll
  is written, and the call returns before the record is told (addbytes.c:547);
- `"half"`: for a character written at the right half of a wide one the code counts the columns
  from the left half on, so its record ends early (addbytes.c:440); and an insertion or deletion where the
  halves of a character do not follow each other goes by a width that leads out of the line;
- `"below"`: below the scrolling region nothing stops the cursor at the last line of the window
  (addbytes.c:557);
- `"moved"`: lines inserted or deleted in a window with a subwindow, as `"scrolled"` in 2.6.

insch at the end of the last line always scrolls or fails (insch.c:113). Not modelled: the
background, attributes other than a highlight, characters without a width, wins_nwstr,
wadd_wchnstr, derived windows, pads, untouchwin, LEAVEOK; the scrolling region is only chosen
initially.

### 2.6 Windows: `Windows`, `MCWindows`, `WindowsProofs`

A window is an array of pointers to line records. `rows[w]` is that array in its present
order: each entry is the address of a record (`at`), the first cell it points to (`line`, a
place in the `wspace` of some window) and the record its change pointers lead to (`mark`).
`orig` is the parent, `ring` the window with which the `nextp` ring of a window and its
descendants starts, `geom` the place, size and requested size.
A pointer that leads nowhere is `Wild`.

| action | code in lib/libcurses |
|---|---|
| `NewWin` | newwin (newwin.c) |
| `SubWin` | subwin, derwin, `__set_subwin` |
| `DelWin` | delwin with the subwindows it takes along |
| `MvWin` | mvwin: a window with its ring, or a subwindow in its parent |
| `WResizeTop` | wresize of a window, and `__resizewin` of every subwindow |
| `WResizeSub` | wresize of a subwindow |
| `WResizeFails` | wresize when realloc fails |
| `InsDelLn` | winsdelln and scrolling: the exchange of line pointers |

The loops of winsdelln are written as what they compute, a rotation (`Inserted`, `Deleted`);
`MCWindows` compares this with the loops for windows of up to 7 lines (`LoopsRotate`).

`Cases` holds what a program does besides. Each of these breaks a property, which the passing
run therefore excludes; put it into `Cases` of `MCWindows_tree.cfg` to see how:

- `"nested"`: subwindows of subwindows. Their change pointers lead to the records of the
  subwindow (newwin.c:230), not of the window that owns the cells; when the subwindow is resized,
  its records move and they are left wild (resize.c:277). `LinesInStorage` fails;
- `"scrolled"`: lines inserted, deleted or scrolled in a window with subwindows, which
  keep the old lines (insdelln.c:172 looks for subwindows only from a subwindow).
  `ShowsParent` and `SharesRecord` fail;
- `"moved"`: mvwin of a subwindow to where it does not fit. The code compares the distance it
  moves with the size of the parent (mvwin.c:111). `SubsInside` fails;
- `"edge"`: wresize when a subwindow begins just behind the new end of its window, where the
  comparison lets it stay (resize.c:371), or is cut at the right, where `begy` is added for
  `begx` (resize.c:385). `SubsInside` fails;
- `"no memory"`: realloc fails in `__resizewin` after an earlier one has cut or moved an array
  (resize.c:271-293). `LinesInStorage` fails. The failure of the first one, which changes
  nothing but the bounded begin, is in the run.

The program is taken to delete the subwindows of a subwindow before the subwindow.
Not modelled: pads, dupwin, mvderwin, the lists of combining characters that delwin and wresize
read through the lines of subwindows (delwin.c:65), the contents of the cells.

### 2.7 Terminal session: `Session`, `MCSession`, `SessionProofs`

One screen from `newterm` on: `tty` is the terminal (its modes, its lines, the alternate
screen), `scr` the SCREEN (`orig`, `save` and current termios, `useraw`, `endwin`,
`resized`), `win` the places of curscr, stdscr and the ripped lines, `tstp` the handler of
SIGTSTP in force and the saved one, `sig` the pending and blocked signals. A call is a list of steps,
`todo`, each a system call or the assignments between two of them; a handler puts its own steps in
front of what it interrupts, so a signal comes between the statements that matter,
except where `Cases` excludes it.

| action | code in lib/libcurses |
|---|---|
| `ModeCall`, `Assign`, `TcSetAttr` | raw, noraw, cbreak, nocbreak (tty.c) |
| `WGetCh`, `Read`, `KeyResizeReturned` | wgetch as far as modes and KEY_RESIZE go (getch.c) |
| `EndWin`, `StopWinDo` | endwin, `__stopwin` (tstp.c) |
| `DoUpdate`, `RestartWinDo` | doupdate after endwin, `__restartwin` |
| `Sigtstp`, `Kill`, `Unmask`, `Continue` | `__stop_signal_handler`, SIGCONT |
| `Sigwinch` | `__winch_signal_handler` |
| `ResizeTerm`, `ResizeBegin`, `ResizeWindows`, `ResizeLines` | resizeterm, resize_term, `__resizeterm`, `__ripoffresize` (resize.c, ripoffline.c) |
| `Stty`, `Resize`, `StopKey` | what the shell and the user do |

Left out by `Cases`: `"race"`, a change of size, or a stop, in the middle of a getch that handles
the change before, which resize.c:193 then takes as handled (`ResizeNoticed`);
`"midway"`, a stop signal in `__stopwin` after it gave its handler back, or in `__restartwin` before it
has all modes again (tstp.c:215, 254): the modes saved are the wrong ones (`ModesApart`).
`ScreenFitsAwake` is about sessions no restart of which has resized a window: `__restartwin`
resizes curscr and stdscr by their requested height, so stdscr gets the ripped lines too (tstp.c:284);
`ScreenFits`, the same without the condition, fails. Left out: echo, columns (treated as lines
are), nl and intrflush, VMIN and VTIME (2.4), def_prog_mode and def_shell_mode, savetty and resetty,
a SIGWINCH handler of the program's own (tstp.c:176), a second screen. `resizeterm` sets
`resized` whether or not anything changed.

`Slk` (functions, in `MCSession`): where the labels are (`Position323`, `Position44`), what is written
there (`Label`: justification, cut at the first character that cannot be printed), the line
they are drawn on or the labels of the terminal, and `slk_set`, `slk_clear`, `slk_restore`,
`slk_noutrefresh`, resizing, and the attributes labels are drawn in (`pen`). `LabelsPlaced`: labels do
not overlap for all widths from 8 to 100; `LinesShowLabels`: after all sequences of three calls the
line shows them in their places, and `slk_restore` brings them back; `LabelsKept`: `slk_label` gives what
was set last; `LabelsInPens`: a label keeps the attributes in force when it was drawn until it is
drawn again; `LinesClean`: nothing is left between the labels, also after a resize, which blanks the
line (resize.c:341) before the labels are drawn at their new places; `TermLabelsShown`. The code does
otherwise: with four and four labels the last one ends a column beyond the line, and `slk_restore`
returns ERR without refreshing (slk.c:451; curses_slk.3 says it restores immediately); on a terminal
with labels of its own those set while they are hidden are lost (slk.c:442). Terminals of less than eight columns (a width of -1), more or longer labels
than there is room for (`TermFits`, slk.c:613) and wide characters are left out.

### 2.8 Menus: `MenuGrid`, `Menu`, `MenuProofs`, `Items`, `MCMenu`

`MenuGrid` is `_menui_stitch_items` as a function: for a number of items, a number of columns and
an order the row, the column and the four neighbours of each item. `Grid` states what they
should be.

`Menu` is menu_driver and the calls around it. A request computes the new item and top row
(`Move`, `Toggle`, `ClearPattern`, `BackPattern`, `Character`, `MatchAgain`), then calls up to four hooks of
the program (`TermReturns`, `InitReturns`, `ItemTermReturns`, `ItemInitReturns`) before and after
it stores them; a hook may call the library again, so `stack` holds the frames of the
calls that wait with their local variables. `win` is what is drawn: each cell's item, highlight and
mark, and the visible flag of each item, from which the code decides what to draw (`DrawItems` writes
a set of items at once: no two share a cell).
`SetItems`, `SetFormat`, `SetOpts`, `SetPattern`, `SetTopRow`, `SetCurrent`, `SetValue`, `Post`
and `Unpost` are the calls a program makes when the code allows them.

Left out by `Cases`:

- `"past"`: REQ_SCR_DLINE in a menu filled by columns goes one row past the last one
  (driver.c:106); `Shown` fails;
- `"round"`: REQ_SCR_DPAGE in a cyclic menu filled by columns goes round a last column that is so short
  that the page ends where it began (driver.c:121); the top row changes and the window is not
  drawn, because only another current item has it drawn (internals.c:303); `Shown` fails with
  ten items in three columns, two rows shown, from the ninth item;
- `"place"`: an item or a row becomes current that leaves the current item out of view, or a
  format does (menu.c); `Shown` fails;
- `"radio"`: O_RADIO while the selected item is not shown, or with values set by the program;
  the mark of the item deselected stays drawn;
- `"reverse"`: a backward search never looks at item 0 and goes round for ever if nothing
  else matches (internals.c:367); `SearchEnds` fails;
- `"unused"`: formats with columns that stay empty have links that are null or behind
  the array;
- `"pattern"`: set_menu_items frees the pattern and keeps the pointer (menu.c:604).

Seen while modelling, and part of the model where it has state: set_current_item, set_top_row
and set_menu_pattern do not redraw a posted menu; a goto redraws only when the current item
changes (internals.c:303); REQ_BACK_PATTERN leaves a string longer than `plen`;
set_menu_opts with O_NONCYCLIC does not stitch the items again (`Linked` says so);
set_menu_format stores rows and columns even if stitching is refused.

REQ_SCR_DPAGE and REQ_SCR_UPAGE follow as many links as the window scrolls and look at none of them
(driver.c:121, 136). `Falls` says that a link before the last is null, which ends the program, and `Move`
leaves that step out. `PagesLand` says that it does not happen. It does in menus of which
`EndsShort` holds, noncyclic ones filled by columns whose last column is shorter than the others: with
ten items in three columns and a window of two rows, from the last item of the third column.

Texts, marks and descriptions
are a part of the functions below only.

`Items` (functions, in `MCMenu`) is what a program does with items and menus before they are on the
screen: new_item, set_item_value, set_menu_items, set_menu_mark, set_menu_win, new_menu, free_menu and
so on, on a record of all items and menus, in which item and menu 0 are the prototypes that a NULL
argument stands for; and the columns that drawing an item writes.

| assumption | says |
|---|---|
| `ItemsConnected` | while the prototype has no items, an item and its menu point at each other; only set_current_item makes an item current that the menu does not have |
| `PatternsGone` | which calls leave a menu with a pattern that was freed |
| `MenusSized` | the items fit in the width that scale_menu tells, a radio menu has one selected item; the mark of new menus is always "-"; items of a menu that was freed can still be made current in another |
| `ItemsPlaced` | items of a menu that post_menu accepts do not touch; when those of the last column end inside the window |

They hold of all states that two calls, and a third for the first of them, make of two items and two
menus, and of all windows of up to 24 columns with up to six of items.

### 2.9 Forms: `Form`, `FormProofs`, `Fields`, `TextEditor`, `FieldEdit`, `FieldChecks`, `FieldTypes`

`Form` is the form: `layout`, the array of fields with their places and page breaks; `use`,
which fields are active and visible; `page`, `cur`; `drawn`, the fields that the window shows.
`Sorted` and `StitchRows` are the order of fields by position and the links left, right, up and down
that `_formi_sort_fields` and `_formi_stitch_fields` compute (`StitchFindsNeighbours` compares
the walk with the definition of a neighbour for all forms of up to six fields on three rows).
`Request` begins a driver request, `PageMove` and `FieldMove` find the field after the
hooks of leaving, `Finish` draws and calls the hooks of entering; between the two the program may set
the current field (`HookSetsCurrent`). `TypeChar`, `AutoSkip` and `CharEnds` are a character in
a full field that skips on. Whether a field passes validation is left open: any request may be
denied. Left out by `Cases`:

- `"shrunk"`: set_form_fields keeps a page the new fields do not have (form.c:344), `PageExists` fails;
- `"elsewhere"`: set_current_field or set_form_page of a posted form to another page;
- `"nofield"`, `"beyond"`, `"ends"`: forms, pages, and first or last fields with nothing to visit;
- `"foreign"`: options of a field that is not on the page shown: it is drawn;
- `"hook"`: a hook other than the one after a move sets the current field.

A link may cross pages; set_current_field before post_form is overridden; `form->wrap` is always FALSE;
set_form_page accepts the number of pages and negative ones; BS and NL overloading calls a function that
does nothing with REQ_PREV_FIELD; the driver does not set `in_init` around its hooks. Not
modelled: failing allocations (form.c:485).

`Fields` (functions, in `MCForm`) is how a program makes, copies, links, fills, connects and frees fields
and forms: field.c and the calls of form.c that connect, on a record of all fields, forms, arrays of
buffers and strings, so that what two fields share is one element of it.

| assumption | says |
|---|---|
| `FieldsConnected` | a field and its form point at each other; a field with a form is in it, but for copies; the fields of a ring are all linked fields until one is freed |
| `PostedKept` | a posted form keeps its fields |
| `TextsReturned` | field_buffer returns what set_field_buffer stored; what copies and links share; what is cut comes back |

They hold of all states that two calls, and a third for the first of them, make of two fields and two
forms.

`FieldEdit` is the text of one field: `lines` with their strings, hard returns and the
`expanded` length last noted, the cursor, what is shown, the free list. `Type` is a
character (insert or overlay), `Edit` the requests that change text, `Move`, `ScrollLines` and
`ScrollChars` those that do not. `_formi_wrap_field` (`Rewrap`), joining and splitting of lines are
operators on the field. `TextEditor` is what the user sees: a text with line breaks and a place in it;
`ImplementsEditor` shows that the lines implement it under the mapping `TextOf`, `OffsetOf`.
A request that meets a misbehaviour of the code records its kind in `met` and is only taken if
that kind is in `Cases`, which is empty in the run `field_edit`:

- `"abort"`: NEXT_WORD, the search for the start of a word at a blank in column 0, hscroll
  and DEL_CHAR in the last line run into an assertion or do not end;
- `"freed"`: DEL_\* whose wrap fails writes to a freed row; the restore of a failed wrap
  leaves `start_line` wrong; DEL_LINE runs off the list;
- `"below"`: row_xpos of END_LINE is the length plus one, the next character typed is lost; CLR_EOL
  ignores start_char; a back-out at row_xpos does, too;
- `"stale"`: a refused character leaves `expanded`; lines from the free list bring their hard return;
- `"behind"`: DEL_LINE on an only line sets its length to 0 and leaves its string (internals.c:2719;
  CLR_FIELD ends it with a NUL, 2850). `tail` is what memory holds behind the length. DEL_LINE itself and
  typing, which cuts the rest off, are in the run; NEXT_WORD that finds a word there and puts the
  cursor past the end, DEL_WORD, whose memmove gets a size below zero (2793), and splits, which copy the
  rest to a buffer of the length (936), are not. The run `field_edit_behind` shows the first;
- `"lost"`: DEL_CHAR at the last character of a soft line cuts the text joined to it; DEL_WORD
  over lines; O_BLANK clears from the beginning of any line;
- `"apart"`: the vertical scroll requests move start_line alone; END_FIELD does not reset it;
- `"grows"`: NEW_LINE and INS_LINE do not look at the size of the field.

Lines that fill the width exactly are not joined again. set_field_buffer, which keeps old lines,
is called initially only. Not modelled: tabs, justification, a field with an offscreen part and
one row, the copy of lines into buffers, O_EDIT.

`FieldChecks` and `FieldTypes` (functions, in `MCForm`): what the built-in types accept and make of a
text, what characters they accept, turning to the next and previous choice, and the library of types
(new, link, free, arguments, refcounts) with set_field_type and the validation of linked types.

| assumption | says |
|---|---|
| `WordsAccepted`, `TakesWhatIsAccepted` | TYPE_ALNUM and TYPE_ALPHA accept words of the width, whose characters may be typed |
| `IntegersStable`, `NumbersInRange` | an accepted number is in the range and accepted again as it is |
| `ChoicesTurn` | REQ_NEXT_CHOICE and REQ_PREV_CHOICE go through all choices that are not hidden |
| `AddressesStable` | an accepted IPv4 address is accepted again |
| `TypesKept`, `LinkedTypesTakeBoth` | the parts of linked types outlive them; both checks are made |
| `AcceptedAgain` | what a field accepts it accepts again, unless its types emptied it, and its characters may be typed |

The promises say what the code does where that is less than form_fieldtype.3 has it: alnum and
alpha lose the last character of the word (type_alnum.c:132); an integer 0 with precision 0
empties the field, negative numbers with a precision of 22 or more are refused; a numeric range counts
only if min < max, that of an integer always; a choice that continues an earlier one is hidden, and
blank text matches the first choice, empty text none; IPv4 accepts
text behind its numbers and more than eight hexadecimal digits; set_fieldtype_arg does
not record that the type has arguments, so types of the program never get theirs;
copy_args and free_args are not called; a linked type with arguments stores a link that was not set and
stays in the field though E_BAD_ARGUMENT is returned; fields are not users of a type; linked types
have no choices; NULL checks are refused only if both are (the manual: neither may be).
printf of doubles is external; TYPE_IPV6 and TYPE_REGEX, which hand the text to the resolver and to regular
expressions, are left out.

### 2.10 Terminal descriptions: `TermDesc`, `Terminfo`, `TermString`, `PerfectHash`, `Cdb`, `MCTerminfo`

`Terminfo` is tic and the programs that look terminals up meanwhile. `tic` steps through its phases:
`ProcessEntry` takes an entry of the source with its aliases (compile.c, tic.c), `MergeUse`,
`RemoveUse`, `NextTerm` and `EndOfPass` are merge_use, which goes over the terms until no use is left and
promotes a term to a version 3 record when one it uses is; `WriteDatabase` writes a temporary file,
`Rename` puts it in the place of the database; `Die` may come at any time. A lookup (`LookUp`) goes through its databases one
by one, version 3 before version 1, while they may be replaced. `TermDesc` holds records: encoding
(`Encoded`: 16 bits in a version 1 record), merging, aliases, and infocmp's comparing and use=.
`Meanings` computes what a source means without records, and `ReadsBack` compares what is found with it;
`TicEnds` is termination, also of terminals that use each other in a circle (there
nothing else is promised). Left out by `Cases`, each breaking `ReadsBack`:

- `"cancelled"`: a cancelled number in a version 1 record is stored as 65534 and read as
  valid (term_private.h:215): run `terminfo_cancelled`;
- `"alias"`: promotion keeps the first alias only, and the version 1 record of a big entry is
  compiled from the buffer already cut up; such an alias cannot be used by use=;
- `"second"`: an entry is promoted at its first use in a pass only;
- `"extra"`: an unknown capability without -x, or a repeated one, silently ends the entry;
- `"shadow"`: a version 1 record in the first database is hidden by a version 3 one in the next;
- `"replaced"`: the database is replaced between the lookups of the two versions.

With arguments tic saves aliases without their entries, and arguments given twice fail. Left out: OT
and commented capabilities, limits on string lengths, tic -S, termcap, the compiled-in terminals (external).

Function modules, in `MCTerminfo`: `PerfectHash` is the peeling of graph2.c, graph3.c and cdbw.c and the
assignment of chm, chm3 and bdz (`GraphsPeel`: all graphs of three or four edges on five vertices:
peeling succeeds exactly on acyclic graphs and every key is found), `HashesToldApart`,
`EnoughVertices` (chm3 takes 1.24 vertices for a key rounded down, nbperf-chm.c:257) and `NbperfDecides`; `Cdb` writes and reads the constant database (`DatabaseReadsBack`, `PutOnce`; with
more data than vertices an index entry is too small, cdbw.c:471, `FitsIndex`). `TermString` is
`_ti_get_token`, encode_string and outstr of infocmp (`StringsReadBack`, for strings that are
`Plain`: a backslash, a NUL before a digit and a control character behind a percent sign do not read
back). `UseRebuilds`, `ShowsDifferences` and `ShowsMissing` are infocmp -u, -d and -n; -c prints the next entry
(infocmp.c:383), absent flags read as 0.

### 2.11 Parameterised strings: `Tparm` (functions, in `MCDoupdate`)

`Tiparm` interprets a sequence of operations with a stack of numbers, as `_ti_tiparm` does after it
has found which parameters are strings; `Puts` takes a string with delays apart as `_ti_puts`
does. `EvaluatesExpressions` compiles all expressions of depth two and compares, `TakesBranches`
does so for nested conditions, `FindsStrings` takes all sequences of four operations,
`KeepsVariables` all names of variables, `SendsDelays` delays with both marks, and `PadsWhereNeeded`
that tputs pads, and ti_puts pads the bell and terminals without flow control. Numbers are printed as
int (tparm.c:374), whatever they are as long: `AsInt`. The code
does otherwise: push compares entries with bytes, so the 21st entry overruns (tparm.c:65,
`StackOverruns`, with room for three); `%P` and `%g` do not pass over the name, which is sent
(tparm.c:387, against terminfo.5.in:127-134); variables that were not set are uninitialised; a width or
a percent sign between `%p` and `%s` hides a string (tparm.c:171); `"$<5*/>"` is not mandatory and its
end is sent; a string that begins with a digit loses it (tputs.c:66, 101; `LosesDelays`). Left out:
what printf makes of widths and flags, the growth of the buffer, a percent sign at the end of a skipped branch (tparm.c:508).

## 3. Runs

| run | checks | bounds | states |
|---|---|---|---|
| `panels_deck` | `TypeOK`, `WellLinked`, `PhantomAtBottom`, `NeighboursAgree`, `NeverAborts`, `ImplementsDeck` | 4 panels, 2 screens, failing malloc, no panel shown in a deck without the phantom | 370 |
| `panels_unfounded` | `PhantomAtBottom` with `Unfounded = {"show"}` | as above | violated |
| `windows_tree` | `SubsInside`, `LinesInStorage`, `ShowsParent`, `SharesRecord`, `RowsApart` | a window and two subwindows on a screen of 3 by 2, heights 0 to 2, widths 1 and 2 | 43 thousand |
| `window_edits` | `NothingLost`, `VirtRecorded`, `CursorInside` | a window of 3 by 4 with wide characters, a subwindow of 2 by 2, two edits of thirty kinds, refreshes and updates anywhere | 184 thousand |
| `doupdate_screens` | `TerminalIsCurscr`, `CursorKnown`, `Covered`, `UpdateShows` | 2 by 2 with 4 kinds of terminal; 1 by 3 in 2 colours, clr_eol of length 1 and 2, with and without bce; 4 by 1 with quickch; 2 characters, 2 changes between updates | 2.7 million |
| `doupdate_typeahead` | `Covered`, `Returns` | 2 by 2, input looked for after every line | 317 thousand |
| `keyinput_keys` | `InOrder`, `BlockingWaits`, `ModeKept`, `NoMissedSymbol`, `Answers` | a symbol of 3 keys and one of 1, 3 keys, a ring of 3, 2 keys typed ahead; three programs: keypad windows; the same with echo and cbreak; windows without keypad, 2 pushed-back keys, flushes | 523 thousand |
| `session_modes` | `ModesApart`, `StopsItself`, `ResizeNoticed`, `ScreenFitsAwake` | terminals of 4 and 5 lines, no line ripped off or one from each end, two stop signals being handled | 1.8 million |
| `menu_grid` | `Linked`, `Shown`, `PagesLand` | arrays of 4 and 2 items, formats of 2 by 1 and 1 by 3, three sets of options, one pattern, a call in a hook | 253 thousand |
| `form_fields` | `CurrentOnPage`, `ShownIsPage`, `TypingEnds` | forms of 2, 6 and 3 fields on one, three and three pages | 12 thousand |
| `field_edit` | `ImplementsEditor`, `CursorShown`, `Wrapped` | fields of one line (fixed, growing) and of two (wrapping words, breaking them, growing to three), texts of up to 5 characters | 77 thousand |
| `field_edit_behind` | `CursorShown` with `Cases = {"behind"}` | as above | violated |
| `terminfo_lookup` | `ReadsBack`, `TicEnds` | two databases, a job with one of 108 sources and then one of three; 5 queries; three names, 16 values of a short number | 221 thousand |
| `terminfo_cancelled` | `ReadsBack` with `Cases = {"cancelled"}` | as above | violated |

The function modules are evaluated with the runs of the MC module they are in: `LoopsRotate`
(`MCWindows`), items and menus (`MCMenu`), `StitchFindsNeighbours`, fields and the field types
(`MCForm`), renditions (`MCWinEdit`), labels (`MCSession`), key sequences (`MCKeyInput`), parameterised strings (`MCDoupdate`), the databases
(`MCTerminfo`).

Each passing run leaves out what section 2 lists under its constants (`Cases`, `Unfounded`,
`RedrawPending`, ...); its properties are about programs that do nothing of that kind.

The violations. panel.3:51 says that stdscr "implicitly lies below all other panels in the deck". del_panel
takes the phantom out with the last visible panel, and show_panel does not put it back: new p1,
hide p1, new p2, delete p2, show p1.

form_driver.3:132 says that REQ_DEL_LINE deletes the line, and internals.c:2332 that REQ_NEXT_WORD has
found the start of a word. After REQ_DEL_LINE in a field of one line it finds a word of the line
deleted, and the cursor goes past the end of the text.

tic.1:80-83 says that a capability that ends with "@" is marked as absent, so that the
terminal does not inherit it. A number so cancelled is stored as -2 in the 16 bits of a version 1
record and read without a sign as 65534, which is a valid number: a program gets it.

Why the bounds are enough. A tail queue distinguishes first, middle and last elements: four
panels with the phantom give every case a middle element with neighbours on both sides that are
not ends. A window with two subwindows has a ring with two members to visit, subwindows that
overlap or not, and three lines are the least that a rotation can put into an order that is not
an exchange of two; heights of 0 count from the far end, and 2 is cut by the screen or the parent.
A line of four columns holds a wide character, a cell before and one behind it; a subwindow in the
corner has a left edge that is not the window's and cuts a wide character; two edits are one that changes a
record and one that finds it changed, and a refresh of either window may come in between.
An update compares cells pairwise and looks at the first and last cell of a change,
the last column, the last line and the corner: two lines and two columns have each of them
together and apart, three columns add a middle cell, four lines are the least for which
`THRESH` is 1 and a block, a gap and an uncovered line fit. Two characters, one of them the
blank, and two colours, one the terminal's own, are what makech's tests tell apart.
A key ring wraps in every call sequence when it is as long as the longest symbol; the keymap
has an inner node of depth two, a leaf at the root and a key that is in both.
Two heights make one change and its way back; a ripped line at each end makes both
branches of ripoffline's counting. Four items in two rows scroll by line and by page and have an
item above, in and below the window, and in three columns a row that is not full. Six fields on three
pages, in an order that is not that of their places, have pages of one, two and three
fields, and breaks at the first field and later. Five characters fill one line of three and most of the next,
so words are wrapped and joined again. Three terminals make a use, a use of a use and a circle.

Fairness. `Doupdate!FairSpec` assumes that doupdate, once called, goes on: it is a sequential
function that does not block. `KeyInput!FairSpec` assumes that the read loop goes on and that
timers run out; nothing is assumed of the user, of signals or of the program. `Answers` speaks
of calls with a timeout only. `Form` assumes that the driver goes on (`TypingEnds`),
`Terminfo` that tic and a program that looks up do (`TicEnds`); nobody has to start them, and tic may die.

Deadlock is checked but for `doupdate_screens`, where a crash ends the program (2.2).

## 4. Proofs

`PanelsProofs` proves for any number of panels and screens, with `PanelsAssumption`:

- `DeckTypeCorrect`: `TypeOK` holds always, whatever the program calls;
- `DeckWellLinked`, `DeckOnlyLivePanels`, `AssertionsHold`: `WellLinked`, `OnlyLivePanels` and
  `NeverAborts` hold in programs that do not both show a panel while the phantom is out of the
  deck and call bottom_panel then (`Founded`). With both `WellLinked` fails;
- `StdscrBelowPanels`: `PhantomAtBottom` holds when no panel is shown while the phantom is out of
  the deck (`"show" \notin Unfounded`), also when hidden panels outlive the visible ones;
- `PhantomFollowsStdscr`: `PhantomIsStdscr` holds in the programs of `Founded` that do not change the
  screen with a phantom that a failed `new_panel` left behind (`~StrayOutlives`);
- `NeighboursMatch`, `DeckIsImplemented`: for any finite set of panels, and with
  `"show" \notin Unfounded`, `NeighboursAgree` holds, and the list implements `PanelDeck`, with the step of
  the deck that is documented for each call (`ImplementsDeck`).

Well-linkedness is not inductive by itself: pointers that agree locally may form a cycle apart
from the deck, and then `TAILQ_LAST` of one says nothing of the other. The inductive invariant
adds a rank that falls along every back pointer, so there is a least element and a chain from
every linked element to the head; and that a linked phantom is the first element. The lemmas
`InsertTailSound`, `InsertAfterSound`, `UnlinkSound`, `DropPhantomSound` say that the queue
operations keep that, and `BottomFindsPhantom` that bottom_panel inserts behind a linked phantom;
`NextDeckInv` has a step per action; the theorems follow by PTL.

The refinement needs what the links say together. `Lists` says that they lead through a sequence
of distinct elements, and `AppendLists`, `PutLists`, `UnlinkLists` that the operations of the queue are those
of sequences; so the deck is a sequence at all times (`Listed`). `VisitedIs` says that TAILQ_FOREACH
visits it: the walk is a recursive function, whose values the links along the sequence fulfil, and no
other function does, since two would differ first at a least place. With the phantom taken off the
bottom (`Order`) the sequence is the order of `PanelDeck` (`ShownIs`), and there is a lemma for
each call (`NewShows`, `HideShows`, `DeleteShows`, `RaiseShows`, `LowerShows`).

`WindowsProofs` proves for any number of windows, any screen and any sizes asked for, in
programs that do nothing of `Unusual` (`Cases = {}`), with `WindowsAssumption` only:

- `WindowsTypeCorrect`: `TypeOK` holds always;
- `SubsStayInside`, `PointersStayValid`, `SubsShowTheirParent`, `SubsShareRecords`: so do
  `SubsInside`, `LinesInStorage`, `ShowsParent` and `SharesRecord`.

None of these is inductive. Cutting a subwindow to a new size is right only because its window
begins on the screen and the subwindow not before it; pointing it at new storage is right only
because its parent is the first of the ring; and the change pointers that lead to the
resized array are none but those of its own subwindows, because every record's change
pointers lead to the first window of the ring. The inductive invariant `IInv` says of
a window without parent that its lines are its own, in any order (`Top`), and of a subwindow
that it is inside a window without parent and that its lines are what `__set_subwin` would compute
from the present lines of that window (`SubOf`). `BoundedFits`, `WantedFits` and `RefittedFits` are the
arithmetic of wresize, `InsertedKeeps` and `DeletedKeeps` say that lines are only exchanged,
`FreshRows` unfolds the order in which a ring is renewed; a lemma per action shows that
it keeps `IInv`, and `SubLine` derives the four properties.

It also proves `RowsStayApart`, `RowsApart` under the same assumptions. `IInv` does not
exclude that a line of a window occurs twice, so a second invariant, `AInv`, says that the records
of a window without parent are different ones. It rests on `InsertedOnce` and `DeletedOnce`: the
exchanges of winsdelln bring every line of the region to one place only, also when n does not divide
the region, because two of the last n lines that came from places less than n apart would be a
multiple of n apart (`Multiple`). The subwindows inherit it from the window they point into.

`KeyInputProofs` proves for every keymap, any length of the ring and of what is typed
ahead or pushed back:

- `TypeCorrect`: `TypeOK` holds always;
- `ModeIsKept`: `ModeKept` holds if programs that echo use `keypad()` windows only (`EchoesKeypad`);
- `BlockingCallsWait`: `BlockingWaits` holds if a program uses windows of one kind (`OneKind`) and no
  signal comes between the keys of a sequence (`Undisturbed`);
- `KeysInOrder`, `NoSymbolIsMissed`: `InOrder` and the action property `NoMissedSymbol` hold if,
  besides, every symbol is shorter than the ring (`SymbolsFit`). The second is about keys that have
  come: a symbol whose keys are all there is not taken apart when a key is looked up. It says
  nothing of a read that times out.

These conditions are what is left out of the run (2.4): the assumption `ProgramsUsual` of `MCKeyInput`
says that its programs meet them. `WaitInv` says that the terminal's timing and the one saved are those
of the call. `InOrder` speaks of one call; the invariant behind it, `OrderInv`, says what
is kept between all: the ring from `start` to `working` holds the keys that led to `node` (`Ring`),
those from `working` to `end` wait behind them, and what is due is what was pushed back, then the
ring, then the terminal's queue. The ring is never full between two steps, since a sequence that
leads on is shorter than the ring (`MultiFits`), so `start = end` means empty.

`FormProofs` proves for any arrays of fields, as long as programs do nothing of `Cases`:
`FormInvariant`, and from it `CurrentFieldOnPage` (`CurrentOnPage`) and `WindowShowsPage` (`ShownIsPage`).
Between a request and the page that follows it the page, the current field and the window
are out of step; `FormInv` says by how much at each hook. It rests on facts about the operators
of the model: the number of a page does not fall along the array (`PageNoGrows`), a search finds a field
to visit if there is one (`NextUsed`, `FirstFieldFinds`), and what a request found is
still right when hooks come between (`SameFound`); these need that a set of numbers has a
least member (`LeastOf`).

`SessionProofs` proves for any heights and lines ripped off, and handlers nested to any
depth (`MaxHandlers`), as long as no signal comes `"midway"` or in a `"race"` (`Cases = {}`):

- `SessionInvariant`: the inductive invariant `SessionInv`;
- `ModesRestored` (`ModesApart`), `HandlerGone` (`StopsItself`), `SizeNoticed` (`ResizeNoticed`),
  `ScreenDivided` (`ScreenFitsAwake`).

The first two do not hold for the interleavings that `"midway"` stands for (2.7): a stop signal in
`__stopwin` after it gave the handler back or in `__restartwin` after it set it. They are about stop
signals between all other steps.

A handler puts its steps in front of what it interrupts, so the invariant cannot list what
`todo` may be. `Follows` says which step may come right after which and `Ordered` which may come
anywhere before which; both are kept by taking the first step away and by putting a handler in
front (`JoinFollows`, `JoinOrdered`). `AtStep` gives the state before each step. `ModeInv`, `SizeInv` and `WinInv`
say of the modes, the size and the windows what the steps to come will make of them: the mode
asked for is read off `todo` (`AskedMode`), and curscr and stdscr cover the new number of lines while
`rt_lines` is still to come. There is a lemma for each of the three parts and each action.
`WinInv` counts the lines ripped off each edge; `CoverFits` turns that into the set of
lines that `Fits` speaks of.

`MenuProofs` proves `StitchMakesGrid` first: the links of `MenuGrid` are those of the grid for any number of
items and columns, as long as no column stays empty (`ColumnsUsed`). The code finds a neighbour by
adding to or taking from an index. The items of a row, or of a column, are together in the array
(`Block`), and those of the other a fixed number apart (`Apart`); what is next and last in each is shown
for itself (`NextApart`, `PrevApart`, `NextBlock`, `PrevBlock`) and compared to the cases of the code
(`DownLink`, `RightLink`, `UpLink`, `LeftLink`).

It proves then, for any items, formats, options and patterns, and hooks that call in again to any
depth (`MaxCalls`):

- `MenuInvariant`: the inductive invariant `MenuInv`, and `ItemsLinked` (`Linked`), unless
  formats have columns that stay empty (`"unused"`);
- `CurrentInSight`: between requests the current item is in the window, unless the program makes one
  current that is not (`"place"`);
- `PagesAreThere` (`PagesLand`), under both;
- `MenuShown` (`Shown`): between calls the window shows every item in its place with its mark and
  highlight, and nothing else, under both and without `"past"`, `"round"` and `"radio"`.

The cases not named (`"reverse"` and `"pattern"` among them) may happen. A request moves the
window, then the current item, with hooks between; `Hooked` says of the call that waits that it
goes to an item in sight from the row it scrolls to, and what of that each hook finds done. `Attached`
says that the layout is the one of the items and the format, but for `cyclic`. `PagesLand` then needs that
a link down goes to the next row at most and exists above the last two rows (`DownGoes`), and a link
up to the row before (`UpGoes`).

`Shown` is of no use while a request waits for a hook: the current item or the top row may have moved
and the window not. `Drawing` says that the window is a picture of the menu as it is (`Pictures`, `Looks`) at
all times but these (`Stale`), and what a request that waits has checked and done, so that the
redraw that comes after the hook makes it one (`Scrolls`). No two items have one place (`OneItem`), so
writing the items as a set is right, and a redraw without scrolling writes the two items that changed.
The proof found `"round"`, a request whose new item is the current one and whose top row is not: the
menus of the run are too small for it.

`DoupdateProofs` proves for screens of any size, any characters, colours and bounds:

- `TypeCorrect`: `TypeOK` holds always;
- `ChangesCovered`: `Covered` holds unless wrefresh(curscr) is called with changes pending
  (`~RedrawPending`): on every terminal, with typeahead, `leaveok` and the last column;
- `UpdateInvariant` and from it `TerminalKnown` (`TerminalIsCurscr`), `CursorIsKnown` (`CursorKnown`) and
  `UpdateIsShown` (the action property `UpdateShows`), under `Usual`: the terminals and programs left by the
  cases above (2.2), which `doupdate_screens` has among its setups.

The record first (`RInv`). `Covered` speaks of the time between updates. Within one, the cells before the place
that doupdate has come to (`Drawn`) are settled, and those of the lines ahead settled or in the
recorded range (`Ahead`); there is a lemma for each action, and `BusyRecord` says what it has to show. What
clr_eol leaves undrawn is settled because a row is blank behind its last ink (`LastInkIn`, `Clears`), and what
quickch calls clean because its rotation of the line pointers is the scroll of the region (`RotationIs`,
`QuickchIs`).

Then the terminal (`TermInv`, `CursorInv`). It shows curscr, or the blank that a redraw left where it has not
come to yet (`Undrawn`). The cursor is where curses has it (`at`) except behind the last column (`Off`), where
the wrap waits or the terminal has gone up a line. There `at` is behind every cell that is still to be drawn
in its line, so the next motion goes elsewhere and is absolute, because `MustAddress` holds; and local
motions, from where the cursor is known, print only cells of curscr that are in place (`GoodMove`). A character
moves nothing but itself (`PrintedHere`) except in the corner, which has a lemma of its own (`PutCornerInv`).

`WinEditProofs` proves for screens and subwindows of any size, any contents, scrolling regions and flags, and
any number of edits, as long as programs do nothing of `Cases` (2.5):

- `WindowInvariant`: the inductive invariant `WInv`;
- `EditsReachScreen` (`NothingLost`), `VirtualRecorded` (`VirtRecorded`), `CursorsInside` (`CursorInside`).

`NothingLost` speaks of a refresh that has not been made. `Recorded` says the same of the state there is: a
refresh of the root reads the cell, because its column is in the record of its line and the line is
flagged in the root or in the subwindow. `WInv` says that the parts of a state fit (`Sound`: the rows are the
lines of storage in some order, records, cursors and regions stay in their windows) and that no cell is `Lost`,
different from the virtual screen and not recorded. A call loses cells while it is under way: it writes first
and tells the record after, in whole or in two parts. `Only(s, A)` says that at most the cells of `A` are
lost: a write adds the cells it writes (`WriteRows`), a touch takes off those it names (`TouchRows`), and
the record otherwise grows (`Grows`), so every call begins and ends with `A` empty. Refreshes and scrolls
in the middle of a call (`immedok`, the last column) take place with cells lost and lose no others; the refresh of
the subwindow, which resets records it shares with the root, keeps what lies outside of it (`ResetFirst`,
`ResetLast`). A call of an unusual kind sets `odd` and is not made (`Safe`), so there is nothing to prove of it
but that `odd` stays set. The rounds of a recursive function keep a predicate of the round (`Induct`).

Only model-checked:

- `FieldEdit` and `Terminfo` declare RECURSIVE operators or reach one, which puts them out of the
  prover's reach;
- liveness (`Returns`, `Answers`, `TypingEnds`, `TicEnds`), since fairness and ENABLED are out of
  the prover's reach;
- the assumptions about functions, which are evaluated for the inputs named.

## 5. Plan

Done in the order of importance: the screen (panels, windows, contents, update), keys, the session,
menus and forms, descriptions of terminals. What would come next:

1. a composition of `PanelDeck` with `WinEdit`: update_panels over overlapping windows;
2. `Windows`: mvderwin, dupwin and pads, with prefresh in `WinEdit`;
3. wget_wch as an instance of `KeyInput` with a ring per screen and multibyte decoding;
4. a composition of `Session` with `Doupdate`: a restart in the middle of an update;
5. theorems: `CursorShown` and `Wrapped` of `FieldEdit`, once its folds over lines are written without RECURSIVE.

## 6. Not modelled

- `update_panels`, `move_panel`, `replace_panel` and the user pointers of libpanel; wget_wch; getstr and
  scanw; pads; termcap.c; the test harness. The first two are planned; the others are input and output, or
  line editing over modelled calls.
- Output and inquiry helpers (printw, inch, instr, unctrl, fileio, mouse, bell, curs_set): conversions and
  single assignments.
- Inside the modelled parts: combining characters, and with them the lists that delwin and wresize read
  through the lines of subwindows (delwin.c:65); the choice among cursor motions; formatting and tracing;
  failing allocations except in `Panels` and `Windows`; a second screen.
- tput, tset, tabs, and the parts of tic, infocmp and nbperf that parse options and print.

## 7. Other hazards

What a test would hardly reach and PROJECT.json does not list, with the definition that states it or the
reason why none does. `ASSUME` means that TLC compares the function with what it promises for all
inputs of the module named; where the code does not keep the promise, the assumption says exactly when.

- lib/libpanel/new.c:68: The phantom keeps the stdscr of a screen that was ended or switched away.
  PhantomFollowsStdscr proves it (PhantomIsStdscr) for programs that delete their panels first; no
  run checks it.
- lib/libpanel/del.c:41: A panel is freed while the deck still links to it. Proved by
  DeckOnlyLivePanels (OnlyLivePanels) for the programs of Founded (section 4); no run checks it.
- lib/libmenu/menu.c:604: set_menu_items frees the pattern and keeps the pointer: the next request
  frees it again. Attaching items while there is a pattern is left out of the model (case
  "pattern"); the pattern is not a part of what is proved.
- lib/libmenu/internals.c:367: A search through the items must come back to where it started. A
  backward search never looks at item 0 and goes round for ever when no other item matches: left out
  by Cases ("reverse"), and with it SearchEnds fails.
- lib/libcurses/tstp.c:209: Ending an ended session again, or stopping it, must not take the modes
  of the shell for those of the program. Part of `ModesApart`.
- lib/libcurses/ripoffline.c:155: The windows of ripped lines follow the last line of the terminal
  in the order they were ripped. Part of `ScreenFitsAwake`.
- lib/libcurses/tstp.c:176: __restore_winchhandler compares the current handler with the old one, so
  the handler of curses stays installed after endwin. It has no effect on a session that starts with
  the default action, the only kind modelled.
- lib/libform/form.c:344: set_form_fields starts the fields again and keeps the page of the fields
  before. Left out of the passing run by Cases.
- lib/libform/form.c:485: new_form frees the form when the array of pages cannot be allocated; its
  fields keep it as their parent. Allocation failures and the parent of a field are not modelled.
- lib/libcurses/refresh.c:282: The first column of a pad to copy is the corner of the shown area
  plus the first change, and the end is computed from another line's record. Pads are not modelled.
- lib/libterminfo/term_private.h:215: A number above 32767, and a negative one that stands for
  cancelled, in the 16 bits of a version 1 record. Large numbers are in the passing run;
  terminfo_cancelled shows the cancelled ones.
- lib/libterminfo/compile.c:62: _ti_promote keeps the first alias only, the others end up behind its
  NUL; the version 1 record of the same entry is compiled from a buffer the first compilation cut
  up. Left out of the passing run by Cases; with "alias" in Cases the property fails.
- lib/libterminfo/compile.c:291: An entry with an unknown capability without -x, or with the same
  extra capability twice, is dropped without a message. In the passing run such an entry comes only
  if Cases has "extra".
- compat/cdbw.c:471: An index entry has the size of the number of vertices, yet holds the number of
  a datum: with more data than vertices it is cut off. Not reachable through tic, where every datum
  has a key; ASSUME DatabaseReadsBack of MCTerminfo is under FitsIndex.
- compat/cdbw.c:417: The sum 2 * data_entries + idx - g - g, and that of the three values on
  reading, must not wrap around. ASSUME DatabaseReadsBack of MCTerminfo checks the arithmetic modulo
  Word for databases the sum of which stays below it; max_data_counter (0xcccccccc) admits databases
  for which it does not.
- usr.bin/tic/tic.c:363: promote takes the newest term of a name, which may be an alias entered
  earlier and has no tic. Needs two sources of the same name as alias and as terminal, which the job
  sets leave out.
- usr.bin/infocmp/infocmp.c:87: infocmp writes a backslash, a NUL before a digit and a control
  character after a percent sign so that tic reads something else. ASSUME StringsReadBack of
  MCTerminfo states what reads back.
- usr.bin/infocmp/infocmp.c:383: infocmp -c prints the entry after the one it compared, and reads
  past the last one. ASSUME ShowsDifferences of MCTerminfo states what it prints.
- usr.bin/nbperf/graph2.c:200: Equal hash values of a key are told apart by flipping bits, in nbperf
  and again in the function it writes. ASSUME HashesToldApart of MCTerminfo.
- usr.bin/nbperf/nbperf.c:256: max_iterations counts down from a number the user gives; 0xffffffff
  stands for no limit. ASSUME NbperfDecides of MCTerminfo.
- lib/libcurses/getch.c:317: define_key() of a sequence that is there already, be it disabled or
  deleted, changes nothing and returns OK; a deleted sequence stays taken for ever. Defines and
  Deletes of KeySequences state it, ASSUMEs of MCKeyInput check it.
- lib/libcurses/getch.c:410: The last key of a sequence is an index as a signed char, where all
  other places cast it to unsigned: for a key of 128 or more the store goes before the table. Keys
  are model values: their codes are not modelled.
- lib/libmenu/item.c:368: set_current_item takes any item that has a place in some menu, though the
  comment says it is for items of this one; the index may lie beyond the menu's own. free_menu() leaves
  the items their places, so they pass too. ASSUMEs ItemsConnected and MenusSized of MCMenu.
- lib/libmenu/menu.c:480: new_menu() sets the mark to "-" after it copied that of the default menu:
  set_menu_mark(NULL, ...) has no effect on menus to come, set_menu_unmark(NULL, ...) has. MarksOfNew,
  ASSUME MenusSized of MCMenu.
- lib/libmenu/menu.c:424: A pattern of the default menu is shared by the menus made after: freeing
  one of them takes it from all. ASSUME PatternsGone of MCMenu.
- lib/libmenu/internals.c:546: Columns are as wide as the window divided by their number, with one more
  between them: the last column goes beyond the window, onto the next line, unless the division
  leaves that many. ASSUME ItemsPlaced of MCMenu says when.
- lib/libform/field.c:922: free_field() of a linked field looks for the one before it in the ring, but
  stops at the field itself: the ring keeps the field that is freed. Rings, ASSUME FieldsConnected of
  MCForm.
- lib/libform/field.c:841: A copy or link of a connected field keeps its form and index: it is
  taken for connected, and cannot be attached to another form, nor freed. CopyIsBound, ASSUME
  FieldsConnected of MCForm.
- lib/libform/field.c:850: dup_field() shares strings and lines with its original, so a text set in
  one may change or free that of the other. DupShares, ASSUME TextsReturned of MCForm.
- lib/libform/field.c:398: set_field_printf() prints with the length of the text as the size of the
  buffer: the last character is lost. PrintsLess, ASSUME TextsReturned of MCForm.
- lib/libform/field.c:130: Making a field static cuts its text by storing a NUL; the length is kept, and
  field_buffer() returns the whole text again. CutComesBack, ASSUME TextsReturned of MCForm.
- lib/libform/field.c:296: dynamic_field_info() reports the size set nowhere, 0, for fields that grow.
  SizeTold, ASSUME FieldsConnected of MCForm.
- lib/libform/type_alnum.c:132: TYPE_ALNUM and TYPE_ALPHA copy one character too few and end the
  copy at an index counted from the beginning of the text: the field loses the last character of its
  word, or shows what the memory held. WordAccepted of FieldChecks states it, ASSUME WordsAccepted
  of MCForm checks it.
- lib/libform/type_integer.c:157: A value of 0 with precision 0 is printed as nothing: TYPE_INTEGER
  accepts the field and empties it. IntegerStable, ASSUME IntegersStable of MCForm.
- lib/libform/type_enum.c:177: Without exact matching a choice that begins another, earlier one is
  never found: leaving the field changes it, going on through the choices comes round early.
  TurnsThrough and OnlyPrefixesHide, ASSUME ChoicesTurn of MCForm.
- lib/libform/field_types.c:55: set_field_type() with a linked type that has arguments stores a link
  of which no part is set in the place of the one the type had, and says E_BAD_ARGUMENT, but the
  field keeps the type: its next validation follows the link. ASSUME TypesKept of MCForm states when
  it happens; programs cannot give such a type to a field.
- lib/libform/field_types.c:123: A field does not count as a user of its type: free_fieldtype()
  frees a type that fields have. ASSUME TypesKept covers the parts of linked types; nothing keeps
  the types of fields.
- lib/libform/internals.c:3051: The checks of a linked type run one after the other, each on the
  text the one before it has left in the field. ASSUME LinkedTypesTakeBoth of MCForm, for checks
  that change nothing.
- lib/libform/internals.c:3085: A linked type has no choices of its own: linking TYPE_ENUM with
  another type takes REQ_NEXT_CHOICE from the field. ASSUME TypesKept of MCForm (LosesChoices).
- lib/libcurses/slk.c:451: With four and four labels the last one ends one column beyond the line:
  drawing it fails, so slk_restore() returns ERR before it refreshes and what slk_clear() took away
  stays away; the manual says it is restored at once (curses_slk.3). Restores of Slk states it for
  three and two, ASSUME LinesShowLabels of MCSession.
- lib/libcurses/slk.c:442: On a terminal with labels of its own slk_restore() only switches them on:
  what slk_set() gave while they were off was never sent. ASSUME TermLabelsShown of MCSession.
- lib/libcurses/slk.c:613: The number of labels and their width come from the terminal, the room for
  them is for eight of at most MAX_SLK_LABEL bytes. TermFits of Slk leaves such terminals out.
- lib/libterminfo/tparm.c:65: push() compares the number of entries with the bytes of the array:
  from the 21st to the 160th entry it writes behind the arrays. ASSUME StackOverruns of MCDoupdate,
  with room for three entries, shows which strings do.
- lib/libterminfo/tparm.c:387: %P and %g do not pass over the name of the variable: it is sent as
  text (terminfo.5.in:127-134 says it names the variable). ASSUME KeepsVariables of MCDoupdate
  states what is sent.
- lib/libterminfo/tparm.c:393: %g of a variable that was not set reads what was on the stack of the
  process; the static ones of the terminal tparm() allocates are never set either. Tiparm takes what
  the variables hold as an argument; ASSUME KeepsVariables of MCDoupdate holds of all names, set
  before they are used.
- lib/libterminfo/tparm.c:171: Which parameters are strings is found by looking at the next
  operation: a width before the "s", or a percent sign sent in between, hides it, and the string is
  taken for a number and not sent. ASSUME FindsStrings of MCDoupdate holds of all sequences of four
  operations.
- lib/libterminfo/tparm.c:374: Numbers are printed as int with a format for long: what is printed of
  a negative number is undefined. `AsInt` of Tparm compares them as the bits of an int.
- lib/libterminfo/tparm.c:508: Skipping a branch passes over "%" and the character behind it: a
  string that ends with "%" is read beyond its end. Strings are sequences of whole operations in
  Tparm.
- lib/libterminfo/tputs.c:66: Only one mark behind the number of a delay is read: "*/" is not
  mandatory and the ">" is sent as text. ASSUME LosesDelays of MCDoupdate.
- lib/libterminfo/tputs.c:101: A string to be sent that begins with a digit, a point or a mark loses
  that as a delay for the end, even if it is text. ASSUME LosesDelays of MCDoupdate.
- lib/libcurses/attributes.c:444: Turning off standout goes through wstandend(), which turns off
  every attribute and the colour of the window. ASSUME AttributesSet of MCWinEdit.
- lib/libcurses/refresh.c:804: Ending standout where it is reverse video, as on xterm, ends reverse
  video on the terminal too while curses believes it is on; only the string of "me" is searched for
  the end of the alternate character set. ASSUME PenMistaken of MCWinEdit; PenFollowsCells states
  the rest.
- lib/libcurses/color.c:310: A pair counts as used when init_pair() set it, not when it is written
  in: text in a pair that was not initialised, or was before start_color() was called again, keeps
  its colours when init_pair() sets it. ASSUME FirstInitLost of MCWinEdit; ColoursFollowPairs leaves
  such programs out.
- lib/libcurses/color.c:521: __set_color() sends nothing while the pen has the pair, even if the
  colours of the pair have changed: without orig_pair the pen keeps its pair from one update to the
  next. ASSUME PenKeepsColours of MCWinEdit; ColoursFollowPairs states the rest.
- lib/libcurses/color.c:219: Pair 0 is set to the default of the terminal and then to white on black
  with the other pairs: a cell that lost its colour to an attribute is shown in either, depending on
  what was written before it. ASSUME NoColourVaries of MCWinEdit.
- lib/libcurses/color.c:482: The default colours are exchanged for terminals with setf and setb only
  once start_color() found that out; set before, as the manual has it (curses_color.3), they stay as
  they are. ASSUME PairsReadBack of MCWinEdit.
- lib/libcurses/color.c:401: init_color() stores the colour before it finds that the terminal cannot
  change it: it fails, and color_content() gives the new value. ASSUME ColourKept of MCWinEdit.
