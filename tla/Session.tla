------------------------------ MODULE Session ------------------------------
(***************************************************************************)
(* The terminal session of one screen: the modes of the terminal (tty.c),  *)
(* what endwin and a stop signal do with them and what brings the session  *)
(* back (tstp.c), and how a change of the terminal's size reaches the      *)
(* screen, its standard window and the lines ripped off it (tstp.c,        *)
(* resize.c, ripoffline.c, getch.c).                                       *)
(*                                                                         *)
(* The code is a program and two signal handlers that may run between any  *)
(* two of its statements.  So a call is not one step: todo holds the       *)
(* steps that are left of the call, each a system call or the assignments  *)
(* between two of them; a handler puts its own steps in front and what it  *)
(* interrupted goes on when they are done.  Steps are named here by        *)
(* strings, one operator says what each does.                              *)
(*                                                                         *)
(* Left out: echo(), which is on; columns (they are treated as the lines   *)
(* are); the flags nl() and intrflush() change in all three sets of modes; *)
(* VMIN and VTIME (KeyInput); def_prog_mode, whose copy the next __stopwin *)
(* overwrites, and def_shell_mode; savetty and resetty, which tty.c:580    *)
(* calls useless; a SIGWINCH handler of the program's own.  That of curses *)
(* is never taken back (__restore_winchhandler compares the handler in     *)
(* force with the one before it), so it has no state here.  One screen;    *)
(* what is on it is in Doupdate.                                           *)
(***************************************************************************)
EXTENDS Integers, Sequences, SequencesExt

CONSTANTS
    Heights,    \* numbers of lines the terminal may have
    Rips,       \* sequences of 1 and -1: lines ripped from the top, the bottom
    MaxHandlers,\* bound on stop signals being handled at a time
    Cases       \* situations the runs may include, see Allowed

ASSUME SessionAssumption ==
    /\ Heights \subseteq 3 .. 100
    /\ \A r \in Rips : r \in Seq({1, -1}) /\ Len(r) <= 2
    /\ MaxHandlers \in Nat \ {0}
    /\ Cases \subseteq {"midway", "race"}

VARIABLES
    tty,    \* the terminal: [mode, rows, ca (alternate screen in use)]
    proc,   \* "running" or "stopped"
    scr,    \* the SCREEN, see TypeOK
    LINES,  \* the global
    win,    \* [curscr, stdscr, rips]: begy, maxy and reqy of the windows
    tstp,   \* SIGTSTP: handler, otstpfn (old), tstp_set (set)
    sig,    \* [pending, blocked]: sets of signals
    todo,   \* steps left of the call and of the handlers that run
    arg,    \* argument of resizeterm
    asked,  \* ghost: the modes the program asked for
    shell   \* ghost: the modes to give back to the shell

vars == <<tty, proc, scr, LINES, win, tstp, sig, todo, arg, asked, shell>>

ShellModes == {"shell", "stty"}
Modes == ShellModes \cup {"base", "cbreak", "raw"}

(***************************************************************************)
(* The steps of __stopwin, of __restartwin, of the handler of SIGTSTP and  *)
(* of resizeterm, and of a getch that was told of a new size.              *)
(***************************************************************************)
StopWin == <<"stop_save", "stop_tstp", "stop_ca", "stop_tty">>

RestartWin == <<"re_tstp", "re_size", "re_windows", "re_orig", "re_tty",
                "re_start">>

StopHandler(unmask) ==
    StopWin \o <<"unblock", "kill">> \o RestartWin \o <<unmask>>

ResizeTermSteps == <<"rt_begin", "rt_windows", "rt_lines">>
KeyResize == ResizeTermSteps \o <<"key_resize">>

InRestart == {"re_size", "re_windows", "re_orig", "re_tty", "re_start"}

Next1 == IF todo = <<>> THEN "none" ELSE Head(todo)
Done == todo' = Tail(todo)
Skip(steps) == todo' = SubSeq(todo, Len(steps) + 1, Len(todo))

(***************************************************************************)
(* Windows.  wresize records the height asked for and bounds it by LINES;  *)
(* __resizeterm takes the height that was asked for, if any was and if the *)
(* window then ends above the last line.                                   *)
(***************************************************************************)
WResized(w, n) ==
    LET h == IF n > LINES THEN LINES ELSE n
    IN  [w EXCEPT !.maxy = IF h < 1 THEN 1 ELSE h, !.reqy = n]

TermResized(w, n) ==
    [w EXCEPT !.maxy = IF w.reqy = 0 \/ w.begy + w.reqy >= n
                       THEN n - w.begy ELSE w.reqy]

(***************************************************************************)
(* __rippedlines: lines ripped off the top (1) or off the bottom (-1).     *)
(***************************************************************************)
RippedLines(side) == Cardinality({i \in DOMAIN win.rips : win.rips[i].side = side})

(***************************************************************************)
(* __ripoffresize: the windows at the bottom follow the last line.         *)
(***************************************************************************)
BelowUpTo(rips, i) == Cardinality({j \in 1 .. i : rips[j].side = -1})

RipOffStays(rips, lines) == rips  \* mutant: the windows are not moved

RipOffResized(rips, lines) ==
    [i \in DOMAIN rips |->
        IF rips[i].side = 1 THEN rips[i]
        ELSE [rips[i] EXCEPT !.begy = lines - BelowUpTo(rips, i)]]

(***************************************************************************)
(* newterm: __ripoffscreen places the ripped lines, __newwin puts stdscr   *)
(* between them, the handlers are set and __startwin starts the screen.    *)
(***************************************************************************)
RipOffScreen(rip, lines) ==
    [i \in DOMAIN rip |->
        LET n == Cardinality({j \in 1 .. i : rip[j] = rip[i]})
        IN  [side |-> rip[i],
             begy |-> IF rip[i] = 1 THEN n - 1 ELSE lines - n]]

NewTerm(lines, rip) ==
    LET rips == RipOffScreen(rip, lines)
        top == Cardinality({i \in DOMAIN rip : rip[i] = 1})
    IN  /\ tty = [mode |-> "base", rows |-> lines, ca |-> TRUE]
        /\ scr = [orig |-> "shell", save |-> "shell", curt |-> "base",
                  useraw |-> FALSE, rawmode |-> FALSE,
                  endwin |-> FALSE, resized |-> FALSE, LINES |-> lines,
                  rewound |-> FALSE]
        /\ LINES = lines
        /\ win = [curscr |-> [begy |-> 0, maxy |-> lines, reqy |-> 0],
                  stdscr |-> [begy |-> top, maxy |-> lines - Len(rip), reqy |-> 0],
                  rips |-> rips]

Init ==
    /\ \E lines \in Heights, rip \in Rips : NewTerm(lines, rip)
    /\ tstp = [handler |-> "curses", old |-> "default", set |-> TRUE]
    /\ proc = "running"
    /\ sig = [pending |-> {}, blocked |-> {}]
    /\ todo = <<>>
    /\ arg = 0
    /\ asked = "base"
    /\ shell = "shell"

-----------------------------------------------------------------------------
(***************************************************************************)
(* __stopwin.                                                              *)
(***************************************************************************)
SaveAgain ==  \* mutant: an ended session is saved too
    Done /\ scr' = [scr EXCEPT !.save = tty.mode]

StopSave ==
    IF scr.endwin
    THEN Skip(StopWin) /\ UNCHANGED scr
    ELSE Done /\ scr' = [scr EXCEPT !.save = tty.mode]

LeaveStopHandler == tstp' = tstp  \* mutant: the handler stays

RestoreStopHandler ==
    tstp' = IF tstp.set THEN [tstp EXCEPT !.handler = tstp.old, !.set = FALSE]
            ELSE tstp

StopWinStep(step) ==
    \/ step = "stop_save" /\ StopSave
       /\ UNCHANGED <<tty, tstp>>
    \/ step = "stop_tstp" /\ Done /\ RestoreStopHandler
       /\ UNCHANGED <<tty, scr>>
    \/ step = "stop_ca" /\ Done
       /\ tty' = [tty EXCEPT !.ca = FALSE]
       /\ scr' = [scr EXCEPT !.endwin = TRUE]
       /\ UNCHANGED <<tstp>>
    \/ step = "stop_tty" /\ Done
       /\ tty' = [tty EXCEPT !.mode = scr.orig]
       /\ UNCHANGED <<scr, tstp>>

StopWinDo ==
    /\ StopWinStep(Next1)
    /\ UNCHANGED <<proc, LINES, win, sig, arg, asked, shell>>

-----------------------------------------------------------------------------
(***************************************************************************)
(* __restartwin.                                                           *)
(***************************************************************************)
SetStopHandler ==
    IF ~scr.endwin
    THEN Skip(RestartWin) /\ UNCHANGED tstp
    ELSE /\ Done
         /\ tstp' = IF tstp.set THEN tstp
                    ELSE [handler |-> "curses", old |-> tstp.handler, set |-> TRUE]

SizeTaken ==  \* mutant: the program is not told
    /\ LINES' = tty.rows
    /\ UNCHANGED scr

SizeChecked ==
    /\ LINES' = tty.rows
    /\ scr' = [scr EXCEPT !.resized = @ \/ tty.rows # LINES]

WindowsRestarted ==
    LET cur == win.curscr.maxy # LINES
        std == win.stdscr.maxy # LINES
    IN  /\ win' = [win EXCEPT !.curscr = IF cur THEN WResized(@, LINES) ELSE @,
                              !.stdscr = IF std THEN WResized(@, LINES) ELSE @]
        /\ scr' = [scr EXCEPT !.rewound = @ \/ cur \/ std]

OrigTaken == scr' = [scr EXCEPT !.orig = tty.mode]

RestartWinStep(step) ==
    \/ step = "re_tstp" /\ SetStopHandler
       /\ UNCHANGED <<tty, scr, LINES, win>>
    \/ step = "re_size" /\ Done /\ SizeChecked
       /\ UNCHANGED <<tty, win, tstp>>
    \/ step = "re_windows" /\ Done /\ WindowsRestarted
       /\ UNCHANGED <<tty, LINES, tstp>>
    \/ step = "re_orig" /\ Done /\ OrigTaken
       /\ UNCHANGED <<tty, LINES, win, tstp>>
    \/ step = "re_tty" /\ Done
       /\ tty' = [tty EXCEPT !.mode = scr.save]
       /\ UNCHANGED <<scr, LINES, win, tstp>>
    \/ step = "re_start" /\ Done
       /\ tty' = [tty EXCEPT !.ca = TRUE]
       /\ scr' = [scr EXCEPT !.endwin = FALSE]
       /\ UNCHANGED <<LINES, win, tstp>>

RestartWinDo ==
    /\ RestartWinStep(Next1)
    /\ UNCHANGED <<proc, sig, arg, asked, shell>>

-----------------------------------------------------------------------------
(***************************************************************************)
(* Signals.  While the handler of SIGTSTP runs the signal is blocked until *)
(* the handler unblocks it; with the handler gone a stop signal stops the  *)
(* process.  The cases the runs may leave out: a stop signal in the middle *)
(* of __stopwin after it gave the handler back, or of __restartwin after   *)
(* it set the handler ("midway"); a change of size in the middle of a      *)
(* getch that handles the one before ("race").                             *)
(***************************************************************************)
Handlers == Len(SelectSeq(todo, LAMBDA s : s \in {"unmask", "unmask_inner"}))

Midway ==
    \/ Next1 \in InRestart
    \/ Next1 \in {"stop_ca", "stop_tty"}

Resizing == \E i \in DOMAIN todo : todo[i] \in Range(KeyResize)

Allowed(case, holds) == holds => case \in Cases

StopHandled ==
    /\ tstp.handler = "curses"
    /\ todo' = StopHandler(IF "WINCH" \in sig.blocked THEN "unmask_inner"
                           ELSE "unmask") \o todo

Sigtstp ==
    /\ proc = "running"
    /\ "TSTP" \in sig.pending \ sig.blocked
    /\ Allowed("midway", Midway)
    /\ Allowed("race", Resizing /\ LINES # tty.rows)
    /\ \/ /\ StopHandled
          /\ sig' = [pending |-> sig.pending \ {"TSTP"}, blocked |-> {"TSTP", "WINCH"}]
          /\ UNCHANGED proc
       \/ /\ tstp.handler = "default"
          /\ proc' = "stopped"
          /\ sig' = [sig EXCEPT !.pending = @ \ {"TSTP"}]
          /\ UNCHANGED todo
    /\ UNCHANGED <<tty, scr, LINES, win, tstp, arg, asked, shell>>

(***************************************************************************)
(* The rest of the handler: unblock, stop ourselves, reset the signals.    *)
(***************************************************************************)
Unblock ==
    /\ Next1 = "unblock"
    /\ Done
    /\ sig' = [sig EXCEPT !.blocked = @ \ {"TSTP"}]
    /\ UNCHANGED <<tty, proc, scr, LINES, win, tstp, arg, asked, shell>>

Kill ==
    /\ Next1 = "kill"
    /\ Handlers <= MaxHandlers
    /\ \/ /\ tstp.handler = "default"
          /\ Done
          /\ proc' = "stopped"
          /\ UNCHANGED sig
       \/ /\ tstp.handler = "curses"
          /\ todo' = StopHandler("unmask_inner") \o Tail(todo)
          /\ sig' = [sig EXCEPT !.blocked = {"TSTP", "WINCH"}]
          /\ UNCHANGED proc
    /\ UNCHANGED <<tty, scr, LINES, win, tstp, arg, asked, shell>>

Unmask ==
    /\ Next1 \in {"unmask", "unmask_inner"}
    /\ Done
    /\ sig' = [sig EXCEPT !.blocked = IF Next1 = "unmask" THEN {} ELSE {"WINCH"}]
    /\ UNCHANGED <<tty, proc, scr, LINES, win, tstp, arg, asked, shell>>

(***************************************************************************)
(* __winch_signal_handler.  A read it interrupts ends: fgetc fails with    *)
(* EINTR and __fgetc_resize handles the new size.                          *)
(***************************************************************************)
Sigwinch ==
    /\ proc = "running"
    /\ "WINCH" \in sig.pending \ sig.blocked
    /\ Allowed("race", Resizing)
    /\ LINES' = tty.rows
    /\ scr' = [scr EXCEPT !.resized = TRUE]
    /\ sig' = [sig EXCEPT !.pending = @ \ {"WINCH"}]
    /\ IF Next1 = "read"
       THEN todo' = KeyResize \o Tail(todo) /\ arg' = LINES'
       ELSE UNCHANGED <<todo, arg>>
    /\ UNCHANGED <<tty, proc, win, tstp, asked, shell>>

-----------------------------------------------------------------------------
(***************************************************************************)
(* resizeterm and what getch does after it.  The argument was read from    *)
(* LINES before.                                                           *)
(***************************************************************************)
ResizeBegin ==
    /\ Next1 = "rt_begin"
    /\ scr' = [scr EXCEPT !.resized = TRUE]
    /\ IF arg = scr.LINES
       THEN Skip(ResizeTermSteps) /\ arg' = 0
       ELSE Done /\ UNCHANGED arg
    /\ UNCHANGED <<tty, proc, LINES, win, tstp, sig, asked, shell>>

ResizeWindows ==
    /\ Next1 = "rt_windows"
    /\ Done
    /\ win' = [win EXCEPT !.curscr = TermResized(@, arg),
                          !.stdscr = TermResized(@, arg - RippedLines(-1))]
    /\ UNCHANGED <<tty, proc, scr, LINES, tstp, sig, arg, asked, shell>>

ResizeLines ==
    /\ Next1 = "rt_lines"
    /\ Done
    /\ arg' = 0
    /\ LINES' = arg
    /\ scr' = [scr EXCEPT !.LINES = arg]
    /\ win' = [win EXCEPT !.rips = RipOffResized(@, arg)]
    /\ UNCHANGED <<tty, proc, tstp, sig, asked, shell>>

KeyResizeReturned ==
    /\ Next1 = "key_resize"
    /\ Done
    /\ scr' = [scr EXCEPT !.resized = FALSE]
    /\ arg' = 0
    /\ UNCHANGED <<tty, proc, LINES, win, tstp, sig, asked, shell>>

-----------------------------------------------------------------------------
(***************************************************************************)
(* The calls of the program.  Most restart a session that has ended.       *)
(***************************************************************************)
Restarted(steps) == IF scr.endwin THEN RestartWin \o steps ELSE steps

Idle == proc = "running" /\ todo = <<>>

ModeCalls == {"raw", "noraw", "cbreak", "nocbreak"}

(***************************************************************************)
(* What raw, noraw, cbreak and nocbreak assign before they set the modes   *)
(* of the terminal.                                                        *)
(***************************************************************************)
Assigned(s, call) ==
    CASE call = "raw" ->
           [s EXCEPT !.useraw = TRUE, !.rawmode = TRUE, !.curt = "raw"]
      [] call = "noraw" ->
           [s EXCEPT !.useraw = FALSE, !.rawmode = FALSE, !.curt = "base"]
      [] call = "cbreak" ->
           [s EXCEPT !.rawmode = TRUE, !.curt = IF s.useraw THEN "raw" ELSE "cbreak"]
      [] call = "nocbreak" ->
           [s EXCEPT !.rawmode = FALSE, !.curt = IF s.useraw THEN "raw" ELSE "base"]

ModeSteps(call) == <<call, "tcsetattr">>

ModeCall(call) ==
    /\ Idle
    /\ todo' = Restarted(ModeSteps(call))
    /\ asked' = Assigned(scr, call).curt
    /\ UNCHANGED <<tty, proc, scr, LINES, win, tstp, sig, arg, shell>>

Assign ==
    /\ Next1 \in ModeCalls
    /\ Done
    /\ scr' = Assigned(scr, Next1)
    /\ UNCHANGED <<tty, proc, LINES, win, tstp, sig, arg, asked, shell>>

TcSetAttr ==
    /\ Next1 = "tcsetattr"
    /\ Done
    /\ tty' = [tty EXCEPT !.mode = scr.curt]
    /\ UNCHANGED <<proc, scr, LINES, win, tstp, sig, arg, asked, shell>>

(***************************************************************************)
(* wgetch on a window with keypad and no delay, while echo is on.  The    *)
(* flag that tells of a new size is looked at first; if the program did    *)
(* not choose raw or cbreak mode, cbreak mode is set for the read and      *)
(* taken back after it; __delay sets the modes of the terminal too.        *)
(***************************************************************************)
ReadSteps ==
    LET weset == ~scr.rawmode
        before == IF weset THEN ModeSteps("cbreak") ELSE <<>>
        after == IF weset THEN ModeSteps("nocbreak") ELSE <<>>
    IN  Restarted(before \o <<"tcsetattr", "read">> \o after)

WGetCh ==
    /\ Idle
    /\ IF scr.resized
       THEN todo' = KeyResize /\ arg' = LINES
       ELSE todo' = ReadSteps /\ UNCHANGED arg
    /\ UNCHANGED <<tty, proc, scr, LINES, win, tstp, sig, asked, shell>>

Read ==
    /\ Next1 = "read"
    /\ Done
    /\ UNCHANGED <<tty, proc, scr, LINES, win, tstp, sig, arg, asked, shell>>

(***************************************************************************)
(* endwin and reset_shell_mode; doupdate and reset_prog_mode; resizeterm.  *)
(***************************************************************************)
EndWin ==
    /\ Idle
    /\ todo' = StopWin
    /\ UNCHANGED <<tty, proc, scr, LINES, win, tstp, sig, arg, asked, shell>>

DoUpdate ==
    /\ Idle
    /\ scr.endwin
    /\ todo' = RestartWin
    /\ UNCHANGED <<tty, proc, scr, LINES, win, tstp, sig, arg, asked, shell>>

ResizeTerm ==
    /\ Idle
    /\ todo' = ResizeTermSteps
    /\ arg' = LINES
    /\ UNCHANGED <<tty, proc, scr, LINES, win, tstp, sig, asked, shell>>

-----------------------------------------------------------------------------
(***************************************************************************)
(* The user: the stop key, fg in the shell, stty, another size of the      *)
(* terminal (a stopped process is not in the foreground and is not told).  *)
(***************************************************************************)
StopKey ==
    /\ proc = "running"
    /\ Handlers < MaxHandlers
    /\ "TSTP" \notin sig.pending
    /\ sig' = [sig EXCEPT !.pending = @ \cup {"TSTP"}]
    /\ UNCHANGED <<tty, proc, scr, LINES, win, tstp, todo, arg, asked, shell>>

Continue ==
    /\ proc = "stopped"
    /\ proc' = "running"
    /\ sig' = [sig EXCEPT !.pending = @ \ {"TSTP"}]
    /\ UNCHANGED <<tty, scr, LINES, win, tstp, todo, arg, asked, shell>>

Stty ==
    /\ proc = "stopped"
    /\ \E m \in ShellModes : tty' = [tty EXCEPT !.mode = m] /\ shell' = m
    /\ UNCHANGED <<proc, scr, LINES, win, tstp, sig, todo, arg, asked>>

Resize ==
    /\ Allowed("race", Resizing)
    /\ \E h \in Heights \ {tty.rows} : tty' = [tty EXCEPT !.rows = h]
    /\ sig' = IF proc = "running" THEN [sig EXCEPT !.pending = @ \cup {"WINCH"}] ELSE sig
    /\ UNCHANGED <<proc, scr, LINES, win, tstp, todo, arg, asked, shell>>

Proceed ==
    \/ StopWinDo
    \/ RestartWinDo
    \/ Unblock
    \/ Kill
    \/ Unmask
    \/ ResizeBegin
    \/ ResizeWindows
    \/ ResizeLines
    \/ KeyResizeReturned
    \/ Assign
    \/ TcSetAttr
    \/ Read

Next ==
    \/ proc = "running" /\ Proceed
    \/ Sigtstp
    \/ Sigwinch
    \/ \E call \in ModeCalls : ModeCall(call)
    \/ WGetCh
    \/ EndWin
    \/ DoUpdate
    \/ ResizeTerm
    \/ StopKey
    \/ Continue
    \/ Stty
    \/ Resize

Spec == Init /\ [][Next]_vars

-----------------------------------------------------------------------------
Steps == {"stop_save", "stop_tstp", "stop_ca", "stop_tty", "unblock", "kill", "re_tstp"}
            \cup InRestart \cup {"unmask", "unmask_inner"} \cup ModeCalls
            \cup {"rt_begin", "rt_windows", "rt_lines", "key_resize", "tcsetattr", "read"}

Window == [begy : 0 .. 100, maxy : 1 .. 100, reqy : 0 .. 100]

(***************************************************************************)
(* Every variable has its type.                                            *)
(***************************************************************************)
TypeOK ==
    /\ tty \in [mode : Modes, rows : Heights, ca : BOOLEAN]
    /\ proc \in {"running", "stopped"}
    /\ scr \in [orig : Modes, save : Modes, curt : {"base", "cbreak", "raw"},
                useraw : BOOLEAN, rawmode : BOOLEAN, endwin : BOOLEAN, resized : BOOLEAN,
                LINES : Heights, rewound : BOOLEAN]
    /\ LINES \in Heights
    /\ win \in [curscr : Window, stdscr : Window,
                rips : Seq([side : {1, -1}, begy : 0 .. 100])]
    /\ tstp \in [handler : {"curses", "default"}, old : {"curses", "default"},
                 set : BOOLEAN]
    /\ sig \in [pending : SUBSET {"TSTP", "WINCH"}, blocked : SUBSET {"TSTP", "WINCH"}]
    /\ todo \in Seq(Steps)
    /\ arg \in Heights \cup {0}
    /\ asked \in {"base", "cbreak", "raw"}
    /\ shell \in Modes

(***************************************************************************)
(* A program that runs and whose session has not ended finds the terminal  *)
(* in the modes it asked for last, however often it was stopped and went   *)
(* on since, wherever in a call the stop signal came, and whatever stty    *)
(* did to the terminal meanwhile; and a getch that needs cbreak mode for   *)
(* itself leaves the modes as they were (__stopwin, __restartwin, wgetch). *)
(* While the process is stopped, and after endwin, the terminal has the    *)
(* modes the shell had, or those stty gave it since, and shows the shell's screen.   *)
(***************************************************************************)
ModesApart ==
    /\ TypeOK
    /\ Idle /\ ~scr.endwin => tty.mode = asked
    /\ proc = "stopped" \/ (scr.endwin /\ todo = <<>>) => tty.mode = shell /\ ~tty.ca

(***************************************************************************)
(* When the handler of SIGTSTP sends the signal again to stop the process  *)
(* the handler is not installed and the shell has the terminal: the signal *)
(* stops the process, in the shell's modes and on the shell's screen,      *)
(* instead of calling the handler from within itself                       *)
(* (__stop_signal_handler).                                                *)
(***************************************************************************)
StopsItself ==
    Next1 = "kill" => tstp.handler = "default" /\ tty.mode = shell /\ ~tty.ca

(***************************************************************************)
(* A change of the terminal's size is never forgotten: unless a SIGWINCH   *)
(* is due, or the next getch will return KEY_RESIZE, LINES and the screen  *)
(* know the terminal's size.  It may have changed while the process was    *)
(* stopped, when no signal tells of it (__restartwin), or during the read  *)
(* (__fgetc_resize).                                                       *)
(***************************************************************************)
Quiet == Idle /\ ~scr.endwin /\ ~scr.resized /\ sig.pending = {}

ResizeNoticed == Quiet => LINES = tty.rows /\ scr.LINES = tty.rows

(***************************************************************************)
(* Once a change of size was handled, curscr covers the lines of the       *)
(* terminal, and stdscr and the ripped lines divide them.                  *)
(***************************************************************************)
Rows(w) == w.begy .. w.begy + w.maxy - 1

Fits ==
    LET ripped == {win.rips[i].begy : i \in DOMAIN win.rips}
    IN  /\ Rows(win.curscr) = 0 .. tty.rows - 1
        /\ Rows(win.stdscr) = (0 .. tty.rows - 1) \ ripped
        /\ \A i, j \in DOMAIN win.rips : win.rips[i].begy = win.rips[j].begy => i = j

ScreenFits == Quiet => Fits

(***************************************************************************)
(* The same of a session in which no restart has resized a window: one     *)
(* that has makes __resizeterm keep the height it gave, and gives stdscr   *)
(* the ripped lines (see ScreenFits).                                      *)
(***************************************************************************)
ScreenFitsAwake == Quiet /\ ~scr.rewound => Fits
=============================================================================
