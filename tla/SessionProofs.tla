---------------------------- MODULE SessionProofs ----------------------------
(***************************************************************************)
(* The session of Session.tla keeps the modes of shell and program apart,  *)
(* stops when it is told to and notices every change of size, for any      *)
(* number of handlers one within the other, any heights and any lines      *)
(* ripped off, as long as no signal arrives "midway" or in a "race".       *)
(*                                                                         *)
(* A handler may come between other steps of a call, and another one       *)
(* within it, so the invariant cannot say what todo is.  It says instead   *)
(* which step may come after which (Follows), what the state is at each    *)
(* step (AtStep), and what the steps still to come will make of the modes, *)
(* of the size and of the windows.  A handler leaves all of that as it     *)
(* found it, and whatever it interrupted goes on as if nothing had been.   *)
(***************************************************************************)
EXTENDS Session, FiniteSetTheorems, SequenceTheorems, TLAPS

Unmasks == {"unmask", "unmask_inner"}
ResizeSteps == {"rt_begin", "rt_windows", "rt_lines"}
KeySteps == ResizeSteps \cup {"key_resize"}
ReadWrite == ModeCalls \cup {"tcsetattr", "read"}

\* The step next may come after step; "none" comes after the last one.
MayFollow(step, next) ==
  \/ step = "stop_save" /\ next = "stop_tstp"
  \/ step = "stop_tstp" /\ next = "stop_ca"
  \/ step = "stop_ca" /\ next = "stop_tty"
  \/ step = "stop_tty" /\ next \in {"none", "unblock"}
  \/ step = "unblock" /\ next = "kill"
  \/ step = "kill" /\ next = "re_tstp"
  \/ step = "re_tstp" /\ next = "re_size"
  \/ step = "re_size" /\ next = "re_windows"
  \/ step = "re_windows" /\ next = "re_orig"
  \/ step = "re_orig" /\ next = "re_tty"
  \/ step = "re_tty" /\ next = "re_start"
  \/ step = "re_start" /\ next \in {"none", "tcsetattr"} \cup Unmasks \cup ModeCalls
  \/ step \in Unmasks /\ next \in {"none", "stop_save", "stop_tstp"} \cup Unmasks \cup KeySteps
                                  \cup ReadWrite
  \/ step = "rt_begin" /\ next = "rt_windows"
  \/ step = "rt_windows" /\ next = "rt_lines"
  \/ step = "rt_lines" /\ next \in {"none", "key_resize"}
  \/ step = "key_resize" /\ next \in {"none", "nocbreak"}
  \/ step \in ModeCalls /\ next = "tcsetattr"
  \/ step = "tcsetattr" /\ next \in {"none", "tcsetattr", "read"}
  \/ step = "read" /\ next \in {"none", "nocbreak"}

NextOf(s) == IF s = <<>> THEN "none" ELSE Head(s)

Has(s, step) == \E i \in DOMAIN s : s[i] = step

Follows(s) ==
  \A i \in DOMAIN s : MayFollow(s[i], IF i = Len(s) THEN "none" ELSE s[i + 1])

\* Modes are changed at the end of a call, sizes before that, and cbreak mode is
\* taken back after it was set, if modes change twice.
MayPrecede(x, y) ==
  /\ x \in ReadWrite => y \in ReadWrite
  /\ x = "rt_begin" => y \in {"rt_windows", "rt_lines", "key_resize"} \cup ReadWrite
  /\ x = "rt_windows" => y \in {"rt_lines", "key_resize"} \cup ReadWrite
  /\ x = "rt_lines" => y \in {"key_resize"} \cup ReadWrite
  /\ x = "key_resize" => y \in ReadWrite
  /\ x \in ModeCalls /\ y \in ModeCalls => x = "cbreak" /\ y = "nocbreak"

Ordered(s) == \A i, j \in DOMAIN s : i < j => MayPrecede(s[i], s[j])

-----------------------------------------------------------------------------
ToDo(step) == Has(todo, step)

\* The session is on, and a stop signal calls the handler.
Awake == /\ ~scr.endwin /\ tstp.handler = "curses" /\ tstp.set /\ tty.ca
         /\ scr.orig = shell

\* The session has ended, and a stop signal stops the process.
Asleep == /\ scr.endwin /\ tstp.handler = "default" /\ ~tstp.set /\ ~tty.ca
          /\ tty.mode = shell

AtStep(step) ==
  /\ step \in {"none", "stop_save"} \cup KeySteps => Awake \/ Asleep
  /\ step \in {"stop_tstp"} \cup Unmasks \cup ReadWrite => Awake
  /\ step \in {"unblock", "kill", "re_tstp"} => Asleep
  /\ step = "stop_ca" => ~scr.endwin /\ tstp.handler = "default" /\ ~tstp.set /\ scr.orig = shell
  /\ step = "stop_tty" => scr.endwin /\ tstp.handler = "default" /\ ~tstp.set /\ ~tty.ca
                          /\ scr.orig = shell
  /\ step \in InRestart => scr.endwin /\ tstp.handler = "curses" /\ tstp.set
  /\ step \in {"re_size", "re_windows", "re_orig"} => tty.mode = shell
  /\ step \in {"re_tty", "re_start"} => scr.orig = shell
  /\ step = "re_start" => tty.mode = scr.save

\* While the session has ended endwin() ends at once, and what else goes on changes
\* no modes.
AsleepLeft ==
  Asleep => /\ Next1 = "stop_save" => Len(todo) = 4
            /\ Next1 \in KeySteps => \A step : ToDo(step) => step \in KeySteps

\* A stop signal that found the handler gone has stopped the process.
Stopped == proc = "stopped" => Asleep /\ Next1 # "stop_tty"

StateInv ==
  /\ Follows(todo) /\ Ordered(todo) /\ tstp.old = "default"
  /\ AtStep(Next1) /\ AsleepLeft /\ Stopped

-----------------------------------------------------------------------------
(* The modes *)

UsualMode == IF scr.useraw THEN "raw" ELSE "base"

\* What the program asked for, by the calls that are not over yet.
AskedMode ==
  IF ToDo("raw") THEN "raw"
  ELSE IF ToDo("noraw") THEN "base"
  ELSE IF ToDo("nocbreak") THEN UsualMode
  ELSE IF ToDo("cbreak") THEN IF scr.useraw THEN "raw" ELSE "cbreak"
  ELSE scr.curt

\* The modes of the session, which are those of the terminal while it is on.
SessionMode == IF scr.endwin THEN scr.save ELSE tty.mode

\* The stop handler is given back by a __stopwin() that has saved the modes.
GivesBack(s) == \E i \in DOMAIN s : s[i] = "stop_tstp" /\ (i = 1 \/ s[i - 1] # "stop_save")

Saved == Next1 = "stop_ca" \/ GivesBack(todo)

ModeInv ==
  /\ asked = AskedMode
  /\ ~scr.rawmode => scr.curt = UsualMode
  /\ ~ToDo("tcsetattr") => SessionMode = asked
  /\ Saved /\ ~scr.endwin => scr.save = tty.mode

-----------------------------------------------------------------------------
(* The size *)

SizeInv ==
  /\ \/ LINES = tty.rows
     \/ "WINCH" \in sig.pending
     \/ scr.endwin /\ Next1 \notin {"re_windows", "re_orig", "re_tty", "re_start"}
  /\ scr.LINES = LINES \/ scr.resized
  /\ (\E step \in ResizeSteps : ToDo(step)) => arg = LINES
  /\ ToDo("key_resize") /\ ~ToDo("rt_lines") => scr.LINES = LINES
  /\ (\E step \in KeySteps : ToDo(step)) /\ Next1 \notin KeySteps => LINES = tty.rows

-----------------------------------------------------------------------------
(* The windows *)

Placed(rips, lines) == RipOffResized(rips, lines) = rips

Tops(rips) == Cardinality({i \in DOMAIN rips : rips[i].side = 1})

\* curscr and stdscr cover n lines.
Cover(n) ==
  /\ win.curscr = [begy |-> 0, maxy |-> n, reqy |-> 0]
  /\ win.stdscr = [begy |-> Tops(win.rips), maxy |-> n - Len(win.rips), reqy |-> 0]

\* The lines ripped off the top are the first ones.
TopsFirst ==
  \A i \in DOMAIN win.rips : win.rips[i].side = 1 =>
    win.rips[i].begy + 1 = Cardinality({j \in 1 .. i : win.rips[j].side = 1})

WinInv ==
  /\ Len(win.rips) <= 2 /\ TopsFirst
  /\ win.curscr.begy = 0 /\ win.stdscr.begy = Tops(win.rips)
  /\ Placed(win.rips, scr.LINES)
  /\ ~scr.rewound => Cover(IF ToDo("rt_lines") /\ ~ToDo("rt_windows") THEN arg ELSE scr.LINES)

SessionInv == TypeOK /\ StateInv /\ ModeInv /\ SizeInv /\ WinInv

-----------------------------------------------------------------------------
(* The steps left of a call *)

\* t is what is left of s after n steps.
Left(t, s, n) ==
  /\ t \in Seq(Steps) /\ Len(s) = Len(t) + n
  /\ \A i \in 1 .. Len(t) : t[i] = s[i + n]

LEMMA TailLeft ==
  ASSUME NEW s \in Seq(Steps), s # <<>>
  PROVE  Left(Tail(s), s, 1) /\ s[1] = NextOf(s) /\ Len(s) \in Nat \ {0}
BY DEF Left, NextOf

LEMMA LeftFollows ==
  ASSUME NEW s \in Seq(Steps), NEW n \in Nat, NEW t, Left(t, s, n), Follows(s), Ordered(s)
  PROVE  Follows(t) /\ Ordered(t)
<1>0. PICK k \in Nat : k = Len(t)
  BY DEF Left
<1>1. /\ DOMAIN s = 1 .. k + n /\ DOMAIN t = 1 .. k /\ Len(t) = k
      /\ Len(s) = k + n /\ \A i \in 1 .. k : t[i] = s[i + n]
  BY <1>0 DEF Left
<1>2. \A i \in 1 .. k : i + n \in 1 .. k + n
  BY <1>0
<1>3. \A i \in 1 .. k : MayFollow(t[i], IF i = k THEN "none" ELSE t[i + 1])
  <2> TAKE i \in 1 .. k
  <2>1. MayFollow(s[i + n], IF i + n = k + n THEN "none" ELSE s[(i + n) + 1])
    BY <1>1, <1>2 DEF Follows
  <2>2. t[i] = s[i + n] /\ (i + n = k + n <=> i = k)
    BY <1>0, <1>1
  <2>3. i # k => t[i + 1] = s[(i + n) + 1]
    <3>1. i # k => i + 1 \in 1 .. k /\ (i + 1) + n = (i + n) + 1
      BY <1>0
    <3> QED
      BY <1>1, <3>1
  <2> QED
    BY <2>1, <2>2, <2>3
<1>4. Follows(t)
  BY <1>1, <1>3 DEF Follows
<1>5. Ordered(t)
  <2> SUFFICES ASSUME NEW i \in 1 .. k, NEW j \in 1 .. k, i < j
               PROVE  MayPrecede(t[i], t[j])
    BY <1>1 DEF Ordered
  <2>1. i + n < j + n /\ i + n \in DOMAIN s /\ j + n \in DOMAIN s
    BY <1>0, <1>1, <1>2
  <2>2. t[i] = s[i + n] /\ t[j] = s[j + n]
    BY <1>1
  <2> QED
    BY <2>1, <2>2 DEF Ordered
<1> QED
  BY <1>4, <1>5

LEMMA NextFollows ==
  ASSUME NEW s \in Seq(Steps), NEW n \in Nat \ {0}, NEW t, Left(t, s, n), Follows(s)
  PROVE  MayFollow(s[n], NextOf(t))
<1>1. t \in Seq(Steps) /\ Len(s) = Len(t) + n /\ n \in DOMAIN s
  BY DEF Left
<1>2. MayFollow(s[n], IF n = Len(s) THEN "none" ELSE s[n + 1])
  BY <1>1 DEF Follows
<1>3. CASE t = <<>>
  BY <1>1, <1>2, <1>3 DEF NextOf
<1>4. CASE t # <<>>
  <2>1. t[1] = s[1 + n] /\ Len(t) > 0 /\ Head(t) = t[1]
    BY <1>1, <1>4 DEF Left
  <2> QED
    BY <1>1, <1>2, <1>4, <2>1 DEF NextOf
<1> QED
  BY <1>3, <1>4

\* What is to do after a step was to do before it.
LEMMA TailHas ==
  ASSUME NEW s \in Seq(Steps), s # <<>>, NEW step
  PROVE  Has(s, step) <=> step = NextOf(s) \/ Has(Tail(s), step)
<1> DEFINE t == Tail(s)
<1>1. Left(t, s, 1) /\ s[1] = NextOf(s) /\ Len(s) \in Nat \ {0}
  BY TailLeft
<1>2. t \in Seq(Steps) /\ Len(s) = Len(t) + 1 /\ \A i \in 1 .. Len(t) : t[i] = s[i + 1]
  BY <1>1 DEF Left
<1> HIDE DEF t
<1>3. DOMAIN s = 1 .. Len(s) /\ DOMAIN t = 1 .. Len(t) /\ Len(t) \in Nat
  BY <1>2
<1>4. ASSUME Has(t, step)
      PROVE  Has(s, step)
  <2>1. PICK i \in 1 .. Len(t) : t[i] = step
    BY <1>3, <1>4 DEF Has
  <2>2. i + 1 \in 1 .. Len(s) /\ s[i + 1] = step
    BY <1>2, <1>3, <2>1
  <2> QED
    BY <1>3, <2>2 DEF Has
<1>5. step = NextOf(s) => Has(s, step)
  BY <1>1, <1>3 DEF Has
<1>6. ASSUME Has(s, step), step # NextOf(s)
      PROVE  Has(t, step)
  <2>1. PICK i \in 1 .. Len(s) : s[i] = step
    BY <1>3, <1>6 DEF Has
  <2>2. i # 1
    BY <1>1, <1>6, <2>1
  <2>3. i - 1 \in 1 .. Len(t) /\ t[i - 1] = s[(i - 1) + 1]
    BY <1>2, <1>3, <2>2
  <2>4. t[i - 1] = step
    BY <2>1, <2>3
  <2> QED
    BY <1>3, <2>3, <2>4 DEF Has
<1> QED
  BY <1>4, <1>5, <1>6 DEF t

\* r is s after the steps of a.
Joins(r, a, s) ==
  /\ r \in Seq(Steps) /\ Len(r) = Len(a) + Len(s)
  /\ \A i \in 1 .. Len(a) : r[i] = a[i]
  /\ \A i \in 1 .. Len(s) : r[Len(a) + i] = s[i]

LEMMA ConcatJoins ==
  ASSUME NEW a \in Seq(Steps), NEW s \in Seq(Steps)
  PROVE  Joins(a \o s, a, s)
BY ConcatProperties DEF Joins

LEMMA JoinFollows ==
  ASSUME NEW a \in Seq(Steps), NEW s \in Seq(Steps), NEW r, Joins(r, a, s), a # <<>>,
         \A i \in 1 .. Len(a) : i < Len(a) => MayFollow(a[i], a[i + 1]),
         MayFollow(a[Len(a)], NextOf(s)), Follows(s)
  PROVE  Follows(r)
<1> DEFINE k == Len(a)
           m == Len(s)
<1>1. k \in Nat \ {0} /\ m \in Nat /\ DOMAIN r = 1 .. k + m /\ Len(r) = k + m
      /\ DOMAIN s = 1 .. m
  BY DEF Joins
<1>2. \A i \in 1 .. k : r[i] = a[i]
  BY DEF Joins
<1>3. \A i \in 1 .. m : r[k + i] = s[i]
  BY DEF Joins
<1>4. NextOf(s) = IF m = 0 THEN "none" ELSE s[1]
  BY DEF NextOf
<1>8. (\A i \in 1 .. k : i < k => MayFollow(a[i], a[i + 1])) /\ MayFollow(a[k], NextOf(s))
  OBVIOUS
<1>9. \A j \in 1 .. m : MayFollow(s[j], IF j = m THEN "none" ELSE s[j + 1])
  BY <1>1 DEF Follows
<1> HIDE DEF k, m
<1> SUFFICES ASSUME NEW i \in 1 .. k + m
             PROVE  MayFollow(r[i], IF i = k + m THEN "none" ELSE r[i + 1])
  BY <1>1 DEF Follows
<1>5. CASE i < k
  <2>1. i \in 1 .. k /\ i + 1 \in 1 .. k /\ i # k + m
    BY <1>1, <1>5
  <2>2. r[i] = a[i] /\ r[i + 1] = a[i + 1] /\ MayFollow(a[i], a[i + 1])
    BY <1>2, <1>5, <1>8, <2>1
  <2> QED
    BY <2>1, <2>2
<1>6. CASE i = k
  <2>1. r[i] = a[k] /\ (i = k + m <=> m = 0)
    BY <1>1, <1>2, <1>6
  <2>2. m # 0 => r[i + 1] = s[1]
    BY <1>1, <1>3, <1>6
  <2> QED
    BY <1>4, <1>8, <2>1, <2>2
<1>7. CASE k < i
  <2>1. PICK j \in 1 .. m : i = k + j
    <3>1. i - k \in 1 .. m /\ i = k + (i - k)
      BY <1>1, <1>7
    <3> QED
      BY <3>1
  <2>2. r[i] = s[j] /\ MayFollow(s[j], IF j = m THEN "none" ELSE s[j + 1])
    BY <1>3, <1>9, <2>1
  <2>3. i = k + m <=> j = m
    BY <1>1, <2>1
  <2>4. ASSUME j # m
        PROVE  r[i + 1] = s[j + 1]
    <3>1. j + 1 \in 1 .. m /\ i + 1 = k + (j + 1)
      BY <1>1, <2>1, <2>4
    <3>2. r[k + (j + 1)] = s[j + 1]
      BY <1>3, <3>1
    <3> QED
      BY <3>1, <3>2
  <2> QED
    BY <2>2, <2>3, <2>4
<1> QED
  BY <1>1, <1>5, <1>6, <1>7

LEMMA JoinHas ==
  ASSUME NEW a \in Seq(Steps), NEW s \in Seq(Steps), NEW r, Joins(r, a, s), NEW step
  PROVE  Has(r, step) <=> Has(a, step) \/ Has(s, step)
<1> DEFINE k == Len(a)
           m == Len(s)
<1>1. k \in Nat /\ m \in Nat /\ DOMAIN r = 1 .. k + m
      /\ DOMAIN s = 1 .. m /\ DOMAIN a = 1 .. k
      /\ (\A i \in 1 .. k : r[i] = a[i])
      /\ (\A i \in 1 .. m : r[k + i] = s[i])
  BY DEF Joins
<1> HIDE DEF k, m
<1>2. Has(a, step) => Has(r, step)
  <2>1. \A i \in 1 .. k : i \in 1 .. k + m
    BY <1>1
  <2> QED
    BY <1>1, <2>1 DEF Has
<1>3. Has(s, step) => Has(r, step)
  <2>1. \A i \in 1 .. m : k + i \in 1 .. k + m
    BY <1>1
  <2> QED
    BY <1>1, <2>1 DEF Has
<1>4. ASSUME NEW i \in 1 .. k + m, r[i] = step
      PROVE  Has(a, step) \/ Has(s, step)
  <2>1. CASE i <= k
    BY <1>1, <1>4, <2>1 DEF Has
  <2>2. CASE k < i
    <3>1. i - k \in 1 .. m /\ i = k + (i - k)
      BY <1>1, <2>2
    <3>2. s[i - k] = step
      BY <1>1, <1>4, <3>1
    <3> QED
      BY <1>1, <3>1, <3>2 DEF Has
  <2> QED
    BY <1>1, <2>1, <2>2
<1> QED
  BY <1>1, <1>2, <1>3, <1>4 DEF Has

LEMMA JoinOrdered ==
  ASSUME NEW a \in Seq(Steps), NEW s \in Seq(Steps), NEW r, Joins(r, a, s),
         Ordered(a), Ordered(s), \A x, y : Has(a, x) /\ Has(s, y) => MayPrecede(x, y)
  PROVE  Ordered(r)
<1> DEFINE k == Len(a)
           m == Len(s)
<1>1. k \in Nat /\ m \in Nat /\ DOMAIN r = 1 .. k + m
      /\ DOMAIN s = 1 .. m /\ DOMAIN a = 1 .. k
      /\ (\A i \in 1 .. k : r[i] = a[i])
      /\ (\A i \in 1 .. m : r[k + i] = s[i])
  BY DEF Joins
<1> HIDE DEF k, m
<1>2. \A i, j \in 1 .. k : i < j => MayPrecede(a[i], a[j])
  BY <1>1 DEF Ordered
<1>3. \A i, j \in 1 .. m : i < j => MayPrecede(s[i], s[j])
  BY <1>1 DEF Ordered
<1>4. \A i \in 1 .. k, j \in 1 .. m : MayPrecede(a[i], s[j])
  BY <1>1 DEF Has
<1> SUFFICES ASSUME NEW i \in 1 .. k + m, NEW j \in 1 .. k + m, i < j
             PROVE  MayPrecede(r[i], r[j])
  BY <1>1 DEF Ordered
<1>5. \A n \in 1 .. k + m : n <= k \/ (n - k \in 1 .. m /\ n = k + (n - k))
  BY <1>1
<1>6. CASE j <= k
  <2>1. i \in 1 .. k /\ j \in 1 .. k
    BY <1>1, <1>6
  <2> QED
    BY <1>1, <1>2, <2>1
<1>7. CASE i <= k /\ k < j
  <2>1. i \in 1 .. k /\ j - k \in 1 .. m /\ r[j] = s[j - k]
    BY <1>1, <1>5, <1>7
  <2> QED
    BY <1>1, <1>4, <2>1
<1>8. CASE k < i
  <2>1. i - k \in 1 .. m /\ j - k \in 1 .. m /\ i - k < j - k /\ r[i] = s[i - k] /\ r[j] = s[j - k]
    BY <1>1, <1>5, <1>8
  <2> QED
    BY <1>3, <2>1
<1> QED
  BY <1>1, <1>6, <1>7, <1>8

LEMMA TailGivesBack ==
  ASSUME NEW s \in Seq(Steps), s # <<>>, GivesBack(Tail(s)), NextOf(s) # "stop_save"
  PROVE  GivesBack(s)
<1> DEFINE t == Tail(s)
<1>1. Left(t, s, 1) /\ s[1] = NextOf(s) /\ Len(s) \in Nat \ {0}
  BY TailLeft
<1>2. t \in Seq(Steps) /\ Len(s) = Len(t) + 1 /\ \A i \in 1 .. Len(t) : t[i] = s[i + 1]
  BY <1>1 DEF Left
<1>3. PICK i \in DOMAIN t : t[i] = "stop_tstp" /\ (i = 1 \/ t[i - 1] # "stop_save")
  BY DEF GivesBack
<1> HIDE DEF t
<1>4. PICK k \in Nat : k = Len(t) /\ DOMAIN s = 1 .. k + 1 /\ DOMAIN t = 1 .. k
  BY <1>2
<1>5. i + 1 \in DOMAIN s /\ s[i + 1] = "stop_tstp" /\ i + 1 # 1
  BY <1>2, <1>3, <1>4
<1>6. s[(i + 1) - 1] # "stop_save"
  <2>1. CASE i = 1
    BY <1>1, <2>1
  <2>2. CASE i # 1
    <3>1. i - 1 \in 1 .. k /\ (i - 1) + 1 = i /\ (i + 1) - 1 = i
      BY <1>4, <2>2
    <3>2. t[i - 1] = s[(i - 1) + 1]
      BY <1>2, <1>4, <3>1
    <3> QED
      BY <1>3, <2>2, <3>1, <3>2
  <2> QED
    BY <2>1, <2>2
<1> QED
  BY <1>5, <1>6 DEF GivesBack

LEMMA JoinGivesBack ==
  ASSUME NEW a \in Seq(Steps), NEW s \in Seq(Steps), NEW r, Joins(r, a, s), GivesBack(r)
  PROVE  GivesBack(a) \/ GivesBack(s)
<1> DEFINE k == Len(a)
           m == Len(s)
<1>1. k \in Nat /\ m \in Nat /\ DOMAIN r = 1 .. k + m
      /\ DOMAIN s = 1 .. m /\ DOMAIN a = 1 .. k
      /\ (\A i \in 1 .. k : r[i] = a[i])
      /\ (\A i \in 1 .. m : r[k + i] = s[i])
  BY DEF Joins
<1> HIDE DEF k, m
<1>2. PICK i \in 1 .. k + m : r[i] = "stop_tstp" /\ (i = 1 \/ r[i - 1] # "stop_save")
  BY <1>1 DEF GivesBack
<1>3. CASE i <= k
  <2>1. i \in 1 .. k /\ r[i] = a[i]
    BY <1>1, <1>3
  <2>2. i # 1 => i - 1 \in 1 .. k /\ r[i - 1] = a[i - 1]
    BY <1>1, <2>1
  <2> QED
    BY <1>1, <1>2, <2>1, <2>2 DEF GivesBack
<1>4. CASE k < i
  <2>1. PICK j \in 1 .. m : i = k + j
    <3>1. i - k \in 1 .. m /\ i = k + (i - k)
      BY <1>1, <1>4
    <3> QED
      BY <3>1
  <2>2. s[j] = "stop_tstp"
    BY <1>1, <1>2, <2>1
  <2>3. j # 1 => j - 1 \in 1 .. m /\ i # 1 /\ i - 1 = k + (j - 1)
    BY <1>1, <2>1
  <2>4. j # 1 => r[i - 1] = s[j - 1]
    BY <1>1, <2>3
  <2> QED
    BY <1>1, <1>2, <2>2, <2>3, <2>4 DEF GivesBack
<1> QED
  BY <1>1, <1>3, <1>4

-----------------------------------------------------------------------------
(* The calls and the handlers *)

LEMMA StepsAre ==
  /\ {"stop_save", "stop_tstp", "stop_ca", "stop_tty", "unblock", "kill"} \subseteq Steps
  /\ {"re_tstp", "re_size", "re_windows", "re_orig", "re_tty", "re_start"} \subseteq Steps
  /\ Unmasks \subseteq Steps /\ KeySteps \subseteq Steps /\ ReadWrite \subseteq Steps
BY DEF Steps, InRestart, Unmasks, KeySteps, ResizeSteps, ReadWrite

LEMMA KeyResizeSteps ==
  /\ KeyResize \in Seq(Steps) /\ Len(KeyResize) = 4
  /\ KeyResize[1] = "rt_begin" /\ KeyResize[2] = "rt_windows" /\ KeyResize[3] = "rt_lines"
  /\ KeyResize[4] = "key_resize"
<1> DEFINE k == <<"rt_begin", "rt_windows", "rt_lines">>
           l == <<"key_resize">>
<1>1. k \in Seq(Steps) /\ l \in Seq(Steps) /\ Len(k) = 3 /\ Len(l) = 1
      /\ k[1] = "rt_begin" /\ k[2] = "rt_windows" /\ k[3] = "rt_lines" /\ l[1] = "key_resize"
  BY StepsAre DEF KeySteps, ResizeSteps
<1>2. KeyResize = k \o l
  BY DEF KeyResize, ResizeTermSteps
<1> HIDE DEF k, l
<1>3. Joins(k \o l, k, l)
  BY ONLY <1>1, ConcatJoins
<1>4. /\ k \o l \in Seq(Steps) /\ Len(k \o l) = 4
      /\ \A i \in 1 .. 3 : (k \o l)[i] = k[i]
      /\ (k \o l)[4] = l[1]
  BY ONLY <1>1, <1>3 DEF Joins
<1> QED
  BY <1>1, <1>2, <1>4

LEMMA HandlerSteps ==
  ASSUME NEW u \in Unmasks
  PROVE  LET h == StopHandler(u)
         IN  /\ h \in Seq(Steps) /\ Len(h) = 13
             /\ h[1] = "stop_save" /\ h[2] = "stop_tstp" /\ h[3] = "stop_ca" /\ h[4] = "stop_tty"
             /\ h[5] = "unblock" /\ h[6] = "kill" /\ h[7] = "re_tstp" /\ h[8] = "re_size"
             /\ h[9] = "re_windows" /\ h[10] = "re_orig" /\ h[11] = "re_tty"
             /\ h[12] = "re_start" /\ h[13] = u
<1> DEFINE k == <<"unblock", "kill">>
           l == <<u>>
           a == StopWin \o k
           b == a \o RestartWin
           h == b \o l
<1>1. /\ StopWin \in Seq(Steps) /\ Len(StopWin) = 4 /\ StopWin[1] = "stop_save"
      /\ StopWin[2] = "stop_tstp" /\ StopWin[3] = "stop_ca" /\ StopWin[4] = "stop_tty"
  BY StepsAre DEF StopWin
<1>2. k \in Seq(Steps) /\ Len(k) = 2 /\ k[1] = "unblock" /\ k[2] = "kill"
  BY StepsAre
<1>3. /\ RestartWin \in Seq(Steps) /\ Len(RestartWin) = 6 /\ RestartWin[1] = "re_tstp"
      /\ RestartWin[2] = "re_size" /\ RestartWin[3] = "re_windows" /\ RestartWin[4] = "re_orig"
      /\ RestartWin[5] = "re_tty" /\ RestartWin[6] = "re_start"
  BY StepsAre DEF RestartWin
<1>4. l \in Seq(Steps) /\ Len(l) = 1 /\ l[1] = u
  BY StepsAre
<1>5. StopHandler(u) = h
  BY DEF StopHandler
<1> HIDE DEF k, l
<1>6. /\ a \in Seq(Steps) /\ Len(a) = 6 /\ (\A i \in 1 .. 4 : a[i] = StopWin[i])
      /\ a[5] = k[1] /\ a[6] = k[2]
  <2>1. Joins(a, StopWin, k)
    BY ONLY <1>1, <1>2, ConcatJoins
  <2> HIDE DEF a
  <2> QED
    BY ONLY <1>1, <1>2, <2>1 DEF Joins
<1> HIDE DEF a
<1>7. /\ b \in Seq(Steps) /\ Len(b) = 12 /\ (\A i \in 1 .. 6 : b[i] = a[i])
      /\ (\A i \in 1 .. 6 : b[6 + i] = RestartWin[i])
  <2>1. Joins(b, a, RestartWin)
    BY ONLY <1>3, <1>6, ConcatJoins
  <2> HIDE DEF b
  <2> QED
    BY ONLY <1>3, <1>6, <2>1 DEF Joins
<1> HIDE DEF b
<1>8. /\ h \in Seq(Steps) /\ Len(h) = 13 /\ (\A i \in 1 .. 12 : h[i] = b[i]) /\ h[13] = l[1]
  <2>1. Joins(h, b, l)
    BY ONLY <1>4, <1>7, ConcatJoins
  <2> HIDE DEF h
  <2> QED
    BY ONLY <1>4, <1>7, <2>1 DEF Joins
<1>9. b[7] = RestartWin[1] /\ b[8] = RestartWin[2] /\ b[9] = RestartWin[3]
      /\ b[10] = RestartWin[4] /\ b[11] = RestartWin[5] /\ b[12] = RestartWin[6]
  BY <1>7
<1> HIDE DEF h
<1>10. /\ h[1] = "stop_save" /\ h[2] = "stop_tstp" /\ h[3] = "stop_ca" /\ h[4] = "stop_tty"
       /\ h[5] = "unblock" /\ h[6] = "kill"
  BY <1>1, <1>2, <1>6, <1>7, <1>8
<1> QED
  BY <1>3, <1>4, <1>5, <1>8, <1>9, <1>10

\* What a handler, or a restart, puts in front changes no modes and no sizes.
LEMMA PushKeeps ==
  ASSUME NEW a \in Seq(Steps), NEW s \in Seq(Steps), NEW r, Joins(r, a, s), a # <<>>,
         Follows(s), Ordered(s),
         \A i \in 1 .. Len(a) : a[i] \notin KeySteps \cup ReadWrite,
         \A i \in 1 .. Len(a) : i < Len(a) => MayFollow(a[i], a[i + 1]),
         MayFollow(a[Len(a)], NextOf(s)), ~GivesBack(a)
  PROVE  /\ r \in Seq(Steps) /\ r # <<>> /\ NextOf(r) = a[1] /\ Follows(r) /\ Ordered(r)
         /\ \A step \in KeySteps \cup ReadWrite : Has(r, step) <=> Has(s, step)
         /\ GivesBack(r) => GivesBack(s)
<1>1. Len(a) \in Nat \ {0} /\ DOMAIN a = 1 .. Len(a)
  OBVIOUS
<1>2. \A step \in KeySteps \cup ReadWrite : ~Has(a, step)
  BY <1>1 DEF Has
<1>3. \A step : Has(a, step) => step \notin KeySteps \cup ReadWrite
  BY <1>2
<1>4. \A x, y : Has(a, x) /\ Has(s, y) => MayPrecede(x, y)
  <2>1. \A x, y : x \notin KeySteps \cup ReadWrite => MayPrecede(x, y)
    BY DEF MayPrecede, KeySteps, ResizeSteps, ReadWrite
  <2> QED
    BY <1>3, <2>1
<1>5. Ordered(a)
  <2>1. \A i \in DOMAIN a : \A y : MayPrecede(a[i], y)
    BY <1>1 DEF MayPrecede, KeySteps, ResizeSteps, ReadWrite
  <2> QED
    BY <2>1 DEF Ordered
<1>6. Follows(r)
  BY JoinFollows
<1>7. Ordered(r)
  BY <1>4, <1>5, JoinOrdered
<1>8. \A step \in KeySteps \cup ReadWrite : Has(r, step) <=> Has(s, step)
  BY <1>2, JoinHas
<1>9. GivesBack(r) => GivesBack(s)
  BY JoinGivesBack
<1>10. r \in Seq(Steps) /\ Len(r) >= 1 /\ r[1] = a[1]
  BY <1>1 DEF Joins
<1>11. r # <<>> /\ NextOf(r) = a[1]
  BY <1>10 DEF NextOf
<1> QED
  BY <1>6, <1>7, <1>8, <1>9, <1>10, <1>11

LEMMA HandlerPushed ==
  ASSUME NEW s \in Seq(Steps), NEW u \in Unmasks, Follows(s), Ordered(s),
         MayFollow(u, NextOf(s))
  PROVE  LET r == StopHandler(u) \o s
         IN  /\ r \in Seq(Steps) /\ r # <<>> /\ NextOf(r) = "stop_save" /\ Follows(r) /\ Ordered(r)
             /\ \A step \in KeySteps \cup ReadWrite : Has(r, step) <=> Has(s, step)
             /\ GivesBack(r) => GivesBack(s)
<1>1. PICK h : h = StopHandler(u)
  OBVIOUS
<1>2. /\ h \in Seq(Steps) /\ Len(h) = 13
      /\ h[1] = "stop_save" /\ h[2] = "stop_tstp" /\ h[3] = "stop_ca" /\ h[4] = "stop_tty"
      /\ h[5] = "unblock" /\ h[6] = "kill" /\ h[7] = "re_tstp" /\ h[8] = "re_size"
      /\ h[9] = "re_windows" /\ h[10] = "re_orig" /\ h[11] = "re_tty"
      /\ h[12] = "re_start" /\ h[13] = u
  BY <1>1, HandlerSteps
<1>3. \A i \in 1 .. 13 : \/ i = 1 \/ i = 2 \/ i = 3 \/ i = 4 \/ i = 5 \/ i = 6 \/ i = 7
                         \/ i = 8 \/ i = 9 \/ i = 10 \/ i = 11 \/ i = 12 \/ i = 13
  OBVIOUS
<1>4. \A i \in 1 .. 13 : h[i] \notin KeySteps \cup ReadWrite
  BY <1>2, <1>3 DEF KeySteps, ResizeSteps, ReadWrite, ModeCalls, Unmasks
<1>5. \A i \in 1 .. 13 : i < 13 => MayFollow(h[i], h[i + 1])
  BY SMTT(30), <1>2, <1>3 DEF MayFollow
<1>6. ~GivesBack(h)
  BY <1>2, <1>3 DEF GivesBack, Unmasks
<1>7. Joins(h \o s, h, s)
  BY ONLY <1>2, ConcatJoins, s \in Seq(Steps)
<1>8. h # <<>>
  <2>1. Len(h) # 0
    BY ONLY <1>2
  <2> QED
    BY ONLY <2>1
<1>9. PICK r : r = h \o s
  OBVIOUS
<1>10. /\ r \in Seq(Steps) /\ r # <<>> /\ NextOf(r) = h[1] /\ Follows(r) /\ Ordered(r)
       /\ \A step \in KeySteps \cup ReadWrite : Has(r, step) <=> Has(s, step)
       /\ GivesBack(r) => GivesBack(s)
  <2>1. Joins(r, h, s)
    BY <1>7, <1>9
  <2>2. MayFollow(h[13], NextOf(s))
    BY <1>2
  <2> QED
    BY ONLY SMTT(30), <1>2, <1>4, <1>5, <1>6, <1>8, <2>1, <2>2, PushKeeps, s \in Seq(Steps), Follows(s),
       Ordered(s)
<1> QED
  BY <1>1, <1>2, <1>9, <1>10

LEMMA RestartPushed ==
  ASSUME NEW s \in Seq(Steps), Follows(s), Ordered(s),
         NextOf(s) \in {"none", "tcsetattr"} \cup ModeCalls
  PROVE  LET r == RestartWin \o s
         IN  /\ r \in Seq(Steps) /\ r # <<>> /\ NextOf(r) = "re_tstp" /\ Follows(r) /\ Ordered(r)
             /\ \A step \in KeySteps \cup ReadWrite : Has(r, step) <=> Has(s, step)
             /\ GivesBack(r) => GivesBack(s)
<1>1. PICK h : h = RestartWin
  OBVIOUS
<1>2. /\ h \in Seq(Steps) /\ Len(h) = 6 /\ h[1] = "re_tstp" /\ h[2] = "re_size"
      /\ h[3] = "re_windows" /\ h[4] = "re_orig" /\ h[5] = "re_tty" /\ h[6] = "re_start"
  BY <1>1, StepsAre DEF RestartWin
<1>3. \A i \in 1 .. 6 : i = 1 \/ i = 2 \/ i = 3 \/ i = 4 \/ i = 5 \/ i = 6
  OBVIOUS
<1>4. \A i \in 1 .. 6 : h[i] \notin KeySteps \cup ReadWrite
  BY <1>2, <1>3 DEF KeySteps, ResizeSteps, ReadWrite, ModeCalls
<1>5. \A i \in 1 .. 6 : i < 6 => MayFollow(h[i], h[i + 1])
  BY <1>2, <1>3 DEF MayFollow
<1>6. ~GivesBack(h)
  BY <1>2, <1>3 DEF GivesBack
<1>7. Joins(h \o s, h, s)
  BY ONLY <1>2, ConcatJoins, s \in Seq(Steps)
<1>8. h # <<>>
  <2>1. Len(h) # 0
    BY ONLY <1>2
  <2> QED
    BY ONLY <2>1
<1>9. PICK r : r = h \o s
  OBVIOUS
<1>10. /\ r \in Seq(Steps) /\ r # <<>> /\ NextOf(r) = h[1] /\ Follows(r) /\ Ordered(r)
       /\ \A step \in KeySteps \cup ReadWrite : Has(r, step) <=> Has(s, step)
       /\ GivesBack(r) => GivesBack(s)
  <2>1. Joins(r, h, s)
    BY <1>7, <1>9
  <2>2. MayFollow(h[6], NextOf(s))
    BY <1>2 DEF MayFollow
  <2> QED
    BY ONLY ZenonT(30), <1>2, <1>4, <1>5, <1>6, <1>8, <2>1, <2>2, PushKeeps, s \in Seq(Steps), Follows(s),
       Ordered(s)
<1> QED
  BY <1>1, <1>2, <1>9, <1>10

LEMMA KeyPushed ==
  ASSUME NEW s \in Seq(Steps), Follows(s), Ordered(s), NextOf(s) \in {"none", "nocbreak"},
         \A step : Has(s, step) => step \in ReadWrite
  PROVE  LET r == KeyResize \o s
         IN  /\ r \in Seq(Steps) /\ r # <<>> /\ NextOf(r) = "rt_begin" /\ Follows(r) /\ Ordered(r)
             /\ \A step : Has(r, step) <=> step \in KeySteps \/ Has(s, step)
             /\ ~GivesBack(r)
<1>1. PICK h : h = KeyResize
  OBVIOUS
<1>2. /\ h \in Seq(Steps) /\ Len(h) = 4 /\ h[1] = "rt_begin" /\ h[2] = "rt_windows"
      /\ h[3] = "rt_lines" /\ h[4] = "key_resize"
  BY <1>1, KeyResizeSteps
<1>3. \A i \in 1 .. 4 : i = 1 \/ i = 2 \/ i = 3 \/ i = 4
  OBVIOUS
<1>4. \A i \in 1 .. 4 : i < 4 => MayFollow(h[i], h[i + 1])
  BY <1>2, <1>3 DEF MayFollow
<1>5. \A step : Has(h, step) <=> step \in KeySteps
  <2>1. DOMAIN h = 1 .. 4
    BY <1>2
  <2> QED
    BY <1>2, <1>3, <2>1 DEF Has, KeySteps, ResizeSteps
<1>6. ~GivesBack(h) /\ ~GivesBack(s)
  <2>1. ~Has(h, "stop_tstp") /\ ~Has(s, "stop_tstp")
    BY <1>5 DEF KeySteps, ResizeSteps, ReadWrite, ModeCalls
  <2> QED
    BY <2>1 DEF GivesBack, Has
<1>7. Joins(h \o s, h, s)
  BY ONLY <1>2, ConcatJoins, s \in Seq(Steps)
<1>8. h # <<>>
  <2>1. Len(h) # 0
    BY ONLY <1>2
  <2> QED
    BY ONLY <2>1
<1>9. PICK r : r = h \o s
  OBVIOUS
<1>10. Joins(r, h, s)
  BY <1>7, <1>9
<1>11. Follows(r)
  <2>1. MayFollow(h[4], NextOf(s))
    BY <1>2 DEF MayFollow
  <2> QED
    BY ONLY <1>2, <1>4, <1>8, <1>10, <2>1, JoinFollows, s \in Seq(Steps), Follows(s)
<1>12. Ordered(r)
  <2>1. \A i, j \in DOMAIN h : i < j => MayPrecede(h[i], h[j])
    BY <1>2, <1>3 DEF MayPrecede, KeySteps, ResizeSteps, ReadWrite, ModeCalls
  <2>2. Ordered(h)
    BY <2>1 DEF Ordered
  <2>3. \A x, y : x \in KeySteps /\ y \in ReadWrite => MayPrecede(x, y)
    BY DEF MayPrecede, KeySteps, ResizeSteps, ReadWrite, ModeCalls
  <2>4. \A x, y : Has(h, x) /\ Has(s, y) => MayPrecede(x, y)
    BY <1>5, <2>3
  <2> QED
    BY ONLY <1>2, <1>10, <2>2, <2>4, JoinOrdered, s \in Seq(Steps), Ordered(s)
<1>13. \A step : Has(r, step) <=> step \in KeySteps \/ Has(s, step)
  BY ONLY <1>2, <1>5, <1>10, JoinHas, s \in Seq(Steps)
<1>14. ~GivesBack(r)
  BY ONLY <1>2, <1>6, <1>10, JoinGivesBack, s \in Seq(Steps)
<1>15. r \in Seq(Steps) /\ r # <<>> /\ NextOf(r) = "rt_begin"
  <2>1. r \in Seq(Steps) /\ Len(r) >= 1 /\ r[1] = h[1]
    BY ONLY <1>2, <1>10, s \in Seq(Steps) DEF Joins
  <2> QED
    BY ONLY <1>2, <2>1 DEF NextOf
<1> QED
  BY <1>1, <1>9, <1>11, <1>12, <1>13, <1>14, <1>15

\* The steps of the calls, each by itself.
Sound(s) == s \in Seq(Steps) /\ Follows(s) /\ Ordered(s)

LEMMA NothingSound ==
  /\ Sound(<<>>) /\ NextOf(<<>>) = "none" /\ \A step : ~Has(<<>>, step)
BY DEF Sound, Follows, Ordered, NextOf, Has

LEMMA StopWinSound ==
  /\ Sound(StopWin) /\ NextOf(StopWin) = "stop_save" /\ Len(StopWin) = 4 /\ ~GivesBack(StopWin)
  /\ \A step \in KeySteps \cup ReadWrite : ~Has(StopWin, step)
<1>1. PICK h : h = StopWin
  OBVIOUS
<1>2. /\ h \in Seq(Steps) /\ Len(h) = 4 /\ h[1] = "stop_save" /\ h[2] = "stop_tstp"
      /\ h[3] = "stop_ca" /\ h[4] = "stop_tty" /\ DOMAIN h = 1 .. 4 /\ Head(h) = h[1]
  BY <1>1, StepsAre DEF StopWin
<1>3. \A i \in 1 .. 4 : i = 1 \/ i = 2 \/ i = 3 \/ i = 4
  OBVIOUS
<1>4. Follows(h) /\ ~GivesBack(h)
  BY ONLY <1>2, <1>3 DEF Follows, MayFollow, GivesBack
<1>5. \A step \in KeySteps \cup ReadWrite : ~Has(h, step)
  BY ONLY <1>2, <1>3 DEF Has, KeySteps, ResizeSteps, ReadWrite, ModeCalls
<1>6. Ordered(h)
  BY ONLY <1>2, <1>3 DEF Ordered, MayPrecede, KeySteps, ResizeSteps, ReadWrite, ModeCalls
<1>7. NextOf(h) = "stop_save"
  <2>1. Len(h) # 0
    BY ONLY <1>2
  <2> QED
    BY ONLY <1>2, <2>1 DEF NextOf
<1> QED
  BY <1>1, <1>2, <1>4, <1>5, <1>6, <1>7 DEF Sound

LEMMA ResizeTermSound ==
  /\ Sound(ResizeTermSteps) /\ NextOf(ResizeTermSteps) = "rt_begin" /\ ~GivesBack(ResizeTermSteps)
  /\ \A step : Has(ResizeTermSteps, step) <=> step \in ResizeSteps
<1>1. PICK h : h = ResizeTermSteps
  OBVIOUS
<1>2. /\ h \in Seq(Steps) /\ Len(h) = 3 /\ h[1] = "rt_begin" /\ h[2] = "rt_windows"
      /\ h[3] = "rt_lines" /\ DOMAIN h = 1 .. 3 /\ Head(h) = h[1]
  BY <1>1, StepsAre DEF ResizeTermSteps, KeySteps, ResizeSteps
<1>3. \A i \in 1 .. 3 : i = 1 \/ i = 2 \/ i = 3
  OBVIOUS
<1>4. Follows(h) /\ ~GivesBack(h)
  BY ONLY <1>2, <1>3 DEF Follows, MayFollow, GivesBack
<1>5. \A step : Has(h, step) <=> step \in ResizeSteps
  BY ONLY <1>2, <1>3 DEF Has, ResizeSteps
<1>6. Ordered(h)
  BY ONLY <1>2, <1>3 DEF Ordered, MayPrecede, KeySteps, ResizeSteps, ReadWrite, ModeCalls
<1>7. NextOf(h) = "rt_begin"
  <2>1. Len(h) # 0
    BY ONLY <1>2
  <2> QED
    BY ONLY <1>2, <2>1 DEF NextOf
<1> QED
  BY <1>1, <1>2, <1>4, <1>5, <1>6, <1>7 DEF Sound

LEMMA ModeStepsSound ==
  ASSUME NEW call \in ModeCalls
  PROVE  /\ Sound(ModeSteps(call)) /\ NextOf(ModeSteps(call)) = call /\ ~GivesBack(ModeSteps(call))
         /\ \A step : Has(ModeSteps(call), step) <=> step \in {call, "tcsetattr"}
<1>1. PICK h : h = ModeSteps(call)
  OBVIOUS
<1>2. /\ h \in Seq(Steps) /\ Len(h) = 2 /\ h[1] = call /\ h[2] = "tcsetattr" /\ DOMAIN h = 1 .. 2
      /\ Head(h) = h[1]
  BY <1>1, StepsAre DEF ModeSteps, ReadWrite
<1>3. \A i \in 1 .. 2 : i = 1 \/ i = 2
  OBVIOUS
<1>4. Follows(h) /\ ~GivesBack(h)
  BY ONLY <1>2, <1>3, call \in ModeCalls DEF Follows, MayFollow, GivesBack, ModeCalls
<1>5. \A step : Has(h, step) <=> step \in {call, "tcsetattr"}
  BY ONLY <1>2, <1>3 DEF Has
<1>6. Ordered(h)
  BY ONLY <1>2, <1>3, call \in ModeCalls DEF Ordered, MayPrecede, KeySteps, ResizeSteps, ReadWrite,
     ModeCalls
<1>7. NextOf(h) = call
  <2>1. Len(h) # 0
    BY ONLY <1>2
  <2> QED
    BY ONLY <1>2, <2>1 DEF NextOf
<1> QED
  BY <1>1, <1>2, <1>4, <1>5, <1>6, <1>7 DEF Sound

\* The modes are set and taken back around a read if the program chose none.
ReadModes(s) ==
  /\ Sound(s) /\ NextOf(s) \in {"cbreak", "tcsetattr"} /\ ~GivesBack(s)
  /\ \A step : Has(s, step) <=>
       step \in {"tcsetattr", "read"} \cup IF scr.rawmode THEN {} ELSE {"cbreak", "nocbreak"}

LEMMA ReadStepsSound == \E s : ReadModes(s) /\ ReadSteps = Restarted(s)
<1> DEFINE mid == <<"tcsetattr", "read">>
<1>1. /\ mid \in Seq(Steps) /\ Len(mid) = 2 /\ mid[1] = "tcsetattr" /\ mid[2] = "read"
      /\ DOMAIN mid = 1 .. 2 /\ Head(mid) = mid[1]
  BY StepsAre DEF ReadWrite
<1>2. CASE scr.rawmode
  <2>1. ReadSteps = Restarted((<<>> \o mid) \o <<>>)
    BY <1>2 DEF ReadSteps
  <2>2. (<<>> \o mid) \o <<>> = mid
    BY <1>1, ConcatEmptySeq
  <2> HIDE DEF mid
  <2>3. \A i \in 1 .. 2 : i = 1 \/ i = 2
    OBVIOUS
  <2>4. Follows(mid) /\ ~GivesBack(mid) /\ Ordered(mid)
    BY ONLY <1>1, <2>3 DEF Follows, MayFollow, GivesBack, Ordered, MayPrecede, KeySteps,
       ResizeSteps, ReadWrite, ModeCalls
  <2>5. \A step : Has(mid, step) <=> step \in {"tcsetattr", "read"}
    BY ONLY <1>1, <2>3 DEF Has
  <2>6. NextOf(mid) = "tcsetattr"
    <3>1. Len(mid) # 0
      BY ONLY <1>1
    <3> QED
      BY ONLY <1>1, <3>1 DEF NextOf
  <2> QED
    BY <1>1, <1>2, <2>1, <2>2, <2>4, <2>5, <2>6 DEF ReadModes, Sound
<1>3. CASE ~scr.rawmode
  <2> DEFINE a == ModeSteps("cbreak")
             b == a \o mid
             c == ModeSteps("nocbreak")
             s == b \o c
  <2>1. ReadSteps = Restarted(s)
    BY <1>3 DEF ReadSteps
  <2>2. /\ a \in Seq(Steps) /\ Len(a) = 2 /\ a[1] = "cbreak" /\ a[2] = "tcsetattr"
        /\ c \in Seq(Steps) /\ Len(c) = 2 /\ c[1] = "nocbreak" /\ c[2] = "tcsetattr"
    BY StepsAre DEF ModeSteps, ReadWrite, ModeCalls
  <2> HIDE DEF mid, a, c
  <2>3. b \in Seq(Steps) /\ Len(b) = 4 /\ b[1] = "cbreak" /\ b[2] = "tcsetattr"
        /\ b[3] = "tcsetattr" /\ b[4] = "read"
    <3>1. Joins(b, a, mid)
      BY ONLY <1>1, <2>2, ConcatJoins
    <3> HIDE DEF b
    <3> QED
      BY ONLY <1>1, <2>2, <3>1 DEF Joins
  <2> HIDE DEF b
  <2>4. /\ s \in Seq(Steps) /\ Len(s) = 6 /\ s[1] = "cbreak" /\ s[2] = "tcsetattr"
        /\ s[3] = "tcsetattr" /\ s[4] = "read" /\ s[5] = "nocbreak" /\ s[6] = "tcsetattr"
    <3>1. Joins(s, b, c)
      BY ONLY <2>2, <2>3, ConcatJoins
    <3> HIDE DEF s
    <3> QED
      BY ONLY <2>2, <2>3, <3>1 DEF Joins
  <2> HIDE DEF s
  <2>5. DOMAIN s = 1 .. 6 /\ \A i \in 1 .. 6 : i = 1 \/ i = 2 \/ i = 3 \/ i = 4 \/ i = 5 \/ i = 6
    BY ONLY <2>4
  <2>6. Follows(s) /\ ~GivesBack(s)
    BY ONLY <2>4, <2>5 DEF Follows, MayFollow, GivesBack, ModeCalls
  <2>7. Ordered(s)
    BY ONLY <2>4, <2>5 DEF Ordered, MayPrecede, KeySteps, ResizeSteps, ReadWrite, ModeCalls
  <2>8. \A step : Has(s, step) <=> step \in {"tcsetattr", "read", "cbreak", "nocbreak"}
    BY ONLY <2>4, <2>5 DEF Has
  <2>9. NextOf(s) = "cbreak"
    <3>1. Len(s) # 0 /\ Head(s) = s[1]
      BY ONLY <2>4
    <3> QED
      BY ONLY <2>4, <3>1 DEF NextOf
  <2> QED
    BY <1>3, <2>1, <2>4, <2>6, <2>7, <2>8, <2>9 DEF ReadModes, Sound
<1> QED
  BY <1>2, <1>3

-----------------------------------------------------------------------------
(* What a step leaves as it was *)

\* What is left after the first step.
LEMMA TailSound ==
  ASSUME NEW s, Sound(s), s # <<>>
  PROVE  /\ Sound(Tail(s)) /\ MayFollow(NextOf(s), NextOf(Tail(s)))
         /\ \A step : Has(s, step) <=> step = NextOf(s) \/ Has(Tail(s), step)
         /\ \A step : Has(Tail(s), step) => MayPrecede(NextOf(s), step)
         /\ GivesBack(Tail(s)) => GivesBack(s) \/ NextOf(s) = "stop_save"
<1>1. s \in Seq(Steps) /\ Follows(s) /\ Ordered(s)
  BY DEF Sound
<1>2. PICK t : t = Tail(s)
  OBVIOUS
<1>4. Left(t, s, 1) /\ s[1] = NextOf(s) /\ Len(s) \in Nat \ {0}
  BY ONLY <1>1, <1>2, TailLeft, s # <<>>
<1>5. Follows(t) /\ Ordered(t) /\ t \in Seq(Steps)
  <2>1. 1 \in Nat
    OBVIOUS
  <2> QED
    BY ONLY <1>1, <1>4, <2>1, LeftFollows DEF Left
<1>6. MayFollow(NextOf(s), NextOf(t))
  <2>1. 1 \in Nat \ {0}
    OBVIOUS
  <2> QED
    BY ONLY <1>1, <1>4, <2>1, NextFollows
<1>7. \A step : Has(s, step) <=> step = NextOf(s) \/ Has(t, step)
  BY ONLY <1>1, <1>2, TailHas, s # <<>>
<1>8. \A step : Has(t, step) => MayPrecede(NextOf(s), step)
  <2> SUFFICES ASSUME NEW i \in DOMAIN t
               PROVE  MayPrecede(NextOf(s), t[i])
    BY DEF Has
  <2>1. i \in 1 .. Len(t) /\ Len(s) = Len(t) + 1 /\ t[i] = s[i + 1]
    BY <1>4, <1>5 DEF Left
  <2>2. 1 \in DOMAIN s /\ i + 1 \in DOMAIN s /\ 1 < i + 1
    BY <1>1, <1>4, <2>1
  <2> QED
    BY <1>1, <1>4, <2>1, <2>2 DEF Ordered
<1>9. GivesBack(t) => GivesBack(s) \/ NextOf(s) = "stop_save"
  BY ONLY <1>1, <1>2, TailGivesBack, s # <<>>
<1> QED
  BY ONLY <1>2, <1>5, <1>6, <1>7, <1>8, <1>9 DEF Sound

\* The step is over, and the ones after it are left.
LEMMA Advance ==
  ASSUME todo \in Seq(Steps), Follows(todo), Ordered(todo), todo # <<>>, todo' = Tail(todo)
  PROVE  /\ Sound(todo') /\ MayFollow(Next1, NextOf(todo'))
         /\ \A step : Has(todo, step) <=> step = Next1 \/ Has(todo', step)
         /\ \A step : Has(todo', step) => MayPrecede(Next1, step)
         /\ GivesBack(todo') => GivesBack(todo) \/ Next1 = "stop_save"
<1>1. Sound(todo) /\ Next1 = NextOf(todo)
  BY DEF Sound, Next1, NextOf
<1> QED
  BY <1>1, TailSound

\* The modes are kept by steps that set none, if they save them as they are.
LEMMA ModesKept ==
  ASSUME ModeInv, UNCHANGED <<asked, scr.useraw, scr.curt, scr.rawmode>>,
         SessionMode' = SessionMode,
         \A step \in ModeCalls \cup {"tcsetattr"} : Has(todo', step) <=> Has(todo, step),
         Saved' /\ ~scr'.endwin => scr'.save = tty'.mode
  PROVE  ModeInv'
<1>1. UsualMode' = UsualMode
  BY DEF UsualMode
<1>2. AskedMode' = AskedMode
  BY <1>1 DEF AskedMode, ToDo, ModeCalls
<1>3. ToDo("tcsetattr")' <=> ToDo("tcsetattr")
  BY DEF ToDo
<1> QED
  BY <1>1, <1>2, <1>3 DEF ModeInv

\* The size is known as well as it was.
LEMMA SizeKept ==
  ASSUME SizeInv, UNCHANGED <<LINES, arg, tty.rows, scr.LINES, scr.resized>>,
         "WINCH" \in sig.pending => "WINCH" \in sig'.pending,
         \A step \in KeySteps : Has(todo', step) <=> Has(todo, step),
         scr.endwin /\ Next1 \notin {"re_windows", "re_orig", "re_tty", "re_start"} =>
           \/ scr'.endwin /\ NextOf(todo') \notin {"re_windows", "re_orig", "re_tty", "re_start"}
           \/ LINES = tty.rows,
         NextOf(todo') \notin KeySteps /\ (\E step \in KeySteps : Has(todo, step)) =>
           Next1 \notin KeySteps \/ LINES = tty.rows
  PROVE  SizeInv'
<1>1. Next1' = NextOf(todo')
  BY DEF Next1, NextOf
<1>2. \A step \in KeySteps : ToDo(step)' <=> ToDo(step)
  BY DEF ToDo
<1>3. \A step \in ResizeSteps : ToDo(step)' <=> ToDo(step)
  BY <1>2 DEF KeySteps
<1>4. (\E step \in ResizeSteps : ToDo(step)') <=> (\E step \in ResizeSteps : ToDo(step))
  BY <1>3
<1>5. (ToDo("key_resize")' <=> ToDo("key_resize")) /\ (ToDo("rt_lines")' <=> ToDo("rt_lines"))
  BY <1>2 DEF KeySteps, ResizeSteps
<1>6. (\E step \in KeySteps : ToDo(step)') /\ Next1' \notin KeySteps =>
        LINES' = tty'.rows
  BY <1>1, <1>2 DEF ToDo, SizeInv
<1>7. \/ LINES' = tty'.rows
      \/ "WINCH" \in sig'.pending
      \/ scr'.endwin /\ Next1' \notin {"re_windows", "re_orig", "re_tty", "re_start"}
  BY <1>1 DEF SizeInv
<1> QED
  BY <1>4, <1>5, <1>6, <1>7 DEF SizeInv

LEMMA WindowsKept ==
  ASSUME WinInv, UNCHANGED <<win, arg, scr.LINES, scr.rewound>>,
         \A step \in ResizeSteps : Has(todo', step) <=> Has(todo, step)
  PROVE  WinInv'
<1>1. (ToDo("rt_lines")' <=> ToDo("rt_lines")) /\ (ToDo("rt_windows")' <=> ToDo("rt_windows"))
  BY DEF ToDo, ResizeSteps
<1>2. TopsFirst' = TopsFirst /\ \A n : Cover(n)' <=> Cover(n)
  BY DEF TopsFirst, Cover, Tops
<1>3. \A n : Placed(win.rips, n)' <=> Placed(win.rips, n)
  BY DEF Placed, RipOffResized, BelowUpTo
<1>4. Cover(IF ToDo("rt_lines") /\ ~ToDo("rt_windows") THEN arg ELSE scr.LINES)' <=>
        Cover(IF ToDo("rt_lines") /\ ~ToDo("rt_windows") THEN arg ELSE scr.LINES)
  BY <1>1 DEF Cover, Tops
<1> QED
  BY <1>2, <1>4 DEF WinInv, Tops, Placed, RipOffResized, BelowUpTo

-----------------------------------------------------------------------------
(* __stopwin *)

\* A step that changes neither modes nor sizes is at most one of them.
Other(step) == step \notin KeySteps \cup ReadWrite

LEMMA OtherAdvance ==
  ASSUME TypeOK, StateInv, todo # <<>>, Done, Other(Next1)
  PROVE  /\ Sound(todo') /\ MayFollow(Next1, Next1') /\ Next1' = NextOf(todo')
         /\ \A step \in KeySteps \cup ReadWrite : Has(todo', step) <=> Has(todo, step)
         /\ Saved' => Next1' = "stop_ca" \/ GivesBack(todo) \/ Next1 = "stop_save"
<1>1. todo \in Seq(Steps) /\ Follows(todo) /\ Ordered(todo) /\ todo' = Tail(todo)
  BY DEF TypeOK, StateInv, Done
<1>2. Next1' = NextOf(todo')
  BY DEF Next1, NextOf
<1>3. /\ Sound(todo') /\ MayFollow(Next1, NextOf(todo'))
      /\ \A step : Has(todo, step) <=> step = Next1 \/ Has(todo', step)
      /\ GivesBack(todo') => GivesBack(todo) \/ Next1 = "stop_save"
  BY <1>1, Advance
<1>4. Saved' => Next1' = "stop_ca" \/ GivesBack(todo')
  BY DEF Saved
<1> QED
  BY <1>2, <1>3, <1>4 DEF Other

LEMMA OtherState ==
  ASSUME SessionInv, todo # <<>>, Done, Other(Next1), TypeOK',
         AtStep(Next1)', tstp'.old = "default", Stopped',
         Next1 \in Unmasks => ~Asleep'
  PROVE  StateInv'
<1>1. TypeOK /\ StateInv
  BY DEF SessionInv
<1>2. Sound(todo') /\ MayFollow(Next1, Next1')
  BY <1>1, OtherAdvance
<1>3. AsleepLeft'
  <2>1. Next1' \in {"stop_save"} \cup KeySteps => Next1 \in Unmasks
    BY <1>2 DEF MayFollow, Other, KeySteps, ResizeSteps, ReadWrite, ModeCalls, Unmasks
  <2> QED
    BY <2>1 DEF AsleepLeft
<1> QED
  BY <1>2, <1>3 DEF StateInv, Sound

\* Such a step keeps what it does not look at.
LEMMA OtherKeeps ==
  ASSUME SessionInv, todo # <<>>, Done, Other(Next1), TypeOK',
         AtStep(Next1)', tstp'.old = "default", Stopped',
         Next1 \in Unmasks => ~Asleep',
         UNCHANGED <<LINES, win, arg, asked, tty.rows>>,
         UNCHANGED <<scr.useraw, scr.curt, scr.rawmode, scr.LINES, scr.resized, scr.rewound>>,
         "WINCH" \in sig.pending => "WINCH" \in sig'.pending,
         SessionMode' = SessionMode,
         Saved' /\ ~scr'.endwin => scr'.save = tty'.mode,
         scr.endwin /\ Next1 \notin {"re_windows", "re_orig", "re_tty", "re_start"} =>
           \/ scr'.endwin /\ Next1' \notin {"re_windows", "re_orig", "re_tty", "re_start"}
           \/ LINES = tty.rows
  PROVE  SessionInv'
<1>1. StateInv'
  BY OtherState
<1>2. /\ Next1' = NextOf(todo')
      /\ \A step \in KeySteps \cup ReadWrite : Has(todo', step) <=> Has(todo, step)
  BY OtherAdvance DEF SessionInv
<1>3. ModeInv'
  BY <1>2, ModesKept DEF SessionInv, ReadWrite
<1>4. SizeInv'
  <2>1. Next1 \notin KeySteps
    BY DEF Other
  <2> QED
    BY <1>2, <2>1, SizeKept DEF SessionInv
<1>5. WinInv'
  BY <1>2, WindowsKept DEF SessionInv, KeySteps
<1> QED
  BY <1>1, <1>3, <1>4, <1>5 DEF SessionInv

LEMMA OtherSteps ==
  ASSUME TypeOK, StateInv, todo # <<>>, Done, Other(Next1)
  PROVE  /\ MayFollow(Next1, Next1') /\ Next1' \in Steps \cup {"none"} /\ todo' \in Seq(Steps)
         /\ Saved' => Next1' = "stop_ca" \/ GivesBack(todo) \/ Next1 = "stop_save"
<1>1. Sound(todo') /\ MayFollow(Next1, Next1') /\ Next1' = NextOf(todo')
  BY OtherAdvance
<1>2. Next1' \in Steps \cup {"none"}
  BY <1>1 DEF Sound, NextOf
<1> QED
  BY <1>1, <1>2, OtherAdvance DEF Sound

LEMMA StopTstpKeeps ==
  ASSUME SessionInv, proc = "running", Next1 = "stop_tstp", StopWinDo
  PROVE  SessionInv'
<1>1. /\ todo # <<>> /\ Done /\ RestoreStopHandler /\ UNCHANGED <<tty, scr>>
      /\ UNCHANGED <<proc, LINES, win, sig, arg, asked, shell>>
  BY DEF StopWinDo, StopWinStep, Next1
<1>2. Awake /\ TypeOK /\ StateInv
  BY DEF SessionInv, StateInv, AtStep
<1>3. tstp'.handler = "default" /\ ~tstp'.set /\ tstp'.old = "default"
      /\ tstp' \in [handler : {"curses", "default"}, old : {"curses", "default"}, set : BOOLEAN]
  BY <1>1, <1>2 DEF RestoreStopHandler, StateInv, TypeOK, Awake
<1>4. Other(Next1) /\ Next1 \notin Unmasks
  BY DEF Other, KeySteps, ResizeSteps, ReadWrite, ModeCalls, Unmasks
<1>5. Next1' = "stop_ca" /\ todo' \in Seq(Steps)
  BY <1>1, <1>2, <1>4, OtherSteps DEF MayFollow, Unmasks, ModeCalls
<1>6. TypeOK'
  BY <1>1, <1>2, <1>3, <1>5 DEF TypeOK
<1>7. AtStep(Next1)'
  BY <1>1, <1>2, <1>3, <1>5 DEF AtStep, Awake, KeySteps, ResizeSteps, ReadWrite, ModeCalls,
     Unmasks, InRestart
<1>8. scr'.save = tty'.mode
  <2>1. GivesBack(todo)
    BY SMTT(30), <1>1, <1>2 DEF GivesBack, Next1, TypeOK
  <2> QED
    BY <1>1, <1>2, <2>1 DEF SessionInv, ModeInv, Saved, Awake
<1>20. Stopped'
  BY <1>1 DEF Stopped
<1> QED
  BY <1>1, <1>20, <1>2, <1>3, <1>4, <1>5, <1>6, <1>7, <1>8, OtherKeeps DEF SessionMode, Awake

LEMMA StopCaKeeps ==
  ASSUME SessionInv, proc = "running", Next1 = "stop_ca", StopWinDo
  PROVE  SessionInv'
<1>1. /\ todo # <<>> /\ Done /\ tty' = [tty EXCEPT !.ca = FALSE]
      /\ scr' = [scr EXCEPT !.endwin = TRUE] /\ UNCHANGED tstp
      /\ UNCHANGED <<proc, LINES, win, sig, arg, asked, shell>>
  BY DEF StopWinDo, StopWinStep, Next1
<1>2. ~scr.endwin /\ tstp.handler = "default" /\ ~tstp.set /\ scr.orig = shell
      /\ TypeOK /\ StateInv /\ tstp.old = "default"
  BY DEF SessionInv, StateInv, AtStep
<1>3. /\ tty' \in [mode : Modes, rows : Heights, ca : BOOLEAN]
      /\ ~tty'.ca /\ tty'.mode = tty.mode /\ tty'.rows = tty.rows
  BY <1>1, <1>2 DEF TypeOK
<1>4. /\ scr' \in [orig : Modes, save : Modes, curt : {"base", "cbreak", "raw"},
                   useraw : BOOLEAN, rawmode : BOOLEAN, endwin : BOOLEAN, resized : BOOLEAN,
                   LINES : Heights, rewound : BOOLEAN]
      /\ scr'.endwin /\ UNCHANGED <<scr.orig, scr.save, scr.useraw, scr.curt, scr.rawmode>>
      /\ UNCHANGED <<scr.LINES, scr.resized, scr.rewound>>
  BY <1>1, <1>2 DEF TypeOK
<1>5. Other(Next1) /\ Next1 \notin Unmasks
  BY DEF Other, KeySteps, ResizeSteps, ReadWrite, ModeCalls, Unmasks
<1>6. Next1' = "stop_tty" /\ todo' \in Seq(Steps)
  BY <1>1, <1>2, <1>5, OtherSteps DEF MayFollow, Unmasks, ModeCalls
<1>7. TypeOK'
  BY <1>1, <1>2, <1>3, <1>4, <1>6 DEF TypeOK
<1>8. AtStep(Next1)'
  BY <1>1, <1>2, <1>3, <1>4, <1>6 DEF AtStep, KeySteps, ResizeSteps, ReadWrite, ModeCalls,
     Unmasks, InRestart
<1>9. SessionMode' = SessionMode
  BY <1>2, <1>3, <1>4 DEF SessionInv, ModeInv, Saved, SessionMode
<1>20. Stopped'
  BY <1>1 DEF Stopped
<1> QED
  BY <1>1, <1>20, <1>2, <1>3, <1>4, <1>5, <1>6, <1>7, <1>8, <1>9, OtherKeeps

\* The record of the screen after an assignment to some of its fields.
Screen == [orig : Modes, save : Modes, curt : {"base", "cbreak", "raw"},
           useraw : BOOLEAN, rawmode : BOOLEAN, endwin : BOOLEAN, resized : BOOLEAN,
           LINES : Heights, rewound : BOOLEAN]

Terminal == [mode : Modes, rows : Heights, ca : BOOLEAN]

Signals == [pending : SUBSET {"TSTP", "WINCH"}, blocked : SUBSET {"TSTP", "WINCH"}]

LEMMA StopTtyKeeps ==
  ASSUME SessionInv, proc = "running", Next1 = "stop_tty", StopWinDo
  PROVE  SessionInv'
<1>1. /\ todo # <<>> /\ Done /\ tty' = [tty EXCEPT !.mode = scr.orig]
      /\ UNCHANGED <<scr, tstp, proc, LINES, win, sig, arg, asked, shell>>
  BY DEF StopWinDo, StopWinStep, Next1
<1>2. scr.endwin /\ tstp.handler = "default" /\ ~tstp.set /\ ~tty.ca /\ scr.orig = shell
      /\ TypeOK /\ StateInv /\ tstp.old = "default"
  BY DEF SessionInv, StateInv, AtStep
<1>3. tty' \in Terminal /\ ~tty'.ca /\ tty'.mode = shell /\ tty'.rows = tty.rows
  BY <1>1, <1>2 DEF TypeOK, Terminal
<1>4. Other(Next1) /\ Next1 \notin Unmasks
  BY DEF Other, KeySteps, ResizeSteps, ReadWrite, ModeCalls, Unmasks
<1>5. Next1' \in {"none", "unblock"} /\ todo' \in Seq(Steps)
  BY <1>1, <1>2, <1>4, OtherSteps DEF MayFollow, Unmasks, ModeCalls
<1>6. TypeOK'
  BY <1>1, <1>2, <1>3, <1>5 DEF TypeOK, Terminal
<1>7. AtStep(Next1)'
  BY <1>1, <1>2, <1>3, <1>5 DEF AtStep, Asleep, KeySteps, ResizeSteps, ReadWrite, ModeCalls,
     Unmasks, InRestart
<1>8. SessionMode' = SessionMode
  BY <1>1, <1>2 DEF SessionMode
<1>20. Stopped'
  BY <1>1 DEF Stopped
<1> QED
  BY <1>1, <1>20, <1>2, <1>3, <1>4, <1>5, <1>6, <1>7, <1>8, OtherKeeps

\* endwin() of a session that has ended does nothing more.
LEMMA EndedStop ==
  ASSUME SessionInv, Next1 = "stop_save", scr.endwin
  PROVE  /\ Asleep /\ SubSeq(todo, Len(StopWin) + 1, Len(todo)) = <<>>
         /\ \A step \in KeySteps \cup ReadWrite : ~Has(todo, step)
<1>1. Asleep
  BY DEF SessionInv, StateInv, AtStep, Awake
<1>2. todo \in Seq(Steps) /\ Len(todo) = 4 /\ Follows(todo) /\ todo[1] = "stop_save"
  BY <1>1 DEF SessionInv, StateInv, TypeOK, AsleepLeft, Next1
<1>3. DOMAIN todo = 1 .. 4 /\ \A i \in 1 .. 4 : i = 1 \/ i = 2 \/ i = 3 \/ i = 4
  BY <1>2
<1>4. todo[2] = "stop_tstp"
  <2>1. MayFollow(todo[1], todo[2])
    BY <1>2, <1>3 DEF Follows
  <2> QED
    BY <1>2, <2>1 DEF MayFollow, Unmasks, ModeCalls
<1>5. todo[3] = "stop_ca"
  <2>1. MayFollow(todo[2], todo[3])
    BY <1>2, <1>3 DEF Follows
  <2> QED
    BY <1>4, <2>1 DEF MayFollow, Unmasks, ModeCalls
<1>6. todo[4] = "stop_tty"
  <2>1. MayFollow(todo[3], todo[4])
    BY <1>2, <1>3 DEF Follows
  <2> QED
    BY <1>5, <2>1 DEF MayFollow, Unmasks, ModeCalls
<1>7. \A step \in KeySteps \cup ReadWrite : ~Has(todo, step)
  BY <1>2, <1>3, <1>4, <1>5, <1>6 DEF Has, KeySteps, ResizeSteps, ReadWrite, ModeCalls
<1>8. SubSeq(todo, Len(StopWin) + 1, Len(todo)) = <<>>
  <2>1. Len(StopWin) = 4
    BY StopWinSound
  <2>2. Len(SubSeq(todo, 5, 4)) = 0 /\ SubSeq(todo, 5, 4) \in Seq(Steps)
    BY <1>2
  <2> QED
    BY <1>2, <2>1, <2>2
<1> QED
  BY <1>1, <1>7, <1>8

LEMMA StopSaveKeeps ==
  ASSUME SessionInv, proc = "running", Next1 = "stop_save", StopWinDo
  PROVE  SessionInv'
<1>1. /\ todo # <<>> /\ StopSave
      /\ UNCHANGED <<tty, tstp, proc, LINES, win, sig, arg, asked, shell>>
  BY DEF StopWinDo, StopWinStep, Next1
<1>2. TypeOK /\ StateInv /\ tstp.old = "default"
  BY DEF SessionInv, StateInv
<1>3. CASE scr.endwin
  <2>1. todo' = <<>> /\ UNCHANGED scr /\ Asleep
    BY <1>1, <1>3, EndedStop DEF StopSave, Skip
  <2>2. Sound(todo') /\ Next1' = "none" /\ (\A step : ~Has(todo', step)) /\ Next1' = NextOf(todo')
    BY <2>1, NothingSound DEF Next1, NextOf
  <2>3. \A step \in KeySteps \cup ReadWrite : Has(todo', step) <=> Has(todo, step)
    BY <1>3, <2>2, EndedStop
  <2>4. Next1' \notin KeySteps /\ Next1 \notin KeySteps
    BY <2>2 DEF KeySteps, ResizeSteps
  <2>5. TypeOK'
    BY <1>1, <1>2, <2>1, <2>2 DEF TypeOK, Sound
  <2>6. StateInv'
    <3>1. AtStep(Next1)'
      BY <1>1, <2>1, <2>2 DEF AtStep, Asleep, KeySteps, ResizeSteps, ReadWrite, ModeCalls,
         Unmasks, InRestart
    <3>2. AsleepLeft' /\ Stopped'
      BY <1>1, <1>2, <2>1, <2>2, <2>4 DEF AsleepLeft, StateInv, Stopped, Asleep
    <3> QED
      BY <1>1, <1>2, <2>2, <3>1, <3>2 DEF StateInv, Sound
  <2>7. ModeInv'
    <3>1. ~Saved'
      BY <2>1, <2>2 DEF Saved, GivesBack
    <3> QED
      BY <1>1, <2>1, <2>3, <3>1, ModesKept DEF SessionInv, ReadWrite, SessionMode
  <2>8. SizeInv'
    BY <1>1, <2>1, <2>2, <2>3, <2>4, SizeKept DEF SessionInv
  <2>9. WinInv'
    BY <1>1, <2>1, <2>3, WindowsKept DEF SessionInv, KeySteps
  <2> QED
    BY <2>5, <2>6, <2>7, <2>8, <2>9 DEF SessionInv
<1>4. CASE ~scr.endwin
  <2>1. Done /\ scr' = [scr EXCEPT !.save = tty.mode] /\ Awake
    BY <1>1, <1>2, <1>4 DEF StopSave, StateInv, AtStep, Asleep
  <2>2. /\ scr' \in Screen /\ scr'.save = tty.mode
        /\ UNCHANGED <<scr.orig, scr.endwin, scr.useraw, scr.curt, scr.rawmode>>
        /\ UNCHANGED <<scr.LINES, scr.resized, scr.rewound>>
    BY <1>2, <2>1 DEF TypeOK, Screen
  <2>3. Other(Next1) /\ Next1 \notin Unmasks
    BY DEF Other, KeySteps, ResizeSteps, ReadWrite, ModeCalls, Unmasks
  <2>4. Next1' = "stop_tstp" /\ todo' \in Seq(Steps)
    BY <1>1, <1>2, <2>1, <2>3, OtherSteps DEF MayFollow, Unmasks, ModeCalls
  <2>5. TypeOK'
    BY <1>1, <1>2, <2>2, <2>4 DEF TypeOK, Screen
  <2>6. AtStep(Next1)'
    BY <1>1, <2>1, <2>2, <2>4 DEF AtStep, Awake, KeySteps, ResizeSteps, ReadWrite, ModeCalls,
       Unmasks, InRestart
  <2>7. SessionMode' = SessionMode
    BY <1>1, <1>4, <2>2 DEF SessionMode
  <2>20. Stopped'
    BY <1>1 DEF Stopped
  <2> QED
    BY <1>1, <2>20, <1>2, <1>4, <2>1, <2>2, <2>3, <2>4, <2>5, <2>6, <2>7, OtherKeeps
       DEF StateInv, Awake, Asleep
<1> QED
  BY <1>3, <1>4

-----------------------------------------------------------------------------
(* __restartwin *)

LEMMA ReTstpKeeps ==
  ASSUME SessionInv, proc = "running", Next1 = "re_tstp", RestartWinDo
  PROVE  SessionInv'
<1>1. /\ todo # <<>> /\ SetStopHandler
      /\ UNCHANGED <<tty, scr, LINES, win, proc, sig, arg, asked, shell>>
  BY DEF RestartWinDo, RestartWinStep, Next1, InRestart
<1>2. Asleep /\ TypeOK /\ StateInv
  BY DEF SessionInv, StateInv, AtStep
<1>3. /\ Done /\ tstp'.handler = "curses" /\ tstp'.set /\ tstp'.old = "default"
      /\ tstp' \in [handler : {"curses", "default"}, old : {"curses", "default"}, set : BOOLEAN]
  <2>1. Done /\ tstp' = [handler |-> "curses", old |-> "default", set |-> TRUE]
    BY <1>1, <1>2 DEF SetStopHandler, Asleep
  <2> QED
    BY <2>1
<1>4. Other(Next1) /\ Next1 \notin Unmasks
  BY DEF Other, KeySteps, ResizeSteps, ReadWrite, ModeCalls, Unmasks
<1>5. Next1' = "re_size" /\ todo' \in Seq(Steps)
  BY <1>1, <1>2, <1>3, <1>4, OtherSteps DEF MayFollow, Unmasks, ModeCalls
<1>6. TypeOK'
  BY <1>1, <1>2, <1>3, <1>5 DEF TypeOK
<1>7. AtStep(Next1)'
  BY <1>1, <1>2, <1>3, <1>5 DEF AtStep, Asleep, KeySteps, ResizeSteps, ReadWrite, ModeCalls,
     Unmasks, InRestart
<1>20. Stopped'
  BY <1>1 DEF Stopped
<1> QED
  BY <1>1, <1>20, <1>2, <1>3, <1>4, <1>5, <1>6, <1>7, OtherKeeps DEF SessionMode, Asleep

LEMMA ReSizeKeeps ==
  ASSUME SessionInv, proc = "running", Next1 = "re_size", RestartWinDo
  PROVE  SessionInv'
<1>1. /\ todo # <<>> /\ Done /\ SizeChecked
      /\ UNCHANGED <<tty, win, tstp, proc, sig, arg, asked, shell>>
  BY DEF RestartWinDo, RestartWinStep, Next1, InRestart
<1>2. /\ scr.endwin /\ tstp.handler = "curses" /\ tstp.set /\ tty.mode = shell
      /\ TypeOK /\ StateInv /\ tstp.old = "default"
  BY DEF SessionInv, StateInv, AtStep, InRestart
<1>3. /\ scr' \in Screen /\ scr'.resized = (scr.resized \/ tty.rows # LINES)
      /\ UNCHANGED <<scr.orig, scr.save, scr.endwin, scr.useraw, scr.curt, scr.rawmode>>
      /\ UNCHANGED <<scr.LINES, scr.rewound>> /\ LINES' = tty.rows /\ LINES' \in Heights
  BY <1>1, <1>2 DEF TypeOK, Screen, SizeChecked
<1>4. Other(Next1) /\ Next1 \notin Unmasks
  BY DEF Other, KeySteps, ResizeSteps, ReadWrite, ModeCalls, Unmasks
<1>5. Next1' = "re_windows" /\ todo' \in Seq(Steps)
  BY <1>1, <1>2, <1>4, OtherSteps DEF MayFollow, Unmasks, ModeCalls
<1>6. TypeOK'
  BY <1>1, <1>2, <1>3, <1>5 DEF TypeOK, Screen
<1>7. StateInv'
  <2>1. AtStep(Next1)'
    BY <1>1, <1>2, <1>3, <1>5 DEF AtStep, KeySteps, ResizeSteps, ReadWrite, ModeCalls,
       Unmasks, InRestart
  <2>20. Stopped'
    BY <1>1 DEF Stopped
  <2> QED
    BY <1>1, <2>20, <1>2, <1>4, <1>6, <2>1, OtherState
<1>8. \A step \in KeySteps \cup ReadWrite : Has(todo', step) <=> Has(todo, step)
  BY <1>1, <1>2, <1>4, OtherAdvance
<1>9. ModeInv'
  <2>1. SessionMode' = SessionMode
    BY <1>2, <1>3 DEF SessionMode
  <2> QED
    BY <1>1, <1>2, <1>3, <1>8, <2>1, ModesKept DEF SessionInv, ReadWrite
<1>10. SizeInv'
  <2>1. \A step \in KeySteps : ToDo(step)' <=> ToDo(step)
    BY <1>8 DEF ToDo
  <2>2. (\E step \in KeySteps : ToDo(step)) => LINES' = LINES
    BY <1>3, <1>4 DEF SessionInv, SizeInv, Other
  <2>3. scr'.LINES = LINES' \/ scr'.resized
    BY <1>3 DEF SessionInv, SizeInv
  <2>4. (\E step \in ResizeSteps : ToDo(step)') => arg' = LINES'
    BY <1>1, <2>1, <2>2 DEF SessionInv, SizeInv, KeySteps
  <2>5. ToDo("key_resize")' /\ ~ToDo("rt_lines")' => scr'.LINES = LINES'
    BY <1>3, <2>1, <2>2 DEF SessionInv, SizeInv, KeySteps, ResizeSteps
  <2> QED
    BY <1>1, <1>3, <2>3, <2>4, <2>5 DEF SizeInv
<1>11. WinInv'
  BY <1>1, <1>3, <1>8, WindowsKept DEF SessionInv, KeySteps
<1> QED
  BY <1>6, <1>7, <1>9, <1>10, <1>11 DEF SessionInv

LEMMA ReWindowsKeeps ==
  ASSUME SessionInv, proc = "running", Next1 = "re_windows", RestartWinDo
  PROVE  SessionInv'
<1>1. /\ todo # <<>> /\ Done /\ WindowsRestarted
      /\ UNCHANGED <<tty, LINES, tstp, proc, sig, arg, asked, shell>>
  BY DEF RestartWinDo, RestartWinStep, Next1, InRestart
<1>2. /\ scr.endwin /\ tstp.handler = "curses" /\ tstp.set /\ tty.mode = shell
      /\ TypeOK /\ StateInv /\ tstp.old = "default"
  BY DEF SessionInv, StateInv, AtStep, InRestart
<1>3. /\ scr' \in Screen
      /\ scr'.rewound = (scr.rewound \/ win.curscr.maxy # LINES \/ win.stdscr.maxy # LINES)
      /\ UNCHANGED <<scr.orig, scr.save, scr.endwin, scr.useraw, scr.curt, scr.rawmode>>
      /\ UNCHANGED <<scr.LINES, scr.resized>>
  BY <1>1, <1>2 DEF TypeOK, Screen, WindowsRestarted
<1>4. \A w \in Window : WResized(w, LINES) \in Window /\ WResized(w, LINES).begy = w.begy
  <2>1. LINES \in 3 .. 100
    BY <1>2, SessionAssumption DEF TypeOK
  <2> TAKE w \in Window
  <2>2. WResized(w, LINES) = [w EXCEPT !.maxy = LINES, !.reqy = LINES]
    <3>1. /\ (IF LINES > LINES THEN LINES ELSE LINES) = LINES
          /\ (IF LINES < 1 THEN 1 ELSE LINES) = LINES
      BY <2>1
    <3> QED
      BY <3>1, Zenon DEF WResized
  <2>3. LINES \in 1 .. 100 /\ LINES \in 0 .. 100
    BY <2>1
  <2> QED
    BY <2>2, <2>3 DEF Window
<1>5. /\ win' \in [curscr : Window, stdscr : Window, rips : Seq([side : {1, -1}, begy : 0 .. 100])]
      /\ win'.rips = win.rips /\ win'.curscr.begy = win.curscr.begy
      /\ win'.stdscr.begy = win.stdscr.begy
      /\ win.curscr.maxy = LINES /\ win.stdscr.maxy = LINES => win' = win
  <2> DEFINE c == IF win.curscr.maxy # LINES THEN WResized(win.curscr, LINES) ELSE win.curscr
             d == IF win.stdscr.maxy # LINES THEN WResized(win.stdscr, LINES) ELSE win.stdscr
  <2>1. win' = [win EXCEPT !.curscr = c, !.stdscr = d]
    BY <1>1 DEF WindowsRestarted
  <2>2. c \in Window /\ d \in Window /\ c.begy = win.curscr.begy /\ d.begy = win.stdscr.begy
    BY <1>2, <1>4 DEF TypeOK
  <2>3. win.curscr.maxy = LINES /\ win.stdscr.maxy = LINES => c = win.curscr /\ d = win.stdscr
    OBVIOUS
  <2> HIDE DEF c, d
  <2>4. win \in [curscr : Window, stdscr : Window, rips : Seq([side : {1, -1}, begy : 0 .. 100])]
    BY <1>2 DEF TypeOK
  <2> QED
    BY <2>1, <2>2, <2>3, <2>4
<1>6. Other(Next1) /\ Next1 \notin Unmasks
  BY DEF Other, KeySteps, ResizeSteps, ReadWrite, ModeCalls, Unmasks
<1>7. Next1' = "re_orig" /\ todo' \in Seq(Steps)
  BY <1>1, <1>2, <1>6, OtherSteps DEF MayFollow, Unmasks, ModeCalls
<1>8. TypeOK'
  BY <1>1, <1>2, <1>3, <1>5, <1>7 DEF TypeOK, Screen
<1>9. StateInv'
  <2>1. AtStep(Next1)'
    BY <1>1, <1>2, <1>3, <1>7 DEF AtStep, KeySteps, ResizeSteps, ReadWrite, ModeCalls,
       Unmasks, InRestart
  <2>20. Stopped'
    BY <1>1 DEF Stopped
  <2> QED
    BY <1>1, <2>20, <1>2, <1>6, <1>8, <2>1, OtherState
<1>10. /\ \A step \in KeySteps \cup ReadWrite : Has(todo', step) <=> Has(todo, step)
       /\ Next1' = NextOf(todo')
  BY <1>1, <1>2, <1>6, OtherAdvance
<1>11. ModeInv'
  <2>1. SessionMode' = SessionMode
    BY <1>2, <1>3 DEF SessionMode
  <2> QED
    BY <1>1, <1>2, <1>3, <1>10, <2>1, ModesKept DEF SessionInv, ReadWrite
<1>12. SizeInv'
  BY <1>1, <1>3, <1>6, <1>10, SizeKept DEF SessionInv, Other
<1>13. WinInv'
  <2>1. CASE win' = win /\ scr'.rewound = scr.rewound
    BY <1>1, <1>3, <1>10, <2>1, WindowsKept DEF SessionInv, KeySteps
  <2>2. CASE ~(win' = win /\ scr'.rewound = scr.rewound)
    <3>1. scr'.rewound
      BY <1>2, <1>3, <1>5, <2>2 DEF TypeOK, Screen
    <3>2. TopsFirst' /\ Tops(win'.rips) = Tops(win.rips)
          /\ (Placed(win.rips, scr.LINES) => Placed(win'.rips, scr'.LINES))
      BY ZenonT(30), <1>3, <1>5 DEF SessionInv, WinInv, TopsFirst
    <3> QED
      BY <1>5, <3>1, <3>2 DEF SessionInv, WinInv
  <2> QED
    BY <2>1, <2>2
<1> QED
  BY <1>8, <1>9, <1>11, <1>12, <1>13 DEF SessionInv

LEMMA ReOrigKeeps ==
  ASSUME SessionInv, proc = "running", Next1 = "re_orig", RestartWinDo
  PROVE  SessionInv'
<1>1. /\ todo # <<>> /\ Done /\ scr' = [scr EXCEPT !.orig = tty.mode]
      /\ UNCHANGED <<tty, LINES, win, tstp, proc, sig, arg, asked, shell>>
  BY DEF RestartWinDo, RestartWinStep, Next1, InRestart, OrigTaken
<1>2. /\ scr.endwin /\ tstp.handler = "curses" /\ tstp.set /\ tty.mode = shell
      /\ TypeOK /\ StateInv /\ tstp.old = "default"
  BY DEF SessionInv, StateInv, AtStep, InRestart
<1>3. /\ scr' \in Screen /\ scr'.orig = shell
      /\ UNCHANGED <<scr.save, scr.endwin, scr.useraw, scr.curt, scr.rawmode>>
      /\ UNCHANGED <<scr.LINES, scr.resized, scr.rewound>>
  BY <1>1, <1>2 DEF TypeOK, Screen
<1>4. Other(Next1) /\ Next1 \notin Unmasks
  BY DEF Other, KeySteps, ResizeSteps, ReadWrite, ModeCalls, Unmasks
<1>5. Next1' = "re_tty" /\ todo' \in Seq(Steps)
  BY <1>1, <1>2, <1>4, OtherSteps DEF MayFollow, Unmasks, ModeCalls
<1>6. TypeOK'
  BY <1>1, <1>2, <1>3, <1>5 DEF TypeOK, Screen
<1>7. AtStep(Next1)'
  BY <1>1, <1>2, <1>3, <1>5 DEF AtStep, KeySteps, ResizeSteps, ReadWrite, ModeCalls,
     Unmasks, InRestart
<1>8. SessionMode' = SessionMode
  BY <1>2, <1>3 DEF SessionMode
<1>20. Stopped'
  BY <1>1 DEF Stopped
<1> QED
  BY <1>1, <1>20, <1>2, <1>3, <1>4, <1>5, <1>6, <1>7, <1>8, OtherKeeps

LEMMA ReTtyKeeps ==
  ASSUME SessionInv, proc = "running", Next1 = "re_tty", RestartWinDo
  PROVE  SessionInv'
<1>1. /\ todo # <<>> /\ Done /\ tty' = [tty EXCEPT !.mode = scr.save]
      /\ UNCHANGED <<scr, LINES, win, tstp, proc, sig, arg, asked, shell>>
  BY DEF RestartWinDo, RestartWinStep, Next1, InRestart
<1>2. /\ scr.endwin /\ tstp.handler = "curses" /\ tstp.set /\ scr.orig = shell
      /\ TypeOK /\ StateInv /\ tstp.old = "default"
  BY DEF SessionInv, StateInv, AtStep, InRestart
<1>3. tty' \in Terminal /\ tty'.ca = tty.ca /\ tty'.mode = scr.save /\ tty'.rows = tty.rows
  BY <1>1, <1>2 DEF TypeOK, Terminal
<1>4. Other(Next1) /\ Next1 \notin Unmasks
  BY DEF Other, KeySteps, ResizeSteps, ReadWrite, ModeCalls, Unmasks
<1>5. Next1' = "re_start" /\ todo' \in Seq(Steps)
  BY <1>1, <1>2, <1>4, OtherSteps DEF MayFollow, Unmasks, ModeCalls
<1>6. TypeOK'
  BY <1>1, <1>2, <1>3, <1>5 DEF TypeOK, Terminal
<1>7. AtStep(Next1)'
  BY <1>1, <1>2, <1>3, <1>5 DEF AtStep, KeySteps, ResizeSteps, ReadWrite, ModeCalls,
     Unmasks, InRestart
<1>8. SessionMode' = SessionMode
  BY <1>1, <1>2 DEF SessionMode
<1>20. Stopped'
  BY <1>1 DEF Stopped
<1> QED
  BY <1>1, <1>20, <1>2, <1>3, <1>4, <1>5, <1>6, <1>7, <1>8, OtherKeeps

LEMMA ReStartKeeps ==
  ASSUME SessionInv, proc = "running", Next1 = "re_start", RestartWinDo
  PROVE  SessionInv'
<1>1. /\ todo # <<>> /\ Done /\ tty' = [tty EXCEPT !.ca = TRUE]
      /\ scr' = [scr EXCEPT !.endwin = FALSE]
      /\ UNCHANGED <<LINES, win, tstp, proc, sig, arg, asked, shell>>
  BY DEF RestartWinDo, RestartWinStep, Next1, InRestart
<1>2. /\ scr.endwin /\ tstp.handler = "curses" /\ tstp.set /\ scr.orig = shell
      /\ tty.mode = scr.save /\ TypeOK /\ StateInv /\ tstp.old = "default"
  BY DEF SessionInv, StateInv, AtStep, InRestart
<1>3. tty' \in Terminal /\ tty'.ca /\ tty'.mode = tty.mode /\ tty'.rows = tty.rows
  BY <1>1, <1>2 DEF TypeOK, Terminal
<1>4. /\ scr' \in Screen /\ ~scr'.endwin
      /\ UNCHANGED <<scr.save, scr.orig, scr.useraw, scr.curt, scr.rawmode>>
      /\ UNCHANGED <<scr.LINES, scr.resized, scr.rewound>>
  BY <1>1, <1>2 DEF TypeOK, Screen
<1>5. Other(Next1) /\ Next1 \notin Unmasks
  BY DEF Other, KeySteps, ResizeSteps, ReadWrite, ModeCalls, Unmasks
<1>6. Next1' \in {"none", "tcsetattr"} \cup Unmasks \cup ModeCalls /\ todo' \in Seq(Steps)
  BY <1>1, <1>2, <1>5, OtherSteps DEF MayFollow, Unmasks, ModeCalls
<1>7. TypeOK'
  BY <1>1, <1>2, <1>3, <1>4, <1>6 DEF TypeOK, Screen, Terminal
<1>8. AtStep(Next1)'
  <2>1. Awake'
    BY <1>1, <1>2, <1>3, <1>4 DEF Awake
  <2> QED
    BY <1>6, <2>1 DEF AtStep, KeySteps, ResizeSteps, ReadWrite, ModeCalls, Unmasks, InRestart
<1>9. SessionMode' = SessionMode /\ scr'.save = tty'.mode
  BY <1>2, <1>3, <1>4 DEF SessionMode
<1>20. Stopped'
  BY <1>1 DEF Stopped
<1> QED
  BY <1>1, <1>20, <1>2, <1>3, <1>4, <1>5, <1>7, <1>8, <1>9, OtherKeeps

-----------------------------------------------------------------------------
(* The rest of the handler *)

LEMMA UnblockKeeps ==
  ASSUME SessionInv, proc = "running", Unblock
  PROVE  SessionInv'
<1>1. /\ todo # <<>> /\ Done /\ Next1 = "unblock" /\ sig' = [sig EXCEPT !.blocked = @ \ {"TSTP"}]
      /\ UNCHANGED <<tty, proc, scr, LINES, win, tstp, arg, asked, shell>>
  BY DEF Unblock, Next1
<1>2. Asleep /\ TypeOK /\ StateInv /\ tstp.old = "default"
  BY <1>1 DEF SessionInv, StateInv, AtStep
<1>3. /\ sig'.pending = sig.pending
      /\ sig' \in Signals
  BY <1>1, <1>2 DEF TypeOK, Signals
<1>4. Other(Next1) /\ Next1 \notin Unmasks
  BY <1>1 DEF Other, KeySteps, ResizeSteps, ReadWrite, ModeCalls, Unmasks
<1>5. Next1' = "kill" /\ todo' \in Seq(Steps)
  BY <1>1, <1>2, <1>4, OtherSteps DEF MayFollow, Unmasks, ModeCalls
<1>6. TypeOK'
  <2>1. UNCHANGED <<tty, proc, scr, LINES, win, tstp, arg, asked, shell>>
    BY <1>1
  <2> QED
    BY ONLY <1>2, <1>3, <1>5, <2>1 DEF TypeOK, Signals
<1>7. AtStep(Next1)'
  BY <1>1, <1>2, <1>5 DEF AtStep, Asleep, KeySteps, ResizeSteps, ReadWrite, ModeCalls,
     Unmasks, InRestart
<1>20. Stopped'
  BY <1>1 DEF Stopped
<1> QED
  BY <1>1, <1>20, <1>2, <1>3, <1>4, <1>5, <1>6, <1>7, OtherKeeps DEF SessionMode, Asleep

LEMMA KillKeeps ==
  ASSUME SessionInv, proc = "running", Kill
  PROVE  SessionInv'
<1>1. Next1 = "kill" /\ todo # <<>>
  BY DEF Kill, Next1
<1>2. Asleep /\ TypeOK /\ StateInv /\ tstp.old = "default"
  BY <1>1 DEF SessionInv, StateInv, AtStep
<1>3. Done /\ UNCHANGED <<sig, tty, scr, LINES, win, tstp, arg, asked, shell>> /\ proc' = "stopped"
  BY <1>2 DEF Kill, Asleep
<1>4. Other(Next1) /\ Next1 \notin Unmasks
  BY <1>1 DEF Other, KeySteps, ResizeSteps, ReadWrite, ModeCalls, Unmasks
<1>5. Next1' = "re_tstp" /\ todo' \in Seq(Steps)
  BY <1>1, <1>2, <1>3, <1>4, OtherSteps DEF MayFollow, Unmasks, ModeCalls
<1>6. TypeOK'
  BY <1>2, <1>3, <1>5 DEF TypeOK
<1>7. AtStep(Next1)' /\ Asleep'
  BY <1>2, <1>3, <1>5 DEF AtStep, Asleep, KeySteps, ResizeSteps, ReadWrite, ModeCalls,
     Unmasks, InRestart
<1>20. Stopped'
  BY <1>5, <1>7 DEF Stopped
<1> QED
  BY <1>1, <1>20, <1>2, <1>3, <1>4, <1>5, <1>6, <1>7, OtherKeeps DEF SessionMode, Asleep

LEMMA UnmaskKeeps ==
  ASSUME SessionInv, proc = "running", Unmask
  PROVE  SessionInv'
<1>1. /\ todo # <<>> /\ Done /\ Next1 \in Unmasks
      /\ sig' = [sig EXCEPT !.blocked = IF Next1 = "unmask" THEN {} ELSE {"WINCH"}]
      /\ UNCHANGED <<tty, proc, scr, LINES, win, tstp, arg, asked, shell>>
  BY DEF Unmask, Next1, Unmasks
<1>2. Awake /\ TypeOK /\ StateInv /\ tstp.old = "default"
  BY <1>1 DEF SessionInv, StateInv, AtStep
<1>3. /\ sig'.pending = sig.pending
      /\ sig' \in Signals
  BY <1>1, <1>2 DEF TypeOK, Signals
<1>4. Other(Next1)
  BY <1>1 DEF Other, KeySteps, ResizeSteps, ReadWrite, ModeCalls, Unmasks
<1>5. /\ Next1' \in {"none", "stop_save", "stop_tstp"} \cup Unmasks \cup KeySteps \cup ReadWrite
      /\ todo' \in Seq(Steps)
  BY <1>1, <1>2, <1>4, OtherSteps DEF MayFollow, Unmasks, ModeCalls
<1>6. TypeOK'
  <2>1. UNCHANGED <<tty, proc, scr, LINES, win, tstp, arg, asked, shell>>
    BY <1>1
  <2> QED
    BY ONLY <1>2, <1>3, <1>5, <2>1 DEF TypeOK, Signals
<1>7. Awake' /\ ~Asleep'
  BY <1>1, <1>2 DEF Awake, Asleep
<1>8. AtStep(Next1)'
  BY <1>5, <1>7 DEF AtStep, KeySteps, ResizeSteps, ReadWrite, ModeCalls, Unmasks, InRestart
<1>9. Saved' => scr'.save = tty'.mode
  <2>1. Next1' # "stop_ca" /\ Next1 # "stop_save"
    BY <1>1, <1>5 DEF Unmasks, KeySteps, ResizeSteps, ReadWrite, ModeCalls
  <2>2. Saved' => GivesBack(todo)
    BY <1>1, <1>2, <1>4, <2>1, OtherSteps
  <2> QED
    BY <1>1, <1>2, <2>2 DEF SessionInv, ModeInv, Saved, Awake
<1>20. Stopped'
  BY <1>1 DEF Stopped
<1> QED
  BY <1>1, <1>20, <1>2, <1>3, <1>4, <1>6, <1>7, <1>8, <1>9, OtherKeeps DEF SessionMode, Awake

-----------------------------------------------------------------------------
(* resizeterm, and getch after it *)

Ripped == [side : {1, -1}, begy : 0 .. 100]

LEMMA SidesCounted ==
  ASSUME NEW rips \in Seq(Ripped)
  PROVE  /\ Tops(rips) \in 0 .. Len(rips)
         /\ Cardinality({i \in DOMAIN rips : rips[i].side = -1}) = Len(rips) - Tops(rips)
         /\ \A i \in DOMAIN rips : BelowUpTo(rips, i) \in 0 .. Len(rips)
<1> DEFINE T == {i \in DOMAIN rips : rips[i].side = 1}
           B == {i \in DOMAIN rips : rips[i].side = -1}
<1>1. /\ DOMAIN rips = 1 .. Len(rips) /\ Len(rips) \in Nat
      /\ \A i \in DOMAIN rips : rips[i].side \in {1, -1}
  <2>1. DOMAIN rips = 1 .. Len(rips) /\ Len(rips) \in Nat /\ \A i \in DOMAIN rips : rips[i] \in Ripped
    OBVIOUS
  <2> QED
    BY <2>1 DEF Ripped
<1>2. \A n \in Nat : IsFiniteSet(1 .. n) /\ Cardinality(1 .. n) = n
  BY FS_Interval
<1>3. T \in SUBSET (DOMAIN rips) /\ B = (DOMAIN rips) \ T /\ (DOMAIN rips) \cap T = T
  BY <1>1
<1>4. IsFiniteSet(T) /\ Cardinality(T) \in Nat /\ Cardinality(T) <= Len(rips)
  BY <1>1, <1>2, <1>3, FS_Subset, FS_CardinalityType
<1>5. Cardinality(B) = Len(rips) - Cardinality(T)
  <2>1. PICK D : D = DOMAIN rips
    OBVIOUS
  <2>2. PICK U : U = T
    OBVIOUS
  <2>3. IsFiniteSet(D) /\ Cardinality(D) = Len(rips)
    BY <1>1, <1>2, <2>1
  <2>4. Cardinality(D \ U) = Cardinality(D) - Cardinality(D \cap U)
    BY ONLY <2>3, FS_Difference
  <2> QED
    BY <1>3, <2>1, <2>2, <2>3, <2>4
<1>6. ASSUME NEW i \in DOMAIN rips
      PROVE  BelowUpTo(rips, i) \in 0 .. Len(rips)
  <2> DEFINE D == {j \in 1 .. i : rips[j].side = -1}
  <2>1. D \in SUBSET (1 .. Len(rips))
    BY <1>1
  <2>2. IsFiniteSet(D) /\ Cardinality(D) \in Nat /\ Cardinality(D) <= Len(rips)
    BY <1>1, <1>2, <2>1, FS_Subset, FS_CardinalityType
  <2> QED
    BY <1>1, <2>2 DEF BelowUpTo
<1>7. Tops(rips) = Cardinality(T)
  BY DEF Tops
<1> QED
  BY <1>1, <1>4, <1>5, <1>6, <1>7

\* What a step of a resize keeps of the modes.
LEMMA KeyState ==
  ASSUME SessionInv, Next1 \in KeySteps, TypeOK', Sound(todo'), Next1' = NextOf(todo'),
         Next1' \in KeySteps \cup {"none", "nocbreak"},
         \A step : Has(todo', step) => Has(todo, step) /\ step \in KeySteps \cup ReadWrite,
         \A step \in ReadWrite : Has(todo, step) => Has(todo', step),
         UNCHANGED <<tty, proc, tstp, sig, asked, shell>>,
         UNCHANGED <<scr.orig, scr.save, scr.endwin, scr.useraw, scr.curt, scr.rawmode>>
  PROVE  StateInv' /\ ModeInv'
<1>1. StateInv /\ (Awake \/ Asleep) /\ AsleepLeft
  BY DEF SessionInv, StateInv, AtStep
<1>2. (Awake' <=> Awake) /\ (Asleep' <=> Asleep)
  BY DEF Awake, Asleep
<1>3. Next1' \in KeySteps => Next1' # "none" /\ Next1' # "nocbreak"
  BY DEF KeySteps, ResizeSteps
<1>4. Next1' # "none" => Has(todo', Next1')
  <2>1. todo' \in Seq(Steps)
    BY DEF Sound
  <2>2. todo' # <<>> => Head(todo') = todo'[1] /\ 1 \in DOMAIN todo'
    BY <2>1
  <2> QED
    BY <2>2 DEF NextOf, Has
<1>5. Next1' = "nocbreak" => Awake'
  <2>1. "nocbreak" \notin KeySteps
    BY DEF KeySteps, ResizeSteps
  <2>2. Next1' = "nocbreak" => ToDo("nocbreak")
    BY <1>4 DEF ToDo
  <2> QED
    BY <1>1, <1>2, <2>1, <2>2 DEF AsleepLeft
<1>6. AtStep(Next1)'
  <2>1. Next1' \notin {"stop_tstp", "unblock", "kill", "re_tstp", "stop_ca", "stop_tty"} \cup Unmasks
                      \cup InRestart
    BY DEF KeySteps, ResizeSteps, Unmasks, InRestart
  <2>2. Next1' \in ReadWrite => Next1' = "nocbreak"
    BY DEF KeySteps, ResizeSteps, ReadWrite, ModeCalls
  <2>3. Awake' \/ Asleep'
    BY <1>1, <1>2
  <2> QED
    BY <1>5, <2>1, <2>2, <2>3 DEF AtStep, InRestart
<1>7. AsleepLeft'
  <2>1. Next1' # "stop_save"
    BY DEF KeySteps, ResizeSteps
  <2>2. \A step : ToDo(step)' => ToDo(step)
    BY DEF ToDo
  <2> QED
    BY <1>1, <1>2, <2>1, <2>2 DEF AsleepLeft
<1>8. StateInv'
  <2>1. Next1' # "stop_tty"
    BY DEF KeySteps, ResizeSteps
  <2> QED
    BY <1>1, <1>2, <1>6, <1>7, <2>1 DEF StateInv, Stopped, Sound
<1>9. ModeInv'
  <2>1. SessionMode' = SessionMode
    BY DEF SessionMode
  <2>2. \A step \in ModeCalls \cup {"tcsetattr"} : Has(todo', step) <=> Has(todo, step)
    BY DEF ReadWrite
  <2>3. ~Has(todo', "stop_tstp") /\ Next1' # "stop_ca"
    BY DEF KeySteps, ResizeSteps, ReadWrite, ModeCalls
  <2>4. ~Saved'
    BY <2>3 DEF Saved, GivesBack, Has
  <2> QED
    BY <2>1, <2>2, <2>4, ModesKept DEF SessionInv
<1> QED
  BY <1>8, <1>9

LEMMA KeyAdvance ==
  ASSUME SessionInv, Next1 \in KeySteps, Done
  PROVE  /\ Sound(todo') /\ MayFollow(Next1, Next1') /\ Next1' = NextOf(todo')
         /\ Next1' \in KeySteps \cup {"none", "nocbreak"}
         /\ \A step : Has(todo, step) <=> step = Next1 \/ Has(todo', step)
         /\ \A step : Has(todo', step) => MayPrecede(Next1, step)
         /\ \A step : Has(todo', step) => step \in KeySteps \cup ReadWrite
<1>1. todo \in Seq(Steps) /\ Follows(todo) /\ Ordered(todo) /\ todo' = Tail(todo)
  BY DEF SessionInv, TypeOK, StateInv, Done
<1>2. todo # <<>>
  BY DEF Next1, KeySteps, ResizeSteps
<1>3. Next1' = NextOf(todo')
  BY DEF Next1, NextOf
<1>4. /\ Sound(todo') /\ MayFollow(Next1, NextOf(todo'))
      /\ \A step : Has(todo, step) <=> step = Next1 \/ Has(todo', step)
      /\ \A step : Has(todo', step) => MayPrecede(Next1, step)
  BY <1>1, <1>2, Advance
<1>5. Next1' \in KeySteps \cup {"none", "nocbreak"}
  BY <1>3, <1>4 DEF MayFollow, KeySteps, ResizeSteps, Unmasks, ModeCalls
<1>6. \A step : MayPrecede(Next1, step) => step \in KeySteps \cup ReadWrite
  BY DEF MayPrecede, KeySteps, ResizeSteps
<1> QED
  BY <1>3, <1>4, <1>5, <1>6

\* resizeterm() that finds the size to be the screen's is over at once.
LEMMA SkipResize ==
  ASSUME SessionInv, Next1 = "rt_begin", Skip(ResizeTermSteps)
  PROVE  /\ Sound(todo') /\ Next1' = NextOf(todo') /\ Next1' \in {"none", "key_resize"}
         /\ \A step : Has(todo, step) <=> step \in ResizeSteps \/ Has(todo', step)
         /\ \A step : Has(todo', step) => step \in {"key_resize"} \cup ReadWrite
<1>1. PICK s : s = todo
  OBVIOUS
<1>2. Sound(s) /\ s # <<>> /\ NextOf(s) = "rt_begin"
  BY <1>1 DEF SessionInv, TypeOK, StateInv, Sound, Next1, NextOf
<1>3. PICK t : t = Tail(s)
  OBVIOUS
<1>4. /\ Sound(t) /\ MayFollow(NextOf(s), NextOf(t))
      /\ \A step : Has(s, step) <=> step = NextOf(s) \/ Has(t, step)
  BY ONLY <1>2, <1>3, TailSound
<1>5. NextOf(t) = "rt_windows" /\ t # <<>>
  BY ONLY <1>2, <1>4 DEF MayFollow, Unmasks, ModeCalls, NextOf
<1>6. PICK u : u = Tail(t)
  OBVIOUS
<1>7. /\ Sound(u) /\ MayFollow(NextOf(t), NextOf(u))
      /\ \A step : Has(t, step) <=> step = NextOf(t) \/ Has(u, step)
  BY ONLY <1>4, <1>5, <1>6, TailSound
<1>8. NextOf(u) = "rt_lines" /\ u # <<>>
  BY ONLY <1>5, <1>7 DEF MayFollow, Unmasks, ModeCalls, NextOf
<1>9. PICK v : v = Tail(u)
  OBVIOUS
<1>10. /\ Sound(v) /\ MayFollow(NextOf(u), NextOf(v))
       /\ \A step : Has(u, step) <=> step = NextOf(u) \/ Has(v, step)
       /\ \A step : Has(v, step) => MayPrecede(NextOf(u), step)
  BY ONLY <1>7, <1>8, <1>9, TailSound
<1>11. NextOf(v) \in {"none", "key_resize"}
  BY ONLY <1>8, <1>10 DEF MayFollow, Unmasks, ModeCalls
<1>12. todo' = v
  <2>1. s \in Seq(Steps) /\ t \in Seq(Steps) /\ u \in Seq(Steps) /\ v \in Seq(Steps)
    BY <1>2, <1>4, <1>7, <1>10 DEF Sound
  <2>2. Len(t) = Len(s) - 1 /\ \A i \in 1 .. Len(t) : t[i] = s[i + 1]
    BY ONLY <1>2, <1>3, <2>1, HeadTailProperties
  <2>3. Len(u) = Len(t) - 1 /\ \A i \in 1 .. Len(u) : u[i] = t[i + 1]
    BY ONLY <1>5, <1>6, <2>1, HeadTailProperties
  <2>4. Len(v) = Len(u) - 1 /\ \A i \in 1 .. Len(v) : v[i] = u[i + 1]
    BY ONLY <1>8, <1>9, <2>1, HeadTailProperties
  <2>5. PICK k \in Nat : k = Len(v) /\ Len(s) = k + 3
    BY <2>1, <2>2, <2>3, <2>4
  <2>6. PICK w : w = SubSeq(s, 4, Len(s))
    OBVIOUS
  <2>7. /\ \A i \in 4 .. Len(s) : s[i] \in Steps
        /\ 4 \in Int /\ Len(s) \in Int
    BY <2>1
  <2>8. /\ w \in Seq(Steps) /\ Len(w) = (IF 4 <= Len(s) THEN Len(s) - 4 + 1 ELSE 0)
        /\ \A i \in 1 .. Len(s) - 4 + 1 : w[i] = s[4 + i - 1]
    BY ONLY <2>6, <2>7, SubSeqProperties
  <2>9. Len(w) = Len(v)
    BY <2>5, <2>8
  <2>10. \A i \in 1 .. Len(w) : w[i] = v[i]
    <3> TAKE i \in 1 .. Len(w)
    <3>1. i \in 1 .. k /\ i + 1 \in 1 .. Len(u) /\ (i + 1) + 1 \in 1 .. Len(t)
      BY <2>2, <2>3, <2>4, <2>5, <2>9
    <3>2. ((i + 1) + 1) + 1 = 4 + i - 1 /\ i \in 1 .. Len(s) - 4 + 1
      BY <2>5, <3>1
    <3>3. v[i] = s[((i + 1) + 1) + 1]
      BY <2>2, <2>3, <2>4, <2>5, <3>1
    <3> QED
      BY <2>8, <3>2, <3>3
  <2>11. w = v
    BY ONLY <2>1, <2>8, <2>9, <2>10, SeqEqual
  <2>12. Len(ResizeTermSteps) = 3
    BY DEF ResizeTermSteps
  <2> QED
    BY <1>1, <2>6, <2>11, <2>12 DEF Skip
<1>13. \A step : Has(v, step) => step \in {"key_resize"} \cup ReadWrite
  BY ONLY <1>8, <1>10 DEF MayPrecede
<1>14. \A step : Has(s, step) <=> step \in ResizeSteps \/ Has(v, step)
  BY ONLY <1>2, <1>4, <1>5, <1>7, <1>8, <1>10 DEF ResizeSteps
<1>15. Next1' = NextOf(todo')
  BY DEF Next1, NextOf
<1> QED
  BY <1>1, <1>10, <1>11, <1>12, <1>13, <1>14, <1>15

LEMMA ResizeBeginKeeps ==
  ASSUME SessionInv, proc = "running", ResizeBegin
  PROVE  SessionInv'
<1>1. /\ Next1 = "rt_begin" /\ scr' = [scr EXCEPT !.resized = TRUE]
      /\ UNCHANGED <<tty, proc, LINES, win, tstp, sig, asked, shell>>
      /\ \/ arg = scr.LINES /\ Skip(ResizeTermSteps) /\ arg' = 0
         \/ arg # scr.LINES /\ Done /\ UNCHANGED arg
  BY DEF ResizeBegin
<1>2. /\ scr' \in Screen /\ scr'.resized
      /\ UNCHANGED <<scr.orig, scr.save, scr.endwin, scr.useraw, scr.curt, scr.rawmode>>
      /\ UNCHANGED <<scr.LINES, scr.rewound>>
  BY <1>1 DEF SessionInv, TypeOK, Screen
<1>3. Next1 \in KeySteps
  BY <1>1 DEF KeySteps, ResizeSteps
<1>4. ToDo("rt_begin") /\ arg = LINES
  <2>1. todo \in Seq(Steps) /\ todo # <<>> /\ Head(todo) = "rt_begin"
    BY <1>1 DEF SessionInv, TypeOK, Next1
  <2>2. ToDo("rt_begin")
    BY <2>1 DEF ToDo, Has
  <2> QED
    BY <2>2 DEF SessionInv, SizeInv, ResizeSteps
<1>5. /\ Sound(todo') /\ Next1' = NextOf(todo')
      /\ Next1' \in KeySteps \cup {"none", "nocbreak"}
      /\ \A step : Has(todo', step) => Has(todo, step) /\ step \in KeySteps \cup ReadWrite
      /\ \A step \in ReadWrite : Has(todo, step) => Has(todo', step)
      /\ Has(todo, "key_resize") <=> Has(todo', "key_resize")
  <2>1. \A step \in ReadWrite : step \notin ResizeSteps /\ step # Next1
    BY <1>1 DEF ResizeSteps, ReadWrite, ModeCalls
  <2>2. {"key_resize"} \cup ReadWrite \subseteq KeySteps \cup ReadWrite /\ "key_resize" \in KeySteps
        /\ "key_resize" \notin ResizeSteps
    BY DEF KeySteps, ResizeSteps
  <2>3. CASE Skip(ResizeTermSteps)
    BY <1>1, <2>1, <2>2, <2>3, SkipResize
  <2>4. CASE Done
    BY <1>1, <1>3, <2>1, <2>4, KeyAdvance
  <2> QED
    BY <1>1, <2>3, <2>4
<1>6. TypeOK'
  <2>1. todo' \in Seq(Steps) /\ arg' \in Heights \cup {0}
    BY <1>1, <1>5 DEF SessionInv, TypeOK, Sound
  <2> QED
    BY <1>1, <1>2, <2>1 DEF SessionInv, TypeOK, Screen
<1>7. StateInv' /\ ModeInv'
  BY <1>1, <1>2, <1>3, <1>5, <1>6, KeyState
<1>8. \/ LINES' = tty'.rows
      \/ "WINCH" \in sig'.pending
      \/ scr'.endwin /\ Next1' \notin {"re_windows", "re_orig", "re_tty", "re_start"}
  BY <1>1, <1>2, <1>5 DEF SessionInv, SizeInv, KeySteps, ResizeSteps
<1>9. CASE arg = scr.LINES /\ Skip(ResizeTermSteps) /\ arg' = 0
  <2>1. /\ \A step : Has(todo', step) => step \in {"key_resize"} \cup ReadWrite
        /\ \A step : Has(todo, step) <=> step \in ResizeSteps \/ Has(todo', step)
        /\ Next1' \in {"none", "key_resize"}
    BY <1>1, <1>9, SkipResize
  <2>2. \A step \in ResizeSteps : ~ToDo(step)'
    BY <2>1 DEF ToDo, ResizeSteps, ReadWrite, ModeCalls
  <2>3. Next1' \in KeySteps \/ \A step : ~ToDo(step)'
    <3>1. Next1' = "none" => todo' = <<>>
      <4>1. todo' \in Seq(Steps) /\ "none" \notin Steps
        BY <1>5 DEF Sound, Steps, InRestart, ModeCalls
      <4>2. todo' # <<>> => Head(todo') \in Steps
        BY <4>1
      <4> QED
        BY <1>5, <4>1, <4>2 DEF NextOf
    <3> QED
      BY <2>1, <3>1, NothingSound DEF KeySteps, ToDo
  <2>4. SizeInv'
    BY <1>1, <1>2, <1>4, <1>8, <1>9, <2>2, <2>3 DEF SizeInv
  <2>5. ToDo("rt_windows") /\ ToDo("rt_lines") /\ ~ToDo("rt_lines")'
    BY <2>1, <2>2 DEF ToDo, ResizeSteps
  <2>6. WinInv'
    BY <1>1, <1>2, <2>5 DEF SessionInv, WinInv, TopsFirst, Cover
  <2> QED
    BY <1>6, <1>7, <2>4, <2>6 DEF SessionInv
<1>10. CASE arg # scr.LINES /\ Done /\ UNCHANGED arg
  <2>1. /\ MayFollow(Next1, Next1')
        /\ \A step : Has(todo, step) <=> step = Next1 \/ Has(todo', step)
    BY <1>3, <1>10, KeyAdvance
  <2>2. Next1' = "rt_windows"
    BY <1>1, <2>1 DEF MayFollow, Unmasks, ModeCalls
  <2>3. \A step : step # "rt_begin" => (ToDo(step)' <=> ToDo(step))
    BY <1>1, <2>1 DEF ToDo
  <2>4. SizeInv'
    <3>1. ToDo("key_resize")' /\ ~ToDo("rt_lines")' => scr'.LINES = LINES'
      BY <1>1, <1>2, <2>3 DEF SessionInv, SizeInv
    <3> QED
      BY <1>1, <1>2, <1>4, <1>8, <1>10, <2>2, <3>1 DEF SizeInv, KeySteps, ResizeSteps
  <2>5. WinInv'
    <3>1. (ToDo("rt_lines")' <=> ToDo("rt_lines")) /\ (ToDo("rt_windows")' <=> ToDo("rt_windows"))
      BY <2>3
    <3> QED
      BY <1>1, <1>2, <1>10, <3>1 DEF SessionInv, WinInv, TopsFirst, Cover
  <2> QED
    BY <1>6, <1>7, <2>4, <2>5 DEF SessionInv
<1> QED
  BY <1>1, <1>9, <1>10

LEMMA ResizeWindowsKeeps ==
  ASSUME SessionInv, proc = "running", ResizeWindows
  PROVE  SessionInv'
<1>1. /\ Next1 = "rt_windows" /\ Done
      /\ win' = [win EXCEPT !.curscr = TermResized(@, arg),
                            !.stdscr = TermResized(@, arg - RippedLines(-1))]
      /\ UNCHANGED <<tty, proc, scr, LINES, tstp, sig, arg, asked, shell>>
  BY DEF ResizeWindows
<1>2. Next1 \in KeySteps
  BY <1>1 DEF KeySteps, ResizeSteps
<1>3. /\ Sound(todo') /\ Next1' = NextOf(todo') /\ MayFollow(Next1, Next1')
      /\ Next1' \in KeySteps \cup {"none", "nocbreak"}
      /\ \A step : Has(todo, step) <=> step = Next1 \/ Has(todo', step)
      /\ \A step : Has(todo', step) => MayPrecede(Next1, step)
      /\ \A step : Has(todo', step) => step \in KeySteps \cup ReadWrite
  BY <1>1, <1>2, KeyAdvance
<1>4. Next1' = "rt_lines" /\ ToDo("rt_windows") /\ ~ToDo("rt_windows")' /\ ToDo("rt_lines")'
      /\ ~ToDo("rt_begin")'
  <2>1. Next1' = "rt_lines"
    BY <1>1, <1>3 DEF MayFollow, Unmasks, ModeCalls
  <2>2. todo' \in Seq(Steps) /\ todo' # <<>> /\ Head(todo') = "rt_lines"
    BY <1>3, <2>1 DEF Sound, NextOf
  <2>3. ToDo("rt_lines")'
    BY <2>2 DEF ToDo, Has
  <2>4. ~MayPrecede("rt_windows", "rt_windows") /\ ~MayPrecede("rt_windows", "rt_begin")
    BY DEF MayPrecede, ReadWrite, ModeCalls
  <2> QED
    BY <1>1, <1>3, <2>1, <2>3, <2>4 DEF ToDo
<1>5. arg = LINES /\ arg \in 3 .. 100
  BY <1>4, SessionAssumption DEF SessionInv, SizeInv, ResizeSteps, TypeOK
<1>6. /\ win \in [curscr : Window, stdscr : Window, rips : Seq(Ripped)]
      /\ Len(win.rips) \in 0 .. 2 /\ Tops(win.rips) \in 0 .. Len(win.rips)
      /\ RippedLines(-1) = Len(win.rips) - Tops(win.rips)
      /\ win.curscr.begy = 0 /\ win.stdscr.begy = Tops(win.rips)
  <2>1. win \in [curscr : Window, stdscr : Window, rips : Seq(Ripped)]
    BY DEF SessionInv, TypeOK, Ripped
  <2>2. PICK rips \in Seq(Ripped) : rips = win.rips
    BY <2>1
  <2>3. Len(rips) \in Nat /\ Len(rips) <= 2
    BY <2>2 DEF SessionInv, WinInv
  <2>4. /\ Tops(rips) \in 0 .. Len(rips)
        /\ Cardinality({i \in DOMAIN rips : rips[i].side = -1}) = Len(rips) - Tops(rips)
    BY SidesCounted
  <2>5. win.curscr.begy = 0 /\ win.stdscr.begy = Tops(win.rips)
    BY DEF SessionInv, WinInv
  <2>6. Len(rips) \in 0 .. 2
    <3>1. \A k \in Nat : k <= 2 => k \in 0 .. 2
      OBVIOUS
    <3> QED
      BY ONLY <2>3, <3>1
  <2>7. RippedLines(-1) = Len(rips) - Tops(rips)
    BY <2>2, <2>4 DEF RippedLines
  <2> QED
    BY ONLY <2>1, <2>2, <2>4, <2>5, <2>6, <2>7
<1>7. PICK n : n = arg - RippedLines(-1)
  OBVIOUS
<1>8. n \in Int /\ n - Tops(win.rips) = arg - Len(win.rips) /\ n - Tops(win.rips) \in 1 .. 100
  <2>1. PICK l \in 0 .. 2, t \in 0 .. 2 :
          l = Len(win.rips) /\ t = Tops(win.rips) /\ t <= l
    <3>1. \A l \in 0 .. 2 : \A t \in 0 .. l : t \in 0 .. 2 /\ t <= l
      OBVIOUS
    <3> QED
      BY <1>6, <3>1
  <2>2. n = arg - (l - t)
    BY <1>6, <1>7, <2>1
  <2>3. PICK a \in 3 .. 100 : a = arg
    BY <1>5
  <2>4. a - (l - t) \in Int /\ (a - (l - t)) - t = a - l /\ a - l \in 1 .. 100
    BY ONLY a \in 3 .. 100, l \in 0 .. 2, t \in 0 .. 2
  <2> QED
    BY ONLY <2>1, <2>2, <2>3, <2>4
<1>9. \A w \in Window, m \in Int : m - w.begy \in 1 .. 100 =>
        /\ TermResized(w, m) \in Window
        /\ TermResized(w, m).begy = w.begy
        /\ w.reqy = 0 => TermResized(w, m) = [begy |-> w.begy, maxy |-> m - w.begy, reqy |-> 0]
  <2> SUFFICES ASSUME NEW w \in Window, NEW m \in Int, m - w.begy \in 1 .. 100
               PROVE  /\ TermResized(w, m) \in Window
                      /\ TermResized(w, m).begy = w.begy
                      /\ w.reqy = 0 => TermResized(w, m) = [begy |-> w.begy, maxy |-> m - w.begy, reqy |-> 0]
    OBVIOUS
  <2>1. PICK h : h = IF w.reqy = 0 \/ w.begy + w.reqy >= m THEN m - w.begy ELSE w.reqy
    OBVIOUS
  <2>2. h \in 1 .. 100 /\ (w.reqy = 0 => h = m - w.begy)
    BY <2>1 DEF Window
  <2>3. TermResized(w, m) = [w EXCEPT !.maxy = h]
    BY ONLY <2>1 DEF TermResized
  <2> QED
    BY <2>2, <2>3 DEF Window
<1>10. PICK c : c = TermResized(win.curscr, arg)
  OBVIOUS
<1>11. PICK d : d = TermResized(win.stdscr, n)
  OBVIOUS
<1>12. /\ c \in Window /\ c.begy = 0
       /\ win.curscr.reqy = 0 => c = [begy |-> 0, maxy |-> arg, reqy |-> 0]
  <2>1. PICK w \in Window : w = win.curscr
    BY <1>6
  <2>2. w.begy = 0 /\ arg \in Int /\ arg - 0 = arg /\ arg \in 1 .. 100
    <3>1. arg \in 3 .. 100
      BY <1>5
    <3>2. arg \in Int /\ arg - 0 = arg /\ arg \in 1 .. 100
      BY ONLY <3>1
    <3> QED
      BY <1>6, <2>1, <3>2
  <2>3. /\ c \in Window /\ c.begy = w.begy
        /\ w.reqy = 0 => c = [begy |-> w.begy, maxy |-> arg - w.begy, reqy |-> 0]
    BY <1>9, <1>10, <2>1, <2>2
  <2> QED
    BY <2>1, <2>2, <2>3
<1>13. /\ d \in Window /\ d.begy = Tops(win.rips)
       /\ win.stdscr.reqy = 0 =>
            d = [begy |-> Tops(win.rips), maxy |-> arg - Len(win.rips), reqy |-> 0]
  BY <1>6, <1>8, <1>9, <1>11
<1>14. win' = [win EXCEPT !.curscr = c, !.stdscr = d]
  BY <1>1, <1>7, <1>10, <1>11
<1>15. /\ win' \in [curscr : Window, stdscr : Window, rips : Seq(Ripped)]
       /\ win'.curscr = c /\ win'.stdscr = d /\ win'.rips = win.rips
  BY ONLY <1>6, <1>12, <1>13, <1>14
<1>16. TypeOK'
  <2>1. todo' \in Seq(Steps)
    BY <1>3 DEF Sound
  <2>2. UNCHANGED <<tty, proc, scr, LINES, tstp, sig, arg, asked, shell>>
    BY <1>1
  <2>3. TypeOK
    BY DEF SessionInv
  <2> QED
    BY ONLY <1>15, <2>1, <2>2, <2>3 DEF TypeOK, Ripped
<1>17. StateInv' /\ ModeInv'
  <2>1. \A step \in ReadWrite : Has(todo, step) => Has(todo', step)
    BY <1>1, <1>3 DEF ReadWrite, ModeCalls
  <2>2. /\ UNCHANGED <<tty, proc, tstp, sig, asked, shell>>
        /\ UNCHANGED <<scr.orig, scr.save, scr.endwin, scr.useraw, scr.curt, scr.rawmode>>
    BY <1>1
  <2> QED
    BY <1>2, <1>3, <1>16, <2>1, <2>2, KeyState
<1>18. SizeInv'
  <2>1. UNCHANGED <<tty, scr, LINES, sig, arg>>
    BY <1>1
  <2>2. SizeInv
    BY DEF SessionInv
  <2> QED
    BY ONLY <1>1, <1>4, <1>5, <2>1, <2>2 DEF SizeInv, KeySteps, ResizeSteps
<1>19. WinInv'
  <2>1. scr' = scr /\ arg' = arg
    BY <1>1
  <2>2. ~scr.rewound => Cover(scr.LINES)
    BY <1>4 DEF SessionInv, WinInv
  <2>3. ~scr'.rewound => Cover(arg)'
    <3>1. ~scr.rewound => win.curscr.reqy = 0 /\ win.stdscr.reqy = 0
      BY <2>2 DEF Cover
    <3> QED
      BY <1>12, <1>13, <1>15, <2>1, <3>1 DEF Cover
  <2>4. TopsFirst' /\ Placed(win'.rips, scr'.LINES) /\ Len(win'.rips) <= 2
    BY <1>15, <2>1 DEF SessionInv, WinInv, TopsFirst
  <2> QED
    BY <1>4, <1>12, <1>13, <1>15, <2>1, <2>3, <2>4 DEF WinInv
<1> QED
  BY <1>16, <1>17, <1>18, <1>19 DEF SessionInv

LEMMA ResizeLinesKeeps ==
  ASSUME SessionInv, proc = "running", ResizeLines
  PROVE  SessionInv'
<1>1. /\ Next1 = "rt_lines" /\ Done /\ arg' = 0 /\ LINES' = arg
      /\ scr' = [scr EXCEPT !.LINES = arg]
      /\ win' = [win EXCEPT !.rips = RipOffResized(@, arg)]
      /\ UNCHANGED <<tty, proc, tstp, sig, asked, shell>>
  BY DEF ResizeLines
<1>2. Next1 \in KeySteps
  BY <1>1 DEF KeySteps, ResizeSteps
<1>3. /\ Sound(todo') /\ Next1' = NextOf(todo') /\ MayFollow(Next1, Next1')
      /\ Next1' \in KeySteps \cup {"none", "nocbreak"}
      /\ \A step : Has(todo, step) <=> step = Next1 \/ Has(todo', step)
      /\ \A step : Has(todo', step) => MayPrecede(Next1, step)
      /\ \A step : Has(todo', step) => step \in KeySteps \cup ReadWrite
  BY <1>1, <1>2, KeyAdvance
<1>4. /\ Next1' \in {"none", "key_resize"} /\ ToDo("rt_lines") /\ ~ToDo("rt_windows")
      /\ \A step \in ResizeSteps : ~ToDo(step)'
  <2>1. Next1' \in {"none", "key_resize"}
    BY <1>1, <1>3 DEF MayFollow, Unmasks, ModeCalls
  <2>2. \A step \in ResizeSteps : ~MayPrecede("rt_lines", step)
    BY DEF MayPrecede, ReadWrite, ModeCalls, ResizeSteps
  <2> QED
    BY <1>1, <1>3, <2>1, <2>2 DEF ToDo, ResizeSteps
<1>5. arg = LINES /\ arg \in 3 .. 100 /\ arg \in Heights
  BY <1>4, SessionAssumption DEF SessionInv, SizeInv, ResizeSteps, TypeOK
<1>6. PICK rips \in Seq(Ripped) : rips = win.rips
  BY DEF SessionInv, TypeOK, Ripped
<1>7. /\ Len(rips) \in 0 .. 2 /\ \A i \in DOMAIN rips : BelowUpTo(rips, i) \in 0 .. Len(rips)
      /\ DOMAIN rips = 1 .. Len(rips) /\ \A i \in DOMAIN rips : rips[i] \in Ripped
  <2>1. Len(rips) \in Nat /\ Len(rips) <= 2
    BY <1>6 DEF SessionInv, WinInv
  <2>2. \A i \in DOMAIN rips : BelowUpTo(rips, i) \in 0 .. Len(rips)
    BY SidesCounted
  <2>3. Len(rips) \in 0 .. 2
    <3>1. \A k \in Nat : k <= 2 => k \in 0 .. 2
      OBVIOUS
    <3> QED
      BY ONLY <2>1, <3>1
  <2> QED
    BY <2>2, <2>3
<1>8. PICK r : r = RipOffResized(rips, arg)
  OBVIOUS
<1>9. /\ r \in Seq(Ripped) /\ Len(r) = Len(rips) /\ DOMAIN r = DOMAIN rips
      /\ \A i \in DOMAIN rips : r[i].side = rips[i].side
      /\ \A i \in DOMAIN rips : rips[i].side = 1 => r[i] = rips[i]
  <2>1. \A i \in DOMAIN rips :
          /\ r[i] \in Ripped /\ r[i].side = rips[i].side /\ (rips[i].side = 1 => r[i] = rips[i])
    <3> TAKE i \in DOMAIN rips
    <3>1. CASE rips[i].side = 1
      BY <1>7, <1>8, <3>1 DEF RipOffResized
    <3>2. CASE rips[i].side # 1
      <4>1. PICK b : b = arg - BelowUpTo(rips, i)
        OBVIOUS
      <4>2. b \in 0 .. 100
        <5>1. PICK m \in 0 .. 2 : m = BelowUpTo(rips, i)
          BY <1>7
        <5>2. arg \in 3 .. 100 /\ b = arg - m
          BY <1>5, <4>1, <5>1
        <5> QED
          BY ONLY <5>2, m \in 0 .. 2
      <4>3. r[i] = [rips[i] EXCEPT !.begy = b]
        BY <1>7, <1>8, <3>2, <4>1 DEF RipOffResized
      <4> QED
        BY <1>7, <3>2, <4>2, <4>3 DEF Ripped
    <3> QED
      BY <3>1, <3>2
  <2>2. r = [i \in 1 .. Len(rips) |-> r[i]]
    BY <1>7, <1>8 DEF RipOffResized
  <2>3. Len(rips) \in Nat /\ \A i \in 1 .. Len(rips) : r[i] \in Ripped
    BY <1>7, <2>1
  <2>4. r \in Seq(Ripped) /\ Len(r) = Len(rips)
    BY ONLY <2>2, <2>3
  <2> QED
    BY <1>7, <2>1, <2>4
<1>10. /\ \A i \in DOMAIN rips : BelowUpTo(r, i) = BelowUpTo(rips, i)
       /\ Tops(r) = Tops(rips)
  <2>1. \A i \in DOMAIN rips : \A j \in 1 .. i : j \in DOMAIN rips
    BY <1>7
  <2>2. \A i \in DOMAIN rips : {j \in 1 .. i : r[j].side = -1} = {j \in 1 .. i : rips[j].side = -1}
    BY <1>9, <2>1
  <2>3. {i \in DOMAIN r : r[i].side = 1} = {i \in DOMAIN rips : rips[i].side = 1}
    BY <1>9
  <2> QED
    BY <2>2, <2>3 DEF BelowUpTo, Tops
<1>11. Placed(r, arg)
  <2>1. \A i \in DOMAIN rips : RipOffResized(r, arg)[i] = r[i]
    <3> TAKE i \in DOMAIN rips
    <3>1. CASE rips[i].side = 1
      BY <1>9, <3>1 DEF RipOffResized
    <3>2. CASE rips[i].side # 1
      <4>1. PICK b : b = arg - BelowUpTo(rips, i)
        OBVIOUS
      <4>2. r[i] = [rips[i] EXCEPT !.begy = b]
        BY <1>7, <1>8, <3>2, <4>1 DEF RipOffResized
      <4>3. RipOffResized(r, arg)[i] = [r[i] EXCEPT !.begy = b]
        BY <1>9, <1>10, <3>2, <4>1 DEF RipOffResized
      <4> QED
        BY <1>7, <4>2, <4>3 DEF Ripped
    <3> QED
      BY <3>1, <3>2
  <2>2. RipOffResized(r, arg) = [i \in DOMAIN rips |-> RipOffResized(r, arg)[i]]
    BY <1>9 DEF RipOffResized
  <2>3. r = [i \in DOMAIN rips |-> r[i]]
    BY <1>8 DEF RipOffResized
  <2> QED
    BY <2>1, <2>2, <2>3 DEF Placed
<1>12. /\ win' \in [curscr : Window, stdscr : Window, rips : Seq(Ripped)]
       /\ win'.curscr = win.curscr /\ win'.stdscr = win.stdscr /\ win'.rips = r
  <2>1. win' = [win EXCEPT !.rips = r]
    BY <1>1, <1>6, <1>8
  <2>2. win \in [curscr : Window, stdscr : Window, rips : Seq(Ripped)]
    BY DEF SessionInv, TypeOK, Ripped
  <2> QED
    BY ONLY <1>9, <2>1, <2>2
<1>13. /\ scr' \in Screen /\ scr'.LINES = arg
       /\ UNCHANGED <<scr.orig, scr.save, scr.endwin, scr.useraw, scr.curt, scr.rawmode>>
       /\ UNCHANGED <<scr.resized, scr.rewound>>
  BY <1>1, <1>5 DEF SessionInv, TypeOK, Screen
<1>14. TypeOK'
  <2>1. todo' \in Seq(Steps)
    BY <1>3 DEF Sound
  <2>2. UNCHANGED <<tty, proc, tstp, sig, asked, shell>> /\ arg' = 0 /\ LINES' \in Heights
    BY <1>1, <1>5
  <2>3. TypeOK
    BY DEF SessionInv
  <2> QED
    BY ONLY <1>12, <1>13, <2>1, <2>2, <2>3 DEF TypeOK, Ripped, Screen
<1>15. StateInv' /\ ModeInv'
  <2>1. \A step \in ReadWrite : Has(todo, step) => Has(todo', step)
    BY <1>1, <1>3 DEF ReadWrite, ModeCalls
  <2>2. UNCHANGED <<tty, proc, tstp, sig, asked, shell>>
    BY <1>1
  <2> QED
    BY <1>2, <1>3, <1>13, <1>14, <2>1, <2>2, KeyState
<1>16. SizeInv'
  <2>1. UNCHANGED <<tty, LINES, sig, scr.endwin>> /\ scr'.LINES = LINES'
    BY <1>1, <1>5, <1>13
  <2>2. SizeInv
    BY DEF SessionInv
  <2>3. Next1' \in KeySteps \/ \A step : ~ToDo(step)'
    <3>1. Next1' = "none" => todo' = <<>>
      <4>1. todo' \in Seq(Steps) /\ "none" \notin Steps
        BY <1>3 DEF Sound, Steps, InRestart, ModeCalls
      <4>2. todo' # <<>> => Head(todo') \in Steps
        BY <4>1
      <4> QED
        BY <1>3, <4>1, <4>2 DEF NextOf
    <3> QED
      BY <1>4, <3>1, NothingSound DEF KeySteps, ToDo
  <2>4. Next1' \notin {"re_windows", "re_orig", "re_tty", "re_start"}
    BY <1>4
  <2>5. (\E step \in KeySteps : ToDo(step))' /\ Next1' \notin KeySteps => FALSE
    BY <2>3
  <2> QED
    BY <1>1, <1>4, <2>1, <2>2, <2>4, <2>5 DEF SizeInv
<1>17. WinInv'
  <2>1. ~scr.rewound => Cover(arg)
    BY <1>4 DEF SessionInv, WinInv
  <2>2. ~scr'.rewound => Cover(scr.LINES)'
    BY <1>6, <1>9, <1>10, <1>12, <1>13, <2>1 DEF Cover
  <2>3. ~ToDo("rt_lines")'
    BY <1>4 DEF ResizeSteps
  <2>4. TopsFirst'
    <3>1. \A i \in DOMAIN rips : \A j \in 1 .. i : j \in DOMAIN rips
      BY <1>7
    <3>2. \A i \in DOMAIN rips : {j \in 1 .. i : r[j].side = 1} = {j \in 1 .. i : rips[j].side = 1}
      BY <1>9, <3>1
    <3>3. \A i \in DOMAIN rips : rips[i].side = 1 =>
            rips[i].begy + 1 = Cardinality({j \in 1 .. i : rips[j].side = 1})
      BY <1>6 DEF SessionInv, WinInv, TopsFirst
    <3>4. \A i \in DOMAIN r : r[i].side = 1 =>
            r[i].begy + 1 = Cardinality({j \in 1 .. i : r[j].side = 1})
      BY ONLY <1>9, <3>2, <3>3
    <3> QED
      BY <1>12, <3>4 DEF TopsFirst
  <2> QED
    BY <1>6, <1>7, <1>9, <1>10, <1>11, <1>12, <1>13, <2>2, <2>3, <2>4 DEF SessionInv, WinInv
<1> QED
  BY <1>14, <1>15, <1>16, <1>17 DEF SessionInv

LEMMA KeyResizeKeeps ==
  ASSUME SessionInv, proc = "running", KeyResizeReturned
  PROVE  SessionInv'
<1>1. /\ Next1 = "key_resize" /\ Done /\ arg' = 0 /\ scr' = [scr EXCEPT !.resized = FALSE]
      /\ UNCHANGED <<tty, proc, LINES, win, tstp, sig, asked, shell>>
  BY DEF KeyResizeReturned
<1>2. Next1 \in KeySteps
  BY <1>1 DEF KeySteps, ResizeSteps
<1>3. /\ Sound(todo') /\ Next1' = NextOf(todo') /\ MayFollow(Next1, Next1')
      /\ Next1' \in KeySteps \cup {"none", "nocbreak"}
      /\ \A step : Has(todo, step) <=> step = Next1 \/ Has(todo', step)
      /\ \A step : Has(todo', step) => MayPrecede(Next1, step)
      /\ \A step : Has(todo', step) => step \in KeySteps \cup ReadWrite
  BY <1>1, <1>2, KeyAdvance
<1>4. /\ Next1' \in {"none", "nocbreak"} /\ ToDo("key_resize")
      /\ \A step \in KeySteps : ~ToDo(step)'
  <2>1. Next1' \in {"none", "nocbreak"}
    BY <1>1, <1>3 DEF MayFollow, Unmasks, ModeCalls
  <2>2. \A step \in KeySteps : ~MayPrecede("key_resize", step)
    BY DEF MayPrecede, ReadWrite, ModeCalls, KeySteps, ResizeSteps
  <2> QED
    BY <1>1, <1>3, <2>1, <2>2 DEF ToDo
<1>5. /\ scr' \in Screen /\ ~scr'.resized
      /\ UNCHANGED <<scr.orig, scr.save, scr.endwin, scr.useraw, scr.curt, scr.rawmode>>
      /\ UNCHANGED <<scr.LINES, scr.rewound>>
  BY <1>1 DEF SessionInv, TypeOK, Screen
<1>6. TypeOK'
  <2>1. todo' \in Seq(Steps)
    BY <1>3 DEF Sound
  <2>2. UNCHANGED <<tty, proc, tstp, sig, asked, shell, LINES, win>> /\ arg' = 0
    BY <1>1
  <2>3. TypeOK
    BY DEF SessionInv
  <2> QED
    BY ONLY <1>5, <2>1, <2>2, <2>3 DEF TypeOK, Screen
<1>7. StateInv' /\ ModeInv'
  <2>1. \A step \in ReadWrite : Has(todo, step) => Has(todo', step)
    BY <1>1, <1>3 DEF ReadWrite, ModeCalls
  <2> QED
    BY <1>1, <1>2, <1>3, <1>5, <1>6, <2>1, KeyState
<1>8. ~ToDo("rt_lines") /\ \A step \in ResizeSteps : ~ToDo(step)'
  BY <1>1, <1>3, <1>4 DEF ToDo, KeySteps, ResizeSteps
<1>9. SizeInv'
  <2>1. scr.LINES = LINES /\ SizeInv
    BY <1>4, <1>8 DEF SessionInv, SizeInv
  <2>2. Next1' \notin {"re_windows", "re_orig", "re_tty", "re_start"}
    BY <1>4
  <2>3. (~\E step \in ResizeSteps : ToDo(step)') /\ ~\E step \in KeySteps : ToDo(step)'
    BY <1>4, <1>8
  <2>4. ~ToDo("key_resize")'
    BY <1>4 DEF KeySteps
  <2> QED
    BY <1>1, <1>5, <2>1, <2>2, <2>3, <2>4 DEF SizeInv
<1>10. WinInv'
  <2>1. ~ToDo("rt_lines")'
    BY <1>8 DEF ResizeSteps
  <2> QED
    BY <1>1, <1>5, <1>8, <2>1 DEF SessionInv, WinInv, TopsFirst, Cover
<1> QED
  BY <1>6, <1>7, <1>9, <1>10 DEF SessionInv

-----------------------------------------------------------------------------
(* The calls that set the modes, and the read *)

\* A call that sets the modes of the session does set them.
LEMMA CallSets ==
  ASSUME NEW s, Sound(s), NEW call \in ModeCalls, Has(s, call)
  PROVE  Has(s, "tcsetattr")
<1>1. PICK i \in DOMAIN s : s[i] = call
  BY DEF Has
<1>2. MayFollow(call, IF i = Len(s) THEN "none" ELSE s[i + 1])
  BY <1>1 DEF Sound, Follows
<1>3. (IF i = Len(s) THEN "none" ELSE s[i + 1]) = "tcsetattr"
  BY <1>2 DEF MayFollow, ModeCalls, Unmasks
<1>4. i # Len(s) /\ s[i + 1] = "tcsetattr"
  BY <1>3
<1>5. i + 1 \in DOMAIN s
  BY <1>4 DEF Sound
<1> QED
  BY <1>4, <1>5 DEF Has

LEMMA ReadWriteAdvance ==
  ASSUME SessionInv, Next1 \in ReadWrite, Done
  PROVE  /\ Sound(todo') /\ MayFollow(Next1, Next1') /\ Next1' = NextOf(todo')
         /\ Next1' \in ReadWrite \cup {"none"} /\ Awake /\ ~Saved'
         /\ \A step : Has(todo, step) <=> step = Next1 \/ Has(todo', step)
         /\ \A step : Has(todo', step) => MayPrecede(Next1, step)
         /\ \A step \in KeySteps : ~Has(todo, step) /\ ~Has(todo', step)
<1>1. todo \in Seq(Steps) /\ Follows(todo) /\ Ordered(todo) /\ todo' = Tail(todo)
  BY DEF SessionInv, TypeOK, StateInv, Done
<1>2. todo # <<>>
  BY DEF Next1, ReadWrite, ModeCalls
<1>3. Next1' = NextOf(todo')
  BY DEF Next1, NextOf
<1>4. /\ Sound(todo') /\ MayFollow(Next1, NextOf(todo'))
      /\ \A step : Has(todo, step) <=> step = Next1 \/ Has(todo', step)
      /\ \A step : Has(todo', step) => MayPrecede(Next1, step)
  BY <1>1, <1>2, Advance
<1>5. Next1' \in ReadWrite \cup {"none"}
  BY <1>3, <1>4 DEF MayFollow, ReadWrite, ModeCalls, Unmasks
<1>6. \A step : Has(todo', step) => step \in ReadWrite
  BY <1>4 DEF MayPrecede
<1>7. \A step \in KeySteps : step \notin ReadWrite
  BY DEF KeySteps, ResizeSteps, ReadWrite, ModeCalls
<1>8. ~Has(todo', "stop_tstp") /\ Next1' # "stop_ca"
  BY <1>5, <1>6 DEF ReadWrite, ModeCalls
<1>9. Awake
  BY DEF SessionInv, StateInv, AtStep
<1>10. ~Saved'
  BY <1>8 DEF Saved, GivesBack, Has
<1> QED
  BY <1>3, <1>4, <1>5, <1>6, <1>7, <1>9, <1>10

LEMMA ReadWriteKeeps ==
  ASSUME SessionInv, Next1 \in ReadWrite, Done, TypeOK',
         UNCHANGED <<proc, LINES, win, tstp, sig, arg, asked, shell, tty.rows, tty.ca>>,
         UNCHANGED <<scr.orig, scr.endwin, scr.LINES, scr.resized, scr.rewound>>
  PROVE  StateInv' /\ SizeInv' /\ WinInv'
<1>1. /\ Sound(todo') /\ Next1' = NextOf(todo')
      /\ Next1' \in ReadWrite \cup {"none"} /\ Awake
      /\ \A step \in KeySteps : ~Has(todo, step) /\ ~Has(todo', step)
  BY ReadWriteAdvance
<1>2. Awake' /\ ~Asleep' /\ ~Asleep
  BY <1>1 DEF Awake, Asleep
<1>3. AtStep(Next1)'
  BY <1>1, <1>2 DEF AtStep, KeySteps, ResizeSteps, ReadWrite, ModeCalls, Unmasks, InRestart
<1>4. StateInv'
  BY <1>1, <1>2, <1>3 DEF SessionInv, StateInv, AsleepLeft, Stopped, Sound
<1>5. SizeInv'
  <2>1. Next1 \notin KeySteps
    BY DEF KeySteps, ResizeSteps, ReadWrite, ModeCalls
  <2> QED
    BY <1>1, <2>1, SizeKept DEF SessionInv, Awake
<1>6. WinInv'
  BY <1>1, WindowsKept DEF SessionInv, KeySteps
<1> QED
  BY <1>4, <1>5, <1>6

LEMMA AssignKeeps ==
  ASSUME SessionInv, proc = "running", Assign
  PROVE  SessionInv'
<1>1. /\ Next1 \in ModeCalls /\ Done /\ scr' = Assigned(scr, Next1)
      /\ UNCHANGED <<tty, proc, LINES, win, tstp, sig, arg, asked, shell>>
  BY DEF Assign
<1>2. Next1 \in ReadWrite
  BY <1>1 DEF ReadWrite
<1>3. /\ Sound(todo') /\ MayFollow(Next1, Next1') /\ Next1' = NextOf(todo') /\ ~Saved' /\ Awake
      /\ \A step : Has(todo, step) <=> step = Next1 \/ Has(todo', step)
      /\ \A step : Has(todo', step) => MayPrecede(Next1, step)
  BY <1>1, <1>2, ReadWriteAdvance
<1>4. scr \in Screen
  BY DEF SessionInv, TypeOK, Screen
<1>5. /\ Next1 = "raw" => scr' = [scr EXCEPT !.useraw = TRUE, !.rawmode = TRUE, !.curt = "raw"]
      /\ Next1 = "noraw" =>
           scr' = [scr EXCEPT !.useraw = FALSE, !.rawmode = FALSE, !.curt = "base"]
      /\ Next1 = "cbreak" =>
           scr' = [scr EXCEPT !.rawmode = TRUE, !.curt = IF scr.useraw THEN "raw" ELSE "cbreak"]
      /\ Next1 = "nocbreak" =>
           scr' = [scr EXCEPT !.rawmode = FALSE, !.curt = IF scr.useraw THEN "raw" ELSE "base"]
  BY <1>1 DEF Assigned
<1>6. /\ scr' \in Screen
      /\ UNCHANGED <<scr.orig, scr.save, scr.endwin, scr.LINES, scr.resized, scr.rewound>>
      /\ Next1 = "raw" => scr'.rawmode /\ scr'.curt = "raw"
      /\ Next1 = "noraw" => ~scr'.useraw /\ scr'.curt = "base"
      /\ Next1 = "cbreak" => /\ scr'.useraw = scr.useraw /\ scr'.rawmode
                             /\ scr'.curt = IF scr.useraw THEN "raw" ELSE "cbreak"
      /\ Next1 = "nocbreak" => /\ scr'.useraw = scr.useraw
                               /\ scr'.curt = IF scr.useraw THEN "raw" ELSE "base"
  <2>1. Next1 = "raw" \/ Next1 = "noraw" \/ Next1 = "cbreak" \/ Next1 = "nocbreak"
    BY <1>1 DEF ModeCalls
  <2>2. CASE Next1 = "raw"
    BY <1>4, <1>5, <2>2 DEF Screen
  <2>3. CASE Next1 = "noraw"
    BY <1>4, <1>5, <2>3 DEF Screen
  <2>4. CASE Next1 = "cbreak"
    <3>1. PICK c : c = IF scr.useraw THEN "raw" ELSE "cbreak"
      OBVIOUS
    <3>2. c \in {"base", "cbreak", "raw"}
      BY <3>1
    <3> QED
      BY <1>4, <1>5, <2>4, <3>1, <3>2 DEF Screen
  <2>5. CASE Next1 = "nocbreak"
    <3>1. PICK c : c = IF scr.useraw THEN "raw" ELSE "base"
      OBVIOUS
    <3>2. c \in {"base", "cbreak", "raw"}
      BY <3>1
    <3> QED
      BY <1>4, <1>5, <2>5, <3>1, <3>2 DEF Screen
  <2> QED
    BY <2>1, <2>2, <2>3, <2>4, <2>5
<1>7. TypeOK'
  <2>1. todo' \in Seq(Steps)
    BY <1>3 DEF Sound
  <2>2. UNCHANGED <<tty, proc, LINES, win, tstp, sig, arg, asked, shell>>
    BY <1>1
  <2>3. TypeOK
    BY DEF SessionInv
  <2> QED
    BY ONLY <1>6, <2>1, <2>2, <2>3 DEF TypeOK, Screen
<1>8. StateInv' /\ SizeInv' /\ WinInv'
  BY <1>1, <1>2, <1>6, <1>7, ReadWriteKeeps
<1>9. ModeInv'
  <2>1. ToDo("tcsetattr")'
    <3>1. Next1' = "tcsetattr"
      BY <1>1, <1>3 DEF MayFollow, ModeCalls, Unmasks
    <3>2. todo' \in Seq(Steps) /\ todo' # <<>> /\ Head(todo') = "tcsetattr"
      BY <1>3, <3>1 DEF Sound, NextOf
    <3> QED
      BY <3>2 DEF ToDo, Has
  <2>2. asked = AskedMode /\ asked' = asked
    BY <1>1 DEF SessionInv, ModeInv
  <2>3. \A step \in ModeCalls : Has(todo', step) => Next1 = "cbreak" /\ step = "nocbreak"
    BY <1>1, <1>3 DEF MayPrecede
  <2>4. ~Has(todo', "raw") /\ ~Has(todo', "noraw") /\ ~Has(todo', "cbreak")
        /\ (Has(todo', "nocbreak") => Next1 = "cbreak")
    BY <2>3 DEF ModeCalls
  <2>5. AskedMode' = IF Has(todo', "nocbreak") THEN UsualMode' ELSE scr'.curt
    BY <2>4 DEF AskedMode, ToDo
  <2>6. AskedMode' = AskedMode /\ (~scr'.rawmode => scr'.curt = UsualMode')
    <3>1. CASE Next1 = "raw"
      BY <1>3, <1>6, <2>4, <2>5, <3>1 DEF AskedMode, ToDo
    <3>2. CASE Next1 = "noraw"
      BY <1>3, <1>6, <2>4, <2>5, <3>2 DEF AskedMode, ToDo, UsualMode
    <3>3. CASE Next1 = "cbreak"
      BY <1>3, <1>6, <2>4, <2>5, <3>3 DEF AskedMode, ToDo, UsualMode
    <3>4. CASE Next1 = "nocbreak"
      BY <1>3, <1>6, <2>4, <2>5, <3>4 DEF AskedMode, ToDo, UsualMode
    <3> QED
      BY <1>1, <3>1, <3>2, <3>3, <3>4 DEF ModeCalls
  <2> QED
    BY <1>3, <2>1, <2>2, <2>6 DEF ModeInv
<1> QED
  BY <1>7, <1>8, <1>9 DEF SessionInv

LEMMA TcSetAttrKeeps ==
  ASSUME SessionInv, proc = "running", TcSetAttr
  PROVE  SessionInv'
<1>1. /\ Next1 = "tcsetattr" /\ Done /\ tty' = [tty EXCEPT !.mode = scr.curt]
      /\ UNCHANGED <<proc, scr, LINES, win, tstp, sig, arg, asked, shell>>
  BY DEF TcSetAttr
<1>2. Next1 \in ReadWrite
  BY <1>1 DEF ReadWrite
<1>3. /\ Sound(todo') /\ ~Saved' /\ Awake
      /\ \A step : Has(todo, step) <=> step = Next1 \/ Has(todo', step)
  BY <1>1, <1>2, ReadWriteAdvance
<1>4. tty' \in Terminal /\ tty'.mode = scr.curt /\ tty'.rows = tty.rows /\ tty'.ca = tty.ca
  <2>1. scr.curt \in Modes
    BY DEF SessionInv, TypeOK, Modes
  <2> QED
    BY <1>1, <2>1 DEF SessionInv, TypeOK, Terminal
<1>5. TypeOK'
  <2>1. todo' \in Seq(Steps)
    BY <1>3 DEF Sound
  <2>2. UNCHANGED <<proc, scr, LINES, win, tstp, sig, arg, asked, shell>>
    BY <1>1
  <2>3. TypeOK
    BY DEF SessionInv
  <2> QED
    BY ONLY <1>4, <2>1, <2>2, <2>3 DEF TypeOK, Terminal
<1>6. StateInv' /\ SizeInv' /\ WinInv'
  BY <1>1, <1>2, <1>4, <1>5, ReadWriteKeeps
<1>7. ModeInv'
  <2>1. \A step \in ModeCalls : ToDo(step)' <=> ToDo(step)
    BY <1>1, <1>3 DEF ToDo, ModeCalls
  <2>2. asked' = AskedMode' /\ scr' = scr /\ (~scr'.rawmode => scr'.curt = UsualMode')
    <3>1. UsualMode' = UsualMode /\ scr' = scr /\ asked' = asked
      BY <1>1 DEF UsualMode
    <3>2. asked = AskedMode /\ (~scr.rawmode => scr.curt = UsualMode)
      BY DEF SessionInv, ModeInv
    <3>3. AskedMode' = AskedMode
      BY <2>1, <3>1 DEF AskedMode, ModeCalls
    <3> QED
      BY <3>1, <3>2, <3>3
  <2>3. ~ToDo("tcsetattr")' => \A step \in ModeCalls : ~ToDo(step)'
    BY <1>3, CallSets DEF ToDo
  <2>4. ~ToDo("tcsetattr")' => AskedMode' = scr'.curt
    BY <2>3 DEF AskedMode, ModeCalls
  <2>5. SessionMode' = scr'.curt
    BY <1>1, <1>3, <1>4 DEF SessionMode, Awake
  <2> QED
    BY <1>3, <2>2, <2>4, <2>5 DEF ModeInv
<1> QED
  BY <1>5, <1>6, <1>7 DEF SessionInv

LEMMA ReadKeeps ==
  ASSUME SessionInv, proc = "running", Read
  PROVE  SessionInv'
<1>1. /\ Next1 = "read" /\ Done
      /\ UNCHANGED <<tty, proc, scr, LINES, win, tstp, sig, arg, asked, shell>>
  BY DEF Read
<1>2. Next1 \in ReadWrite
  BY <1>1 DEF ReadWrite
<1>3. /\ Sound(todo') /\ ~Saved'
      /\ \A step : Has(todo, step) <=> step = Next1 \/ Has(todo', step)
  BY <1>1, <1>2, ReadWriteAdvance
<1>4. TypeOK'
  <2>1. todo' \in Seq(Steps)
    BY <1>3 DEF Sound
  <2>2. TypeOK
    BY DEF SessionInv
  <2> QED
    BY <1>1, <2>1, <2>2 DEF TypeOK
<1>5. StateInv' /\ SizeInv' /\ WinInv'
  BY <1>1, <1>2, <1>4, ReadWriteKeeps
<1>6. ModeInv'
  <2>1. \A step \in ModeCalls \cup {"tcsetattr"} : Has(todo', step) <=> Has(todo, step)
    BY <1>1, <1>3 DEF ModeCalls
  <2>2. SessionMode' = SessionMode
    BY <1>1 DEF SessionMode
  <2> QED
    BY <1>1, <1>3, <2>1, <2>2, ModesKept DEF SessionInv
<1> QED
  BY <1>4, <1>5, <1>6 DEF SessionInv

-----------------------------------------------------------------------------
(* The signals *)

LEMMA SameState ==
  ASSUME SessionInv, UNCHANGED <<tty, scr, LINES, win, tstp, todo, arg, asked, shell>>, TypeOK',
         "WINCH" \in sig.pending => "WINCH" \in sig'.pending, Stopped'
  PROVE  SessionInv'
<1>1. /\ Next1' = Next1 /\ (Awake' <=> Awake) /\ (Asleep' <=> Asleep)
      /\ \A step : ToDo(step)' <=> ToDo(step)
  BY DEF Next1, Awake, Asleep, ToDo
<1>2. AtStep(Next1)' /\ AsleepLeft'
  <2>1. AtStep(Next1) /\ AsleepLeft
    BY DEF SessionInv, StateInv
  <2>2. AtStep(Next1)'
    BY <1>1, <2>1 DEF AtStep
  <2> QED
    BY <1>1, <2>1, <2>2 DEF AsleepLeft
<1>3. StateInv'
  BY <1>2 DEF SessionInv, StateInv
<1>4. ModeInv'
  <2>1. SessionMode' = SessionMode /\ (Saved' => Saved)
    BY <1>1 DEF SessionMode, Saved
  <2>2. Saved' /\ ~scr'.endwin => scr'.save = tty'.mode
    BY <2>1 DEF SessionInv, ModeInv
  <2> QED
    BY <2>1, <2>2, ModesKept DEF SessionInv
<1>5. SizeInv'
  <2>1. Next1' = NextOf(todo')
    BY DEF Next1, NextOf
  <2> QED
    BY <1>1, <2>1, SizeKept DEF SessionInv
<1>6. WinInv'
  BY WindowsKept DEF SessionInv
<1> QED
  BY <1>3, <1>4, <1>5, <1>6 DEF SessionInv

LEMMA KeyResizeRange == Range(KeyResize) = KeySteps
<1>1. DOMAIN KeyResize = 1 .. 4 /\ \A i \in 1 .. 4 : i = 1 \/ i = 2 \/ i = 3 \/ i = 4
  BY KeyResizeSteps
<1>2. \A step : step \in Range(KeyResize) <=> \E i \in 1 .. 4 : step = KeyResize[i]
  BY <1>1 DEF Range
<1>3. 1 \in 1 .. 4 /\ 2 \in 1 .. 4 /\ 3 \in 1 .. 4 /\ 4 \in 1 .. 4
  OBVIOUS
<1>4. \A step : step \in KeySteps <=> step \in Range(KeyResize)
  BY <1>1, <1>2, <1>3, KeyResizeSteps DEF KeySteps, ResizeSteps
<1> QED
  BY <1>4

LEMMA NotResizing ==
  ASSUME ~Resizing
  PROVE  \A step \in KeySteps : ~ToDo(step)
BY KeyResizeRange DEF Resizing, ToDo, Has

LEMMA SigtstpKeeps ==
  ASSUME Cases = {}, SessionInv, Sigtstp
  PROVE  SessionInv'
<1>1. /\ proc = "running" /\ ~Midway /\ ~(Resizing /\ LINES # tty.rows)
      /\ UNCHANGED <<tty, scr, LINES, win, tstp, arg, asked, shell>>
      /\ \/ /\ StopHandled /\ UNCHANGED proc
            /\ sig' = [pending |-> sig.pending \ {"TSTP"}, blocked |-> {"TSTP", "WINCH"}]
         \/ /\ tstp.handler = "default" /\ proc' = "stopped" /\ UNCHANGED todo
            /\ sig' = [sig EXCEPT !.pending = @ \ {"TSTP"}]
  BY DEF Sigtstp, Allowed
<1>2. /\ TypeOK /\ StateInv /\ tstp.old = "default" /\ Next1 \in Steps \cup {"none"}
      /\ todo \in Seq(Steps) /\ Next1 = NextOf(todo) /\ AtStep(Next1)
  BY DEF SessionInv, StateInv, TypeOK, Next1, NextOf
<1>3. Next1 \in {"none", "stop_save", "stop_tstp", "unblock", "kill", "re_tstp"} \cup Unmasks
                \cup KeySteps \cup ReadWrite
  BY <1>1, <1>2 DEF Midway, Steps, InRestart, Unmasks, KeySteps, ResizeSteps, ReadWrite
<1>4. CASE /\ StopHandled /\ UNCHANGED proc
           /\ sig' = [pending |-> sig.pending \ {"TSTP"}, blocked |-> {"TSTP", "WINCH"}]
  <2>1. PICK u \in Unmasks : todo' = StopHandler(u) \o todo /\ tstp.handler = "curses"
    <3>1. PICK u : u = IF "WINCH" \in sig.blocked THEN "unmask_inner" ELSE "unmask"
      OBVIOUS
    <3>2. u \in Unmasks
      BY <3>1 DEF Unmasks
    <3>3. todo' = StopHandler(u) \o todo /\ tstp.handler = "curses"
      BY <1>4, <3>1 DEF StopHandled
    <3> QED
      BY <3>2, <3>3
  <2>2. ~Asleep
    BY <2>1 DEF Asleep
  <2>3. Next1 \in {"none", "stop_save", "stop_tstp"} \cup Unmasks \cup KeySteps \cup ReadWrite
    BY <1>2, <1>3, <2>2 DEF AtStep
  <2>4. Awake
    BY <1>2, <2>2, <2>3 DEF AtStep
  <2>5. MayFollow(u, NextOf(todo))
    BY <1>2, <2>3 DEF MayFollow
  <2>6. PICK r : r = StopHandler(u) \o todo
    OBVIOUS
  <2>7. /\ r \in Seq(Steps) /\ NextOf(r) = "stop_save" /\ Follows(r) /\ Ordered(r)
        /\ \A step \in KeySteps \cup ReadWrite : Has(r, step) <=> Has(todo, step)
        /\ GivesBack(r) => GivesBack(todo)
    BY <1>2, <2>5, <2>6, HandlerPushed DEF StateInv
  <2>8. todo' = r
    BY <2>1, <2>6
  <2>9. Next1' = "stop_save" /\ NextOf(todo') = "stop_save"
    BY <2>7, <2>8 DEF Next1, NextOf
  <2>10. "WINCH" \in sig.pending => "WINCH" \in sig'.pending
    BY <1>4
  <2>11. TypeOK'
    <3>1. sig' \in Signals
      BY <1>2, <1>4 DEF TypeOK, Signals
    <3>2. todo' \in Seq(Steps) /\ UNCHANGED <<proc, tty, scr, LINES, win, tstp, arg, asked, shell>>
      BY <1>1, <1>4, <2>7, <2>8
    <3> QED
      BY ONLY <1>2, <3>1, <3>2 DEF TypeOK, Signals
  <2>12. Awake' /\ ~Asleep'
    BY <1>1, <2>2, <2>4 DEF Awake, Asleep
  <2>13. StateInv'
    <3>1. AtStep(Next1)'
      BY <2>9, <2>12 DEF AtStep, Unmasks, KeySteps, ResizeSteps, ReadWrite, ModeCalls, InRestart
    <3> QED
      BY <1>1, <1>2, <1>4, <2>7, <2>8, <2>12, <3>1 DEF StateInv, AsleepLeft, Stopped
  <2>14. ModeInv'
    <3>1. Saved' => scr'.save = tty'.mode
      <4>1. Saved' => GivesBack(todo)
        BY <2>7, <2>8, <2>9 DEF Saved
      <4> QED
        BY <1>1, <2>4, <4>1 DEF SessionInv, ModeInv, Saved, Awake
    <3>2. \A step \in ModeCalls \cup {"tcsetattr"} : Has(todo', step) <=> Has(todo, step)
      BY <2>7, <2>8 DEF ReadWrite
    <3>3. SessionMode' = SessionMode
      BY <1>1 DEF SessionMode
    <3> QED
      BY <1>1, <3>1, <3>2, <3>3, ModesKept DEF SessionInv
  <2>15. SizeInv'
    <3>1. \A step \in KeySteps : Has(todo', step) <=> Has(todo, step)
      BY <2>7, <2>8
    <3>2. (\E step \in KeySteps : Has(todo, step)) => Resizing
      BY NotResizing DEF ToDo
    <3> QED
      BY <1>1, <2>4, <2>10, <3>1, <3>2, SizeKept DEF SessionInv, Awake
  <2>16. WinInv'
    BY <1>1, <2>7, <2>8, WindowsKept DEF SessionInv, KeySteps
  <2> QED
    BY <2>11, <2>13, <2>14, <2>15, <2>16 DEF SessionInv
<1>5. CASE /\ tstp.handler = "default" /\ proc' = "stopped" /\ UNCHANGED todo
           /\ sig' = [sig EXCEPT !.pending = @ \ {"TSTP"}]
  <2>1. Asleep
    <3>1. ~Awake
      BY <1>5 DEF Awake
    <3> QED
      BY <1>2, <1>3, <3>1 DEF AtStep
  <2>2. sig' \in Signals /\ ("WINCH" \in sig.pending => "WINCH" \in sig'.pending)
    BY <1>2, <1>5 DEF TypeOK, Signals
  <2>3. TypeOK'
    <3>1. proc' = "stopped" /\ UNCHANGED <<tty, scr, LINES, win, tstp, todo, arg, asked, shell>>
      BY <1>1, <1>5
    <3> QED
      BY ONLY <1>2, <2>2, <3>1 DEF TypeOK, Signals
  <2>4. Stopped'
    <3>1. Asleep' /\ Next1' = Next1
      BY <1>1, <1>5, <2>1 DEF Asleep, Next1
    <3> QED
      BY <1>3, <3>1 DEF Stopped, Unmasks, KeySteps, ResizeSteps, ReadWrite, ModeCalls
  <2> QED
    BY <1>1, <1>5, <2>2, <2>3, <2>4, SameState
<1> QED
  BY <1>1, <1>4, <1>5

LEMMA SigwinchKeeps ==
  ASSUME Cases = {}, SessionInv, Sigwinch
  PROVE  SessionInv'
<1>1. /\ proc = "running" /\ ~Resizing /\ LINES' = tty.rows /\ scr' = [scr EXCEPT !.resized = TRUE]
      /\ sig' = [sig EXCEPT !.pending = @ \ {"WINCH"}]
      /\ UNCHANGED <<tty, proc, win, tstp, asked, shell>>
      /\ \/ Next1 = "read" /\ todo' = KeyResize \o Tail(todo) /\ arg' = LINES'
         \/ Next1 # "read" /\ UNCHANGED <<todo, arg>>
  BY DEF Sigwinch, Allowed
<1>2. /\ TypeOK /\ StateInv /\ tstp.old = "default" /\ todo \in Seq(Steps)
      /\ Next1 = NextOf(todo) /\ AtStep(Next1)
  BY DEF SessionInv, StateInv, TypeOK, Next1, NextOf
<1>3. /\ scr' \in Screen /\ scr'.resized
      /\ UNCHANGED <<scr.orig, scr.save, scr.endwin, scr.useraw, scr.curt, scr.rawmode>>
      /\ UNCHANGED <<scr.LINES, scr.rewound>> /\ sig' \in Signals /\ LINES' \in Heights
  BY <1>1, <1>2 DEF TypeOK, Screen, Signals
<1>4. \A step \in KeySteps : ~ToDo(step)
  BY <1>1, NotResizing
<1>5. (Awake' <=> Awake) /\ (Asleep' <=> Asleep) /\ SessionMode' = SessionMode
  BY <1>1, <1>3 DEF Awake, Asleep, SessionMode
<1>6. CASE Next1 # "read" /\ UNCHANGED <<todo, arg>>
  <2>1. Next1' = Next1 /\ \A step : ToDo(step)' <=> ToDo(step)
    BY <1>6 DEF Next1, ToDo
  <2>2. TypeOK'
    <3>1. UNCHANGED <<tty, proc, win, tstp, todo, arg, asked, shell>>
      BY <1>1, <1>6
    <3> QED
      BY ONLY <1>2, <1>3, <3>1 DEF TypeOK, Screen, Signals
  <2>3. AtStep(Next1)'
    BY <1>1, <1>2, <1>3, <1>5, <2>1 DEF AtStep
  <2>4. StateInv'
    BY <1>1, <1>2, <1>5, <1>6, <2>1, <2>3 DEF StateInv, AsleepLeft, Stopped
  <2>5. ModeInv'
    <3>1. Saved' /\ ~scr'.endwin => scr'.save = tty'.mode
      BY <1>1, <1>3, <1>6, <2>1 DEF SessionInv, ModeInv, Saved
    <3> QED
      BY <1>1, <1>3, <1>5, <1>6, <3>1, ModesKept DEF SessionInv
  <2>6. SizeInv'
    <3>1. (~\E step \in ResizeSteps : ToDo(step)') /\ ~\E step \in KeySteps : ToDo(step)'
      BY <1>4, <2>1 DEF KeySteps
    <3>2. ~ToDo("key_resize")'
      BY <1>4, <2>1 DEF KeySteps
    <3> QED
      BY <1>1, <1>3, <3>1, <3>2 DEF SizeInv
  <2>7. WinInv'
    BY <1>1, <1>3, <1>6, WindowsKept DEF SessionInv
  <2> QED
    BY <2>2, <2>4, <2>5, <2>6, <2>7 DEF SessionInv
<1>7. CASE Next1 = "read" /\ todo' = KeyResize \o Tail(todo) /\ arg' = LINES'
  <2>1. Awake /\ ~Asleep
    BY <1>2, <1>7 DEF AtStep, ReadWrite, Awake, Asleep
  <2>2. Sound(todo) /\ todo # <<>> /\ NextOf(todo) = "read"
    BY <1>2, <1>7 DEF Sound, StateInv, NextOf
  <2>3. PICK t : t = Tail(todo)
    OBVIOUS
  <2>4. /\ Sound(t) /\ MayFollow("read", NextOf(t))
        /\ \A step : Has(todo, step) <=> step = "read" \/ Has(t, step)
        /\ \A step : Has(t, step) => MayPrecede("read", step)
    BY <2>2, <2>3, TailSound
  <2>5. NextOf(t) \in {"none", "nocbreak"}
    BY <2>4 DEF MayFollow, Unmasks, ModeCalls
  <2>6. \A step : Has(t, step) => step \in ReadWrite
    BY <2>4 DEF MayPrecede, ReadWrite
  <2>7. PICK r : r = KeyResize \o t
    OBVIOUS
  <2>8. /\ r \in Seq(Steps) /\ NextOf(r) = "rt_begin" /\ Follows(r) /\ Ordered(r)
        /\ \A step : Has(r, step) <=> step \in KeySteps \/ Has(t, step)
        /\ ~GivesBack(r)
    BY <2>4, <2>5, <2>6, <2>7, KeyPushed DEF Sound
  <2>9. todo' = r
    BY <1>7, <2>3, <2>7
  <2>10. Next1' = "rt_begin" /\ "rt_begin" \in KeySteps
    BY <2>8, <2>9 DEF Next1, NextOf, KeySteps, ResizeSteps
  <2>11. TypeOK'
    <3>1. UNCHANGED <<tty, proc, win, tstp, asked, shell>> /\ arg' \in Heights
      BY <1>1, <1>3, <1>7
    <3>2. todo' \in Seq(Steps)
      BY <2>8, <2>9
    <3> QED
      BY ONLY <1>2, <1>3, <3>1, <3>2 DEF TypeOK, Screen, Signals
  <2>12. StateInv'
    <3>1. AtStep(Next1)'
      BY <1>5, <2>1, <2>10 DEF AtStep, Unmasks, KeySteps, ResizeSteps, ReadWrite, ModeCalls, InRestart
    <3> QED
      BY <1>1, <1>2, <1>5, <2>1, <2>8, <2>9, <3>1 DEF StateInv, AsleepLeft, Stopped
  <2>13. ModeInv'
    <3>1. ~Saved'
      BY <2>8, <2>9, <2>10 DEF Saved
    <3>2. \A step \in ModeCalls \cup {"tcsetattr"} : Has(todo', step) <=> Has(todo, step)
      BY <2>4, <2>8, <2>9 DEF KeySteps, ResizeSteps, ModeCalls
    <3> QED
      BY <1>1, <1>3, <1>5, <3>1, <3>2, ModesKept DEF SessionInv
  <2>14. SizeInv'
    <3>1. ToDo("rt_lines")'
      BY <2>8, <2>9 DEF ToDo, KeySteps, ResizeSteps
    <3> QED
      BY <1>1, <1>3, <1>7, <2>10, <3>1 DEF SizeInv
  <2>15. WinInv'
    <3>1. ToDo("rt_windows")'
      BY <2>8, <2>9 DEF ToDo, KeySteps, ResizeSteps
    <3>2. ~ToDo("rt_lines")
      BY <1>4 DEF KeySteps, ResizeSteps
    <3> QED
      BY <1>1, <1>3, <3>1, <3>2 DEF SessionInv, WinInv, TopsFirst, Cover
  <2> QED
    BY <2>11, <2>12, <2>13, <2>14, <2>15 DEF SessionInv
<1> QED
  BY <1>1, <1>6, <1>7

-----------------------------------------------------------------------------
(* The calls of the program *)

\* What a call has to do when it begins.
Called ==
  /\ Sound(todo') /\ ~GivesBack(todo')
  /\ Next1' \notin {"stop_ca", "re_windows", "re_orig", "re_tty", "re_start"}
  /\ AtStep(Next1)' /\ AsleepLeft'

LEMMA CallKeeps ==
  ASSUME SessionInv, Idle, Called, UNCHANGED <<tty, proc, scr, LINES, win, tstp, sig, shell>>,
         TypeOK', asked' = AskedMode', ToDo("tcsetattr")' \/ asked' = asked,
         (\E step \in ResizeSteps : ToDo(step)') => arg' = LINES,
         ToDo("key_resize")' => ToDo("rt_lines")',
         ToDo("rt_lines")' => ToDo("rt_windows")',
         (\E step \in KeySteps : ToDo(step)') => Next1' \in KeySteps
  PROVE  SessionInv'
<1>1. todo = <<>> /\ proc = "running" /\ Next1 = "none" /\ \A step : ~ToDo(step)
  BY NothingSound DEF Idle, Next1, ToDo
<1>2. StateInv'
  BY <1>1 DEF SessionInv, StateInv, Called, Sound, Stopped
<1>3. ModeInv'
  <2>1. SessionMode' = SessionMode /\ UsualMode' = UsualMode /\ ~Saved'
    BY DEF SessionMode, UsualMode, Saved, Called
  <2>2. SessionMode = asked /\ (~scr.rawmode => scr.curt = UsualMode)
    BY <1>1 DEF SessionInv, ModeInv
  <2> QED
    BY <2>1, <2>2 DEF ModeInv
<1>4. SizeInv'
  BY <1>1 DEF SessionInv, SizeInv, Called
<1>5. WinInv'
  BY <1>1 DEF SessionInv, WinInv, TopsFirst, Cover
<1> QED
  BY <1>2, <1>3, <1>4, <1>5 DEF SessionInv

LEMMA AtCall ==
  ASSUME SessionInv, Idle, UNCHANGED <<tty, proc, scr, LINES, win, tstp, sig, shell>>
  PROVE  /\ Awake \/ Asleep
         /\ (Awake' <=> Awake) /\ (Asleep' <=> Asleep) /\ todo = <<>> /\ Next1 = "none"
<1>1. Next1 = "none" /\ todo = <<>>
  BY DEF Idle, Next1
<1>2. Awake \/ Asleep
  BY <1>1 DEF SessionInv, StateInv, AtStep
<1> QED
  BY <1>1, <1>2 DEF Awake, Asleep

\* A call that changes modes, or none at all, restarts a session that has ended.
LEMMA RestartedCalled ==
  ASSUME SessionInv, Idle, UNCHANGED <<tty, proc, scr, LINES, win, tstp, sig, shell>>,
         NEW s, Sound(s), ~GivesBack(s), todo' = Restarted(s),
         \A step : Has(s, step) => step \in ReadWrite,
         NextOf(s) \in {"none", "tcsetattr"} \cup ModeCalls, NextOf(s) # "none" \/ scr.endwin
  PROVE  /\ Called /\ \A step \in KeySteps \cup ReadWrite : ToDo(step)' <=> Has(s, step)
<1>1. /\ Awake \/ Asleep
      /\ (Awake' <=> Awake) /\ (Asleep' <=> Asleep)
  BY AtCall
<1>2. Next1' = NextOf(todo')
  BY DEF Next1, NextOf
<1>3. CASE scr.endwin
  <2>1. Asleep'
    BY <1>1, <1>3 DEF Awake
  <2>2. PICK r : r = RestartWin \o s
    OBVIOUS
  <2>3. /\ r \in Seq(Steps) /\ NextOf(r) = "re_tstp" /\ Follows(r) /\ Ordered(r)
        /\ \A step \in KeySteps \cup ReadWrite : Has(r, step) <=> Has(s, step)
        /\ GivesBack(r) => GivesBack(s)
    BY <2>2, RestartPushed DEF Sound
  <2>4. todo' = r
    BY <1>3, <2>2 DEF Restarted
  <2>5. Next1' = "re_tstp"
    BY <1>2, <2>3, <2>4
  <2>6. AtStep(Next1)' /\ AsleepLeft'
    BY <2>1, <2>5 DEF AtStep, AsleepLeft, Unmasks, KeySteps, ResizeSteps, ReadWrite, ModeCalls,
       InRestart
  <2> QED
    BY <2>3, <2>4, <2>5, <2>6 DEF Called, Sound, ToDo
<1>4. CASE ~scr.endwin
  <2>1. Awake' /\ ~Asleep'
    BY <1>1, <1>4 DEF Asleep
  <2>2. todo' = s /\ Next1' \in {"tcsetattr"} \cup ModeCalls
    BY <1>2, <1>4 DEF Restarted
  <2>3. AtStep(Next1)' /\ AsleepLeft'
    BY <2>1, <2>2 DEF AtStep, AsleepLeft, Unmasks, KeySteps, ResizeSteps, ReadWrite, ModeCalls,
       InRestart
  <2> QED
    BY <2>2, <2>3 DEF Called, ToDo, ModeCalls
<1> QED
  BY <1>3, <1>4

LEMMA ModeCallKeeps ==
  ASSUME SessionInv, NEW call \in ModeCalls, ModeCall(call)
  PROVE  SessionInv'
<1>1. /\ Idle /\ todo' = Restarted(ModeSteps(call)) /\ asked' = Assigned(scr, call).curt
      /\ UNCHANGED <<tty, proc, scr, LINES, win, tstp, sig, arg, shell>>
  BY DEF ModeCall
<1>2. PICK s : s = ModeSteps(call)
  OBVIOUS
<1>3. /\ Sound(s) /\ NextOf(s) = call /\ ~GivesBack(s)
      /\ \A step : Has(s, step) <=> step \in {call, "tcsetattr"}
  BY <1>2, ModeStepsSound
<1>4. \A step : Has(s, step) => step \in ReadWrite
  BY <1>3 DEF ReadWrite
<1>5. Called /\ \A step \in KeySteps \cup ReadWrite : ToDo(step)' <=> Has(s, step)
  <2>1. /\ Idle /\ todo' = Restarted(s) /\ NextOf(s) \in {"none", "tcsetattr"} \cup ModeCalls
        /\ NextOf(s) # "none" /\ UNCHANGED <<tty, proc, scr, LINES, win, tstp, sig, shell>>
    BY <1>1, <1>2, <1>3 DEF ModeCalls
  <2> QED
    BY ONLY SessionInv, <1>3, <1>4, <2>1, RestartedCalled
<1>6. /\ \A step \in KeySteps : ~ToDo(step)'
      /\ \A step \in ModeCalls : ToDo(step)' <=> step = call
      /\ ToDo("tcsetattr")'
  <2>1. \A step \in KeySteps : step \notin ReadWrite
    BY DEF KeySteps, ResizeSteps, ReadWrite, ModeCalls
  <2>2. \A step \in ModeCalls : step \in ReadWrite /\ step # "tcsetattr"
    BY DEF ReadWrite, ModeCalls
  <2> QED
    BY <1>3, <1>4, <1>5, <2>1, <2>2 DEF ReadWrite
<1>7. asked' = AskedMode'
  <2>1. scr \in Screen /\ scr' = scr /\ UsualMode' = UsualMode
    BY <1>1 DEF SessionInv, TypeOK, Screen, UsualMode
  <2>2. \/ call = "raw" /\ asked' = "raw"
        \/ call = "noraw" /\ asked' = "base"
        \/ call = "cbreak" /\ asked' = IF scr.useraw THEN "raw" ELSE "cbreak"
        \/ call = "nocbreak" /\ asked' = IF scr.useraw THEN "raw" ELSE "base"
    <3>1. CASE call = "raw"
      BY <1>1, <2>1, <3>1 DEF Assigned, Screen
    <3>2. CASE call = "noraw"
      BY <1>1, <2>1, <3>2 DEF Assigned, Screen
    <3>3. CASE call = "cbreak"
      BY <1>1, <2>1, <3>3 DEF Assigned, Screen
    <3>4. CASE call = "nocbreak"
      BY <1>1, <2>1, <3>4 DEF Assigned, Screen
    <3> QED
      BY <3>1, <3>2, <3>3, <3>4 DEF ModeCalls
  <2>3. /\ ToDo("raw")' <=> call = "raw"
        /\ ToDo("noraw")' <=> call = "noraw"
        /\ ToDo("cbreak")' <=> call = "cbreak"
        /\ ToDo("nocbreak")' <=> call = "nocbreak"
    BY <1>6 DEF ModeCalls
  <2> QED
    BY <2>1, <2>2, <2>3 DEF AskedMode, UsualMode
<1>8. TypeOK'
  <2>1. todo' \in Seq(Steps)
    BY <1>5 DEF Called, Sound
  <2>2. AskedMode' \in {"base", "cbreak", "raw"}
    <3>1. scr' \in Screen
      BY <1>1 DEF SessionInv, TypeOK, Screen
    <3> QED
      BY <3>1 DEF AskedMode, UsualMode, Screen
  <2> QED
    BY <1>1, <1>7, <2>1, <2>2 DEF SessionInv, TypeOK
<1>9. ~ToDo("key_resize")' /\ ~ToDo("rt_lines")' /\ \A step \in ResizeSteps : ~ToDo(step)'
  BY <1>6 DEF KeySteps, ResizeSteps
<1> QED
  BY <1>1, <1>5, <1>6, <1>7, <1>8, <1>9, CallKeeps

\* A call that sets no modes leaves the modes as they were asked for.
LEMMA AskedStays ==
  ASSUME SessionInv, Idle, UNCHANGED <<scr, asked>>, \A step \in ModeCalls : ~ToDo(step)'
  PROVE  asked' = AskedMode'
<1>1. \A step : ~ToDo(step)
  BY NothingSound DEF Idle, ToDo
<1>2. asked = scr.curt
  BY <1>1 DEF SessionInv, ModeInv, AskedMode
<1> QED
  BY <1>2 DEF AskedMode, ModeCalls

LEMMA WGetChKeeps ==
  ASSUME SessionInv, WGetCh
  PROVE  SessionInv'
<1>1. /\ Idle /\ UNCHANGED <<tty, proc, scr, LINES, win, tstp, sig, asked, shell>>
      /\ \/ scr.resized /\ todo' = KeyResize /\ arg' = LINES
         \/ ~scr.resized /\ todo' = ReadSteps /\ UNCHANGED arg
  BY DEF WGetCh
<1>2. UNCHANGED <<tty, proc, scr, LINES, win, tstp, sig, shell>> /\ Next1' = NextOf(todo')
  BY <1>1 DEF Next1, NextOf
<1>3. CASE scr.resized /\ todo' = KeyResize /\ arg' = LINES
  <2>1. PICK r : r = KeyResize \o <<>>
    OBVIOUS
  <2>2. r = KeyResize
    <3>1. KeyResize \in Seq(Steps)
      BY KeyResizeSteps
    <3> QED
      BY ONLY <2>1, <3>1, ConcatEmptySeq
  <2>3. /\ Sound(r) /\ NextOf(r) = "rt_begin" /\ ~GivesBack(r)
        /\ \A step : Has(r, step) <=> step \in KeySteps
    <3>1. PICK e : e = <<>>
      OBVIOUS
    <3>2. Sound(e) /\ NextOf(e) = "none" /\ (\A step : ~Has(e, step)) /\ r = KeyResize \o e
      BY <2>1, <3>1, NothingSound
    <3> QED
      BY ONLY <3>2, KeyPushed DEF Sound
  <2>4. Next1' = "rt_begin" /\ "rt_begin" \in KeySteps
    BY <1>2, <1>3, <2>2, <2>3 DEF KeySteps, ResizeSteps
  <2>5. \A step : ToDo(step)' <=> step \in KeySteps
    BY <1>3, <2>2, <2>3 DEF ToDo
  <2>6. Called
    <3>1. (Awake' \/ Asleep')
      BY <1>1, <1>2, AtCall
    <3>2. AtStep(Next1)'
      BY <2>4, <3>1 DEF AtStep, Unmasks, KeySteps, ResizeSteps, ReadWrite, ModeCalls, InRestart
    <3>3. AsleepLeft'
      BY <2>4, <2>5 DEF AsleepLeft
    <3> QED
      BY <1>3, <2>2, <2>3, <2>4, <3>2, <3>3 DEF Called
  <2>7. asked' = AskedMode'
    <3>1. \A step \in ModeCalls : ~ToDo(step)'
      BY <2>5 DEF KeySteps, ResizeSteps, ModeCalls
    <3> QED
      BY <1>1, <3>1, AskedStays
  <2>8. TypeOK'
    <3>1. todo' \in Seq(Steps)
      BY <2>6 DEF Called, Sound
    <3> QED
      BY <1>1, <1>3, <3>1 DEF SessionInv, TypeOK
  <2>9. ToDo("rt_lines")' /\ ToDo("rt_windows")'
    BY <2>5 DEF KeySteps, ResizeSteps
  <2>10. asked' = asked
    BY <1>1
  <2> QED
    BY <1>1, <1>2, <1>3, <2>4, <2>6, <2>7, <2>8, <2>9, <2>10, CallKeeps
<1>4. CASE ~scr.resized /\ todo' = ReadSteps /\ UNCHANGED arg
  <2>1. PICK s : ReadModes(s) /\ ReadSteps = Restarted(s)
    BY ReadStepsSound
  <2>2. /\ Sound(s) /\ NextOf(s) \in {"cbreak", "tcsetattr"} /\ ~GivesBack(s)
        /\ \A step : Has(s, step) <=> step \in {"tcsetattr", "read"}
                       \cup IF scr.rawmode THEN {} ELSE {"cbreak", "nocbreak"}
    BY <2>1 DEF ReadModes
  <2>3. \A step : Has(s, step) => step \in ReadWrite
    BY <2>2 DEF ReadWrite, ModeCalls
  <2>4. Called /\ \A step \in KeySteps \cup ReadWrite : ToDo(step)' <=> Has(s, step)
    <3>1. NextOf(s) \in {"none", "tcsetattr"} \cup ModeCalls /\ NextOf(s) # "none"
      BY <2>2 DEF ModeCalls
    <3>2. todo' = Restarted(s)
      BY <1>4, <2>1
    <3>3. Idle
      BY <1>1
    <3> QED
      BY ONLY SessionInv, <1>2, <2>2, <2>3, <3>1, <3>2, <3>3, RestartedCalled
  <2>5. /\ \A step \in KeySteps : ~ToDo(step)'
        /\ ToDo("tcsetattr")' /\ ~ToDo("raw")' /\ ~ToDo("noraw")'
        /\ (ToDo("nocbreak")' <=> ~scr.rawmode) /\ (ToDo("cbreak")' <=> ~scr.rawmode)
    <3>1. \A step \in KeySteps : step \notin ReadWrite
      BY DEF KeySteps, ResizeSteps, ReadWrite, ModeCalls
    <3>2. {"tcsetattr", "raw", "noraw", "nocbreak", "cbreak"} \subseteq ReadWrite
      BY DEF ReadWrite, ModeCalls
    <3> QED
      BY <2>2, <2>3, <2>4, <3>1, <3>2
  <2>6. asked' = AskedMode'
    <3>1. CASE scr.rawmode
      <4>1. \A step \in ModeCalls : ~ToDo(step)'
        BY <2>5, <3>1 DEF ModeCalls
      <4> QED
        BY <1>1, <4>1, AskedStays
    <3>2. CASE ~scr.rawmode
      <4>1. \A step : ~ToDo(step)
        BY <1>1, NothingSound DEF Idle, ToDo
      <4>2. asked = UsualMode
        BY <3>2, <4>1 DEF SessionInv, ModeInv, AskedMode
      <4>3. AskedMode' = UsualMode' /\ UsualMode' = UsualMode
        BY <1>1, <2>5, <3>2 DEF AskedMode, UsualMode
      <4> QED
        BY <1>1, <4>2, <4>3
    <3> QED
      BY <3>1, <3>2
  <2>7. TypeOK'
    <3>1. todo' \in Seq(Steps)
      BY <2>4 DEF Called, Sound
    <3> QED
      BY <1>1, <1>4, <3>1 DEF SessionInv, TypeOK
  <2>8. ~ToDo("key_resize")' /\ ~ToDo("rt_lines")' /\ \A step \in ResizeSteps : ~ToDo(step)'
    BY <2>5 DEF KeySteps, ResizeSteps
  <2> QED
    BY <1>1, <1>2, <2>4, <2>5, <2>6, <2>7, <2>8, CallKeeps
<1> QED
  BY <1>1, <1>3, <1>4

LEMMA EndWinKeeps ==
  ASSUME SessionInv, EndWin
  PROVE  SessionInv'
<1>1. /\ Idle /\ todo' = StopWin
      /\ UNCHANGED <<tty, proc, scr, LINES, win, tstp, sig, arg, asked, shell>>
  BY DEF EndWin
<1>2. UNCHANGED <<tty, proc, scr, LINES, win, tstp, sig, shell>> /\ Next1' = NextOf(todo')
  BY <1>1 DEF Next1, NextOf
<1>3. /\ Sound(todo') /\ Next1' = "stop_save" /\ Len(todo') = 4 /\ ~GivesBack(todo')
      /\ \A step \in KeySteps \cup ReadWrite : ~ToDo(step)'
  BY <1>1, <1>2, StopWinSound DEF ToDo
<1>4. Called
  <2>1. Awake' \/ Asleep'
    BY <1>1, <1>2, AtCall
  <2>2. AtStep(Next1)' /\ AsleepLeft'
    BY <1>3, <2>1 DEF AtStep, AsleepLeft, Unmasks, KeySteps, ResizeSteps, ReadWrite, ModeCalls,
       InRestart
  <2> QED
    BY <1>3, <2>2 DEF Called
<1>5. asked' = AskedMode'
  BY <1>1, <1>3, AskedStays DEF ReadWrite
<1>6. TypeOK'
  BY <1>1, <1>3 DEF SessionInv, TypeOK, Sound
<1>7. asked' = asked /\ ~ToDo("key_resize")' /\ ~ToDo("rt_lines")'
      /\ \A step \in ResizeSteps : ~ToDo(step)'
  BY <1>1, <1>3 DEF KeySteps, ResizeSteps
<1> QED
  BY <1>1, <1>2, <1>3, <1>4, <1>5, <1>6, <1>7, CallKeeps

LEMMA DoUpdateKeeps ==
  ASSUME SessionInv, DoUpdate
  PROVE  SessionInv'
<1>1. /\ Idle /\ scr.endwin /\ todo' = RestartWin
      /\ UNCHANGED <<tty, proc, scr, LINES, win, tstp, sig, arg, asked, shell>>
  BY DEF DoUpdate
<1>2. UNCHANGED <<tty, proc, scr, LINES, win, tstp, sig, shell>>
  BY <1>1
<1>3. PICK e : e = <<>>
  OBVIOUS
<1>4. todo' = Restarted(e)
  <2>1. RestartWin \in Seq(Steps)
    BY StepsAre DEF RestartWin
  <2>2. RestartWin \o <<>> = RestartWin
    BY <2>1, ConcatEmptySeq
  <2> QED
    BY <1>1, <1>3, <2>2 DEF Restarted
<1>5. Sound(e) /\ NextOf(e) = "none" /\ (\A step : ~Has(e, step)) /\ ~GivesBack(e)
  BY <1>3, NothingSound DEF GivesBack
<1>6. Called /\ \A step \in KeySteps \cup ReadWrite : ~ToDo(step)'
  BY <1>1, <1>2, <1>4, <1>5, RestartedCalled
<1>7. asked' = AskedMode'
  BY <1>1, <1>6, AskedStays DEF ReadWrite
<1>8. TypeOK'
  BY <1>1, <1>6 DEF SessionInv, TypeOK, Called, Sound
<1>9. asked' = asked /\ ~ToDo("key_resize")' /\ ~ToDo("rt_lines")'
      /\ \A step \in ResizeSteps : ~ToDo(step)'
  BY <1>1, <1>6 DEF KeySteps, ResizeSteps
<1> QED
  BY <1>1, <1>2, <1>6, <1>7, <1>8, <1>9, CallKeeps

LEMMA ResizeTermKeeps ==
  ASSUME SessionInv, ResizeTerm
  PROVE  SessionInv'
<1>1. /\ Idle /\ todo' = ResizeTermSteps /\ arg' = LINES
      /\ UNCHANGED <<tty, proc, scr, LINES, win, tstp, sig, asked, shell>>
  BY DEF ResizeTerm
<1>2. UNCHANGED <<tty, proc, scr, LINES, win, tstp, sig, shell>> /\ Next1' = NextOf(todo')
  BY <1>1 DEF Next1, NextOf
<1>3. /\ Sound(todo') /\ Next1' = "rt_begin" /\ ~GivesBack(todo')
      /\ \A step : ToDo(step)' <=> step \in ResizeSteps
  BY <1>1, <1>2, ResizeTermSound DEF ToDo
<1>4. \A step : ToDo(step)' => step \in KeySteps
  BY <1>3 DEF KeySteps
<1>5. Called
  <2>1. Awake' \/ Asleep'
    BY <1>1, <1>2, AtCall
  <2>2. AtStep(Next1)'
    BY <1>3, <2>1 DEF AtStep, Unmasks, KeySteps, ResizeSteps, ReadWrite, ModeCalls, InRestart
  <2>3. AsleepLeft'
    BY <1>3, <1>4 DEF AsleepLeft
  <2> QED
    BY <1>3, <2>2, <2>3 DEF Called
<1>6. asked' = AskedMode'
  <2>1. \A step \in ModeCalls : ~ToDo(step)'
    BY <1>3 DEF ResizeSteps, ModeCalls
  <2> QED
    BY <1>1, <2>1, AskedStays
<1>7. TypeOK'
  BY <1>1, <1>3 DEF SessionInv, TypeOK, Sound
<1>8. asked' = asked /\ ~ToDo("key_resize")' /\ ToDo("rt_windows")' /\ Next1' \in KeySteps
  BY <1>1, <1>3 DEF KeySteps, ResizeSteps
<1> QED
  BY <1>1, <1>2, <1>5, <1>6, <1>7, <1>8, CallKeeps

-----------------------------------------------------------------------------
(* The user *)

LEMMA StopKeyKeeps ==
  ASSUME SessionInv, StopKey
  PROVE  SessionInv'
<1>1. /\ sig' = [sig EXCEPT !.pending = @ \cup {"TSTP"}] /\ proc = "running"
      /\ UNCHANGED <<tty, proc, scr, LINES, win, tstp, todo, arg, asked, shell>>
  BY DEF StopKey
<1>2. sig' \in Signals /\ ("WINCH" \in sig.pending => "WINCH" \in sig'.pending)
  BY <1>1 DEF SessionInv, TypeOK, Signals
<1>3. TypeOK'
  <2>1. TypeOK
    BY DEF SessionInv
  <2>2. UNCHANGED <<tty, proc, scr, LINES, win, tstp, todo, arg, asked, shell>>
    BY <1>1
  <2> QED
    BY ONLY <1>2, <2>1, <2>2 DEF TypeOK, Signals
<1>4. Stopped'
  BY <1>1 DEF Stopped
<1> QED
  BY <1>1, <1>2, <1>3, <1>4, SameState

LEMMA ContinueKeeps ==
  ASSUME SessionInv, Continue
  PROVE  SessionInv'
<1>1. /\ sig' = [sig EXCEPT !.pending = @ \ {"TSTP"}] /\ proc' = "running"
      /\ UNCHANGED <<tty, scr, LINES, win, tstp, todo, arg, asked, shell>>
  BY DEF Continue
<1>2. sig' \in Signals /\ ("WINCH" \in sig.pending => "WINCH" \in sig'.pending)
  BY <1>1 DEF SessionInv, TypeOK, Signals
<1>3. TypeOK'
  <2>1. TypeOK
    BY DEF SessionInv
  <2>2. proc' = "running" /\ UNCHANGED <<tty, scr, LINES, win, tstp, todo, arg, asked, shell>>
    BY <1>1
  <2> QED
    BY ONLY <1>2, <2>1, <2>2 DEF TypeOK, Signals
<1>4. Stopped'
  BY <1>1 DEF Stopped
<1> QED
  BY <1>1, <1>2, <1>3, <1>4, SameState

LEMMA SttyKeeps ==
  ASSUME SessionInv, Stty
  PROVE  SessionInv'
<1>1. PICK m \in ShellModes : tty' = [tty EXCEPT !.mode = m] /\ shell' = m
  BY DEF Stty
<1>2. /\ proc = "stopped"
      /\ UNCHANGED <<proc, scr, LINES, win, tstp, sig, todo, arg, asked>>
  BY DEF Stty
<1>3. /\ Asleep /\ Next1 # "stop_tty" /\ AtStep(Next1) /\ AsleepLeft
  BY <1>2 DEF SessionInv, StateInv, Stopped
<1>4. m \in Modes /\ tty' \in Terminal /\ tty'.mode = m /\ tty'.rows = tty.rows /\ tty'.ca = tty.ca
  <2>1. m \in Modes
    BY DEF Modes
  <2> QED
    BY <1>1, <2>1 DEF SessionInv, TypeOK, Terminal
<1>5. TypeOK'
  <2>1. TypeOK
    BY DEF SessionInv
  <2>2. shell' \in Modes
    BY <1>1, <1>4
  <2> QED
    BY ONLY <1>2, <1>4, <2>1, <2>2 DEF TypeOK, Terminal
<1>6. Asleep' /\ Next1' = Next1 /\ \A step : ToDo(step)' <=> ToDo(step)
  BY <1>1, <1>2, <1>3, <1>4 DEF Asleep, Next1, ToDo
<1>7. StateInv'
  <2>1. Next1 \notin {"stop_tstp", "stop_ca"} \cup Unmasks \cup ReadWrite \cup InRestart
    BY <1>3 DEF AtStep, Asleep, Awake
  <2>2. AtStep(Next1)'
    BY <1>3, <1>6, <2>1 DEF AtStep, InRestart
  <2>3. AsleepLeft' /\ Stopped'
    BY <1>2, <1>3, <1>6 DEF AsleepLeft, Stopped
  <2> QED
    BY <1>2, <2>2, <2>3 DEF SessionInv, StateInv
<1>8. ModeInv'
  <2>1. SessionMode' = SessionMode /\ scr'.endwin
    BY <1>2, <1>3 DEF SessionMode, Asleep
  <2> QED
    BY <1>2, <2>1, ModesKept DEF SessionInv
<1>9. SizeInv'
  <2>1. Next1' = NextOf(todo')
    BY DEF Next1, NextOf
  <2> QED
    BY <1>2, <1>4, <1>6, <2>1, SizeKept DEF SessionInv
<1>10. WinInv'
  BY <1>2, WindowsKept DEF SessionInv
<1> QED
  BY <1>5, <1>7, <1>8, <1>9, <1>10 DEF SessionInv

LEMMA ResizeKeeps ==
  ASSUME Cases = {}, SessionInv, Resize
  PROVE  SessionInv'
<1>1. PICK h \in Heights : tty' = [tty EXCEPT !.rows = h]
  BY DEF Resize
<1>2. /\ ~Resizing
      /\ sig' = IF proc = "running" THEN [sig EXCEPT !.pending = @ \cup {"WINCH"}] ELSE sig
      /\ UNCHANGED <<proc, scr, LINES, win, tstp, todo, arg, asked, shell>>
  BY DEF Resize, Allowed
<1>3. tty' \in Terminal /\ tty'.mode = tty.mode /\ tty'.ca = tty.ca
  BY <1>1 DEF SessionInv, TypeOK, Terminal
<1>4. /\ sig' \in Signals /\ ("WINCH" \in sig.pending => "WINCH" \in sig'.pending)
      /\ proc = "running" => "WINCH" \in sig'.pending
  <2>1. sig \in Signals
    BY DEF SessionInv, TypeOK, Signals
  <2>2. CASE proc = "running"
    BY <1>2, <2>1, <2>2 DEF Signals
  <2>3. CASE proc # "running"
    BY <1>2, <2>1, <2>3
  <2> QED
    BY <2>2, <2>3
<1>5. TypeOK'
  <2>1. TypeOK
    BY DEF SessionInv
  <2>2. UNCHANGED <<proc, scr, LINES, win, tstp, todo, arg, asked, shell>>
    BY <1>2
  <2> QED
    BY ONLY <1>3, <1>4, <2>1, <2>2 DEF TypeOK, Terminal, Signals
<1>6. /\ Next1' = Next1 /\ (Awake' <=> Awake) /\ (Asleep' <=> Asleep)
      /\ \A step : ToDo(step)' <=> ToDo(step)
  BY <1>2, <1>3 DEF Next1, Awake, Asleep, ToDo
<1>7. StateInv'
  <2>1. AtStep(Next1) /\ AsleepLeft /\ Stopped
    BY DEF SessionInv, StateInv
  <2>2. AtStep(Next1)'
    BY <1>2, <1>3, <1>6, <2>1 DEF AtStep
  <2>3. AsleepLeft' /\ Stopped'
    BY <1>2, <1>6, <2>1 DEF AsleepLeft, Stopped
  <2> QED
    BY <1>2, <2>2, <2>3 DEF SessionInv, StateInv
<1>8. ModeInv'
  <2>1. SessionMode' = SessionMode /\ (Saved' => Saved)
    BY <1>2, <1>3, <1>6 DEF SessionMode, Saved
  <2>2. Saved' /\ ~scr'.endwin => scr'.save = tty'.mode
    BY <1>2, <1>3, <2>1 DEF SessionInv, ModeInv
  <2> QED
    BY <1>2, <2>1, <2>2, ModesKept DEF SessionInv
<1>9. SizeInv'
  <2>1. \/ "WINCH" \in sig'.pending
        \/ scr'.endwin /\ Next1' \notin {"re_windows", "re_orig", "re_tty", "re_start"}
    <3>1. CASE proc = "running"
      BY <1>4, <3>1
    <3>2. CASE proc # "running"
      <4>1. Asleep /\ AtStep(Next1)
        BY <3>2 DEF SessionInv, StateInv, Stopped, TypeOK
      <4> QED
        BY <1>2, <1>6, <4>1 DEF AtStep, Asleep, InRestart
    <3> QED
      BY <3>1, <3>2
  <2>2. (\A step \in KeySteps : ~ToDo(step)') /\ (\A step \in ResizeSteps : ~ToDo(step)')
    BY <1>2, <1>6, NotResizing DEF KeySteps
  <2>3. ~ToDo("key_resize")'
    BY <2>2 DEF KeySteps
  <2>4. scr'.LINES = LINES' \/ scr'.resized
    BY <1>2 DEF SessionInv, SizeInv
  <2> QED
    BY <2>1, <2>2, <2>3, <2>4 DEF SizeInv
<1>10. WinInv'
  BY <1>2, WindowsKept DEF SessionInv
<1> QED
  BY <1>5, <1>7, <1>8, <1>9, <1>10 DEF SessionInv

-----------------------------------------------------------------------------
(* newterm *)

\* rips are the lines that rip asks for, on a screen of so many lines.
RippedOff(rips, rip, lines) ==
  /\ rips \in Seq(Ripped) /\ Len(rips) = Len(rip)
  /\ \A i \in DOMAIN rip : rips[i].side = rip[i]
  /\ \A i \in DOMAIN rip : rip[i] = 1 =>
       rips[i].begy + 1 = Cardinality({j \in 1 .. i : rips[j].side = 1})
  /\ Placed(rips, lines)

LEMMA PlacedFirst ==
  ASSUME NEW lines \in 3 .. 100, NEW rip \in Seq({1, -1}), Len(rip) <= 2
  PROVE  RippedOff(RipOffScreen(rip, lines), rip, lines)
<1> DEFINE N(i) == Cardinality({j \in 1 .. i : rip[j] = rip[i]})
<1>1. PICK k \in 0 .. 2 : k = Len(rip)
  <2>1. Len(rip) \in Nat /\ \A l \in Nat : l <= 2 => l \in 0 .. 2
    OBVIOUS
  <2> QED
    BY <2>1
<1>2. DOMAIN rip = 1 .. k /\ \A i \in 1 .. k : rip[i] \in {1, -1}
  BY <1>1
<1>3. \A i \in 1 .. k : N(i) \in 1 .. 2
  <2> TAKE i \in 1 .. k
  <2> DEFINE D == {j \in 1 .. i : rip[j] = rip[i]}
  <2>1. D \in SUBSET (1 .. i) /\ i \in D /\ i \in 1 .. 2
    BY <1>1
  <2>2. IsFiniteSet(1 .. i) /\ Cardinality(1 .. i) = i
    <3>1. 1 \in Int /\ i \in Int /\ i >= 1
      BY <2>1
    <3>2. IsFiniteSet(1 .. i) /\ Cardinality(1 .. i) = IF 1 > i THEN 0 ELSE i - 1 + 1
      BY ONLY <3>1, FS_Interval
    <3>3. (IF 1 > i THEN 0 ELSE i - 1 + 1) = i
      BY ONLY <3>1
    <3> QED
      BY ONLY <3>2, <3>3
  <2>3. IsFiniteSet(D) /\ Cardinality(D) <= i /\ Cardinality(D) \in Nat
    BY <2>1, <2>2, FS_Subset, FS_CardinalityType
  <2>4. Cardinality(D) # 0
    BY <2>1, <2>3, FS_EmptySet
  <2>5. N(i) = Cardinality(D)
    OBVIOUS
  <2>6. \A c \in Nat : c # 0 /\ c <= i => c \in 1 .. 2
    BY <2>1
  <2> QED
    BY <2>3, <2>4, <2>5, <2>6
<1>4. PICK r : r = RipOffScreen(rip, lines)
  OBVIOUS
<1>5. /\ r = [i \in 1 .. k |-> r[i]]
      /\ \A i \in 1 .. k :
           r[i] = [side |-> rip[i], begy |-> IF rip[i] = 1 THEN N(i) - 1 ELSE lines - N(i)]
  BY <1>2, <1>4 DEF RipOffScreen
<1> HIDE DEF N
<1>6. \A i \in 1 .. k : /\ r[i] \in Ripped /\ r[i].side = rip[i]
                        /\ (rip[i] = 1 => r[i].begy = N(i) - 1 /\ N(i) - 1 + 1 = N(i))
                        /\ (rip[i] # 1 => r[i].begy = lines - N(i))
  <2> TAKE i \in 1 .. k
  <2>1. PICK b : b = IF rip[i] = 1 THEN N(i) - 1 ELSE lines - N(i)
    OBVIOUS
  <2>2. N(i) \in 1 .. 2 /\ \A c \in 1 .. 2 : c - 1 \in 0 .. 100 /\ lines - c \in 0 .. 100 /\ c - 1 + 1 = c
    BY <1>3
  <2>3. b \in 0 .. 100 /\ N(i) - 1 + 1 = N(i)
    BY <2>1, <2>2
  <2>4. r[i] = [side |-> rip[i], begy |-> b] /\ rip[i] \in {1, -1}
    BY <1>2, <1>5, <2>1
  <2> QED
    BY <2>1, <2>3, <2>4 DEF Ripped
<1>7. r \in Seq(Ripped) /\ Len(r) = k /\ DOMAIN r = 1 .. k
  BY <1>5, <1>6
<1>8. \A i \in 1 .. k : \A v : {j \in 1 .. i : r[j].side = v} = {j \in 1 .. i : rip[j] = v}
  <2>1. \A i \in 1 .. k : \A j \in 1 .. i : j \in 1 .. k
    BY <1>1
  <2> QED
    BY <1>6, <2>1
<1>9. \A i \in 1 .. k : rip[i] = 1 => r[i].begy + 1 = Cardinality({j \in 1 .. i : r[j].side = 1})
  <2> TAKE i \in 1 .. k
  <2> HAVE rip[i] = 1
  <2>1. N(i) = Cardinality({j \in 1 .. i : rip[j] = 1})
    BY DEF N
  <2> QED
    BY <1>6, <1>8, <2>1
<1>10. Placed(r, lines)
  <2>1. \A i \in 1 .. k : RipOffResized(r, lines)[i] = r[i]
    <3> TAKE i \in 1 .. k
    <3>1. CASE r[i].side = 1
      BY <1>7, <3>1 DEF RipOffResized
    <3>2. CASE r[i].side # 1
      <4>1. rip[i] = -1 /\ rip[i] # 1
        BY <1>2, <1>6, <3>2
      <4>2. N(i) = BelowUpTo(r, i)
        <5>1. N(i) = Cardinality({j \in 1 .. i : rip[j] = -1})
          BY <4>1 DEF N
        <5>2. {j \in 1 .. i : r[j].side = -1} = {j \in 1 .. i : rip[j] = -1}
          BY <1>8
        <5> QED
          BY <5>1, <5>2 DEF BelowUpTo
      <4>3. PICK b : b = lines - BelowUpTo(r, i)
        OBVIOUS
      <4>4. r[i].begy = b
        BY <1>6, <4>1, <4>2, <4>3
      <4>5. RipOffResized(r, lines)[i] = [r[i] EXCEPT !.begy = b]
        BY <1>7, <3>2, <4>3 DEF RipOffResized
      <4>6. r[i] \in Ripped
        BY <1>6
      <4> QED
        BY <4>4, <4>5, <4>6 DEF Ripped
    <3> QED
      BY <3>1, <3>2
  <2>2. RipOffResized(r, lines) = [i \in 1 .. k |-> RipOffResized(r, lines)[i]]
    BY <1>7 DEF RipOffResized
  <2> QED
    BY <1>5, <2>1, <2>2 DEF Placed
<1> QED
  BY <1>1, <1>2, <1>4, <1>6, <1>7, <1>9, <1>10 DEF RippedOff

LEMMA SessionInit == Init => SessionInv
<1> SUFFICES ASSUME Init
             PROVE  SessionInv
  OBVIOUS
<1>1. PICK lines \in Heights, rip \in Rips : NewTerm(lines, rip)
  BY DEF Init
<1>2. lines \in 3 .. 100 /\ rip \in Seq({1, -1}) /\ Len(rip) <= 2
  BY SessionAssumption
<1>3. /\ tstp = [handler |-> "curses", old |-> "default", set |-> TRUE] /\ proc = "running"
      /\ sig = [pending |-> {}, blocked |-> {}] /\ todo = <<>> /\ arg = 0 /\ asked = "base"
      /\ shell = "shell"
  BY DEF Init
<1>4. PICK rips : rips = RipOffScreen(rip, lines)
  OBVIOUS
<1>5. /\ rips \in Seq(Ripped) /\ Len(rips) = Len(rip)
      /\ \A i \in DOMAIN rip : rips[i].side = rip[i]
      /\ \A i \in DOMAIN rip : rip[i] = 1 =>
           rips[i].begy + 1 = Cardinality({j \in 1 .. i : rips[j].side = 1})
      /\ Placed(rips, lines)
  <2>1. RippedOff(rips, rip, lines)
    BY <1>2, <1>4, PlacedFirst
  <2> QED
    BY ONLY <2>1 DEF RippedOff
<1>6. PICK top : top = Cardinality({i \in DOMAIN rip : rip[i] = 1})
  OBVIOUS
<1>7. DOMAIN rips = DOMAIN rip /\ top = Tops(rips)
  <2>1. DOMAIN rip = 1 .. Len(rip) /\ DOMAIN rips = 1 .. Len(rips)
    BY <1>2, <1>5
  <2>2. {i \in DOMAIN rips : rips[i].side = 1} = {i \in DOMAIN rip : rip[i] = 1}
    BY <1>5, <2>1
  <2> QED
    BY <1>5, <1>6, <2>1, <2>2 DEF Tops
<1>8. /\ tty = [mode |-> "base", rows |-> lines, ca |-> TRUE]
      /\ scr = [orig |-> "shell", save |-> "shell", curt |-> "base",
                useraw |-> FALSE, rawmode |-> FALSE,
                endwin |-> FALSE, resized |-> FALSE, LINES |-> lines,
                rewound |-> FALSE]
      /\ LINES = lines
      /\ win = [curscr |-> [begy |-> 0, maxy |-> lines, reqy |-> 0],
                stdscr |-> [begy |-> top, maxy |-> lines - Len(rip), reqy |-> 0],
                rips |-> rips]
  BY <1>1, <1>4, <1>6 DEF NewTerm
<1>9. /\ Next1 = "none" /\ (\A step : ~ToDo(step)) /\ Sound(todo)
  BY <1>3, NothingSound DEF Next1, ToDo
<1>10. TypeOK
  <2>1. tty \in Terminal /\ scr \in Screen
    BY <1>8 DEF Terminal, Screen, Modes, ShellModes
  <2>2. sig \in Signals /\ todo \in Seq(Steps)
    BY <1>3, <1>9 DEF Signals, Sound
  <2>3. win \in [curscr : Window, stdscr : Window, rips : Seq(Ripped)]
    <3>1. top \in 0 .. Len(rips) /\ Len(rips) \in Nat
      <4>1. rips \in Seq(Ripped)
        BY <1>5
      <4>2. Tops(rips) \in 0 .. Len(rips)
        BY ONLY <4>1, SidesCounted
      <4> QED
        BY <1>7, <4>1, <4>2
    <3>2. PICK l \in Nat : l = Len(rip) /\ l <= 2
      BY <1>2
    <3>3. lines - Len(rip) \in 1 .. 100 /\ top \in 0 .. 100
      <4>1. top \in 0 .. l
        BY <1>5, <3>1, <3>2
      <4>2. \A n \in 3 .. 100, k \in Nat : k <= 2 => n - k \in 1 .. 100 /\ \A t \in 0 .. k : t \in 0 .. 100
        OBVIOUS
      <4>3. lines - l \in 1 .. 100 /\ top \in 0 .. 100
        BY ONLY <1>2, <3>2, <4>1, <4>2
      <4> QED
        BY <3>2, <4>3
    <3>4. lines \in 1 .. 100
      BY <1>2
    <3> QED
      BY <1>5, <1>8, <3>3, <3>4 DEF Window
  <2>4. tstp \in [handler : {"curses", "default"}, old : {"curses", "default"}, set : BOOLEAN]
    BY <1>3
  <2> QED
    BY <1>3, <1>8, <2>1, <2>2, <2>3, <2>4 DEF TypeOK, Terminal, Screen, Signals, Ripped, Modes, ShellModes
<1>11. Awake /\ ~Asleep
  BY <1>3, <1>8 DEF Awake, Asleep
<1>12. StateInv
  <2>1. AtStep(Next1)
    BY <1>9, <1>11 DEF AtStep, Unmasks, KeySteps, ResizeSteps, ReadWrite, ModeCalls, InRestart
  <2> QED
    BY <1>3, <1>9, <1>11, <2>1 DEF StateInv, Sound, AsleepLeft, Stopped
<1>13. ModeInv
  <2>1. ~Saved
    BY <1>3, <1>9 DEF Saved, GivesBack
  <2> QED
    BY <1>3, <1>8, <1>9, <2>1 DEF ModeInv, AskedMode, UsualMode, SessionMode
<1>14. SizeInv
  BY <1>8, <1>9 DEF SizeInv
<1>15. WinInv
  <2>1. TopsFirst
    BY <1>5, <1>7, <1>8 DEF TopsFirst
  <2>2. /\ win.rips = rips /\ win.curscr = [begy |-> 0, maxy |-> lines, reqy |-> 0]
        /\ win.stdscr = [begy |-> Tops(win.rips), maxy |-> lines - Len(win.rips), reqy |-> 0]
        /\ scr.LINES = lines
    BY <1>5, <1>7, <1>8
  <2>3. win.curscr.begy = 0 /\ win.stdscr.begy = Tops(win.rips) /\ Cover(lines)
    BY <2>2 DEF Cover
  <2> QED
    BY <1>2, <1>5, <1>9, <2>1, <2>2, <2>3 DEF WinInv
<1> QED
  BY <1>10, <1>12, <1>13, <1>14, <1>15 DEF SessionInv

-----------------------------------------------------------------------------
(* The session *)

LEMMA SessionNext ==
  ASSUME Cases = {}, SessionInv, [Next]_vars
  PROVE  SessionInv'
<1>1. CASE proc = "running" /\ Proceed
  <2>1. CASE StopWinDo
    <3>1. Next1 \in {"stop_save", "stop_tstp", "stop_ca", "stop_tty"}
      BY <2>1 DEF StopWinDo, StopWinStep
    <3> QED
      BY <1>1, <2>1, <3>1, StopSaveKeeps, StopTstpKeeps, StopCaKeeps, StopTtyKeeps
  <2>2. CASE RestartWinDo
    <3>1. Next1 \in {"re_tstp", "re_size", "re_windows", "re_orig", "re_tty", "re_start"}
      BY <2>2 DEF RestartWinDo, RestartWinStep
    <3> QED
      BY <1>1, <2>2, <3>1, ReTstpKeeps, ReSizeKeeps, ReWindowsKeeps, ReOrigKeeps, ReTtyKeeps,
         ReStartKeeps
  <2>3. CASE Unblock
    BY <1>1, <2>3, UnblockKeeps
  <2>4. CASE Kill
    BY <1>1, <2>4, KillKeeps
  <2>5. CASE Unmask
    BY <1>1, <2>5, UnmaskKeeps
  <2>6. CASE ResizeBegin
    BY <1>1, <2>6, ResizeBeginKeeps
  <2>7. CASE ResizeWindows
    BY <1>1, <2>7, ResizeWindowsKeeps
  <2>8. CASE ResizeLines
    BY <1>1, <2>8, ResizeLinesKeeps
  <2>9. CASE KeyResizeReturned
    BY <1>1, <2>9, KeyResizeKeeps
  <2>10. CASE Assign
    BY <1>1, <2>10, AssignKeeps
  <2>11. CASE TcSetAttr
    BY <1>1, <2>11, TcSetAttrKeeps
  <2>12. CASE Read
    BY <1>1, <2>12, ReadKeeps
  <2> QED
    BY <1>1, <2>1, <2>2, <2>3, <2>4, <2>5, <2>6, <2>7, <2>8, <2>9, <2>10, <2>11, <2>12 DEF Proceed
<1>2. CASE Sigtstp
  BY <1>2, SigtstpKeeps
<1>3. CASE Sigwinch
  BY <1>3, SigwinchKeeps
<1>4. CASE \E call \in ModeCalls : ModeCall(call)
  BY <1>4, ModeCallKeeps
<1>5. CASE WGetCh
  BY <1>5, WGetChKeeps
<1>6. CASE EndWin
  BY <1>6, EndWinKeeps
<1>7. CASE DoUpdate
  BY <1>7, DoUpdateKeeps
<1>8. CASE ResizeTerm
  BY <1>8, ResizeTermKeeps
<1>9. CASE StopKey
  BY <1>9, StopKeyKeeps
<1>10. CASE Continue
  BY <1>10, ContinueKeeps
<1>11. CASE Stty
  BY <1>11, SttyKeeps
<1>12. CASE Resize
  BY <1>12, ResizeKeeps
<1>13. CASE UNCHANGED vars
  <2>1. UNCHANGED <<tty, proc, scr, LINES, win, tstp, sig, todo, arg, asked, shell>>
    BY <1>13 DEF vars
  <2>2. TypeOK' /\ Stopped'
    BY <2>1 DEF SessionInv, StateInv, TypeOK, Stopped, Asleep, Next1
  <2> QED
    BY <2>1, <2>2, SameState
<1> QED
  BY <1>1, <1>2, <1>3, <1>4, <1>5, <1>6, <1>7, <1>8, <1>9, <1>10, <1>11, <1>12, <1>13 DEF Next

\* Every reachable state of the session satisfies the invariant above: what may follow what,
\* the state at each step, and what the steps to come make of modes, size and windows.
THEOREM SessionInvariant ==
  ASSUME Cases = {}
  PROVE  Spec => []SessionInv
<1>1. Init => SessionInv
  BY SessionInit
<1>2. SessionInv /\ [Next]_vars => SessionInv'
  BY SessionNext
<1> QED
  BY <1>1, <1>2, PTL DEF Spec

\* When the handler sends the stop signal again to stop the process it is not installed
\* and the shell has the terminal (__stop_signal_handler), however many handlers run one
\* within the other, unless a stop signal came in __stopwin after it gave the handler
\* back or in __restartwin after it set the handler ("midway", tstp.c:215, 254).
THEOREM HandlerGone ==
  ASSUME Cases = {}
  PROVE  Spec => []StopsItself
<1>1. SessionInv => StopsItself
  BY DEF SessionInv, StateInv, AtStep, Asleep, StopsItself
<1>2. Spec => []SessionInv
  BY SessionInvariant
<1> QED
  BY <1>1, <1>2, PTL

\* The program finds the terminal in the modes it asked for and the shell in its own,
\* after any number of stops, between any steps of mode calls, getch, endwin and resizes,
\* except those in __stopwin after it gave the handler back and in __restartwin after it
\* set the handler ("midway"), and a stop or change of size in a getch that handles a
\* change of size ("race").
THEOREM ModesRestored ==
  ASSUME Cases = {}
  PROVE  Spec => []ModesApart
<1>1. SessionInv => ModesApart
  <2> SUFFICES ASSUME SessionInv
               PROVE  ModesApart
    OBVIOUS
  <2>1. TypeOK
    BY DEF SessionInv
  <2>2. ASSUME Idle, ~scr.endwin
        PROVE  tty.mode = asked
    <3>1. ~ToDo("tcsetattr")
      BY <2>2, NothingSound DEF Idle, ToDo
    <3> QED
      BY <2>2, <3>1 DEF SessionInv, ModeInv, SessionMode
  <2>3. ASSUME proc = "stopped" \/ (scr.endwin /\ todo = <<>>)
        PROVE  tty.mode = shell /\ ~tty.ca
    <3>1. todo = <<>> => Awake \/ Asleep
      BY DEF SessionInv, StateInv, AtStep, Next1
    <3>2. Asleep
      BY <2>3, <3>1 DEF SessionInv, StateInv, Stopped, Awake
    <3> QED
      BY <3>2 DEF Asleep
  <2> QED
    BY <2>1, <2>2, <2>3 DEF ModesApart
<1>2. Spec => []SessionInv
  BY SessionInvariant
<1> QED
  BY <1>1, <1>2, PTL

\* No change of the terminal's size is forgotten, whether it comes during a read, in a call
\* that sets modes or while the process is stopped (__restartwin, __fgetc_resize), unless
\* it comes in a getch that handles the one before ("race") or a stop comes "midway".
THEOREM SizeNoticed ==
  ASSUME Cases = {}
  PROVE  Spec => []ResizeNoticed
<1>1. SessionInv => ResizeNoticed
  BY DEF SessionInv, SizeInv, ResizeNoticed, Quiet
<1>2. Spec => []SessionInv
  BY SessionInvariant
<1> QED
  BY <1>1, <1>2, PTL

LEMMA CountTwo ==
  ASSUME NEW f, NEW v
  PROVE  /\ Cardinality({j \in 1 .. 1 : f[j].side = v}) = IF f[1].side = v THEN 1 ELSE 0
         /\ Cardinality({j \in 1 .. 2 : f[j].side = v}) =
              (IF f[1].side = v THEN 1 ELSE 0) + (IF f[2].side = v THEN 1 ELSE 0)
<1>1. 1 .. 1 = {1} /\ 1 .. 2 = {1, 2}
  OBVIOUS
<1>2. PICK a : a = {j \in 1 .. 1 : f[j].side = v}
  OBVIOUS
<1>3. PICK b : b = {j \in 1 .. 2 : f[j].side = v}
  OBVIOUS
<1>4. PICK p \in {0, 1} : p = IF f[1].side = v THEN 1 ELSE 0
  OBVIOUS
<1>5. IsFiniteSet(a) /\ Cardinality(a) = p /\ 2 \notin a
  <2>1. CASE f[1].side = v
    <3>1. a = {1} /\ p = 1
      BY <1>1, <1>2, <1>4, <2>1
    <3> QED
      BY <3>1, FS_Singleton
  <2>2. CASE f[1].side # v
    <3>1. a = {} /\ p = 0
      BY <1>1, <1>2, <1>4, <2>2
    <3> QED
      BY <3>1, FS_EmptySet
  <2> QED
    BY <2>1, <2>2
<1>6. CASE f[2].side = v
  <2>1. b = a \cup {2}
    BY <1>1, <1>2, <1>3, <1>6
  <2>2. Cardinality(a \cup {2}) = Cardinality(a) + 1
    BY ONLY <1>5, FS_AddElement
  <2>3. Cardinality(b) = p + 1
    BY <1>5, <2>1, <2>2
  <2> QED
    BY <1>2, <1>3, <1>4, <1>5, <1>6, <2>3
<1>7. CASE f[2].side # v
  <2>1. b = a
    BY <1>1, <1>2, <1>3, <1>7
  <2>2. Cardinality(b) = p + 0
    BY <1>5, <2>1
  <2> QED
    BY <1>2, <1>3, <1>4, <1>5, <1>7, <2>2
<1> QED
  BY <1>6, <1>7

\* One line ripped off n leaves the others.
LEMMA OneRipped ==
  ASSUME NEW n \in 3 .. 100, NEW s \in {1, -1}, NEW b \in 0 .. 100,
         s = 1 => b + 1 = 1, s = -1 => b = n - 1
  PROVE  LET top == IF s = 1 THEN 1 ELSE 0
         IN  top .. top + (n - 1) - 1 = (0 .. n - 1) \ {b}
<1>1. CASE s = 1
  <2>1. b = 0
    BY <1>1
  <2>2. 1 .. 1 + (n - 1) - 1 = (0 .. n - 1) \ {0}
    OBVIOUS
  <2> QED
    BY <1>1, <2>1, <2>2
<1>2. CASE s = -1
  <2>1. s # 1
    BY <1>2
  <2>2. 0 .. 0 + (n - 1) - 1 = (0 .. n - 1) \ {n - 1}
    OBVIOUS
  <2> QED
    BY <1>2, <2>1, <2>2
<1> QED
  BY <1>1, <1>2

\* Two lines ripped off n are two, and leave the others.
LEMMA TwoRipped ==
  ASSUME NEW n \in 3 .. 100, NEW s \in {1, -1}, NEW t \in {1, -1},
         NEW b \in 0 .. 100, NEW c \in 0 .. 100,
         s = 1 => b + 1 = 1, s = -1 => b = n - 1,
         t = 1 => c + 1 = (IF s = 1 THEN 1 ELSE 0) + 1,
         t = -1 => c = n - ((IF s = -1 THEN 1 ELSE 0) + 1)
  PROVE  LET top == (IF s = 1 THEN 1 ELSE 0) + (IF t = 1 THEN 1 ELSE 0)
         IN  /\ top .. top + (n - 2) - 1 = (0 .. n - 1) \ {b, c}
             /\ b # c
<1>1. CASE s = 1 /\ t = 1
  <2>1. b = 0 /\ c = 1
    BY <1>1
  <2>2. 2 .. 2 + (n - 2) - 1 = (0 .. n - 1) \ {0, 1}
    OBVIOUS
  <2>3. 1 + 1 = 2
    OBVIOUS
  <2> QED
    BY <1>1, <2>1, <2>2, <2>3
<1>2. CASE s = 1 /\ t = -1
  <2>1. b = 0 /\ c = n - 1 /\ c # b
    BY <1>2
  <2>2. 1 .. 1 + (n - 2) - 1 = (0 .. n - 1) \ {0, n - 1}
    OBVIOUS
  <2>3. 1 + 0 = 1 /\ t # 1
    BY <1>2
  <2> QED
    BY <1>2, <2>1, <2>2, <2>3
<1>3. CASE s = -1 /\ t = 1
  <2>1. b = n - 1 /\ c = 0 /\ c # b
    BY <1>3
  <2>2. 1 .. 1 + (n - 2) - 1 = (0 .. n - 1) \ {n - 1, 0}
    OBVIOUS
  <2>3. 0 + 1 = 1 /\ s # 1
    BY <1>3
  <2> QED
    BY <1>3, <2>1, <2>2, <2>3
<1>4. CASE s = -1 /\ t = -1
  <2>1. b = n - 1 /\ c = n - 2 /\ c # b
    BY <1>4
  <2>2. 0 .. 0 + (n - 2) - 1 = (0 .. n - 1) \ {n - 1, n - 2}
    OBVIOUS
  <2>3. 0 + 0 = 0 /\ s # 1 /\ t # 1
    BY <1>4
  <2> QED
    BY <1>4, <2>1, <2>2, <2>3
<1> QED
  BY <1>1, <1>2, <1>3, <1>4

LEMMA CoverFits ==
  ASSUME TypeOK, WinInv, Cover(tty.rows), Placed(win.rips, tty.rows)
  PROVE  Fits
<1>1. PICK rips \in Seq(Ripped) : rips = win.rips
  BY DEF TypeOK, Ripped
<1>2. PICK n \in 3 .. 100 : n = tty.rows
  BY SessionAssumption DEF TypeOK
<1>3. PICK k \in 0 .. 2 : k = Len(rips) /\ DOMAIN rips = 1 .. k
  <2>1. Len(rips) \in Nat /\ Len(rips) <= 2 /\ DOMAIN rips = 1 .. Len(rips)
    BY <1>1 DEF WinInv
  <2>2. \A l \in Nat : l <= 2 => l \in 0 .. 2
    OBVIOUS
  <2> QED
    BY <2>1, <2>2
<1>4. \A i \in 1 .. k : /\ rips[i] \in Ripped /\ rips[i].side \in {1, -1} /\ rips[i].begy \in 0 .. 100
                        /\ rips[i].side = 1 =>
                             rips[i].begy + 1 = Cardinality({j \in 1 .. i : rips[j].side = 1})
                        /\ rips[i].side = -1 =>
                             rips[i].begy = n - Cardinality({j \in 1 .. i : rips[j].side = -1})
  <2> TAKE i \in 1 .. k
  <2>1. rips[i] \in Ripped
    BY <1>3
  <2>2. rips[i].side \in {1, -1} /\ rips[i].begy \in 0 .. 100
    BY <2>1 DEF Ripped
  <2>3. rips[i].side = 1 => rips[i].begy + 1 = Cardinality({j \in 1 .. i : rips[j].side = 1})
    BY <1>1, <1>3 DEF WinInv, TopsFirst
  <2>4. ASSUME rips[i].side = -1
        PROVE  rips[i].begy = n - BelowUpTo(rips, i)
    <3>1. RipOffResized(rips, n)[i] = rips[i]
      BY <1>1, <1>2 DEF Placed
    <3>2. RipOffResized(rips, n)[i] = [rips[i] EXCEPT !.begy = n - BelowUpTo(rips, i)]
      BY <1>3, <2>4 DEF RipOffResized
    <3> QED
      BY <2>1, <3>1, <3>2 DEF Ripped
  <2> QED
    BY <2>1, <2>2, <2>3, <2>4 DEF BelowUpTo
<1>5. \A v : /\ Cardinality({j \in 1 .. 1 : rips[j].side = v}) = IF rips[1].side = v THEN 1 ELSE 0
             /\ Cardinality({j \in 1 .. 2 : rips[j].side = v}) =
                  (IF rips[1].side = v THEN 1 ELSE 0) + (IF rips[2].side = v THEN 1 ELSE 0)
  BY CountTwo
<1>6. /\ Rows(win.curscr) = 0 .. n - 1
      /\ Rows(win.stdscr) = Tops(rips) .. Tops(rips) + (n - k) - 1
  <2>1. 0 + n - 1 = n - 1
    OBVIOUS
  <2> QED
    BY <1>1, <1>2, <1>3, <2>1 DEF Cover, Rows
<1>7. Tops(rips) = Cardinality({j \in 1 .. k : rips[j].side = 1})
  BY <1>3 DEF Tops
<1> DEFINE R == {rips[i].begy : i \in 1 .. k}
<1>8. /\ Rows(win.stdscr) = (0 .. n - 1) \ R
      /\ \A i, j \in 1 .. k : rips[i].begy = rips[j].begy => i = j
  <2>1. CASE k = 0
    <3>1. 1 .. k = {} /\ R = {}
      BY <2>1
    <3>2. Tops(rips) = 0
      BY <1>3, <3>1, FS_EmptySet DEF Tops
    <3>3. 0 .. 0 + (n - 0) - 1 = 0 .. n - 1
      OBVIOUS
    <3>4. Rows(win.stdscr) = 0 .. n - 1
      BY <1>6, <2>1, <3>2, <3>3
    <3> QED
      BY <3>1, <3>4
  <2>2. CASE k = 1
    <3>1. 1 .. k = {1} /\ R = {rips[1].begy} /\ 1 \in 1 .. k
      BY <2>2
    <3>2. PICK s \in {1, -1}, b \in 0 .. 100 : s = rips[1].side /\ b = rips[1].begy
      BY <1>4, <3>1
    <3>3. Tops(rips) = IF s = 1 THEN 1 ELSE 0
      BY <1>5, <1>7, <2>2, <3>2
    <3>4. (s = 1 => b + 1 = 1) /\ (s = -1 => b = n - 1)
      BY <1>4, <1>5, <3>1, <3>2
    <3>5. LET top == IF s = 1 THEN 1 ELSE 0
          IN  top .. top + (n - 1) - 1 = (0 .. n - 1) \ {b}
      BY ONLY <3>4, OneRipped
    <3>6. Rows(win.stdscr) = (0 .. n - 1) \ {b}
      BY <1>6, <2>2, <3>3, <3>5
    <3> QED
      BY <3>1, <3>2, <3>6
  <2>3. CASE k = 2
    <3>1. 1 .. k = {1, 2} /\ R = {rips[1].begy, rips[2].begy} /\ 1 \in 1 .. k /\ 2 \in 1 .. k
      BY <2>3
    <3>2. PICK s \in {1, -1}, b \in 0 .. 100 : s = rips[1].side /\ b = rips[1].begy
      BY <1>4, <3>1
    <3>3. PICK t \in {1, -1}, c \in 0 .. 100 : t = rips[2].side /\ c = rips[2].begy
      BY <1>4, <3>1
    <3>4. Tops(rips) = (IF s = 1 THEN 1 ELSE 0) + (IF t = 1 THEN 1 ELSE 0)
      BY <1>5, <1>7, <2>3, <3>2, <3>3
    <3>5. (s = 1 => b + 1 = 1) /\ (s = -1 => b = n - 1)
      BY <1>4, <1>5, <3>1, <3>2
    <3>6. t = 1 => c + 1 = (IF s = 1 THEN 1 ELSE 0) + 1
      BY <1>4, <1>5, <3>1, <3>2, <3>3
    <3>7. t = -1 => c = n - ((IF s = -1 THEN 1 ELSE 0) + 1)
      <4> SUFFICES ASSUME t = -1 PROVE c = n - ((IF s = -1 THEN 1 ELSE 0) + 1)
        OBVIOUS
      <4>1. rips[2].begy = n - Cardinality({j \in 1 .. 2 : rips[j].side = -1})
        BY <1>4, <3>1, <3>3
      <4>2. Cardinality({j \in 1 .. 2 : rips[j].side = -1}) =
              (IF rips[1].side = -1 THEN 1 ELSE 0) + (IF rips[2].side = -1 THEN 1 ELSE 0)
        BY <1>5
      <4> QED
        BY <4>1, <4>2, <3>2, <3>3
    <3>8. LET top == (IF s = 1 THEN 1 ELSE 0) + (IF t = 1 THEN 1 ELSE 0)
          IN  /\ top .. top + (n - 2) - 1 = (0 .. n - 1) \ {b, c}
              /\ b # c
      BY ONLY <3>5, <3>6, <3>7, TwoRipped
    <3>9. Rows(win.stdscr) = (0 .. n - 1) \ {b, c} /\ b # c
      BY <1>6, <2>3, <3>4, <3>8
    <3> QED
      BY <3>1, <3>2, <3>3, <3>9
  <2> QED
    BY <2>1, <2>2, <2>3
<1>9. DOMAIN win.rips = 1 .. k /\ R = {win.rips[i].begy : i \in DOMAIN win.rips}
  BY <1>1, <1>3
<1> QED
  BY <1>1, <1>2, <1>6, <1>8, <1>9 DEF Fits

\* Once a change of size was handled curscr covers the terminal, and stdscr and the ripped
\* lines divide it, unless a restart has resized a window (__resizeterm, __ripoffresize).
THEOREM ScreenDivided ==
  ASSUME Cases = {}
  PROVE  Spec => []ScreenFitsAwake
<1>1. SessionInv => ScreenFitsAwake
  <2> SUFFICES ASSUME SessionInv, Quiet, ~scr.rewound
               PROVE  Fits
    BY DEF ScreenFitsAwake
  <2>1. scr.LINES = tty.rows
    BY DEF SessionInv, SizeInv, Quiet
  <2>2. ~ToDo("rt_lines")
    BY NothingSound DEF Quiet, Idle, ToDo
  <2>3. WinInv /\ Cover(tty.rows) /\ Placed(win.rips, tty.rows)
    BY <2>1, <2>2 DEF SessionInv, WinInv
  <2> QED
    BY <2>3, CoverFits DEF SessionInv
<1>2. Spec => []SessionInv
  BY SessionInvariant
<1> QED
  BY <1>1, <1>2, PTL
=============================================================================
