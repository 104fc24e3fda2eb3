------------------------------ MODULE KeyInput ------------------------------
(***************************************************************************)
(* wgetch() and inkey() of lib/libcurses/getch.c, with the terminal modes  *)
(* they switch (lib/libcurses/tty.c).                                      *)
(*                                                                         *)
(* A call reads keys one at a time.  With keypad() it assembles them into  *)
(* key symbols: keys that may still become a symbol wait in inbuf, a ring  *)
(* that outlives the call.  If they do not become one they are given to    *)
(* the program singly, in this call and the next ones ("backing out").     *)
(* A step is a read, or one key taken from the backlog.                    *)
(*                                                                         *)
(* The user types, signals arrive and timers run out between the steps.    *)
(* The variable due says what is owed to the program: every key that was   *)
(* typed or pushed back and not yet delivered, oldest first.               *)
(***************************************************************************)
EXTENDS Naturals, SequencesExt

CONSTANTS
  Keys,              \* what the user types
  Keymap,            \* the sequences that are key symbols
  MayDisable,        \* those the program disables with keyok()
  Size,              \* INBUF_SZ
  Programs,          \* what the program does: see Program
  MaxQueue           \* bound: keys typed ahead

Delays == {"block", "poll", "timed"}    \* win->delay: -1, 0, positive

Program == [calls : SUBSET [keypad : BOOLEAN, delay : Delays, notimeout : BOOLEAN],
                                   \* the ways in which it calls wgetch()
            echo : BOOLEAN,        \* echo() is on
            flushes : BOOLEAN,     \* it calls flushinp()
            cooks : BOOLEAN,       \* it calls cbreak() and nocbreak()
            ungets : Nat,          \* bound: keys pushed back
            signals : SUBSET {"norm", "assembling", "raw"}]
                                   \* where a signal may end a read

ASSUME KeyInputAssumption ==
  /\ Keys # {}
  /\ Keymap \subseteq Seq(Keys) \ {<<>>} /\ MayDisable \subseteq Keymap
  /\ \A p, q \in Keymap : IsPrefix(p, q) => p = q
  /\ Size \in Nat \ {0} /\ MaxQueue \in Nat
  /\ Programs \subseteq Program

VARIABLES
  prog,              \* the program, a member of Programs
  queue,             \* the terminal's input queue
  due,               \* what the program is still to get
  inbuf, start, end, working, state,
  node,              \* current: the keys that led to this part of the keymap
  enabled,           \* the sequences that are enabled
  ungot,             \* unget_list
  pc, call, weset,   \* the call of wgetch
  resized,           \* a resize that was not reported
  raw, wanted,       \* __rawmode, and what the program made it
  vmin, ttymin, ov,  \* the timing in cbreakt, in the terminal, and saved
  result             \* how the last call ended

buffer == <<inbuf, start, end, working, state, node>>
modes  == <<raw, vmin, ttymin, ov>>
vars == <<prog, queue, due, inbuf, start, end, working, state, node, enabled, ungot, pc, call,
          weset, resized, raw, wanted, vmin, ttymin, ov, result>>

-----------------------------------------------------------------------------
Inc(p) == (p + 1) % Size                                       \* INC_POINTER

\* What the keymap has for a sequence of keys.
IsLeaf(s)  == s \in Keymap
IsMulti(s) == \E q \in Keymap : IsStrictPrefix(s, q)

\* The keys that wait in inbuf.
Backlog == IF state = "norm" THEN <<>>
           ELSE LET n == IF start = end THEN Size ELSE (end + Size - start) % Size
                IN  [i \in 1 .. n |-> inbuf[(start + i - 1) % Size]]

Init == /\ prog \in Programs
        /\ queue = <<>> /\ due = <<>>
        /\ inbuf \in [0 .. Size - 1 -> {CHOOSE k \in Keys : TRUE}]
        /\ start = 0 /\ end = 0 /\ working = 0 /\ state = "norm" /\ node = <<>>
        /\ enabled = Keymap
        /\ ungot = <<>>
        /\ pc = "idle" /\ call \in prog.calls /\ weset = FALSE
        /\ resized = FALSE
        /\ raw \in (IF prog.cooks THEN BOOLEAN ELSE {TRUE}) /\ wanted = raw
        /\ vmin = "block" /\ ttymin = "block" /\ ov = "block"
        /\ result = "none"

-----------------------------------------------------------------------------
(* The world *)

Type == \E k \in Keys :
  /\ Len(queue) < MaxQueue
  /\ queue' = Append(queue, k)
  /\ due' = Append(due, k)
  /\ UNCHANGED <<prog, buffer, enabled, ungot, pc, call, weset, resized, modes,
                 wanted, result>>

\* winch_signal_handler, between two reads.
Winch ==
  /\ prog.signals # {}
  /\ resized' = TRUE
  /\ UNCHANGED <<prog, queue, due, buffer, enabled, ungot, pc, call, weset, modes,
                 wanted, result>>

-----------------------------------------------------------------------------
(* The program, between calls *)

\* keyok
KeyOk == \E s \in MayDisable :
  /\ pc = "idle"
  /\ enabled' = IF s \in enabled THEN enabled \ {s} ELSE enabled \cup {s}
  /\ UNCHANGED <<prog, queue, due, buffer, ungot, pc, call, weset, resized, modes,
                 wanted, result>>

\* ungetch
Unget == \E k \in Keys :
  /\ pc = "idle"
  /\ Len(ungot) < prog.ungets
  /\ ungot' = Append(ungot, k)
  /\ due' = <<k>> \o due
  /\ UNCHANGED <<prog, queue, buffer, enabled, pc, call, weset, resized, modes,
                 wanted, result>>

\* cbreak and nocbreak
CBreak ==
  /\ pc = "idle" /\ prog.cooks
  /\ raw' = ~raw
  /\ wanted' = ~raw
  /\ ttymin' = vmin
  /\ UNCHANGED <<prog, queue, due, buffer, enabled, ungot, pc, call, weset, resized,
                 vmin, ov, result>>

\* flushinp: fpurge() forgets the keys that stdio has read ahead, but neither
\* those still in the terminal nor those in inbuf.
FlushInp == \E n \in 0 .. Len(queue) :
  /\ pc = "idle" /\ prog.flushes
  /\ queue' = SubSeq(queue, n + 1, Len(queue))
  /\ due' = SubSeq(due, 1, Len(due) - Len(queue)) \o queue'
  /\ UNCHANGED <<prog, buffer, enabled, ungot, pc, call, weset, resized, modes,
                 wanted, result>>

-----------------------------------------------------------------------------
(* wgetch *)

\* What is delivered is no longer owed.  What was not due, or not yet, stays.
Deliver(s) == due' = IF IsPrefix(s, due) THEN SubSeq(due, Len(s) + 1, Len(due)) ELSE due

\* mutant: the end of wgetch without __delay() and nocbreak()
FinishNoRestore(res, t, o) ==
  /\ vmin' = o /\ ttymin' = t /\ ov' = o
  /\ pc' = "idle" /\ weset' = FALSE /\ result' = res
  /\ UNCHANGED raw

\* The end of wgetch, with the modes as they are then.
Finish(res, t, o) ==
  LET delayed == call.delay # "block"                       \* __delay()
  IN  /\ vmin' = o                                          \* __restore_termios()
      /\ ttymin' = IF weset THEN o ELSE IF delayed THEN "block" ELSE t
      /\ raw' = (raw /\ ~weset)                             \* nocbreak()
      /\ ov' = o
      /\ pc' = "idle"
      /\ weset' = FALSE
      /\ result' = res

\* A call that does not read: a resize to report, or a key pushed back.
CallNoRead ==
  /\ pc = "idle"
  /\ IF resized
     THEN /\ resized' = FALSE /\ result' = "resize"
          /\ UNCHANGED <<due, ungot>>
     ELSE /\ ungot # <<>>
          /\ ungot' = Front(ungot)
          /\ Deliver(<<Last(ungot)>>)
          /\ result' = "key"
          /\ UNCHANGED resized
  /\ UNCHANGED <<prog, queue, buffer, enabled, pc, call, weset, modes, wanted>>

\* The timing a call sets before it reads; with keypad() only a delay of 0 sets
\* one here.
Mode(c, v) == IF c.keypad THEN (IF c.delay = "poll" THEN "poll" ELSE v)
              ELSE c.delay

\* A call that reads.
Call ==
  /\ pc = "idle"
  /\ ~resized /\ ungot = <<>>
  /\ \E c \in prog.calls :
       /\ call' = c
       /\ weset' = (prog.echo /\ ~raw)
       /\ raw' = (raw \/ weset')                            \* cbreak()
       /\ ov' = vmin                                        \* __save_termios()
       /\ vmin' = Mode(c, vmin)
       /\ ttymin' = Mode(c, IF weset' THEN vmin ELSE ttymin)
       /\ pc' = IF c.keypad THEN "inkey" ELSE "raw"
  /\ node' = <<>>
  /\ result' = "none"
  /\ UNCHANGED <<prog, queue, due, inbuf, start, end, working, state, enabled,
                 ungot, resized, wanted>>

\* Without keypad().
RawKey ==
  /\ pc = "raw" /\ queue # <<>>
  /\ queue' = Tail(queue)
  /\ Deliver(<<Head(queue)>>)
  /\ Finish("key", ttymin, ov)
  /\ UNCHANGED <<prog, buffer, enabled, ungot, call, resized, wanted>>

\* The call ends at once; cbreak mode and the terminal's timing stay.
RawNothing(res) ==
  /\ pc' = "idle"
  /\ weset' = FALSE
  /\ vmin' = ov
  /\ result' = res
  /\ UNCHANGED <<prog, queue, due, buffer, enabled, ungot, call, raw, ttymin, ov,
                 wanted>>

RawTimeout ==
  /\ pc = "raw" /\ queue = <<>> /\ ttymin # "block"
  /\ RawNothing("timeout")
  /\ UNCHANGED resized

RawSignal ==
  /\ pc = "raw" /\ queue = <<>> /\ "raw" \in prog.signals
  /\ RawNothing(IF resized THEN "resize" ELSE "signal")
  /\ resized' = FALSE

-----------------------------------------------------------------------------
(* inkey *)

To      == ~call.notimeout /\ call.delay # "poll"      \* the parameters of inkey
Delayed == call.delay = "timed"

\* The state once the ring starts at p.
AfterNorm(p, e)     == "norm"                                      \* mutant
AfterAssembly(p, e) == IF p = e THEN "norm" ELSE "assembling"      \* mutant

After(p, e) == IF p = e THEN "norm" ELSE "backout"

\* A key k is looked up, with the state and the ring as they are then.  An
\* unknown key, or a timeout, delivers the oldest key of the ring.
Look(k, st, ib, w, e, v, t, o) ==
  LET seq  == Append(node, k)
      none == st = "timeout" \/ (IsLeaf(seq) /\ seq \notin enabled)
              \/ ~(IsLeaf(seq) \/ IsMulti(seq))
  IN  /\ inbuf' = ib
      /\ end' = e
      /\ \/ /\ none
            /\ start' = Inc(start) /\ working' = Inc(start)
            /\ state' = After(Inc(start), e)
            /\ node' = <<>>
            /\ Deliver(<<ib[start]>>)
            /\ Finish("key", t, o)
         \/ /\ ~none /\ IsLeaf(seq)
            /\ start' = w /\ working' = w
            /\ state' = After(w, e)
            /\ node' = <<>>
            /\ Deliver(seq)
            /\ Finish("symbol", t, o)
         \/ /\ ~none /\ IsMulti(seq)
            /\ start' = start /\ working' = w
            /\ state' = st
            /\ node' = seq
            /\ pc' = "inkey"
            /\ vmin' = v /\ ttymin' = t /\ ov' = o
            /\ UNCHANGED <<due, weset, raw, result>>

\* __timeout before the read, if there is one; it saves the old timing again.
TimeoutDelayed == Delayed              \* mutant: no timeout between keys

Timeout == IF state = "norm" THEN Delayed ELSE To \/ Delayed

SetTimeout ==
  /\ pc = "inkey" /\ state \in {"norm", "assembling"}
  /\ IF Timeout THEN ov' = vmin /\ vmin' = "timed" /\ ttymin' = "timed"
     ELSE UNCHANGED <<ov, vmin, ttymin>>
  /\ pc' = "read"
  /\ UNCHANGED <<prog, queue, due, buffer, enabled, ungot, call, weset, resized,
                 raw, wanted, result>>

\* __notimeout after it.
NoTimeoutNever(m) == m                 \* mutant

NoTimeout(m) == IF Timeout THEN "block" ELSE m

\* A key is read.
ReadKey ==
  /\ pc = "read" /\ queue # <<>>
  /\ queue' = Tail(queue)
  /\ LET k == Head(queue)
         w == IF state = "norm" THEN start ELSE working
     IN  Look(k, "assembling", [inbuf EXCEPT ![w] = k], Inc(w), Inc(w),
              NoTimeout(vmin), NoTimeout(ttymin), ov)
  /\ UNCHANGED <<prog, enabled, ungot, call, resized, wanted>>

\* Nothing came in time: the call fails, or backs out.
ReadTimeout ==
  /\ pc = "read" /\ queue = <<>> /\ ttymin # "block"
  /\ \/ /\ state = "norm"
        /\ Finish("timeout", ttymin, ov)
        /\ UNCHANGED <<due, buffer>>
     \/ /\ state = "assembling" /\ start = end
        /\ pc' = "inkey"
        /\ vmin' = NoTimeout(vmin) /\ ttymin' = NoTimeout(ttymin)
        /\ UNCHANGED <<due, buffer, weset, raw, ov, result>>
     \/ /\ state = "assembling" /\ start # end
        /\ Look(inbuf[start], "timeout", inbuf, working, end, NoTimeout(vmin),
                NoTimeout(ttymin), ov)
  /\ UNCHANGED <<prog, queue, enabled, ungot, call, resized, wanted>>

\* A signal ends the read; the place in the keymap is forgotten, the state and
\* the ring are not.
ReadSignal ==
  /\ pc = "read" /\ queue = <<>> /\ state \in prog.signals
  /\ Finish(IF resized THEN "resize" ELSE "signal", ttymin, ov)
  /\ resized' = FALSE
  /\ node' = <<>>
  /\ UNCHANGED <<prog, queue, due, inbuf, start, end, working, state, enabled,
                 ungot, call, wanted>>

\* A key is taken from the backlog.
TakeBacklog ==
  /\ pc = "inkey" /\ state = "backout"
  /\ Look(inbuf[working], IF Inc(working) = end THEN "assembling" ELSE "backout",
          inbuf, Inc(working), end, vmin, ttymin, ov)
  /\ UNCHANGED <<prog, queue, enabled, ungot, call, resized, wanted>>

Read == \/ RawKey \/ RawTimeout \/ SetTimeout \/ ReadKey \/ ReadTimeout \/ TakeBacklog

Next == \/ Type \/ Winch \/ KeyOk \/ Unget \/ CBreak \/ FlushInp \/ CallNoRead \/ Call
        \/ RawSignal \/ ReadSignal \/ Read

Spec == Init /\ [][Next]_vars

\* wgetch runs on, and timers run out.
FairSpec == Spec /\ WF_vars(Read)

-----------------------------------------------------------------------------
(* What the properties need of a program and its terminal *)

SymbolsFit      == \A s \in Keymap : Len(s) <= Size             \* in inbuf
OneKind(p)      == \E k \in BOOLEAN : \A c \in p.calls : c.keypad = k
Undisturbed(p)  == "assembling" \notin p.signals
EchoesKeypad(p) == p.echo => \A c \in p.calls : c.keypad

-----------------------------------------------------------------------------
(* Properties *)

TypeOK ==
  /\ prog \in Programs
  /\ queue \in Seq(Keys) /\ due \in Seq(Keys) /\ ungot \in Seq(Keys)
  /\ inbuf \in [0 .. Size - 1 -> Keys]
  /\ {start, end, working} \subseteq 0 .. Size - 1
  /\ state \in {"norm", "assembling", "backout"}
  /\ node = <<>> \/ IsMulti(node)
  /\ enabled \subseteq Keymap
  /\ pc \in {"idle", "inkey", "read", "raw"}
  /\ call \in prog.calls
  /\ {vmin, ttymin, ov} \subseteq Delays
  /\ {weset, resized, raw, wanted} \subseteq BOOLEAN
  /\ result \in {"none", "key", "symbol", "resize", "signal", "timeout"}

\* No key is lost, delivered twice or delivered out of order: what the program
\* is still to get is what was pushed back, then the backlog in inbuf, then
\* what is typed ahead.
InOrder == TypeOK /\ due = Reverse(ungot) \o Backlog \o queue

\* A key is only delivered singly if no enabled key symbol starts there, or
\* its keys did not come in time.
NoMissedSymbol ==
  [][(ReadKey \/ TakeBacklog) /\ result' = "key" /\ pc' = "idle"
       => ~\E s \in enabled : IsPrefix(s, due)]_vars

\* A call with a delay of -1 waits for a key or a signal: it does not run into
\* the timeout of another call.
BlockingWaits == result = "timeout" => call.delay # "block"

\* Between calls the program has the mode it set.
ModeKept == pc = "idle" => raw = wanted

\* A call that must not wait for a key does not; with a timeout between keys
\* that is also so once a first key has come.
Hurries == /\ pc # "idle"
           /\ call.delay # "block" \/ (call.keypad /\ state # "norm" /\ To)
Answers == Hurries ~> (pc = "idle")
=============================================================================
