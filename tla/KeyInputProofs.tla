--------------------------- MODULE KeyInputProofs ---------------------------
(***************************************************************************)
(* wgetch() of KeyInput.tla is right for every keymap and every size of    *)
(* inbuf, as long as programs keep to what the theorems assume of them.    *)
(*                                                                         *)
(* The order of the keys rests on an invariant of the ring: the keys from  *)
(* start to working are those that led to the place in the keymap (node),  *)
(* the keys from working to end wait behind them, and the ring is never    *)
(* full between two steps, because every symbol fits in it.                *)
(***************************************************************************)
EXTENDS KeyInput, SequenceTheorems, TLAPS

\* Positions in inbuf: Wrap(start + i) is i behind start.
Wrap(p) == IF p < Size THEN p ELSE p - Size

-----------------------------------------------------------------------------
(* Type correctness *)

LEMMA WrapMod ==
  ASSUME NEW p \in 0 .. 2 * Size - 1
  PROVE  p % Size = Wrap(p) /\ Wrap(p) \in 0 .. Size - 1
BY KeyInputAssumption, Z3 DEF Wrap

LEMMA IncWrap ==
  ASSUME NEW p \in 0 .. Size - 1
  PROVE  Inc(p) = Wrap(p + 1) /\ Inc(p) \in 0 .. Size - 1
BY KeyInputAssumption, WrapMod DEF Inc

\* What is still due is a sequence of keys, whatever is delivered.
LEMMA DeliverType ==
  ASSUME NEW s, Len(s) \in Nat, due \in Seq(Keys), Deliver(s)
  PROVE  due' \in Seq(Keys)
BY SubSeqProperties DEF Deliver, IsPrefix

\* How a program calls wgetch().
LEMMA CallParts ==
  ASSUME NEW p \in Programs, NEW c \in p.calls
  PROVE  c.keypad \in BOOLEAN /\ c.delay \in Delays /\ c.notimeout \in BOOLEAN
BY KeyInputAssumption DEF Program

\* The modes at the end of a call.
LEMMA FinishType ==
  ASSUME TypeOK, NEW t \in Delays, NEW o \in Delays,
         NEW res \in {"key", "symbol", "resize", "signal", "timeout"}, Finish(res, t, o)
  PROVE  /\ pc' \in {"idle", "inkey", "read", "raw"}
         /\ {vmin', ttymin', ov'} \subseteq Delays
         /\ {weset', raw'} \subseteq BOOLEAN
         /\ result' \in {"none", "key", "symbol", "resize", "signal", "timeout"}
BY DEF TypeOK, Finish, Delays

\* A key that is looked up leaves inkey() and its ring well formed.
LEMMA LookType ==
  ASSUME TypeOK, NEW k \in Keys, NEW st \in {"assembling", "backout", "timeout"},
         NEW ib \in [0 .. Size - 1 -> Keys], NEW w \in 0 .. Size - 1,
         NEW e \in 0 .. Size - 1, NEW v \in Delays, NEW t \in Delays, NEW o \in Delays,
         Look(k, st, ib, w, e, v, t, o)
  PROVE  /\ due' \in Seq(Keys)
         /\ inbuf' \in [0 .. Size - 1 -> Keys]
         /\ {start', end', working'} \subseteq 0 .. Size - 1
         /\ state' \in {"norm", "assembling", "backout"}
         /\ node' = <<>> \/ IsMulti(node')
         /\ pc' \in {"idle", "inkey", "read", "raw"}
         /\ {vmin', ttymin', ov'} \subseteq Delays
         /\ {weset', raw'} \subseteq BOOLEAN
         /\ result' \in {"none", "key", "symbol", "resize", "signal", "timeout"}
<1> DEFINE seq  == Append(node, k)
           none == st = "timeout" \/ (IsLeaf(seq) /\ seq \notin enabled)
                   \/ ~(IsLeaf(seq) \/ IsMulti(seq))
<1>1. inbuf' = ib /\ end' = e
  BY DEF Look
<1>2. CASE none /\ start' = Inc(start) /\ working' = Inc(start)
           /\ state' = After(Inc(start), e) /\ node' = <<>>
           /\ Deliver(<<ib[start]>>) /\ Finish("key", t, o)
  <2>1. Inc(start) \in 0 .. Size - 1
    BY IncWrap DEF TypeOK
  <2>2. due' \in Seq(Keys)
    <3>1. due \in Seq(Keys)
      BY DEF TypeOK
    <3> QED
      BY <1>2, <3>1, DeliverType
  <2> QED
    BY <1>1, <1>2, <2>1, <2>2, FinishType DEF After
<1>3. CASE ~none /\ IsLeaf(seq) /\ start' = w /\ working' = w /\ state' = After(w, e)
           /\ node' = <<>> /\ Deliver(seq) /\ Finish("symbol", t, o)
  <2>1. due' \in Seq(Keys)
    <3>1. Len(seq) \in Nat
      BY <1>3, KeyInputAssumption DEF IsLeaf
    <3>2. due \in Seq(Keys)
      BY DEF TypeOK
    <3> QED
      BY <1>3, <3>1, <3>2, DeliverType
  <2> QED
    BY <1>1, <1>3, <2>1, FinishType DEF After
<1>4. CASE ~none /\ IsMulti(seq) /\ start' = start /\ working' = w /\ state' = st
           /\ node' = seq /\ pc' = "inkey" /\ vmin' = v /\ ttymin' = t /\ ov' = o
           /\ UNCHANGED <<due, weset, raw, result>>
  BY <1>1, <1>4 DEF TypeOK
<1> QED
  BY <1>2, <1>3, <1>4 DEF Look

LEMMA TypeInit == Init => TypeOK
<1> SUFFICES ASSUME Init PROVE TypeOK
  OBVIOUS
<1>1. (CHOOSE k \in Keys : TRUE) \in Keys
  BY KeyInputAssumption
<1>2. inbuf \in [0 .. Size - 1 -> Keys]
  BY <1>1 DEF Init
<1>3. raw \in BOOLEAN
  BY DEF Init
<1>4. 0 \in 0 .. Size - 1
  BY KeyInputAssumption
<1>5. <<>> \in Seq(Keys)
  OBVIOUS
<1>6. {weset, resized, raw, wanted} \subseteq BOOLEAN
  BY <1>3 DEF Init
<1>7. {vmin, ttymin, ov} \subseteq Delays
  BY DEF Init, Delays
<1> QED
  BY <1>2, <1>4, <1>5, <1>6, <1>7 DEF Init, TypeOK

LEMMA TypeNext == TypeOK /\ [Next]_vars => TypeOK'
<1> SUFFICES ASSUME TypeOK, [Next]_vars PROVE TypeOK'
  OBVIOUS
<1>1. CASE Type
  BY <1>1 DEF TypeOK, Type, buffer, modes
<1>2. CASE Winch
  BY <1>2 DEF TypeOK, Winch, buffer, modes
<1>3. CASE KeyOk
  BY <1>3, KeyInputAssumption DEF TypeOK, KeyOk, buffer, modes
<1>4. CASE Unget
  BY <1>4 DEF TypeOK, Unget, buffer, modes
<1>5. CASE CBreak
  BY <1>5 DEF TypeOK, CBreak, buffer
<1>6. CASE FlushInp
  BY <1>6 DEF TypeOK, FlushInp, buffer, modes
<1>7. CASE CallNoRead
  <2>1. CASE resized
    BY <1>7, <2>1 DEF TypeOK, CallNoRead, buffer, modes
  <2>2. CASE ~resized
    <3>1. ungot # <<>> /\ ungot \in Seq(Keys) /\ due \in Seq(Keys) /\ Deliver(<<Last(ungot)>>)
      BY <1>7, <2>2 DEF TypeOK, CallNoRead
    <3>2. due' \in Seq(Keys)
      BY <3>1, DeliverType
    <3>3. Front(ungot) \in Seq(Keys)
      BY <3>1, SubSeqProperties DEF Front
    <3> QED
      BY <1>7, <2>2, <3>2, <3>3 DEF TypeOK, CallNoRead, buffer, modes
  <2> QED
    BY <2>1, <2>2
<1>8. CASE Call
  <2>1. PICK c \in prog.calls :
          /\ call' = c
          /\ weset' = (prog.echo /\ ~raw)
          /\ raw' = (raw \/ weset')
          /\ ov' = vmin
          /\ vmin' = Mode(c, vmin)
          /\ ttymin' = Mode(c, IF weset' THEN vmin ELSE ttymin)
          /\ pc' = IF c.keypad THEN "inkey" ELSE "raw"
    BY <1>8 DEF Call
  <2>2. prog.echo \in BOOLEAN /\ c.delay \in Delays
    BY KeyInputAssumption, CallParts DEF TypeOK, Program
  <2>3. {vmin', ttymin', ov'} \subseteq Delays
    BY <2>1, <2>2 DEF TypeOK, Mode, Delays
  <2>4. {weset', raw'} \subseteq BOOLEAN
    BY <2>1, <2>2 DEF TypeOK
  <2> QED
    BY <1>8, <2>1, <2>3, <2>4 DEF TypeOK, Call
<1>9. CASE RawSignal
  BY <1>9 DEF TypeOK, RawSignal, RawNothing, buffer
<1>10. CASE ReadSignal
  <2>1. ttymin \in Delays /\ ov \in Delays
    BY DEF TypeOK
  <2>2. \E res \in {"resize", "signal"} : Finish(res, ttymin, ov)
    BY <1>10 DEF ReadSignal
  <2> QED
    BY <1>10, <2>1, <2>2, FinishType DEF TypeOK, ReadSignal
<1>11. CASE RawKey
  <2>1. /\ queue # <<>> /\ queue \in Seq(Keys) /\ due \in Seq(Keys)
        /\ ttymin \in Delays /\ ov \in Delays
    BY <1>11 DEF TypeOK, RawKey
  <2>2. Deliver(<<Head(queue)>>) /\ Finish("key", ttymin, ov)
    BY <1>11 DEF RawKey
  <2>3. due' \in Seq(Keys) /\ Tail(queue) \in Seq(Keys)
    BY <2>1, <2>2, DeliverType
  <2> QED
    BY <1>11, <2>1, <2>2, <2>3, FinishType DEF TypeOK, RawKey, buffer
<1>12. CASE RawTimeout
  BY <1>12 DEF TypeOK, RawTimeout, RawNothing, buffer
<1>13. CASE SetTimeout
  BY <1>13 DEF TypeOK, SetTimeout, buffer, Delays
<1>14. CASE ReadKey
  <2>1. PICK k, w : /\ k = Head(queue) /\ w = (IF state = "norm" THEN start ELSE working)
                    /\ Look(k, "assembling", [inbuf EXCEPT ![w] = k], Inc(w), Inc(w),
                            NoTimeout(vmin), NoTimeout(ttymin), ov)
    BY <1>14 DEF ReadKey
  <2>2. k \in Keys /\ w \in 0 .. Size - 1 /\ queue' \in Seq(Keys)
    BY <1>14, <2>1 DEF TypeOK, ReadKey
  <2>3. [inbuf EXCEPT ![w] = k] \in [0 .. Size - 1 -> Keys]
    BY <2>2 DEF TypeOK
  <2>4. NoTimeout(vmin) \in Delays /\ NoTimeout(ttymin) \in Delays /\ ov \in Delays
    BY DEF TypeOK, NoTimeout, Delays
  <2>5. Inc(w) \in 0 .. Size - 1
    BY <2>2, IncWrap
  <2> QED
    BY <1>14, <2>1, <2>2, <2>3, <2>4, <2>5, LookType DEF TypeOK, ReadKey
<1>15. CASE ReadTimeout
  <2>1. NoTimeout(vmin) \in Delays /\ NoTimeout(ttymin) \in Delays /\ ov \in Delays
        /\ ttymin \in Delays
    BY DEF TypeOK, NoTimeout, Delays
  <2>2. UNCHANGED <<prog, queue, enabled, ungot, call, resized, wanted>>
    BY <1>15 DEF ReadTimeout
  <2>3. CASE state = "norm" /\ Finish("timeout", ttymin, ov) /\ UNCHANGED <<due, buffer>>
    BY <2>1, <2>2, <2>3, FinishType DEF TypeOK, buffer
  <2>4. CASE /\ pc' = "inkey"
             /\ vmin' = NoTimeout(vmin) /\ ttymin' = NoTimeout(ttymin)
             /\ UNCHANGED <<due, buffer, weset, raw, ov, result>>
    BY <2>1, <2>2, <2>4 DEF TypeOK, buffer
  <2>5. CASE Look(inbuf[start], "timeout", inbuf, working, end, NoTimeout(vmin),
                  NoTimeout(ttymin), ov)
    <3>1. inbuf[start] \in Keys /\ inbuf \in [0 .. Size - 1 -> Keys]
          /\ working \in 0 .. Size - 1 /\ end \in 0 .. Size - 1
      BY DEF TypeOK
    <3> QED
      BY <2>1, <2>2, <2>5, <3>1, LookType DEF TypeOK
  <2> QED
    BY <1>15, <2>3, <2>4, <2>5 DEF ReadTimeout
<1>16. CASE TakeBacklog
  <2>1. UNCHANGED <<prog, queue, enabled, ungot, call, resized, wanted>>
    BY <1>16 DEF TakeBacklog
  <2>2. PICK k, st, w : /\ k = inbuf[working] /\ st \in {"assembling", "backout"}
                        /\ w = Inc(working)
                        /\ Look(k, st, inbuf, w, end, vmin, ttymin, ov)
    BY <1>16 DEF TakeBacklog
  <2>3. k \in Keys /\ inbuf \in [0 .. Size - 1 -> Keys]
        /\ w \in 0 .. Size - 1 /\ end \in 0 .. Size - 1
        /\ vmin \in Delays /\ ttymin \in Delays /\ ov \in Delays
    BY <2>2, IncWrap DEF TypeOK
  <2>4. Look(k, st, inbuf, w, end, vmin, ttymin, ov)
    BY <2>2
  <2>5. st \in {"assembling", "backout", "timeout"}
    BY <2>2
  <2> QED
    BY <2>1, <2>3, <2>4, <2>5, LookType DEF TypeOK
<1>17. CASE UNCHANGED vars
  BY <1>17 DEF TypeOK, vars, IsMulti
<1> QED
  BY <1>1, <1>2, <1>3, <1>4, <1>5, <1>6, <1>7, <1>8, <1>9, <1>10, <1>11, <1>12, <1>13,
     <1>14, <1>15, <1>16, <1>17 DEF Next, Read

\* Every variable keeps to the values the code gives it, whatever programs do.
THEOREM TypeCorrect == Spec => []TypeOK
<1>1. Init => TypeOK
  BY TypeInit
<1>2. TypeOK /\ [Next]_vars => TypeOK'
  BY TypeNext
<1> QED
  BY <1>1, <1>2, PTL DEF Spec

-----------------------------------------------------------------------------
(* The mode of the terminal *)

\* A call that made the mode raw undoes it, and only calls with keypad() do.
ModeInv ==
  /\ pc = "idle" => raw = wanted /\ ~weset
  /\ weset => raw /\ ~wanted
  /\ ~weset => raw = wanted
  /\ pc = "raw" => ~call.keypad /\ ~weset

LEMMA ModeFinish ==
  ASSUME TypeOK, ModeInv, wanted' = wanted, NEW res, NEW t, NEW o, Finish(res, t, o)
  PROVE  ModeInv'
BY DEF TypeOK, ModeInv, Finish

\* A key that is looked up leaves the mode alone or ends the call.
LEMMA ModeLook ==
  ASSUME TypeOK, ModeInv, wanted' = wanted, NEW k, NEW st, NEW ib, NEW w, NEW e,
         NEW v, NEW t, NEW o, Look(k, st, ib, w, e, v, t, o)
  PROVE  ModeInv'
<1>1. CASE Finish("key", t, o) \/ Finish("symbol", t, o)
  BY <1>1, ModeFinish
<1>2. CASE pc' = "inkey" /\ UNCHANGED <<weset, raw>>
  BY <1>2 DEF ModeInv
<1> QED
  BY <1>1, <1>2 DEF Look

LEMMA ModeNext ==
  ASSUME \A p \in Programs : EchoesKeypad(p), TypeOK, ModeInv, [Next]_vars
  PROVE  ModeInv'
<1>1. CASE Type
  BY <1>1 DEF ModeInv, Type, modes
<1>2. CASE Winch
  BY <1>2 DEF ModeInv, Winch, modes
<1>3. CASE KeyOk
  BY <1>3 DEF ModeInv, KeyOk, modes
<1>4. CASE Unget
  BY <1>4 DEF ModeInv, Unget, modes
<1>5. CASE CBreak
  BY <1>5 DEF ModeInv, CBreak
<1>6. CASE FlushInp
  BY <1>6 DEF ModeInv, FlushInp, modes
<1>7. CASE CallNoRead
  BY <1>7 DEF ModeInv, CallNoRead, modes
<1>8. CASE Call
  <2>1. PICK c \in prog.calls :
          /\ call' = c
          /\ weset' = (prog.echo /\ ~raw)
          /\ raw' = (raw \/ weset')
          /\ pc' = IF c.keypad THEN "inkey" ELSE "raw"
    BY <1>8 DEF Call
  <2>2. raw \in BOOLEAN /\ wanted' = wanted /\ wanted = raw
    BY <1>8 DEF Call, TypeOK, ModeInv
  <2>3. weset' => c.keypad
    BY <2>1 DEF TypeOK, EchoesKeypad
  <2>4. (weset' => raw' /\ ~wanted') /\ (~weset' => raw' = wanted')
    BY <2>1, <2>2
  <2> QED
    BY <2>1, <2>3, <2>4 DEF ModeInv
<1>9. CASE RawSignal
  BY <1>9 DEF ModeInv, RawSignal, RawNothing
<1>10. CASE ReadSignal
  BY <1>10, ModeFinish DEF ReadSignal
<1>11. CASE RawKey
  BY <1>11, ModeFinish DEF RawKey
<1>12. CASE RawTimeout
  BY <1>12 DEF ModeInv, RawTimeout, RawNothing
<1>13. CASE SetTimeout
  BY <1>13 DEF ModeInv, SetTimeout
<1>14. CASE ReadKey
  BY <1>14, ModeLook DEF ReadKey
<1>15. CASE ReadTimeout
  <2>1. wanted' = wanted
    BY <1>15 DEF ReadTimeout
  <2>2. CASE Finish("timeout", ttymin, ov)
    BY <2>1, <2>2, ModeFinish
  <2>3. CASE pc' = "inkey" /\ UNCHANGED <<weset, raw>>
    BY <2>1, <2>3 DEF ModeInv
  <2>4. CASE Look(inbuf[start], "timeout", inbuf, working, end, NoTimeout(vmin),
                  NoTimeout(ttymin), ov)
    BY <2>1, <2>4, ModeLook
  <2> QED
    BY <1>15, <2>2, <2>3, <2>4 DEF ReadTimeout
<1>16. CASE TakeBacklog
  BY <1>16, ModeLook DEF TakeBacklog
<1>17. CASE UNCHANGED vars
  BY <1>17 DEF ModeInv, vars
<1> QED
  BY <1>1, <1>2, <1>3, <1>4, <1>5, <1>6, <1>7, <1>8, <1>9, <1>10, <1>11, <1>12, <1>13,
     <1>14, <1>15, <1>16, <1>17 DEF Next, Read

\* Programs that turn echo on only with keypad() find the mode they set when
\* wgetch() returns, however the call ends.
THEOREM ModeIsKept ==
  ASSUME \A p \in Programs : EchoesKeypad(p)
  PROVE  Spec => []ModeKept
<1>1. Init => TypeOK /\ ModeInv
  <2> SUFFICES ASSUME Init PROVE TypeOK /\ ModeInv
    OBVIOUS
  <2> QED
    BY TypeInit DEF Init, ModeInv
<1>2. TypeOK /\ ModeInv /\ [Next]_vars => TypeOK' /\ ModeInv'
  BY TypeNext, ModeNext
<1>3. ModeInv => ModeKept
  BY DEF ModeInv, ModeKept
<1> QED
  BY <1>1, <1>2, <1>3, PTL DEF Spec

-----------------------------------------------------------------------------
(* Timeouts *)

\* The timing of a call with keypad() while no timeout is set.
CallTiming == IF call.delay = "poll" THEN "poll" ELSE "block"

\* Calls with keypad() start from a terminal that waits, save that, and restore
\* it; a call without sets its own timing and relies on none.
WaitInv ==
  /\ pc = "raw" => ~call.keypad /\ ttymin = call.delay
  /\ pc \in {"inkey", "read"} => call.keypad
  /\ call.keypad => ov = "block"
  /\ call.keypad /\ pc = "idle" => vmin = "block" /\ ttymin = "block"
  /\ pc = "inkey" => vmin = CallTiming /\ ttymin = CallTiming
  /\ pc = "read" => LET m == IF Timeout THEN "timed" ELSE CallTiming
                    IN  vmin = m /\ ttymin = m
  /\ BlockingWaits

\* All calls of a program are of the kind of the one that runs.
LEMMA SameKind ==
  ASSUME \A p \in Programs : OneKind(p), TypeOK, NEW c \in prog.calls
  PROVE  c.keypad = call.keypad
BY DEF OneKind, TypeOK

\* A call ends with the timing of the terminal restored.
LEMMA WaitFinish ==
  ASSUME TypeOK, WaitInv, call.keypad, call' = call, NEW res, NEW t,
         call.delay = "block" => t = "block",
         res = "timeout" => call.delay # "block", Finish(res, t, ov)
  PROVE  WaitInv'
BY DEF TypeOK, WaitInv, Finish, BlockingWaits

\* In inkey(), once the timeout between keys is off.
LEMMA WaitLook ==
  ASSUME TypeOK, WaitInv, pc # "idle", call.keypad, call' = call,
         NEW k, NEW st, NEW ib, NEW w, NEW e,
         Look(k, st, ib, w, e, CallTiming, CallTiming, ov)
  PROVE  WaitInv'
<1>1. CASE Finish("key", CallTiming, ov) \/ Finish("symbol", CallTiming, ov)
  BY <1>1, WaitFinish DEF CallTiming
<1>2. CASE /\ pc' = "inkey" /\ vmin' = CallTiming /\ ttymin' = CallTiming /\ ov' = ov
           /\ UNCHANGED result
  BY <1>2 DEF WaitInv, CallTiming, BlockingWaits
<1> QED
  BY <1>1, <1>2 DEF Look

\* A signal only ends the wait for a first key.
LEMMA SignalKeeps ==
  ASSUME \A p \in Programs : Undisturbed(p), TypeOK, ReadSignal
  PROVE  state = "norm"
<1>1. state \in prog.signals /\ prog \in Programs
  BY DEF ReadSignal, TypeOK
<1>2. prog.signals \subseteq {"norm", "assembling", "raw"}
  BY <1>1, KeyInputAssumption DEF Program
<1>3. "assembling" \notin prog.signals
  BY <1>1 DEF Undisturbed
<1> QED
  BY <1>1, <1>2, <1>3 DEF TypeOK

LEMMA WaitNext ==
  ASSUME \A p \in Programs : OneKind(p) /\ Undisturbed(p), TypeOK, WaitInv, [Next]_vars
  PROVE  WaitInv'
<1> USE DEF BlockingWaits
<1>1. CASE Type
  BY <1>1 DEF WaitInv, Type, modes, buffer, Timeout, Delayed, To, CallTiming
<1>2. CASE Winch
  BY <1>2 DEF WaitInv, Winch, modes, buffer, Timeout, Delayed, To, CallTiming
<1>3. CASE KeyOk
  BY <1>3 DEF WaitInv, KeyOk, modes
<1>4. CASE Unget
  BY <1>4 DEF WaitInv, Unget, modes
<1>5. CASE CBreak
  BY <1>5 DEF WaitInv, CBreak
<1>6. CASE FlushInp
  BY <1>6 DEF WaitInv, FlushInp, modes
<1>7. CASE CallNoRead
  BY <1>7 DEF WaitInv, CallNoRead, modes
<1>8. CASE Call
  <2>1. PICK c \in prog.calls :
          /\ call' = c
          /\ ov' = vmin
          /\ vmin' = Mode(c, vmin)
          /\ ttymin' = Mode(c, IF weset' THEN vmin ELSE ttymin)
          /\ pc' = IF c.keypad THEN "inkey" ELSE "raw"
    BY <1>8 DEF Call
  <2>2. c.keypad = call.keypad /\ pc = "idle" /\ result' = "none"
    BY <1>8, SameKind DEF Call
  <2>3. CASE c.keypad
    BY <2>1, <2>2, <2>3 DEF WaitInv, Mode, CallTiming
  <2>4. CASE ~c.keypad
    BY <2>1, <2>2, <2>4 DEF WaitInv, Mode
  <2> QED
    BY <2>3, <2>4
<1>9. CASE RawSignal
  BY <1>9 DEF WaitInv, RawSignal, RawNothing
<1>10. CASE ReadSignal
  <2>1. state = "norm"
    BY <1>10, SignalKeeps
  <2>2. call.delay = "block" => ttymin = "block"
    BY <1>10, <2>1 DEF ReadSignal, WaitInv, Timeout, Delayed, CallTiming
  <2>3. PICK res \in {"resize", "signal"} : Finish(res, ttymin, ov)
    BY <1>10 DEF ReadSignal
  <2> QED
    BY <1>10, <2>2, <2>3, WaitFinish DEF ReadSignal, WaitInv
<1>11. CASE RawKey
  BY <1>11 DEF WaitInv, RawKey, Finish
<1>12. CASE RawTimeout
  BY <1>12 DEF WaitInv, RawTimeout, RawNothing
<1>13. CASE SetTimeout
  BY <1>13 DEF WaitInv, SetTimeout, Timeout, Delayed, To, CallTiming, buffer
<1>14. CASE ReadKey
  <2>1. NoTimeout(vmin) = CallTiming /\ NoTimeout(ttymin) = CallTiming
    BY <1>14 DEF ReadKey, WaitInv, NoTimeout, Timeout, Delayed, To, CallTiming
  <2> QED
    BY <1>14, <2>1, WaitLook DEF ReadKey, WaitInv
<1>15. CASE ReadTimeout
  <2>1. NoTimeout(vmin) = CallTiming /\ NoTimeout(ttymin) = CallTiming
    BY <1>15 DEF ReadTimeout, WaitInv, NoTimeout, Timeout, Delayed, To, CallTiming
  <2>2. call.keypad /\ call' = call /\ pc = "read"
    BY <1>15 DEF ReadTimeout, WaitInv
  <2>3. CASE state = "norm" /\ Finish("timeout", ttymin, ov)
    <3>1. call.delay # "block"
      BY <1>15, <2>3 DEF ReadTimeout, WaitInv, Timeout, Delayed, CallTiming
    <3> QED
      BY <2>2, <2>3, <3>1, WaitFinish
  <2>4. CASE /\ pc' = "inkey"
             /\ vmin' = NoTimeout(vmin) /\ ttymin' = NoTimeout(ttymin)
             /\ UNCHANGED <<ov, result>>
    BY <2>1, <2>2, <2>4 DEF WaitInv, CallTiming
  <2>5. CASE Look(inbuf[start], "timeout", inbuf, working, end, NoTimeout(vmin),
                  NoTimeout(ttymin), ov)
    BY <2>1, <2>2, <2>5, WaitLook
  <2> QED
    BY <1>15, <2>3, <2>4, <2>5 DEF ReadTimeout
<1>16. CASE TakeBacklog
  <2>1. vmin = CallTiming /\ ttymin = CallTiming /\ call.keypad /\ pc # "idle"
    BY <1>16 DEF TakeBacklog, WaitInv
  <2> QED
    BY <1>16, <2>1, WaitLook DEF TakeBacklog
<1>17. CASE UNCHANGED vars
  BY <1>17 DEF WaitInv, vars, Timeout, Delayed, To, CallTiming
<1> QED
  BY <1>1, <1>2, <1>3, <1>4, <1>5, <1>6, <1>7, <1>8, <1>9, <1>10, <1>11, <1>12, <1>13,
     <1>14, <1>15, <1>16, <1>17 DEF Next, Read

\* In a program that uses one kind of window, and whose key sequences no signal
\* cuts, no call inherits the timeout of an earlier one: a call that is to wait
\* does.
THEOREM BlockingCallsWait ==
  ASSUME \A p \in Programs : OneKind(p) /\ Undisturbed(p)
  PROVE  Spec => []BlockingWaits
<1>1. Init => TypeOK /\ WaitInv
  <2> SUFFICES ASSUME Init PROVE TypeOK /\ WaitInv
    OBVIOUS
  <2> QED
    BY TypeInit DEF Init, WaitInv, BlockingWaits
<1>2. TypeOK /\ WaitInv /\ [Next]_vars => TypeOK' /\ WaitInv'
  BY TypeNext, WaitNext
<1>3. WaitInv => BlockingWaits
  BY DEF WaitInv
<1> QED
  BY <1>1, <1>2, <1>3, PTL DEF Spec

-----------------------------------------------------------------------------
(* Sequences of keys *)

LEMMA OneKey == \A k \in Keys : <<k>> \in Seq(Keys) /\ Len(<<k>>) = 1 /\ <<k>>[1] = k
OBVIOUS

\* The keys of a, then those of b.
Then(a, b) == a \o b

LEMMA ThenSeq ==
  ASSUME NEW a \in Seq(Keys), NEW b \in Seq(Keys)
  PROVE  /\ Then(a, b) \in Seq(Keys) /\ Len(Then(a, b)) = Len(a) + Len(b)
         /\ \A i \in 1 .. Len(a) + Len(b) :
              Then(a, b)[i] = IF i <= Len(a) THEN a[i] ELSE b[i - Len(a)]
BY ConcatProperties DEF Then

LEMMA ThenIn == \A a, b \in Seq(Keys) : Then(a, b) \in Seq(Keys)
BY ThenSeq

LEMMA ThenThen == \A a, b, c \in Seq(Keys) : Then(Then(a, b), c) = Then(a, Then(b, c))
BY ConcatAssociative DEF Then

LEMMA ThenNone == \A a \in Seq(Keys) : Then(<<>>, a) = a
BY ConcatEmptySeq DEF Then

LEMMA KeyBehind ==
  \A a, b \in Seq(Keys), k \in Keys : Append(Then(a, b), k) = Then(a, Append(b, k))
<1> SUFFICES ASSUME NEW a \in Seq(Keys), NEW b \in Seq(Keys), NEW k \in Keys
             PROVE  Append(Then(a, b), k) = Then(a, Append(b, k))
  OBVIOUS
<1>1. PICK h, x, y, z \in Seq(Keys) :
        h = <<k>> /\ x = Then(a, b) /\ y = Append(b, k) /\ z = Append(x, k)
  <2>1. <<k>> \in Seq(Keys) /\ Then(a, b) \in Seq(Keys) /\ Append(b, k) \in Seq(Keys)
    BY OneKey, ThenIn, AppendProperties
  <2>2. Append(Then(a, b), k) \in Seq(Keys)
    BY <2>1, AppendProperties
  <2> QED
    BY <2>1, <2>2
<1>2. z = Then(x, h) /\ y = Then(b, h)
  BY <1>1, AppendIsConcat DEF Then
<1>3. x = Then(a, b) /\ a \in Seq(Keys) /\ b \in Seq(Keys) /\ h \in Seq(Keys)
  BY <1>1
<1>4. z = Then(a, y)
  BY ONLY <1>2, <1>3, ThenThen
<1> QED
  BY <1>1, <1>4

LEMMA KeyLast ==
  \A a, b, c \in Seq(Keys), k \in Keys :
    Append(Then(a, Then(b, c)), k) = Then(a, Then(b, Append(c, k)))
<1> SUFFICES ASSUME NEW a \in Seq(Keys), NEW b \in Seq(Keys), NEW c \in Seq(Keys), NEW k \in Keys
             PROVE  Append(Then(a, Then(b, c)), k) = Then(a, Then(b, Append(c, k)))
  OBVIOUS
<1>1. Then(b, c) \in Seq(Keys)
  BY ThenIn
<1>2. Append(Then(a, Then(b, c)), k) = Then(a, Append(Then(b, c), k))
  BY <1>1, KeyBehind, Zenon
<1>3. Append(Then(b, c), k) = Then(b, Append(c, k))
  BY KeyBehind, Zenon
<1> QED
  BY <1>2, <1>3

\* What is first in line is what a delivery takes.
LEMMA DeliverFirst ==
  ASSUME NEW x \in Seq(Keys), NEW r \in Seq(Keys), due = Then(x, r), Deliver(x)
  PROVE  due' = r
<1>1. /\ due \in Seq(Keys) /\ Len(due) = Len(x) + Len(r)
      /\ \A i \in 1 .. Len(due) : due[i] = IF i <= Len(x) THEN x[i] ELSE r[i - Len(x)]
  BY ThenSeq
<1>2. Len(x) \in Nat /\ Len(r) \in Nat
  BY LenProperties
<1>3. SubSeq(due, 1, Len(x)) = x /\ SubSeq(x, 1, Len(x)) = x
  <2>1. /\ SubSeq(due, 1, Len(x)) \in Seq(Keys) /\ Len(SubSeq(due, 1, Len(x))) = Len(x)
        /\ \A i \in 1 .. Len(x) : SubSeq(due, 1, Len(x))[i] = x[i]
    BY <1>1, <1>2, SubSeqProperties
  <2> QED
    BY <2>1, SeqEqual
<1>4. SubSeq(due, Len(x) + 1, Len(due)) = r
  <2>1. /\ SubSeq(due, Len(x) + 1, Len(due)) \in Seq(Keys)
        /\ Len(SubSeq(due, Len(x) + 1, Len(due))) = Len(r)
        /\ \A i \in 1 .. Len(r) : SubSeq(due, Len(x) + 1, Len(due))[i] = r[i]
    BY SMTT(30), <1>1, <1>2, SubSeqProperties
  <2> QED
    BY <2>1, SeqEqual
<1> QED
  BY <1>1, <1>2, <1>3, <1>4 DEF Deliver, IsPrefix

LEMMA QueueSplit ==
  ASSUME NEW q \in Seq(Keys), q # <<>>
  PROVE  /\ Head(q) \in Keys /\ <<Head(q)>> \in Seq(Keys) /\ Tail(q) \in Seq(Keys)
         /\ q = Then(<<Head(q)>>, Tail(q))
<1>1. PICK k \in Keys, h, r \in Seq(Keys) :
        /\ k = Head(q) /\ h = <<k>> /\ r = Tail(q)
        /\ k = q[1] /\ Len(r) = Len(q) - 1 /\ \A i \in 1 .. Len(r) : r[i] = q[i + 1]
  <2>1. /\ Head(q) \in Keys /\ Head(q) = q[1]
        /\ Tail(q) \in Seq(Keys) /\ Len(Tail(q)) = Len(q) - 1
        /\ \A i \in 1 .. Len(Tail(q)) : Tail(q)[i] = q[i + 1]
    BY HeadTailProperties
  <2>2. <<Head(q)>> \in Seq(Keys)
    BY <2>1, OneKey
  <2> QED
    BY <2>1, <2>2
<1>2. /\ h \in Seq(Keys) /\ Len(h) = 1 /\ h[1] = k
      /\ r \in Seq(Keys) /\ Len(r) = Len(q) - 1 /\ Len(q) \in Nat
  BY <1>1, OneKey
<1>3. /\ Then(h, r) \in Seq(Keys) /\ Len(Then(h, r)) = Len(q)
      /\ \A i \in 1 .. Len(q) : Then(h, r)[i] = IF i <= 1 THEN h[i] ELSE r[i - 1]
  BY <1>1, <1>2, ConcatProperties DEF Then
<1>4. Then(h, r) = q
  BY SMTT(30), <1>1, <1>2, <1>3, SeqEqual
<1> QED
  BY <1>1, <1>4

\* The n keys of a ring b from position s.
Held(b, s, n) == [i \in 1 .. n |-> b[Wrap(s + i - 1)]]

LEMMA HeldSeq ==
  ASSUME NEW b \in [0 .. Size - 1 -> Keys], NEW s \in 0 .. Size - 1, NEW n \in 0 .. Size
  PROVE  /\ Held(b, s, n) \in Seq(Keys) /\ Len(Held(b, s, n)) = n
         /\ \A i \in 1 .. n : Held(b, s, n)[i] = b[Wrap(s + i - 1)]
<1>1. Size \in Nat \ {0}
  BY KeyInputAssumption
<1>2. \A i \in 1 .. n : Wrap(s + i - 1) \in 0 .. Size - 1
  BY <1>1 DEF Wrap
<1>3. PICK h : h = Held(b, s, n)
  OBVIOUS
<1>4. h \in [1 .. n -> Keys] /\ \A i \in 1 .. n : h[i] = b[Wrap(s + i - 1)]
  BY <1>2, <1>3 DEF Held
<1>5. h \in Seq(Keys) /\ Len(h) = n
  BY <1>1, <1>4
<1> QED
  BY <1>3, <1>4, <1>5

\* A ring is its first m keys and those behind them.
LEMMA HeldSplit ==
  ASSUME NEW b \in [0 .. Size - 1 -> Keys], NEW s \in 0 .. Size - 1,
         NEW n \in 0 .. Size, NEW m \in 0 .. n
  PROVE  /\ Wrap(s + m) \in 0 .. Size - 1
         /\ Held(b, s, n) = Then(Held(b, s, m), Held(b, Wrap(s + m), n - m))
<1>1. Size \in Nat \ {0}
  BY KeyInputAssumption
<1>2. Wrap(s + m) \in 0 .. Size - 1 /\ m \in 0 .. Size /\ n - m \in 0 .. Size
  BY <1>1 DEF Wrap
<1>3. PICK t : t = Wrap(s + m)
  OBVIOUS
<1>4. \A i \in m + 1 .. n : Wrap(t + (i - m) - 1) = Wrap(s + i - 1)
  BY <1>1, <1>3 DEF Wrap
<1>5. PICK x, y \in Seq(Keys) : x = Held(b, s, m) /\ y = Held(b, t, n - m)
  BY <1>2, <1>3, HeldSeq
<1>6. /\ Len(x) = m /\ \A i \in 1 .. m : x[i] = b[Wrap(s + i - 1)]
      /\ Len(y) = n - m /\ \A i \in 1 .. n - m : y[i] = b[Wrap(t + i - 1)]
  BY <1>2, <1>3, <1>5, HeldSeq
<1>7. /\ Then(x, y) \in Seq(Keys) /\ Len(Then(x, y)) = n
      /\ \A i \in 1 .. n : Then(x, y)[i] = IF i <= m THEN x[i] ELSE y[i - m]
  <2>1. /\ x \o y \in Seq(Keys) /\ Len(x \o y) = Len(x) + Len(y)
        /\ \A i \in 1 .. Len(x) + Len(y) :
             (x \o y)[i] = IF i <= Len(x) THEN x[i] ELSE y[i - Len(x)]
    BY ONLY x \in Seq(Keys), y \in Seq(Keys), ConcatProperties
  <2>2. Then(x, y) = x \o y
    BY DEF Then
  <2>3. Len(x) = m /\ Len(x) + Len(y) = n
    BY <1>6
  <2> QED
    BY ONLY <2>1, <2>2, <2>3
<1>8. \A i \in 1 .. n : Then(x, y)[i] = b[Wrap(s + i - 1)]
  BY SMTT(30), <1>4, <1>6, <1>7 DEF Then
<1>9. PICK z \in Seq(Keys) :
        z = Held(b, s, n) /\ Len(z) = n /\ \A i \in 1 .. n : z[i] = b[Wrap(s + i - 1)]
  BY HeldSeq
<1>10. z = Then(x, y)
  BY SMTT(30), <1>7, <1>8, <1>9, SeqEqual
<1> QED
  BY <1>2, <1>3, <1>5, <1>9, <1>10

\* The key at the position behind m keys is the next one.
LEMMA HeldNext ==
  ASSUME NEW b \in [0 .. Size - 1 -> Keys], NEW s \in 0 .. Size - 1, NEW m \in 0 .. Size - 1
  PROVE  Held(b, s, m + 1) = Append(Held(b, s, m), b[Wrap(s + m)])
<1>1. Size \in Nat \ {0} /\ m + 1 \in 0 .. Size /\ m \in 0 .. Size
  BY KeyInputAssumption
<1>2. PICK k \in Keys : k = b[Wrap(s + m)]
  BY <1>1 DEF Wrap
<1>3. PICK x, y \in Seq(Keys) : x = Held(b, s, m) /\ y = Held(b, s, m + 1)
  BY <1>1, HeldSeq
<1>4. /\ Len(x) = m /\ \A i \in 1 .. m : x[i] = b[Wrap(s + i - 1)]
      /\ Len(y) = m + 1 /\ \A i \in 1 .. m + 1 : y[i] = b[Wrap(s + i - 1)]
  BY <1>1, <1>3, HeldSeq
<1>5. /\ Append(x, k) \in Seq(Keys) /\ Len(Append(x, k)) = m + 1
      /\ \A i \in 1 .. m : Append(x, k)[i] = x[i]
      /\ Append(x, k)[m + 1] = k
  BY <1>4, AppendProperties
<1>6. \A i \in 1 .. m + 1 : Append(x, k)[i] = y[i]
  BY <1>2, <1>4, <1>5
<1> QED
  BY <1>2, <1>3, <1>4, <1>5, <1>6, SeqEqual

\* The ring c is b with k at p.
Stored(c, b, p, k) ==
  /\ c \in [0 .. Size - 1 -> Keys] /\ c[p] = k
  /\ \A j \in 0 .. Size - 1 : j # p => c[j] = b[j]

\* A key stored behind m keys leaves those alone.
LEMMA HeldStore ==
  ASSUME NEW b \in [0 .. Size - 1 -> Keys], NEW s \in 0 .. Size - 1,
         NEW m \in 0 .. Size - 1, NEW k \in Keys, NEW c,
         Stored(c, b, Wrap(s + m), k)
  PROVE  Held(c, s, m + 1) = Append(Held(b, s, m), k)
<1>1. Size \in Nat \ {0}
  BY KeyInputAssumption
<1>2. \A i \in 1 .. m : c[Wrap(s + i - 1)] = b[Wrap(s + i - 1)]
  <2>1. \A i \in 1 .. m : Wrap(s + i - 1) \in 0 .. Size - 1 /\ Wrap(s + i - 1) # Wrap(s + m)
    BY <1>1 DEF Wrap
  <2> QED
    BY <2>1 DEF Stored
<1>3. Held(c, s, m) = Held(b, s, m)
  BY <1>2 DEF Held
<1>4. Held(c, s, m + 1) = Append(Held(c, s, m), k)
  BY HeldNext DEF Stored
<1> QED
  BY <1>3, <1>4

\* The first m keys of a ring with more keys behind it, once they are delivered.
LEMMA DeliverHeld ==
  ASSUME NEW b \in [0 .. Size - 1 -> Keys], NEW s \in 0 .. Size - 1,
         NEW n \in 0 .. Size, NEW m \in 0 .. n, NEW q \in Seq(Keys),
         due = Then(Held(b, s, n), q), Deliver(Held(b, s, m))
  PROVE  due' = Then(Held(b, Wrap(s + m), n - m), q)
<1>1. m \in 0 .. Size /\ n - m \in 0 .. Size
  BY KeyInputAssumption
<1>2. PICK x, y \in Seq(Keys) : x = Held(b, s, m) /\ y = Held(b, Wrap(s + m), n - m)
  BY <1>1, HeldSeq, HeldSplit
<1>3. Held(b, s, n) = Then(x, y)
  BY <1>2, HeldSplit
<1>4. due = Then(x, Then(y, q))
  <2>1. Then(Then(x, y), q) = Then(x, Then(y, q))
    BY ThenThen
  <2> QED
    BY <1>3, <2>1
<1>5. Then(y, q) \in Seq(Keys)
  BY ThenSeq
<1> QED
  BY <1>2, <1>4, <1>5, DeliverFirst

-----------------------------------------------------------------------------
(* The order of the keys *)

\* The ring holds n keys, of which the first m led to the place in the keymap.
Ring(m, n) ==
  /\ m <= n
  /\ node = Held(inbuf, start, m)
  /\ working = Wrap(start + m) /\ end = Wrap(start + n)
  /\ state = IF n = 0 THEN "norm" ELSE IF m = n THEN "assembling" ELSE "backout"

\* Between two steps there is always room for one more key: a sequence that leads
\* on is shorter than a symbol, and symbols fit.  Only programs with keypad() have
\* a backlog; the place in the keymap lasts for one call, and what was pushed
\* back comes before any reading.
OrderInv ==
  /\ \E m, n \in 0 .. Size - 1 :
       Ring(m, n) /\ due = Then(Reverse(ungot), Then(Held(inbuf, start, n), queue))
  /\ pc \in {"idle", "raw"} => node = <<>>
  /\ pc # "idle" => ungot = <<>>
  /\ pc = "raw" => ~call.keypad
  /\ pc \in {"inkey", "read"} => call.keypad
  /\ pc = "read" => state # "backout"
  /\ state # "norm" => call.keypad

\* A sequence that leads on to symbols is shorter than inbuf.
LEMMA MultiFits ==
  ASSUME SymbolsFit, NEW s \in Seq(Keys), IsMulti(s)
  PROVE  Len(s) < Size
<1>1. PICK q \in Keymap : IsStrictPrefix(s, q)
  BY DEF IsMulti
<1>2. /\ q \in Seq(Keys) /\ Len(q) <= Size
      /\ Len(s) <= Len(q) /\ SubSeq(s, 1, Len(s)) = SubSeq(q, 1, Len(s)) /\ s # q
  BY <1>1, KeyInputAssumption DEF SymbolsFit, IsStrictPrefix, IsPrefix
<1>3. Len(s) # Len(q)
  BY <1>2, SubSeqFull
<1> QED
  BY <1>2, <1>3, KeyInputAssumption

\* What inkey() hands to the keymap: the key k, with which the first m keys of the
\* ring ib have been looked up, of n that are due before those in q.
LooksUp(k, st, ib, w, e, m, n, q) ==
  /\ n \in 1 .. Size /\ m \in 1 .. n /\ (m = n \/ n < Size)
  /\ k \in Keys /\ ib \in [0 .. Size - 1 -> Keys] /\ q \in Seq(Keys)
  /\ Append(node, k) = Held(ib, start, m)
  /\ w = Wrap(start + m) /\ e = Wrap(start + n)
  /\ st = IF m = n THEN "assembling" ELSE "backout"
  /\ due = Then(Held(ib, start, n), q)

\* One key is looked up, m keys into a ring of n: the ring gives up its oldest
\* key, the symbol found, or nothing, and what it gives up is what was due first.
LEMMA LookInOrder ==
  ASSUME SymbolsFit, TypeOK, NEW n \in 1 .. Size, NEW m \in 1 .. n,
         NEW q \in Seq(Keys), NEW k \in Keys, NEW st, NEW w, NEW e,
         NEW ib \in [0 .. Size - 1 -> Keys], NEW v, NEW t, NEW o,
         Look(k, st, ib, w, e, v, t, o),
         due = Then(Held(ib, start, n), q),
         \/ st = "timeout"
         \/ /\ Append(node, k) = Held(ib, start, m) /\ w = Wrap(start + m)
            /\ m = n \/ n < Size
            /\ st = IF m = n THEN "assembling" ELSE "backout",
         e = Wrap(start + n)
  PROVE  /\ \E a, b \in 0 .. Size - 1 :
              Ring(a, b)' /\ due' = Then(Held(inbuf', start', b), q)
         /\ (pc' = "idle" /\ node' = <<>>) \/ pc' = "inkey"
<1> DEFINE seq  == Append(node, k)
           none == st = "timeout" \/ (IsLeaf(seq) /\ seq \notin enabled)
                   \/ ~(IsLeaf(seq) \/ IsMulti(seq))
<1>1. Size \in Nat \ {0} /\ start \in 0 .. Size - 1
  BY KeyInputAssumption DEF TypeOK
<1>2. inbuf' = ib /\ end' = e
  BY DEF Look
<1>3. ASSUME NEW j \in 1 .. n, Deliver(Held(ib, start, j)), start' = Wrap(start + j),
             working' = start', state' = After(start', e), node' = <<>>, pc' = "idle"
      PROVE  \E a, b \in 0 .. Size - 1 :
               Ring(a, b)' /\ due' = Then(Held(inbuf', start', b), q)
  <2>1. due' = Then(Held(inbuf', start', n - j), q)
    <3>1. n \in 0 .. Size /\ j \in 0 .. n
      BY <1>1
    <3>2. due' = Then(Held(ib, Wrap(start + j), n - j), q)
      BY <1>1, <1>3, <3>1, DeliverHeld
    <3> QED
      BY <1>2, <1>3, <3>2
  <2>2. start' \in 0 .. Size - 1 /\ n - j \in 0 .. Size - 1
    BY <1>1, <1>3, HeldSplit
  <2>3. Held(inbuf', start', 0) = <<>>
    BY DEF Held
  <2>4. e = Wrap(start' + (n - j)) /\ (e = start' <=> n - j = 0)
    BY <1>1, <1>3 DEF Wrap
  <2>5. Ring(0, n - j)'
    BY <1>1, <1>2, <1>3, <2>2, <2>3, <2>4 DEF Ring, After, Wrap
  <2>6. PICK b \in 0 .. Size - 1 : b = n - j
    BY <2>2
  <2>7. Ring(0, b)'
    BY <2>5, <2>6
  <2>8. due' = Then(Held(inbuf', start', b), q)
    BY <2>1, <2>6
  <2>9. 0 \in 0 .. Size - 1
    BY <1>1
  <2> QED
    BY <2>7, <2>8, <2>9
<1>4. CASE none /\ start' = Inc(start) /\ working' = Inc(start)
           /\ state' = After(Inc(start), e) /\ node' = <<>>
           /\ Deliver(<<ib[start]>>) /\ Finish("key", t, o)
  <2>1. Held(ib, start, 1) = <<ib[start]>>
    BY <1>1 DEF Held, Wrap
  <2>2. Inc(start) = Wrap(start + 1)
    BY <1>1, IncWrap
  <2>3. pc' = "idle"
    BY <1>4 DEF Finish
  <2>4. 1 \in 1 .. n /\ Deliver(Held(ib, start, 1))
    BY <1>1, <1>4, <2>1
  <2> QED
    BY <1>3, <1>4, <2>2, <2>3, <2>4
<1>5. CASE ~none /\ IsLeaf(seq) /\ start' = w /\ working' = w /\ state' = After(w, e)
           /\ node' = <<>> /\ Deliver(seq) /\ Finish("symbol", t, o)
  <2>1. pc' = "idle"
    BY <1>5 DEF Finish
  <2> QED
    BY <1>3, <1>5, <2>1
<1>6. CASE ~none /\ IsMulti(seq) /\ start' = start /\ working' = w /\ state' = st
           /\ node' = seq /\ pc' = "inkey" /\ UNCHANGED due
  <2>1. seq = Held(ib, start, m) /\ Held(ib, start, m) \in Seq(Keys)
        /\ Len(Held(ib, start, m)) = m
    <3>1. m \in 0 .. Size
      BY <1>1
    <3> QED
      BY <1>1, <1>6, <3>1, HeldSeq
  <2>2. m < Size
    BY <1>6, <2>1, MultiFits
  <2>3. m \in 0 .. Size - 1 /\ n \in 0 .. Size - 1
    BY <1>1, <1>6, <2>2
  <2>4. Ring(m, n)'
    BY <1>1, <1>2, <1>6, <2>1 DEF Ring
  <2>5. due' = Then(Held(inbuf', start', n), q)
    BY <1>2, <1>6
  <2> QED
    BY <1>6, <2>3, <2>4, <2>5
<1>7. (pc' = "idle" /\ node' = <<>>) \/ pc' = "inkey"
  BY DEF Look, Finish
<1> QED
  BY <1>3, <1>4, <1>5, <1>6, <1>7 DEF Look

\* A step that touches neither keys nor the ring.
LEMMA OrderFrame ==
  ASSUME OrderInv, UNCHANGED <<due, queue, ungot, inbuf, start, end, working, state, node>>,
         pc' \in {"idle", "raw"} => node = <<>>, pc' # "idle" => ungot = <<>>,
         pc' = "raw" => ~call'.keypad, pc' \in {"inkey", "read"} => call'.keypad,
         pc' = "read" => state # "backout", call'.keypad = call.keypad
  PROVE  OrderInv'
<1>1. PICK m, n \in 0 .. Size - 1 :
        Ring(m, n) /\ due = Then(Reverse(ungot), Then(Held(inbuf, start, n), queue))
  BY DEF OrderInv
<1>2. Ring(m, n)' /\ (due = Then(Reverse(ungot), Then(Held(inbuf, start, n), queue)))'
  BY <1>1 DEF Ring
<1> QED
  BY <1>1, <1>2 DEF OrderInv

\* A step of inkey() that looks up a key.
LEMMA OrderLook ==
  ASSUME OrderInv, UNCHANGED <<call, ungot>>, pc # "idle", call.keypad,
         NEW a \in 0 .. Size - 1, NEW b \in 0 .. Size - 1, queue' \in Seq(Keys),
         Ring(a, b)', due' = Then(Held(inbuf', start', b), queue'), inbuf' \in [0 .. Size - 1 -> Keys],
         start' \in 0 .. Size - 1,
         (pc' = "idle" /\ node' = <<>>) \/ pc' = "inkey"
  PROVE  OrderInv'
<1>1. ungot' = <<>>
  BY DEF OrderInv
<1>2. Reverse(ungot') = <<>>
  BY <1>1 DEF Reverse
<1>3. Held(inbuf', start', b) \in Seq(Keys)
  BY KeyInputAssumption, HeldSeq
<1>4. due' = Then(Reverse(ungot'), Then(Held(inbuf', start', b), queue'))
  <2>1. PICK x \in Seq(Keys) : x = Then(Held(inbuf', start', b), queue')
    BY <1>3, ThenSeq
  <2>2. Then(<<>>, x) = x
    BY ThenNone
  <2> QED
    BY <1>2, <2>1, <2>2
<1> QED
  BY <1>1, <1>4 DEF OrderInv

LEMMA ReverseSeq ==
  ASSUME NEW s \in Seq(Keys)
  PROVE  Reverse(s) \in Seq(Keys) /\ Len(Reverse(s)) = Len(s)
<1>1. Len(s) \in Nat
  OBVIOUS
<1>2. PICK r : r = Reverse(s)
  OBVIOUS
<1>3. r \in [1 .. Len(s) -> Keys]
  BY <1>1, <1>2 DEF Reverse
<1>4. r \in Seq(Keys) /\ Len(r) = Len(s)
  BY <1>1, <1>3
<1> QED
  BY <1>2, <1>4

\* What is pushed back last is delivered first.
LEMMA ReverseAppend ==
  ASSUME NEW s \in Seq(Keys), NEW k \in Keys
  PROVE  Reverse(Append(s, k)) = Then(<<k>>, Reverse(s))
<1>1. PICK l \in Nat : l = Len(s)
  OBVIOUS
<1>2. PICK t \in Seq(Keys) : t = Append(s, k)
  BY AppendProperties
<1>3. Len(t) = l + 1 /\ t[l + 1] = k /\ \A i \in 1 .. l : t[i] = s[i]
  BY <1>1, <1>2, AppendProperties
<1>4. PICK x, y \in Seq(Keys) : x = Reverse(t) /\ y = Reverse(s)
  BY ReverseSeq
<1>5. /\ y \in Seq(Keys) /\ l \in Nat
      /\ Len(x) = l + 1 /\ \A i \in 1 .. l + 1 : x[i] = t[(l + 1 - i) + 1]
      /\ Len(y) = l /\ \A i \in 1 .. l : y[i] = s[(l - i) + 1]
  BY <1>1, <1>3, <1>4, ReverseSeq DEF Reverse
<1>6. PICK h \in Seq(Keys) : h = <<k>>
  BY OneKey
<1>11. h \in Seq(Keys) /\ Len(h) = 1 /\ h[1] = k
  BY <1>6, OneKey
<1>7. /\ Then(h, y) \in Seq(Keys) /\ Len(Then(h, y)) = l + 1
      /\ \A i \in 1 .. l + 1 : Then(h, y)[i] = IF i <= 1 THEN h[i] ELSE y[i - 1]
  BY <1>1, <1>5, <1>6, <1>11, ConcatProperties DEF Then
<1>8. \A i \in 1 .. l + 1 : x[i] = Then(h, y)[i]
  <2> TAKE i \in 1 .. l + 1
  <2>1. CASE i = 1
    BY <1>1, <1>3, <1>5, <1>11, <1>7, <2>1
  <2>2. CASE i # 1
    <3>1. i - 1 \in 1 .. l /\ (l + 1 - i) + 1 \in 1 .. l /\ (l - (i - 1)) + 1 = (l + 1 - i) + 1
      BY <1>1, <2>2
    <3>2. x[i] = s[(l + 1 - i) + 1]
      BY <1>3, <1>5, <3>1
    <3>3. Then(h, y)[i] = y[i - 1]
      BY <1>1, <1>7, <2>2
    <3> QED
      BY <1>5, <3>1, <3>2, <3>3
  <2> QED
    BY <2>1, <2>2
<1>9. x = Then(h, y)
  BY <1>5, <1>7, <1>8, SeqEqual
<1> QED
  BY <1>2, <1>4, <1>6, <1>9

\* Inside inkey(), what is due is in the ring and in the queue.
LEMMA DueInside ==
  ASSUME TypeOK, OrderInv, pc # "idle"
  PROVE  \E m, n \in 0 .. Size - 1 : Ring(m, n) /\ due = Then(Held(inbuf, start, n), queue)
<1>1. PICK m, n \in 0 .. Size - 1 :
        Ring(m, n) /\ due = Then(Reverse(ungot), Then(Held(inbuf, start, n), queue))
  BY DEF OrderInv
<1>2. Reverse(ungot) = <<>>
  BY DEF OrderInv, Reverse
<1>3. Held(inbuf, start, n) \in Seq(Keys) /\ queue \in Seq(Keys)
  BY KeyInputAssumption, HeldSeq DEF TypeOK
<1>4. PICK x \in Seq(Keys) : x = Then(Held(inbuf, start, n), queue)
  BY <1>3, ThenIn
<1>5. due = x
  BY <1>1, <1>2, <1>4, ThenNone
<1> QED
  BY <1>1, <1>4, <1>5

\* A key that is read goes behind those in the ring.
LEMMA ReadKeyLooksUp ==
  ASSUME TypeOK, TypeOK', OrderInv, ReadKey
  PROVE  \E k, st, ib, w, e, m, n, v, t, o :
           LooksUp(k, st, ib, w, e, m, n, queue') /\ Look(k, st, ib, w, e, v, t, o)
<1>1. PICK m, n \in 0 .. Size - 1 : Ring(m, n) /\ due = Then(Held(inbuf, start, n), queue)
  BY DueInside DEF ReadKey
<1>2. Size \in Nat \ {0} /\ start \in 0 .. Size - 1 /\ inbuf \in [0 .. Size - 1 -> Keys]
  BY KeyInputAssumption DEF TypeOK
<1>3. /\ pc = "read" /\ state # "backout" /\ call.keypad
      /\ queue \in Seq(Keys) /\ queue # <<>> /\ queue' = Tail(queue) /\ queue' \in Seq(Keys)
      /\ UNCHANGED <<call, ungot>>
  BY DEF ReadKey, OrderInv, TypeOK
<1>4. m = n
  BY <1>1, <1>3 DEF Ring
<1>5. PICK k \in Keys, w \in 0 .. Size - 1 :
        /\ k = Head(queue) /\ w = (IF state = "norm" THEN start ELSE working)
        /\ Look(k, "assembling", [inbuf EXCEPT ![w] = k], Inc(w), Inc(w),
                NoTimeout(vmin), NoTimeout(ttymin), ov)
  BY <1>3, QueueSplit DEF ReadKey, TypeOK
<1>6. w = Wrap(start + n)
  BY <1>1, <1>2, <1>4, <1>5 DEF Ring, Wrap
<1>7. PICK ib \in [0 .. Size - 1 -> Keys] :
        ib = [inbuf EXCEPT ![w] = k] /\ Held(ib, start, n + 1) = Append(Held(inbuf, start, n), k)
  <2>1. PICK ib : ib = [inbuf EXCEPT ![w] = k]
    OBVIOUS
  <2>2. Stored(ib, inbuf, Wrap(start + n), k)
    BY <1>2, <1>6, <2>1 DEF Stored
  <2>3. n \in 0 .. Size - 1 /\ k \in Keys
    BY <1>5
  <2>4. Held(ib, start, n + 1) = Append(Held(inbuf, start, n), k)
    BY ONLY <1>2, <2>2, <2>3, HeldStore
  <2> QED
    BY <2>1, <2>2, <2>4 DEF Stored
<1>8. Inc(w) = Wrap(start + (n + 1))
  <2>1. Inc(w) = Wrap(w + 1)
    BY IncWrap
  <2> QED
    BY <1>2, <1>6, <2>1 DEF Wrap
<1>9. due = Then(Held(ib, start, n + 1), queue')
  <2>1. PICK held, h, r \in Seq(Keys) :
          /\ held = Held(inbuf, start, n) /\ h = <<k>> /\ r = queue'
          /\ queue = Then(h, r)
    <3>1. Held(inbuf, start, n) \in Seq(Keys)
      <4>1. n \in 0 .. Size
        BY <1>2
      <4> QED
        BY <1>2, <4>1, HeldSeq
    <3>2. <<k>> \in Seq(Keys) /\ queue = Then(<<k>>, queue')
      BY <1>3, <1>5, QueueSplit
    <3> QED
      BY <1>3, <3>1, <3>2
  <2>2. Append(held, k) = Then(held, h)
    BY <2>1, AppendIsConcat DEF Then
  <2>3. held \in Seq(Keys) /\ h \in Seq(Keys) /\ r \in Seq(Keys)
    OBVIOUS
  <2>4. Then(held, Then(h, r)) = Then(Then(held, h), r)
    BY ONLY <2>3, ThenThen
  <2> QED
    BY <1>1, <1>7, <2>1, <2>2, <2>4
<1>10. Append(node, k) = Held(ib, start, n + 1)
  BY <1>1, <1>4, <1>7 DEF Ring
<1>11. n + 1 \in 1 .. Size /\ n + 1 \in 1 .. n + 1
  BY <1>2
<1>12. Look(k, "assembling", ib, Inc(w), Inc(w), NoTimeout(vmin), NoTimeout(ttymin), ov)
  BY <1>5, <1>7
<1>13. LooksUp(k, "assembling", ib, Inc(w), Inc(w), n + 1, n + 1, queue')
  BY <1>3, <1>8, <1>9, <1>10, <1>11 DEF LooksUp
<1> QED
  BY <1>12, <1>13

\* When no key comes in time, the ring gives up its oldest key.
LEMMA ReadTimeoutInOrder ==
  ASSUME SymbolsFit, TypeOK, TypeOK', OrderInv, ReadTimeout
  PROVE  OrderInv'
<1>1. PICK m, n \in 0 .. Size - 1 : Ring(m, n) /\ due = Then(Held(inbuf, start, n), queue)
  BY DueInside DEF ReadTimeout
<1>2. /\ pc = "read" /\ call.keypad /\ queue' \in Seq(Keys)
      /\ UNCHANGED <<call, ungot, queue>>
  BY DEF ReadTimeout, OrderInv, TypeOK
<1>3. CASE Finish("timeout", ttymin, ov) /\ state = "norm" /\ UNCHANGED <<due, buffer>>
  <2>1. node = <<>> /\ pc' = "idle"
    BY <1>1, <1>3 DEF Ring, Held, Finish
  <2> QED
    BY <1>2, <1>3, <2>1, OrderFrame DEF OrderInv, buffer
<1>4. CASE pc' = "inkey" /\ UNCHANGED <<due, buffer>>
  BY <1>2, <1>4, OrderFrame DEF OrderInv, buffer
<1>5. CASE /\ state = "assembling"
           /\ Look(inbuf[start], "timeout", inbuf, working, end, NoTimeout(vmin),
                   NoTimeout(ttymin), ov)
  <2>1. n \in 1 .. Size /\ 1 \in 1 .. n /\ end = Wrap(start + n)
    BY <1>1, <1>5, KeyInputAssumption DEF Ring
  <2>2. inbuf[start] \in Keys /\ inbuf \in [0 .. Size - 1 -> Keys] /\ queue \in Seq(Keys)
    BY DEF TypeOK
  <2>3. /\ \E a, b \in 0 .. Size - 1 :
             Ring(a, b)' /\ due' = Then(Held(inbuf', start', b), queue)
        /\ (pc' = "idle" /\ node' = <<>>) \/ pc' = "inkey"
    BY <1>1, <1>5, <2>1, <2>2, LookInOrder
  <2> QED
    BY <1>2, <2>3, OrderLook DEF TypeOK
<1> QED
  BY <1>3, <1>4, <1>5 DEF ReadTimeout

\* The next key of the ring is looked up.
LEMMA TakeBacklogLooksUp ==
  ASSUME TypeOK, TypeOK', OrderInv, TakeBacklog
  PROVE  \E k, st, ib, w, e, m, n, v, t, o :
           LooksUp(k, st, ib, w, e, m, n, queue') /\ Look(k, st, ib, w, e, v, t, o)
<1>1. PICK m, n \in 0 .. Size - 1 : Ring(m, n) /\ due = Then(Held(inbuf, start, n), queue)
  BY DueInside DEF TakeBacklog
<1>2. Size \in Nat \ {0} /\ start \in 0 .. Size - 1 /\ inbuf \in [0 .. Size - 1 -> Keys]
  BY KeyInputAssumption DEF TypeOK
<1>3. /\ pc = "inkey" /\ call.keypad /\ queue \in Seq(Keys) /\ queue' \in Seq(Keys)
      /\ UNCHANGED <<call, ungot, queue>>
  BY DEF TakeBacklog, OrderInv, TypeOK
<1>4. m < n /\ working = Wrap(start + m) /\ end = Wrap(start + n)
  BY <1>1, <1>2 DEF TakeBacklog, Ring
<1>5. Inc(working) = Wrap(start + (m + 1))
  <2>1. Inc(working) = Wrap(working + 1)
    BY IncWrap DEF TypeOK
  <2> QED
    BY <1>2, <1>4, <2>1 DEF Wrap
<1>6. Inc(working) = end <=> m + 1 = n
  BY <1>2, <1>4, <1>5 DEF Wrap
<1>7. PICK k \in Keys, st \in {"assembling", "backout"} :
        /\ k = inbuf[working] /\ st = IF m + 1 = n THEN "assembling" ELSE "backout"
        /\ Look(k, st, inbuf, Inc(working), end, vmin, ttymin, ov)
  BY <1>6 DEF TakeBacklog, TypeOK
<1>8. Append(node, k) = Held(inbuf, start, m + 1)
  BY <1>1, <1>2, <1>4, <1>7, HeldNext DEF Ring
<1>9. n \in 1 .. Size /\ m + 1 \in 1 .. n /\ n < Size
  BY <1>2, <1>4
<1>10. LooksUp(k, st, inbuf, Inc(working), end, m + 1, n, queue')
  BY <1>1, <1>2, <1>3, <1>4, <1>5, <1>7, <1>8, <1>9 DEF LooksUp
<1> QED
  BY <1>7, <1>10

\* Either way the keys stay in order.
LEMMA LookUpInOrder ==
  ASSUME SymbolsFit, TypeOK, TypeOK', OrderInv, ReadKey \/ TakeBacklog
  PROVE  OrderInv'
<1>1. PICK k, st, ib, w, e, m, n, v, t, o :
        LooksUp(k, st, ib, w, e, m, n, queue') /\ Look(k, st, ib, w, e, v, t, o)
  BY ReadKeyLooksUp, TakeBacklogLooksUp
<1>2. /\ n \in 1 .. Size /\ m \in 1 .. n /\ (m = n \/ n < Size)
      /\ k \in Keys /\ ib \in [0 .. Size - 1 -> Keys] /\ queue' \in Seq(Keys)
      /\ Append(node, k) = Held(ib, start, m)
      /\ w = Wrap(start + m) /\ e = Wrap(start + n)
      /\ st = IF m = n THEN "assembling" ELSE "backout"
      /\ due = Then(Held(ib, start, n), queue')
  BY <1>1 DEF LooksUp
<1>3. pc # "idle" /\ call.keypad /\ UNCHANGED <<call, ungot>>
  BY DEF ReadKey, TakeBacklog, OrderInv
<1>4. /\ \E a, b \in 0 .. Size - 1 :
           Ring(a, b)' /\ due' = Then(Held(inbuf', start', b), queue')
      /\ (pc' = "idle" /\ node' = <<>>) \/ pc' = "inkey"
  BY <1>1, <1>2, LookInOrder
<1> QED
  BY <1>3, <1>4, OrderLook DEF TypeOK

LEMMA OrderNext ==
  ASSUME SymbolsFit, \A p \in Programs : OneKind(p) /\ Undisturbed(p),
         TypeOK, TypeOK', OrderInv, [Next]_vars
  PROVE  OrderInv'
<1>1. PICK m, n \in 0 .. Size - 1 :
        Ring(m, n) /\ due = Then(Reverse(ungot), Then(Held(inbuf, start, n), queue))
  BY DEF OrderInv
<1>2. PICK rev, held \in Seq(Keys) :
        /\ rev = Reverse(ungot) /\ held = Held(inbuf, start, n)
        /\ due = Then(rev, Then(held, queue)) /\ Len(held) = n
  <2>1. ungot \in Seq(Keys) /\ n \in 0 .. Size /\ start \in 0 .. Size - 1
        /\ inbuf \in [0 .. Size - 1 -> Keys]
    BY KeyInputAssumption DEF TypeOK
  <2> QED
    BY <1>1, <2>1, ReverseSeq, HeldSeq
<1>3. /\ queue \in Seq(Keys) /\ due \in Seq(Keys) /\ ungot \in Seq(Keys)
      /\ queue' \in Seq(Keys) /\ Then(held, queue) \in Seq(Keys)
  BY <1>2, ThenSeq DEF TypeOK
<1>4. CASE Type
  <2>1. PICK k \in Keys : queue' = Append(queue, k) /\ due' = Append(due, k)
    BY <1>4 DEF Type
  <2>2. UNCHANGED <<buffer, ungot, pc, call>>
    BY <1>4 DEF Type
  <2>5. due' = Then(rev, Then(held, queue'))
    <3>1. due' = Append(Then(rev, Then(held, queue)), k)
      BY <1>2, <2>1
    <3> QED
      <4>1. rev \in Seq(Keys) /\ held \in Seq(Keys) /\ queue \in Seq(Keys) /\ k \in Keys
        BY <1>3
      <4>2. Append(Then(rev, Then(held, queue)), k) = Then(rev, Then(held, Append(queue, k)))
        BY ONLY <4>1, KeyLast, Zenon
      <4> QED
        BY <2>1, <3>1, <4>2
  <2>6. Ring(m, n)'
    BY <1>1, <2>2 DEF Ring, buffer
  <2> QED
    BY <1>1, <1>2, <2>2, <2>5, <2>6 DEF OrderInv, buffer
<1>5. CASE Unget
  <2>1. PICK k \in Keys : ungot' = Append(ungot, k) /\ due' = Then(<<k>>, due)
    BY <1>5 DEF Unget, Then
  <2>2. UNCHANGED <<buffer, queue, pc, call>> /\ pc = "idle"
    BY <1>5 DEF Unget
  <2>3. PICK h \in Seq(Keys) : h = <<k>>
    BY OneKey
  <2>4. due' = Then(Then(h, rev), Then(held, queue))
    <3>1. due' = Then(h, Then(rev, Then(held, queue)))
      BY <1>2, <2>1, <2>3
    <3> QED
      BY ZenonT(30), <1>3, <2>3, <3>1, ThenThen
  <2>5. Reverse(ungot') = Then(h, rev)
    BY <1>2, <1>3, <2>1, <2>3, ReverseAppend
  <2>6. Ring(m, n)'
    BY <1>1, <2>2 DEF Ring, buffer
  <2> QED
    BY <1>1, <1>2, <2>2, <2>4, <2>5, <2>6 DEF OrderInv, buffer
<1>6. CASE FlushInp
  <2>1. /\ due' = Then(SubSeq(due, 1, Len(due) - Len(queue)), queue')
        /\ UNCHANGED <<buffer, ungot, pc, call>>
    BY <1>6 DEF FlushInp, Then
  <2>2. PICK x \in Seq(Keys) : x = Then(rev, held) /\ due = Then(x, queue)
    <3>1. Then(rev, held) \in Seq(Keys) /\ Then(Then(rev, held), queue) = Then(rev, Then(held, queue))
      BY <1>2, <1>3, ThenThen, ThenIn
    <3> QED
      BY <1>2, <3>1
  <2>3. SubSeq(due, 1, Len(due) - Len(queue)) = x
    <3>1. /\ Len(due) = Len(x) + Len(queue) /\ Len(x) \in Nat /\ Len(queue) \in Nat
          /\ \A i \in 1 .. Len(x) : due[i] = x[i]
      BY <1>3, <2>2, ConcatProperties DEF Then
    <3>2. PICK l \in Nat : l = Len(x)
      BY <3>1
    <3>3. Len(due) - Len(queue) = l /\ \A i \in 1 .. l : due[i] \in Keys
      BY <3>1, <3>2
    <3>4. /\ SubSeq(due, 1, l) \in Seq(Keys) /\ Len(SubSeq(due, 1, l)) = l
          /\ \A i \in 1 .. l : SubSeq(due, 1, l)[i] = due[i]
      BY <3>3, SubSeqProperties
    <3> QED
      BY <3>1, <3>2, <3>3, <3>4, SeqEqual
  <2>4. due' = Then(rev, Then(held, queue'))
    <3>1. due' = Then(Then(rev, held), queue')
      BY <2>1, <2>2, <2>3
    <3> QED
      BY <1>3, <3>1, ThenThen
  <2>5. Ring(m, n)'
    BY <1>1, <2>1 DEF Ring, buffer
  <2> QED
    BY <1>1, <1>2, <2>1, <2>4, <2>5 DEF OrderInv, buffer
<1>7. CASE CallNoRead
  <2>1. UNCHANGED <<buffer, queue, call>> /\ pc = "idle" /\ pc' = pc
    BY <1>7 DEF CallNoRead
  <2>2. CASE resized
    <3>1. UNCHANGED <<due, ungot>>
      BY <1>7, <2>2 DEF CallNoRead
    <3> QED
      BY <2>1, <3>1, OrderFrame DEF OrderInv, buffer
  <2>3. CASE ~resized
    <3>1. ungot # <<>> /\ ungot' = Front(ungot) /\ Deliver(<<Last(ungot)>>)
      BY <1>7, <2>3 DEF CallNoRead
    <3>2. PICK u \in Seq(Keys), k \in Keys : ungot = Append(u, k)
      BY <1>3, <3>1, SequenceEmptyOrAppend
    <3>3. Last(ungot) = k /\ Front(ungot) = u
      <4>1. Len(ungot) = Len(u) + 1 /\ Len(u) \in Nat /\ ungot[Len(u) + 1] = k
            /\ \A i \in 1 .. Len(u) : ungot[i] = u[i]
        BY <3>2, AppendProperties
      <4>2. PICK f \in Seq(Keys) : f = Front(ungot) /\ Len(f) = Len(u)
                                  /\ \A i \in 1 .. Len(u) : f[i] = u[i]
        <5>1. PICK l \in Nat : l = Len(u) /\ l + 1 = Len(ungot)
          BY <4>1
        <5>2. Front(ungot) = SubSeq(ungot, 1, l)
          BY <5>1 DEF Front
        <5>3. /\ 1 \in 1 .. l + 1 /\ l \in 0 .. Len(ungot) /\ l - 1 + 1 = l
              /\ \A i \in 1 .. l : 1 + i - 1 = i
          BY <5>1
        <5>4. /\ SubSeq(ungot, 1, l) \in Seq(Keys) /\ Len(SubSeq(ungot, 1, l)) = l
              /\ \A i \in 1 .. l : SubSeq(ungot, 1, l)[i] = ungot[i]
          BY <1>3, <5>1, <5>3, SubSeqProperties
        <5> QED
          BY <4>1, <5>1, <5>2, <5>4
      <4>3. f = u
        BY <4>2, SeqEqual
      <4> QED
        BY <4>1, <4>2, <4>3 DEF Last
    <3>4. PICK h, r \in Seq(Keys) : h = <<k>> /\ r = Reverse(u)
      BY ReverseSeq, OneKey
    <3>5. due = Then(h, Then(r, Then(held, queue))) /\ Then(r, Then(held, queue)) \in Seq(Keys)
      <4>1. rev = Then(h, r)
        BY <1>2, <3>2, <3>4, ReverseAppend
      <4> QED
        <5>1. due = Then(Then(h, r), Then(held, queue))
          BY <1>2, <4>1
        <5>2. PICK x \in Seq(Keys) : x = Then(held, queue)
          BY <1>3
        <5>3. h \in Seq(Keys) /\ r \in Seq(Keys) /\ x \in Seq(Keys)
          OBVIOUS
        <5>4. Then(Then(h, r), x) = Then(h, Then(r, x)) /\ Then(r, x) \in Seq(Keys)
          BY ONLY <5>3, ThenThen, ThenIn
        <5> QED
          BY <5>1, <5>2, <5>4
    <3>6. due' = Then(r, Then(held, queue))
      BY <3>1, <3>3, <3>4, <3>5, DeliverFirst
    <3>7. Ring(m, n)'
      BY <1>1, <2>1 DEF Ring, buffer
    <3> QED
      BY <1>1, <1>2, <2>1, <3>1, <3>3, <3>4, <3>6, <3>7 DEF OrderInv, buffer
  <2> QED
    BY <2>2, <2>3
<1>8. CASE Winch \/ KeyOk
  BY <1>8, OrderFrame DEF Winch, KeyOk, OrderInv, buffer
<1>9. CASE CBreak
  BY <1>9, OrderFrame DEF CBreak, OrderInv, buffer
<1>10. CASE Call
  <2>1. PICK c \in prog.calls : call' = c /\ pc' = IF c.keypad THEN "inkey" ELSE "raw"
    BY <1>10 DEF Call
  <2>2. call'.keypad = call.keypad
    BY <2>1, SameKind
  <2>3. call.keypad \in BOOLEAN
    BY CallParts DEF TypeOK
  <2>4. /\ UNCHANGED <<due, queue, ungot, inbuf, start, end, working, state, node>>
        /\ ungot = <<>> /\ node = <<>>
    BY <1>10 DEF Call, OrderInv
  <2> QED
    BY <2>1, <2>2, <2>3, <2>4, OrderFrame
<1>11. CASE RawSignal \/ RawTimeout
  BY <1>11, OrderFrame DEF RawSignal, RawTimeout, RawNothing, OrderInv, buffer
<1>12. CASE ReadSignal
  <2>1. state = "norm"
    BY <1>12, SignalKeeps
  <2>2. n = 0 /\ m = 0
    BY <1>1, <2>1 DEF Ring
  <2>3. node = <<>>
    BY <1>1, <2>2 DEF Ring, Held
  <2>4. UNCHANGED <<due, queue, ungot, inbuf, start, end, working, state, node, call>>
        /\ pc' = "idle" /\ ungot = <<>>
    BY <1>12, <2>3 DEF ReadSignal, Finish, OrderInv
  <2> QED
    BY <2>3, <2>4, OrderFrame
<1>13. CASE SetTimeout
  BY <1>13, OrderFrame DEF SetTimeout, OrderInv, buffer
<1>14. CASE RawKey
  <2>1. state = "norm" /\ node = <<>> /\ ungot = <<>> /\ queue # <<>>
    BY <1>14 DEF RawKey, OrderInv
  <2>2. n = 0
    BY <1>1, <2>1 DEF Ring
  <2>3. held = <<>> /\ rev = <<>>
    BY <1>2, <2>1, <2>2 DEF Held, Reverse
  <2>4. Then(held, queue) = queue /\ Then(rev, Then(held, queue)) = queue
    BY <1>3, <2>3, ThenNone
  <2>5. PICK h, r \in Seq(Keys) : h = <<Head(queue)>> /\ r = Tail(queue) /\ queue = Then(h, r)
    BY <1>3, <2>1, QueueSplit
  <2>6. due' = r /\ queue' = r
    BY <1>2, <1>14, <2>4, <2>5, DeliverFirst DEF RawKey
  <2>7. Then(held, r) = r /\ Then(rev, Then(held, r)) = r
    BY <2>3, <2>5, ThenNone
  <2>8. UNCHANGED <<buffer, ungot, call>> /\ pc' = "idle"
    BY <1>14 DEF RawKey, Finish
  <2>9. Ring(m, n)'
    BY <1>1, <2>8 DEF Ring, buffer
  <2> QED
    BY <1>1, <1>2, <2>1, <2>6, <2>7, <2>8, <2>9 DEF OrderInv, buffer
<1>15. CASE UNCHANGED vars
  BY <1>15, OrderFrame DEF vars, OrderInv
<1>16. CASE ReadKey \/ ReadTimeout \/ TakeBacklog
  BY <1>16, ReadTimeoutInOrder, LookUpInOrder
<1> QED
  BY <1>4, <1>5, <1>6, <1>7, <1>8, <1>9, <1>10, <1>11, <1>12, <1>13, <1>14, <1>15, <1>16
     DEF Next, Read

LEMMA OrderHolds ==
  ASSUME SymbolsFit, \A p \in Programs : OneKind(p) /\ Undisturbed(p)
  PROVE  Spec => [](TypeOK /\ OrderInv)
<1>1. Init => TypeOK /\ OrderInv
  <2> SUFFICES ASSUME Init PROVE TypeOK /\ OrderInv
    OBVIOUS
  <2>1. Size \in Nat \ {0} /\ 0 \in 0 .. Size - 1
    BY KeyInputAssumption
  <2>2. Reverse(ungot) = <<>> /\ Held(inbuf, start, 0) = <<>>
    BY DEF Init, Reverse, Held
  <2>3. Then(<<>>, Then(<<>>, <<>>)) = <<>>
    <3>1. <<>> \in Seq(Keys)
      OBVIOUS
    <3> QED
      BY <3>1, ThenNone
  <2>4. Ring(0, 0)
    BY <2>1, <2>2 DEF Init, Ring, Wrap
  <2> QED
    BY TypeInit, <2>1, <2>2, <2>3, <2>4 DEF Init, OrderInv
<1>2. TypeOK /\ OrderInv /\ [Next]_vars => TypeOK' /\ OrderInv'
  BY TypeNext, OrderNext
<1> QED
  BY <1>1, <1>2, PTL DEF Spec

\* No key is lost, delivered twice or out of order, whichever keys are symbols
\* and however often a sequence breaks off, as long as every symbol fits in inbuf,
\* the program uses one kind of window and no signal cuts a sequence.
THEOREM KeysInOrder ==
  ASSUME SymbolsFit, \A p \in Programs : OneKind(p) /\ Undisturbed(p)
  PROVE  Spec => []InOrder
<1>1. Spec => [](TypeOK /\ OrderInv)
  BY OrderHolds
<1>2. TypeOK /\ OrderInv => InOrder
  <2> SUFFICES ASSUME TypeOK, OrderInv PROVE InOrder
    OBVIOUS
  <2>1. PICK m, n \in 0 .. Size - 1 :
          Ring(m, n) /\ due = Then(Reverse(ungot), Then(Held(inbuf, start, n), queue))
    BY DEF OrderInv
  <2>2. Backlog = Held(inbuf, start, n)
    <3>1. Size \in Nat \ {0} /\ start \in 0 .. Size - 1
      BY KeyInputAssumption DEF TypeOK
    <3>2. CASE n = 0
      BY <2>1, <3>2 DEF Backlog, Ring, Held
    <3>3. CASE n # 0
      <4>1. end = Wrap(start + n) /\ state # "norm" /\ start # end
        BY <2>1, <3>1, <3>3 DEF Ring, Wrap
      <4>2. end + Size - start \in 0 .. 2 * Size - 1 /\ Wrap(end + Size - start) = n
        BY <3>1, <4>1 DEF Wrap
      <4>3. (end + Size - start) % Size = n
        BY <4>2, WrapMod
      <4>4. \A i \in 1 .. n : (start + i - 1) % Size = Wrap(start + i - 1)
        BY <3>1, WrapMod
      <4> QED
        BY <4>1, <4>3, <4>4 DEF Backlog, Held
    <3> QED
      BY <3>2, <3>3
  <2>3. PICK a, b, c \in Seq(Keys) : a = Reverse(ungot) /\ b = Backlog /\ c = queue
    <3>1. Held(inbuf, start, n) \in Seq(Keys)
      BY KeyInputAssumption, HeldSeq DEF TypeOK
    <3> QED
      BY <2>2, <3>1, ReverseSeq DEF TypeOK
  <2>4. due = a \o b \o c
    <3>1. due = Then(a, Then(b, c))
      BY <2>1, <2>2, <2>3
    <3>2. Then(Then(a, b), c) = Then(a, Then(b, c))
      BY ONLY ThenThen
    <3> QED
      BY <3>1, <3>2 DEF Then
  <2> QED
    BY <2>3, <2>4 DEF InOrder
<1> QED
  BY <1>1, <1>2, PTL

-----------------------------------------------------------------------------
(* No key symbol is missed *)

LEMMA PrefixAt ==
  ASSUME NEW s \in Seq(Keys), NEW d \in Seq(Keys)
  PROVE  IsPrefix(s, d) <=> Len(s) <= Len(d) /\ \A i \in 1 .. Len(s) : s[i] = d[i]
<1>1. Len(s) \in Nat /\ Len(d) \in Nat
  OBVIOUS
<1>2. SubSeq(s, 1, Len(s)) = s
  BY SubSeqFull
<1> SUFFICES ASSUME Len(s) <= Len(d)
             PROVE  s = SubSeq(d, 1, Len(s)) <=> \A i \in 1 .. Len(s) : s[i] = d[i]
  BY <1>2 DEF IsPrefix
<1>3. PICK p : p = SubSeq(d, 1, Len(s))
  OBVIOUS
<1>4. p \in Seq(Keys) /\ Len(p) = Len(s) /\ \A i \in 1 .. Len(s) : p[i] = d[i]
  BY <1>1, <1>3, SubSeqProperties
<1>5. s = p <=> \A i \in 1 .. Len(s) : s[i] = p[i]
  BY <1>4, SeqEqual
<1> QED
  BY <1>3, <1>4, <1>5

\* Two sequences that begin the same one begin each other.
LEMMA PrefixChain ==
  ASSUME NEW s \in Seq(Keys), NEW t \in Seq(Keys), NEW d \in Seq(Keys),
         IsPrefix(s, d), IsPrefix(t, d), Len(s) <= Len(t)
  PROVE  IsPrefix(s, t)
BY PrefixAt

LEMMA PrefixOfPrefix ==
  ASSUME NEW s \in Seq(Keys), NEW t \in Seq(Keys), NEW d \in Seq(Keys),
         IsPrefix(s, t), IsPrefix(t, d)
  PROVE  IsPrefix(s, d)
BY PrefixAt

LEMMA PrefixSame ==
  ASSUME NEW s \in Seq(Keys), NEW t \in Seq(Keys), IsPrefix(s, t), Len(t) <= Len(s)
  PROVE  s = t
<1>1. Len(s) = Len(t) /\ \A i \in 1 .. Len(s) : s[i] = t[i]
  BY PrefixAt
<1> QED
  BY <1>1, SeqEqual

LEMMA PrefixThen ==
  ASSUME NEW s \in Seq(Keys), NEW r \in Seq(Keys)
  PROVE  IsPrefix(s, Then(s, r))
<1>1. PICK c \in Seq(Keys) : c = Then(s, r)
  BY ThenIn
<1>2. Len(s) <= Len(c) /\ \A i \in 1 .. Len(s) : s[i] = c[i]
  BY <1>1, ConcatProperties DEF Then
<1> QED
  BY <1>1, <1>2, PrefixAt

\* Keys that lead nowhere, with one that did not end the search before, are not
\* the beginning of an enabled symbol, and none begins with part of them.
LEMMA NoSymbolAhead ==
  ASSUME TypeOK, node \in Seq(Keys), NEW k \in Keys, NEW d \in Seq(Keys),
         IsPrefix(Append(node, k), d), NEW s \in enabled, IsPrefix(s, d)
  PROVE  LET seq == Append(node, k)
         IN  ~((IsLeaf(seq) /\ seq \notin enabled) \/ ~(IsLeaf(seq) \/ IsMulti(seq)))
<1>1. PICK seq \in Seq(Keys) : seq = Append(node, k) /\ Len(seq) = Len(node) + 1
  BY AppendProperties
<1>2. s \in Keymap /\ s \in Seq(Keys) /\ s # <<>>
  BY KeyInputAssumption DEF TypeOK
<1>3. IsPrefix(seq, d) /\ Len(node) \in Nat /\ Len(s) \in Nat
  BY <1>1, <1>2
<1>4. CASE Len(seq) <= Len(s)
  <2>1. IsPrefix(seq, s)
    BY <1>2, <1>3, <1>4, PrefixChain
  <2>2. CASE IsLeaf(seq)
    BY <1>1, <1>2, <2>1, <2>2, KeyInputAssumption DEF IsLeaf
  <2>3. CASE ~IsLeaf(seq)
    <3>1. seq # s
      BY <1>2, <2>3 DEF IsLeaf
    <3>2. IsMulti(seq)
      BY <1>2, <2>1, <3>1 DEF IsMulti, IsStrictPrefix
    <3> QED
      BY <1>1, <2>3, <3>2
  <2> QED
    BY <2>2, <2>3
<1>5. CASE ~(Len(seq) <= Len(s))
  <2>1. Len(s) <= Len(node) /\ Len(s) # 0 /\ node # <<>>
    BY <1>1, <1>2, <1>3, <1>5
  <2>2. PICK q \in Keymap : IsStrictPrefix(node, q)
    BY <2>1 DEF TypeOK, IsMulti
  <2>3. q \in Seq(Keys) /\ IsPrefix(node, q) /\ node # q
    BY <2>2, KeyInputAssumption DEF IsStrictPrefix
  <2>4. IsPrefix(node, seq)
    <3>1. /\ node \in Seq(Keys) /\ seq \in Seq(Keys)
          /\ Len(node) <= Len(seq) /\ \A i \in 1 .. Len(node) : node[i] = seq[i]
      BY <1>1, <1>3, AppendProperties
    <3> QED
      BY ONLY <3>1, PrefixAt
  <2>5. IsPrefix(s, node)
    <3>1. IsPrefix(node, d)
      BY <1>1, <1>3, <2>4, PrefixOfPrefix
    <3> QED
      BY <1>2, <2>1, <3>1, PrefixChain
  <2>6. s = q
    <3>1. IsPrefix(s, q)
      BY <1>2, <2>3, <2>5, PrefixOfPrefix
    <3> QED
      BY <1>2, <3>1, KeyInputAssumption
  <2> QED
    BY <1>2, <2>1, <2>3, <2>6, PrefixSame
<1> QED
  BY <1>4, <1>5

LEMMA LookMisses ==
  ASSUME TypeOK, node \in Seq(Keys), NEW k, NEW st, NEW ib, NEW w, NEW e, NEW m, NEW n,
         NEW v, NEW t, NEW o, queue' \in Seq(Keys),
         LooksUp(k, st, ib, w, e, m, n, queue'), Look(k, st, ib, w, e, v, t, o),
         result' = "key", pc' = "idle", NEW s \in enabled, IsPrefix(s, due)
  PROVE  FALSE
<1>1. /\ n \in 1 .. Size /\ m \in 1 .. n
      /\ k \in Keys /\ ib \in [0 .. Size - 1 -> Keys]
      /\ Append(node, k) = Held(ib, start, m) /\ st # "timeout"
      /\ due = Then(Held(ib, start, n), queue')
  BY DEF LooksUp
<1>2. start \in 0 .. Size - 1 /\ due \in Seq(Keys) /\ m \in 0 .. n /\ n \in 0 .. Size
  BY <1>1, KeyInputAssumption DEF TypeOK
<1>3. LET seq == Append(node, k)
      IN  (IsLeaf(seq) /\ seq \notin enabled) \/ ~(IsLeaf(seq) \/ IsMulti(seq))
  BY <1>1 DEF Look, Finish
<1>4. IsPrefix(Append(node, k), due)
  <2>1. PICK x, y, z \in Seq(Keys) :
          /\ x = Held(ib, start, m) /\ y = Held(ib, Wrap(start + m), n - m)
          /\ z = Then(y, queue')
    <3>1. m \in 0 .. Size /\ n - m \in 0 .. Size /\ Wrap(start + m) \in 0 .. Size - 1
      BY <1>1, <1>2, KeyInputAssumption, HeldSplit
    <3>2. Held(ib, start, m) \in Seq(Keys) /\ Held(ib, Wrap(start + m), n - m) \in Seq(Keys)
      BY <1>1, <1>2, <3>1, HeldSeq
    <3>3. Then(Held(ib, Wrap(start + m), n - m), queue') \in Seq(Keys)
      BY <3>2, ThenIn
    <3> QED
      BY <3>2, <3>3
  <2>2. Held(ib, start, n) = Then(x, y)
    BY <1>1, <1>2, <2>1, HeldSplit
  <2>3. due = Then(Then(x, y), queue')
    BY <1>1, <2>2
  <2>4. x \in Seq(Keys) /\ y \in Seq(Keys) /\ queue' \in Seq(Keys)
    OBVIOUS
  <2>5. Then(Then(x, y), queue') = Then(x, Then(y, queue'))
    BY ONLY <2>4, ThenThen
  <2>6. due = Then(x, z)
    BY <2>1, <2>3, <2>5
  <2> QED
    BY <1>1, <2>1, <2>6, PrefixThen
<1> QED
  BY <1>1, <1>2, <1>3, <1>4, NoSymbolAhead

\* When inkey() has looked up a key it read, or one of its backlog, and returns a key as
\* itself, no enabled symbol begins what is due: a symbol all of whose keys have come is not
\* taken apart, whatever is left in the ring and is typed ahead.  It says nothing of a read
\* that times out, which returns the oldest key because the others came too late.
THEOREM NoSymbolIsMissed ==
  ASSUME SymbolsFit, \A p \in Programs : OneKind(p) /\ Undisturbed(p)
  PROVE  Spec => NoMissedSymbol
<1> DEFINE Single == (ReadKey \/ TakeBacklog) /\ result' = "key" /\ pc' = "idle"
<1>1. TypeOK /\ TypeOK' /\ OrderInv /\ [Next]_vars
        => [Single => ~\E s \in enabled : IsPrefix(s, due)]_vars
  <2> SUFFICES ASSUME TypeOK, TypeOK', OrderInv, Single, NEW s \in enabled, IsPrefix(s, due)
               PROVE  FALSE
    OBVIOUS
  <2>1. PICK k, st, ib, w, e, m, n, v, t, o :
          LooksUp(k, st, ib, w, e, m, n, queue') /\ Look(k, st, ib, w, e, v, t, o)
    BY ReadKeyLooksUp, TakeBacklogLooksUp
  <2>2. node \in Seq(Keys)
    <3>1. PICK a, b \in 0 .. Size - 1 : Ring(a, b)
      BY DEF OrderInv
    <3>2. a \in 0 .. Size /\ start \in 0 .. Size - 1 /\ inbuf \in [0 .. Size - 1 -> Keys]
      BY KeyInputAssumption DEF TypeOK
    <3> QED
      BY <3>1, <3>2, HeldSeq DEF Ring
  <2>3. queue' \in Seq(Keys)
    BY DEF TypeOK
  <2> QED
    BY <2>1, <2>2, <2>3, LookMisses
<1>2. Spec => [](TypeOK /\ OrderInv)
  BY OrderHolds
<1> QED
  BY <1>1, <1>2, PTL DEF Spec, NoMissedSymbol
=============================================================================
