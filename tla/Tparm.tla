-------------------------------- MODULE Tparm --------------------------------
(***************************************************************************)
(* The strings of a terminal with parameters: what _ti_tiparm of           *)
(* lib/libterminfo/tparm.c makes of one, and how tputs.c takes the delays  *)
(* out of what it sends.                                                   *)
(*                                                                         *)
(* A string is a sequence of tokens: characters, and operations which have *)
(* an argument or not.  What printf makes of flags, widths and numbers is  *)
(* left out: the output has the number itself, as an int.                  *)
(***************************************************************************)
EXTENDS Integers, Sequences, Bitwise
LOCAL INSTANCE SequencesExt
LOCAL INSTANCE TLC

NoString == "none"
Params == 9                               \* TPARM_MAX
Word   == 2 ^ 16                          \* of a long, for the operations on bits
IntWord == 2 ^ 8                          \* of an int

Token(op, arg) == [op |-> op, arg |-> arg]
Char(c) == Token("char", c)
Item(num, string) == [num |-> num, string |-> string]
Zero == Item(0, NoString)

(***************************************************************************)
(* _ti_parm_analyse: a parameter is a string if it is taken for one right  *)
(* after it is pushed, with nothing but text between; a width between "%"  *)
(* and "s" hides that, and a percent sign that is sent.                    *)
(***************************************************************************)
AnalyseStep(a, t) ==
  CASE t.op = "char" /\ t.arg # "%" -> a
    [] t.op \in {"l", "s"} /\ t.arg = 0 -> IF a.last > 0 THEN [a EXCEPT !.strings = @ \cup {a.last}] ELSE a
    [] t.op = "p" -> [a EXCEPT !.last = t.arg, !.count = Max({@, t.arg})]
    [] OTHER -> [a EXCEPT !.last = -1]
Analyse(tokens) == FoldLeft(AnalyseStep, [last |-> -1, count |-> 0, strings |-> {}], tokens)

\* the parameters that are not used are 0
Given(tokens, args) ==
  LET a == Analyse(tokens)
  IN  [i \in 1 .. Params |-> IF i > a.count THEN Zero
                             ELSE IF i \in a.strings THEN Item(0, args[i].string) ELSE Item(args[i].num, NoString)]

(***************************************************************************)
(* The stack.  push compares the number of entries with the bytes of the   *)
(* array, eight for each: in between it writes behind the array.           *)
(***************************************************************************)
Push(m, item) ==
  IF Len(m.stack) >= 8 * m.room THEN [m EXCEPT !.failed = TRUE]
  ELSE [m EXCEPT !.stack = Append(@, item), !.overrun = @ \/ Len(m.stack) >= m.room]
Peek(m) == IF m.stack = <<>> THEN Zero ELSE Last(m.stack)
Popped(m) == IF m.stack = <<>> THEN m ELSE [m EXCEPT !.stack = Front(@)]
Emit(m, what) == [m EXCEPT !.out = Append(@, what)]

(***************************************************************************)
(* Arithmetic on longs; a character of code 0 is sent as 128.              *)
(***************************************************************************)
Truth(b) == IF b THEN 1 ELSE 0
Magnitude(n) == IF n < 0 THEN -n ELSE n
Quotient(a, b) == LET q == Magnitude(a) \div Magnitude(b) IN IF (a < 0) = (b < 0) THEN q ELSE -q
FromBits(n) == IF n >= Word \div 2 THEN n - Word ELSE n
BinaryOps == {"+", "-", "*", "/", "m", "A", "O", "&", "|", "^", "=", "<", ">"}
\* y was pushed first
Binary(op, y, x) ==
  CASE op = "+" -> x + y
    [] op = "-" -> y - x
    [] op = "*" -> x * y
    [] op = "/" -> IF x = 0 THEN 0 ELSE Quotient(y, x)
    [] op = "m" -> IF x = 0 THEN 0 ELSE y - x * Quotient(y, x)
    [] op = "A" -> Truth(x # 0 /\ y # 0)
    [] op = "O" -> Truth(x # 0 \/ y # 0)
    [] op = "&" -> FromBits((x % Word) & (y % Word))
    [] op = "|" -> FromBits((x % Word) | (y % Word))
    [] op = "^" -> FromBits((x % Word) ^^ (y % Word))
    [] op = "=" -> Truth(x = y)
    [] op = "<" -> Truth(y < x)
    [] op = ">" -> Truth(y > x)
UnaryOps == {"!", "~"}
Unary(op, x) == IF op = "!" THEN Truth(x = 0) ELSE -x - 1
\* onum: the number is passed as an int to a conversion of a long; what is
\* printed is defined by the bits of the int only
AsInt(n) == n % IntWord
CharOf(n) == IF n % 256 = 0 THEN 128 ELSE n % 256

(***************************************************************************)
(* Conditions: "t" goes behind the "e" or the ";" of its own level, "e"    *)
(* behind the ";".                                                         *)
(***************************************************************************)
SkipStep(s, t) ==
  CASE s.found                    -> s
    [] t.op = "?"                 -> [s EXCEPT !.level = @ + 1, !.at = @ + 1]
    [] t.op = ";" /\ s.level > 0  -> [s EXCEPT !.level = @ - 1, !.at = @ + 1]
    [] t.op = ";" /\ s.level = 0  -> [s EXCEPT !.found = TRUE, !.at = @ + 1]
    [] t.op = "e" /\ s.level = 0 /\ s.else -> [s EXCEPT !.found = TRUE, !.at = @ + 1]
    [] OTHER                      -> [s EXCEPT !.at = @ + 1]
\* the first token that counts again
Behind(tokens, i, else) ==
  FoldLeft(SkipStep, [level |-> 0, found |-> FALSE, at |-> i + 1, else |-> else],
           SubSeq(tokens, i + 1, Len(tokens))).at

(***************************************************************************)
(* _ti_tiparm.                                                             *)
(***************************************************************************)
Variables == {"a", "b", "A", "B"}
\* vars: what the variables hold: those of the terminal what it had, the others
\* what there was in memory
Started(tokens, args, vars, room) ==
  [out |-> <<>>, stack |-> <<>>, params |-> Given(tokens, args), strings |-> Analyse(tokens).strings,
   vars |-> vars, next |-> 1, room |-> room, overrun |-> FALSE, failed |-> FALSE]
Increment(m) ==
  [m EXCEPT !.params = [i \in 1 .. Params |-> IF i <= 2 /\ i \notin m.strings THEN [@[i] EXCEPT !.num = @ + 1] ELSE @[i]]]
\* the name of a variable is not passed over: it is sent as text
Exec(m, tokens, i) ==
  LET t == tokens[i]
      x == Peek(m).num
      rest == Popped(m)
  IN  CASE t.op = "char"  -> Emit(m, t.arg)
        [] t.op = "c"     -> Emit(rest, CharOf(x))
        [] t.op = "s"     -> IF Peek(m).string = NoString THEN rest ELSE Emit(rest, Peek(m).string)
        [] t.op = "l"     -> Push(rest, Item(IF Peek(m).string = NoString THEN 0 ELSE Len(Peek(m).string), NoString))
        [] t.op = "d"     -> Emit(rest, AsInt(x))
        [] t.op = "p"     -> Push(m, m.params[t.arg])
        [] t.op = "P"     -> Emit([rest EXCEPT !.vars[t.arg] = x], t.arg)
        [] t.op = "g"     -> Emit(Push(m, Item(m.vars[t.arg], NoString)), t.arg)
        [] t.op = "i"     -> Increment(m)
        [] t.op = "push"  -> Push(m, Item(t.arg, NoString))
        [] t.op \in BinaryOps -> Push(Popped(rest), Item(Binary(t.op, Peek(rest).num, x), NoString))
        [] t.op \in UnaryOps  -> Push(rest, Item(Unary(t.op, x), NoString))
        [] t.op = "t"     -> IF x = 0 THEN [rest EXCEPT !.next = Behind(tokens, i, TRUE)] ELSE rest
        [] t.op = "e"     -> [m EXCEPT !.next = Behind(tokens, i, FALSE)]
        [] OTHER          -> m
Tiparm(tokens, args, vars, room) ==
  FoldLeft(LAMBDA m, i : IF m.failed \/ i < m.next THEN m ELSE Exec(m, tokens, i),
           Started(tokens, args, vars, room), [i \in 1 .. Len(tokens) |-> i])

(***************************************************************************)
(* tputs.c.  A string of characters; delays are in tenths of milliseconds. *)
(***************************************************************************)
DecimalDigits == ("0" :> 0) @@ ("1" :> 1) @@ ("2" :> 2) @@ ("3" :> 3) @@ ("4" :> 4) @@ ("5" :> 5)
                 @@ ("6" :> 6) @@ ("7" :> 7) @@ ("8" :> 8) @@ ("9" :> 9)
CharAt(s, i) == IF i <= Len(s) THEN s[i] ELSE "nul"
IsDigitAt(s, i) == CharAt(s, i) \in DOMAIN DecimalDigits
DigitsEnd(s, i) == CHOOSE j \in i .. Len(s) + 1 : ~IsDigitAt(s, j) /\ \A k \in i .. j - 1 : IsDigitAt(s, k)
WholeFrom(s, i) == FoldLeft(LAMBDA n, c : 10 * n + DecimalDigits[c], 0, SubSeq(s, i, DigitsEnd(s, i) - 1))

\* _ti_calcdelay: a "*" or a "/" behind the number, not both
CalcDelay(s, i, affcnt) ==
  LET point  == DigitsEnd(s, i)
      tenth  == IF CharAt(s, point) = "." /\ IsDigitAt(s, point + 1) THEN DecimalDigits[s[point + 1]] ELSE 0
      end    == IF CharAt(s, point) = "." THEN DigitsEnd(s, point + 1) ELSE point
      delay  == 10 * WholeFrom(s, i) + tenth
  IN  CASE CharAt(s, end) = "*" -> [delay |-> delay * affcnt, end |-> end + 1, must |-> FALSE]
        [] CharAt(s, end) = "/" -> [delay |-> delay, end |-> end + 1, must |-> TRUE]
        [] OTHER                -> [delay |-> delay, end |-> end, must |-> FALSE]

\* _ti_outputdelay, at a speed where a character takes tenths
Pad == "pad"
Padding(delay, tenths) ==
  IF delay < 1 \/ tenths < 1 THEN <<>> ELSE [j \in 1 .. (delay + tenths \div 2) \div tenths |-> Pad]
IsDelay(s, i) == /\ s[i] = "$" /\ CharAt(s, i + 1) = "<"
                 /\ IsDigitAt(s, i + 2) \/ CharAt(s, i + 2) = "."
                 /\ \E j \in i + 3 .. Len(s) : s[j] = ">"
PutsStep(s, affcnt, tenths, dodelay, p, i) ==
  LET delay == CalcDelay(s, i + 2, affcnt)
  IN  IF i < p.next THEN p
      ELSE IF ~IsDelay(s, i) THEN [p EXCEPT !.sent = Append(@, s[i])]
      ELSE [p EXCEPT !.next = delay.end + 1,
                     !.sent = @ \o (IF dodelay \/ delay.must THEN Padding(delay.delay, tenths) ELSE <<>>)]
\* _ti_puts: a number at the beginning is a delay too, for the end
Puts(s, affcnt, tenths, dodelay) ==
  LET tail == CalcDelay(s, 1, affcnt)
      sent == FoldLeft(LAMBDA p, i : PutsStep(s, affcnt, tenths, dodelay, p, i),
                       [next |-> tail.end, sent |-> <<>>], [i \in 1 .. Len(s) |-> i]).sent
  IN  IF dodelay THEN sent \o Padding(tail.delay, tenths) ELSE sent

\* ti_puts: when padding is wanted; tputs() always wants it
DoDelay(t, s) == s \in {t.bell, t.flash} \/ (~t.xon /\ t.padding_rate # 0)
TiPuts(t, s, affcnt, tenths) == Puts(s, affcnt, tenths, DoDelay(t, s))
TPuts(s, affcnt, tenths) == Puts(s, affcnt, tenths, TRUE)

(***************************************************************************)
(* What a terminal description may count on.                               *)
(***************************************************************************)
\* a parameter is a string where the next operation takes it for one
TakenAsString(tokens) ==
  {tokens[i].arg : i \in {j \in DOMAIN tokens :
     /\ tokens[j].op = "p"
     /\ \E k \in j + 1 .. Len(tokens) : /\ tokens[k].op \in {"l", "s"} /\ tokens[k].arg = 0
                                        /\ \A l \in j + 1 .. k - 1 : tokens[l].op = "char" /\ tokens[l].arg # "%"}}
AnalysesStrings(tokens) == Analyse(tokens).strings = TakenAsString(tokens)

\* a string put together of texts and delays: its texts are sent, and padding
\* for its delays, if it is wanted or they are mandatory; but a string that
\* begins with what may be a delay loses that
Delay(n, mark) == [delay |-> n, mark |-> mark]
Rendered(pieces) ==
  FoldLeft(LAMBDA s, p : s \o (IF p.mark = "text" THEN p.text
                               ELSE <<"$", "<", ToString(p.delay)>> \o p.mark \o <<">">>), <<>>, pieces)
Meant(p, affcnt, tenths, dodelay) ==
  IF p.mark = "text" THEN p.text
  ELSE IF dodelay \/ p.mark = <<"/">>
       THEN Padding(10 * p.delay * (IF p.mark = <<"*">> THEN affcnt ELSE 1), tenths) ELSE <<>>
SendsPieces(pieces, affcnt, tenths, dodelay) ==
  Puts(Rendered(pieces), affcnt, tenths, dodelay) =
    FoldLeft(LAMBDA s, p : s \o Meant(p, affcnt, tenths, dodelay), <<>>, pieces)
LosesHead(s) == Puts(s, 1, 1, FALSE) = Tail(s)
=============================================================================
