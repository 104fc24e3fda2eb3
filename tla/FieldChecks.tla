----------------------------- MODULE FieldChecks -----------------------------
(***************************************************************************)
(* The field types that come with lib/libform: what text of a field each   *)
(* of them (type_alnum.c to type_regex.c) accepts and what it makes of it. *)
(* A text is a sequence of characters; a check gives whether the text is   *)
(* accepted and the set of texts the field may have then.                  *)
(***************************************************************************)
EXTENDS Integers, FiniteSets, SequencesExt

Blanks == {" ", "tab"}
Digits == {"0", "1", "2", "5"}
Letters == {"a", "b", "e", "x", "A", "B"}
HexDigits == Digits \cup {"a", "b", "e", "A", "B"}
Signs == {"+", "-"}
DigitValue == ("0" :> 0) @@ ("1" :> 1) @@ ("2" :> 2) @@ ("5" :> 5)
Lower == [c \in Letters |-> IF c = "A" THEN "a" ELSE IF c = "B" THEN "b" ELSE c]

Refused == [ok |-> FALSE, texts |-> {}]
Accepted(texts) == [ok |-> TRUE, texts |-> texts]

\* the characters a field of a type takes; the other types take all
AlnumChars   == Letters \cup Digits
AlphaChars   == Letters
IntegerChars == Digits \cup Signs
NumericChars == Digits \cup Signs \cup {".", "e"}

(***************************************************************************)
(* The loops of the checks: the first place from i on that has none of the *)
(* characters, or the end.                                                 *)
(***************************************************************************)
At(s, i) == IF i <= Len(s) THEN s[i] ELSE "nul"
Past(s, i, chars) == CHOOSE j \in i .. Len(s) + 1 :
                       At(s, j) \notin chars /\ \A k \in i .. j - 1 : s[k] \in chars
AtEnd(s, i) == Past(s, i, Blanks) > Len(s)
Word(s) == LET start == Past(s, 1, Blanks)
           IN  SubSeq(s, start, Past(s, start, {At(s, j) : j \in 1 .. Len(s)} \ Blanks) - 1)

(***************************************************************************)
(* alnum_check_field, alpha_check_field.  The last character is not copied *)
(* and the end is marked as many places after the copy as there are blanks *)
(* before the word: what is there is not defined.                          *)
(***************************************************************************)
Copied(s, start, end) ==
  {SubSeq(s, start, end - 2) \o left : left \in IF start = 1 THEN {<<>>, <<"?">>} ELSE {<<>>, <<"?">>, <<"?", "?">>}}
WordCheck(s, chars, width) ==
  LET start == Past(s, 1, Blanks)
      end   == Past(s, start, chars)
  IN  IF start > Len(s) \/ end - start > width \/ ~AtEnd(s, end) THEN Refused
      ELSE Accepted(IF end = start THEN {<<>>} ELSE Copied(s, start, end))
AlnumCheck(s, width) == WordCheck(s, AlnumChars, width)
AlphaCheck(s, width) == WordCheck(s, AlphaChars, width)

(***************************************************************************)
(* integer_check_field.  long has room for digits characters in the buffer *)
(***************************************************************************)
Unsigned(s) == FoldLeft(LAMBDA n, c : 10 * n + DigitValue[c], 0, s)
DigitsFrom(s, i) == SubSeq(s, i, Past(s, i, Digits) - 1)
AfterSign(s, i) == IF At(s, i) \in Signs THEN i + 1 ELSE i
Number(s, i) == LET n == Unsigned(DigitsFrom(s, AfterSign(s, i))) IN IF At(s, i) = "-" THEN -n ELSE n

\* %.*ld: at least precision digits, and nothing at all for a 0 without one
Numeral(n) == CHOOSE t \in UNION {[1 .. k -> Digits] : k \in 0 .. 3} :
                Unsigned(t) = n /\ (t = <<>> \/ t[1] # "0")
Padded(n, precision) == LET t == Numeral(n) IN [j \in 1 .. Max({precision - Len(t), 0}) |-> "0"] \o t
Printed(n, precision) == IF n < 0 THEN <<"-">> \o Padded(-n, precision) ELSE Padded(n, precision)
BufferSize(precision, digits) == IF precision > digits - 1 THEN precision + 1 ELSE digits

IntegerCheck(s, precision, min, max, digits) ==
  LET start  == Past(s, 1, Blanks)
      number == Number(s, start)
      text   == Printed(number, precision)
  IN  IF \/ start > Len(s)
         \/ ~AtEnd(s, Past(s, AfterSign(s, start), Digits))
         \/ min > max \/ number < min \/ number > max
         \/ Len(text) >= BufferSize(precision, digits)
      THEN Refused ELSE Accepted({text})

(***************************************************************************)
(* numeric_check_field.  A number is a mantissa and a power of ten; what   *)
(* printf makes of it is left out: the text accepted stands for it.        *)
(***************************************************************************)
AfterPoint(s, i) == IF At(s, i) = "." THEN Past(s, i + 1, Digits) ELSE i
\* 0: no digit after the "e"
AfterExponent(s, i) ==
  IF At(s, i) # "e" THEN i
  ELSE LET j == AfterSign(s, i + 1) IN IF At(s, j) \in Digits THEN Past(s, j, Digits) ELSE 0

TimesTen(n, power) == FoldLeft(LAMBDA m, j : 10 * m, n, [j \in 1 .. power |-> j])
AtMost(m, power, n, lessEqual(_, _)) ==
  IF power >= 0 THEN lessEqual(TimesTen(m, power), n) ELSE lessEqual(m, TimesTen(n, -power))
\* atof: the number begins at start and its exponent, if it has one, at exp
Value(s, start, exp) ==
  LET digits == Past(s, AfterSign(s, start), Digits)
      whole  == SubSeq(s, AfterSign(s, start), digits - 1)
      part   == IF At(s, digits) = "." THEN DigitsFrom(s, digits + 1) ELSE <<>>
      m      == Unsigned(whole \o part)
  IN  [m |-> IF At(s, start) = "-" THEN -m ELSE m,
       power |-> (IF whole \o part # <<>> /\ At(s, exp) = "e" THEN Number(s, exp + 1) ELSE 0) - Len(part)]
Below(v, n) == AtMost(v.m, v.power, n, LAMBDA x, y : x < y)
Above(v, n) == AtMost(v.m, v.power, n, LAMBDA x, y : x > y)

NumericCheck(s, min, max) ==
  LET start == Past(s, 1, Blanks)
      exp   == AfterPoint(s, Past(s, AfterSign(s, start), Digits))
      end   == AfterExponent(s, exp)
      v     == Value(s, start, exp)
  IN  IF \/ start > Len(s)
         \/ end = 0 \/ ~AtEnd(s, end)
         \/ min < max /\ (Below(v, min) \/ Above(v, max))
      THEN Refused ELSE Accepted({s})

(***************************************************************************)
(* enum_check_field, next_enum, prev_enum.  The length of a text without a *)
(* character is 1: the loops count the character after its end.            *)
(***************************************************************************)
TrimBlanks(s) == CHOOSE i \in 0 .. Max({Len(s) - 1, 0}) :
                   (i = 0 \/ s[i + 1] \notin Blanks) /\ \A k \in i + 2 .. Len(s) : s[k] \in Blanks
LengthOf(s) == Max({TrimBlanks(s) - (Past(s, 1, Blanks) - 1) + 1, 0})
Folded(c, ignoreCase) == IF ignoreCase /\ c \in Letters THEN Lower[c] ELSE c
SameFor(s, t, n, ignoreCase) ==
  LET i == Past(s, 1, Blanks) - 1
      j == Past(t, 1, Blanks) - 1
  IN  \A k \in 1 .. n : \/ Folded(At(s, i + k), ignoreCase) = Folded(At(t, j + k), ignoreCase)
                        \/ \E l \in 1 .. k - 1 : i + l > Len(s) /\ j + l > Len(t)

NoMatch == 0
MatchEnum(choices, ignoreCase, exact, s) ==
  LET fits == {i \in DOMAIN choices :
                 /\ IF exact THEN LengthOf(s) = LengthOf(choices[i]) ELSE LengthOf(s) <= LengthOf(choices[i])
                 /\ SameFor(choices[i], s, LengthOf(s), ignoreCase)}
  IN  IF fits = {} THEN NoMatch ELSE Min(fits)

Chosen(choices, i) == IF i = NoMatch THEN Refused ELSE Accepted({choices[i]})
EnumCheck(choices, ignoreCase, exact, s) == Chosen(choices, MatchEnum(choices, ignoreCase, exact, s))
NextChoice(choices, i) == IF i = NoMatch THEN NoMatch ELSE (i % Len(choices)) + 1
PrevChoice(choices, i) == IF i = NoMatch THEN NoMatch ELSE IF i = 1 THEN Len(choices) ELSE i - 1
NextEnum(choices, ignoreCase, exact, s) == Chosen(choices, NextChoice(choices, MatchEnum(choices, ignoreCase, exact, s)))
PrevEnum(choices, ignoreCase, exact, s) == Chosen(choices, PrevChoice(choices, MatchEnum(choices, ignoreCase, exact, s)))

(***************************************************************************)
(* ipv4_check_field: the four numbers, and the mask or the hex digits.     *)
(***************************************************************************)
IndexFrom(s, i, c) == Past(s, Min({i, Len(s) + 1}), {At(s, k) : k \in 1 .. Len(s)} \ {c})
Style(s) ==
  LET p == Past(s, 1, Blanks)
  IN  IF \E i \in 1 .. Len(s) : s[i] = "/" THEN "classless"
      ELSE IF At(s, p) = "0" /\ At(s, p + 1) = "x" THEN "hex" ELSE "quad"
PartStarts(s, p) ==
  FoldLeft(LAMBDA starts, j : Append(starts, IndexFrom(s, starts[j], ".") + 1), <<p>>, <<1, 2, 3>>)
Quad(s, p) == [j \in 1 .. 4 |-> Unsigned(DigitsFrom(s, PartStarts(s, p)[j]))]
QuadOk(s, p) == \A j \in 1 .. 4 : /\ PartStarts(s, p)[j] <= Len(s)
                                  /\ s[PartStarts(s, p)[j]] \in Digits
                                  /\ Quad(s, p)[j] <= 255
HexNumber(s) == LET p == Past(s, 1, Blanks) + 2 IN SubSeq(s, p, Past(s, p, HexDigits) - 1)
\* its last eight digits: two for each number
LastEight(h) == LET padded == [j \in 1 .. 8 |-> "0"] \o h IN SubSeq(padded, Len(padded) - 7, Len(padded))
NoAddress == [ok |-> FALSE]
Ipv4Check(s) ==
  LET slash == IndexFrom(s, 1, "/")
      p     == IF Style(s) = "classless" THEN 1 ELSE Past(s, 1, Blanks)
  IN  CASE Style(s) = "hex" -> [ok |-> TRUE, style |-> "hex", hex |-> HexNumber(s), last |-> LastEight(HexNumber(s))]
        [] Style(s) = "quad" /\ QuadOk(s, p) -> [ok |-> TRUE, style |-> "quad", quad |-> Quad(s, p)]
        [] Style(s) = "classless" /\ QuadOk(s, p) /\ Number(s, Past(s, slash + 1, Blanks)) \in 0 .. 32 ->
             [ok |-> TRUE, style |-> "classless", quad |-> Quad(s, p), mask |-> Number(s, Past(s, slash + 1, Blanks))]
        [] OTHER -> NoAddress

(***************************************************************************)
(* What the manuals promise.                                               *)
(***************************************************************************)
IsWordOf(s, chars) ==
  \E i \in 1 .. Len(s) : \E j \in i .. Len(s) :
    \A k \in 1 .. Len(s) : s[k] \in IF k \in i .. j THEN chars ELSE Blanks
\* accepted are single words of the right characters, up to the width; but the
\* field loses the last character of the word
WordAccepted(s, width) ==
  LET check == AlnumCheck(s, width)
  IN  /\ check.ok = (IsWordOf(s, AlnumChars) /\ Len(Word(s)) <= width)
      /\ check.ok => \A t \in check.texts : IsPrefix(Front(Word(s)), t) /\ t # Word(s)

\* an integer is accepted if it is in the range and, once accepted, accepted
\* again and as it is; but no 0 without a precision, which empties the field
IntegerStable(s, precision, min, max, digits) ==
  \A t \in IntegerCheck(s, precision, min, max, digits).texts :
    IF t = <<>> THEN precision = 0 /\ Number(s, Past(s, 1, Blanks)) = 0
    ELSE IntegerCheck(t, precision, min, max, digits) = Accepted({t})

\* the characters of what a type accepts are those it takes, and blanks; but
\* TYPE_IPV4 accepts others behind its numbers
TakesWhatItAccepts(s) ==
  /\ IntegerCheck(s, 1, -999, 999, 9).ok => Range(s) \subseteq IntegerChars \cup Blanks
  /\ NumericCheck(s, 1, 0).ok => Range(s) \subseteq NumericChars \cup Blanks
  /\ AlphaCheck(s, 9).ok => Range(s) \subseteq AlphaChars \cup Blanks /\ AlnumCheck(s, 9).ok
  /\ Ipv4Check(s).ok /\ Ipv4Check(s).style # "hex" =>
       Cardinality({i \in DOMAIN s : s[i] = "."}) >= 3

\* where a range is given, an integer is a number too; without one only
\* TYPE_NUMERIC takes what comes
NumericTakesIntegers(s, min, max) ==
  LET integer == IntegerCheck(s, 1, min, max, 9).ok
      any     == IntegerCheck(s, 1, -999, 999, 9).ok
  IN  /\ integer => NumericCheck(s, min, max).ok
      /\ any => NumericCheck(s, min, max).ok = (integer \/ min >= max)

\* an address is accepted again once it is written out, as the same one
Decimal(n) == IF n = 0 THEN <<"0">> ELSE Numeral(n)
Written(a) == FoldLeft(LAMBDA t, j : t \o <<".">> \o Decimal(a.quad[j]), Decimal(a.quad[1]), <<2, 3, 4>>)
                \o (IF a.style = "classless" THEN <<"/">> \o Decimal(a.mask) ELSE <<>>)
Ipv4Stable(s) == Ipv4Check(s).ok => Ipv4Check(Written(Ipv4Check(s))) = Ipv4Check(s)

\* a choice stands for itself if none before it begins with it
Hides(choices, ignoreCase, exact, i) == MatchEnum(choices, ignoreCase, exact, choices[i]) # i
\* from one such choice to the next and back; a hidden one is taken for the
\* earlier one that hides it, so that going on comes round before its end
TurnsThrough(choices, ignoreCase, exact) ==
  \A i \in DOMAIN choices :
    LET j == NextChoice(choices, i)
    IN  IF Hides(choices, ignoreCase, exact, i) THEN MatchEnum(choices, ignoreCase, exact, choices[i]) < i
        ELSE /\ EnumCheck(choices, ignoreCase, exact, choices[i]) = Accepted({choices[i]})
             /\ NextEnum(choices, ignoreCase, exact, choices[i]) = Accepted({choices[j]})
             /\ ~Hides(choices, ignoreCase, exact, j) =>
                  PrevEnum(choices, ignoreCase, exact, choices[j]) = Accepted({choices[i]})
\* only an exact match tells all choices apart whatever they are
OnlyPrefixesHide(choices, exact) ==
  \A i \in DOMAIN choices :
    Hides(choices, FALSE, exact, i) =>
      \E j \in 1 .. i - 1 : IF exact THEN Word(choices[j]) = Word(choices[i])
                            ELSE IsPrefix(Word(choices[i]), Word(choices[j]))
=============================================================================
