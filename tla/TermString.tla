----------------------------- MODULE TermString -----------------------------
(***************************************************************************)
(* The text of a string capability: how tic splits a description into      *)
(* tokens (_ti_get_token) and decodes a string (encode_string), and how    *)
(* infocmp writes one (outstr).  Characters are their codes.  A string is  *)
(* given without the NUL at its end; 128 stands for a NUL in a capability. *)
(***************************************************************************)
EXTENDS Integers, Sequences, SequencesExt

Escape == 27
FormFeed == 12
Newline == 10
Delete == 127
Nul == 128
Blank == 32
Percent == 37
Comma == 44
Question == 63
Backslash == 92
Caret == 94
Letter(n) == 96 + n    \* a is Letter(1)

IsSpace(ch) == ch = Blank \/ ch \in 9 .. 13
IsControl(ch) == ch \in 0 .. 31 \/ ch = Delete
IsOctal(ch) == ch \in 48 .. 55
IsDigit(ch) == ch \in 48 .. 57

(***************************************************************************)
(* _ti_get_token: a comma ends the token unless a backslash or a caret     *)
(* stands before it; the character after either is passed over.            *)
(***************************************************************************)
TokenStep(s, ch) ==
  CASE s.done -> [s EXCEPT !.rest = Append(@, ch)]
    [] ~s.done /\ ~s.escaped /\ ch = Comma -> [s EXCEPT !.done = TRUE]
    [] OTHER -> [s EXCEPT !.token = Append(@, ch),
                          !.escaped = ~@ /\ ch \in {Backslash, Caret}]
\* text is given without the blanks at its beginning
GetToken(text) ==
  FoldLeft(TokenStep, [token |-> <<>>, rest |-> <<>>, escaped |-> FALSE, done |-> FALSE], text)

(***************************************************************************)
(* encode_string, a character at a time.  mode is what came before: a      *)
(* newline whose blanks are skipped, a backslash, a caret, or n octal      *)
(* digits; last is the last character written, for %^.  escaped remembers  *)
(* a backslash over a newline.                                             *)
(***************************************************************************)
PutChar(s, ch) == [s EXCEPT !.out = Append(@, ch), !.last = ch, !.mode = "plain", !.escaped = FALSE]
PutOctal(s) ==
  [s EXCEPT !.out = Append(@, IF s.num = 0 THEN Nul ELSE s.num % 256),
            !.mode = "plain", !.num = 0, !.digits = 0, !.escaped = FALSE]

EscapeOf(ch) ==
  CASE ch = Letter(1) -> 7
    [] ch = Letter(2) -> 8
    [] ch \in {Letter(5), 69} -> Escape
    [] ch = Letter(6) -> FormFeed
    [] ch \in {Letter(12), Letter(14)} -> Newline
    [] ch = Letter(18) -> 13
    [] ch = Letter(19) -> Blank
    [] ch = Letter(20) -> 9
    [] OTHER -> ch

AfterCaret(ch) == IF ch = Question THEN Delete ELSE IF ch % 32 = 0 THEN Nul ELSE ch % 32
AfterBackslash(s, ch) ==
  IF IsOctal(ch) THEN [s EXCEPT !.mode = "octal", !.num = ch - 48, !.digits = 1]
  ELSE [PutChar(s, EscapeOf(ch)) EXCEPT !.last = ch]

PlainStep(s, ch) ==
  CASE ch = Newline -> [s EXCEPT !.mode = "newline"]
    [] ch # Newline /\ s.escaped -> AfterBackslash(s, ch)
    [] ch = Backslash /\ ~s.escaped -> [s EXCEPT !.escaped = TRUE, !.mode = "plain"]
    [] ch = Caret /\ ~s.escaped /\ s.last # Percent -> [s EXCEPT !.mode = "caret"]
    [] OTHER -> PutChar(s, ch)

EncodeStep(s, ch) ==
  CASE s.mode = "octal" /\ IsDigit(ch) /\ s.digits < 3 ->
         [s EXCEPT !.num = @ * 8 + ch - 48, !.digits = @ + 1]
    [] s.mode = "octal" /\ ~(IsDigit(ch) /\ s.digits < 3) -> PlainStep(PutOctal(s), ch)
    [] s.mode = "newline" /\ IsSpace(ch) -> s
    [] s.mode = "caret" -> PutChar(s, AfterCaret(ch))
    [] OTHER -> PlainStep(s, ch)

\* a backslash or a caret at the end of the string is dropped
EncodeEnd(s) == IF s.mode = "octal" THEN PutOctal(s).out ELSE s.out
EncodeString(str) ==
  EncodeEnd(FoldLeft(EncodeStep, [out |-> <<>>, mode |-> "plain", escaped |-> FALSE,
                                  last |-> 0, num |-> 0, digits |-> 0], str))

(***************************************************************************)
(* outstr: control characters get a caret in a short string or before a    *)
(* digit, other characters that cannot be printed their octal number.      *)
(***************************************************************************)
Digits(ch) == <<48 + (ch \div 64), 48 + ((ch \div 8) % 8), 48 + (ch % 8)>>
OutChar(str, i) ==
  LET ch == str[i]
      isShort == Len(str) < 4
      beforeDigit == i < Len(str) /\ IsDigit(str[i + 1])
  IN  CASE ch = Nul -> <<Backslash, 48>>
        [] ch = Escape -> <<Backslash, 69>>
        [] ch = FormFeed -> <<Backslash, Letter(6)>>
        [] ch = Blank -> <<Backslash, Letter(19)>>
        [] ch \in {Caret, Comma} -> <<Backslash, ch>>
        [] ch = Delete -> <<Caret, Question>>
        [] IsControl(ch) /\ ch \notin {Escape, FormFeed, Delete} /\ (isShort \/ beforeDigit) ->
             <<Caret, ch + 64>>
        [] IsControl(ch) /\ ch \notin {Escape, FormFeed, Delete} /\ ~(isShort \/ beforeDigit) ->
             <<Backslash>> \o Digits(ch)
        [] ch > Nul -> <<Backslash>> \o Digits(ch)
        [] OTHER -> <<ch>>
OutStr(str) == FoldLeft(LAMBDA out, i : out \o OutChar(str, i), <<>>, [i \in 1 .. Len(str) |-> i])

(***************************************************************************)
(* What is written is read back: the token ends where the string does, and *)
(* the string is the same.  It is so for the strings that are Plain: a     *)
(* backslash is written as it is and reads as an escape with what follows, *)
(* a NUL before a digit becomes part of an octal number, and a caret after *)
(* a % stands for itself.                                                  *)
(***************************************************************************)
ReadsAsWritten(str) ==
  LET s == GetToken(OutStr(str) \o <<Comma, Blank>>)
  IN  s.done /\ s.token = OutStr(str) /\ EncodeString(s.token) = str

Plain(str) ==
  \A i, j \in DOMAIN str :
    /\ str[i] # Backslash
    /\ str[i] = Nul /\ j = i + 1 => ~IsDigit(str[j])
    /\ str[i] = Percent /\ i < j /\ IsControl(str[j]) /\ str[j] \notin {Escape, FormFeed}
         => \E k \in i + 1 .. j - 1 : str[k] \notin Nul .. 255
=============================================================================
