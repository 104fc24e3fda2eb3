----------------------------- MODULE TextEditor -----------------------------
(***************************************************************************)
(* What the user of a field sees: a text, in which a line break is a       *)
(* character of its own, and a place in it.                                *)
(***************************************************************************)
EXTENDS Integers, SequencesExt

CONSTANTS Chars, Return

VARIABLES text, pos

vars == <<text, pos>>

Places == 0 .. Len(text)

\* What the letters of s are without those between a and b.
Without(s, a, b) == SubSeq(s, 1, a) \o SubSeq(s, b + 1, Len(s))

Insert(c) ==
  /\ text' = InsertAt(text, pos + 1, c)
  /\ pos' = pos + 1

\* At the end of a line there is nothing to replace.
Overlay(c) ==
  /\ pos < Len(text) /\ text[pos + 1] # Return
  /\ text' = [text EXCEPT ![pos + 1] = c]
  /\ pos' = pos + 1

\* The character, or break, before the place or at it; the break after the last
\* character of a line can be deleted from that character.
Delete ==
  /\ \E d \in {pos - 1, pos} \cup {p \in {pos + 1} : p < Len(text) /\ text[p + 1] = Return} :
       d \in 0 .. Len(text) - 1 /\ text' = Without(text, d, d + 1)
  /\ pos' \in {pos - 1, pos} /\ pos' \in 0 .. Len(text')

\* One piece of the text goes that does not lie before the place.
Clear ==
  /\ \E a, b \in Places : a < b /\ pos <= b /\ text' = Without(text, a, b)
  /\ pos' \in 0 .. Len(text')

\* A break comes at the place or before it.
Break ==
  \E a \in 0 .. pos : text' = InsertAt(text, a + 1, Return) /\ pos' = pos + 1

Move == text' = text /\ pos' \in Places

\* The first character typed into a text the user did not write takes its place.
Replace(c) == pos = 0 /\ text' = <<c>> /\ pos' = 1

Init == text \in Seq(Chars) /\ pos = 0

Next ==
  \/ Move
  \/ \E c \in Chars : Insert(c) \/ Overlay(c) \/ Replace(c)
  \/ Break \/ Delete \/ Clear

Spec == Init /\ [][Next]_vars
=============================================================================
