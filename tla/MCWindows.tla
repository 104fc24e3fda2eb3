----------------------------- MODULE MCWindows ------------------------------
(***************************************************************************)
(* Windows.tla with one window and two subwindows at a time.  Which is     *)
(* which does not matter, so the windows are symmetric.  Nothing asked for *)
(* (0) is the rest of the screen or of the parent.                         *)
(***************************************************************************)
EXTENDS Windows, SequencesExt, TLC

Symmetry == Permutations(Window)

\* The loops of winsdelln, insdelln.c:97 and 141, which exchange two line
\* pointers at a time.
Swap(s, i, j) == [s EXCEPT ![i] = s[j], ![j] = s[i]]

InsertLoop(s, c, n, last) ==
  FoldLeft(LAMBDA t, y : Swap(t, y + n, y), s,
           [k \in 1 .. last - n - c + 1 |-> last - n - k + 1])

DeleteLoop(s, c, n, last) ==
  FoldLeft(LAMBDA t, y : Swap(t, y, y + n), s,
           [k \in 1 .. last - n - c + 1 |-> c + k - 1])

\* Their result is what Windows.tla says it is, for windows of up to 7 lines.
ASSUME LoopsRotate ==
  \A len \in 1 .. 7 : \A last \in 1 .. len : \A c \in 1 .. last :
    \A n \in 1 .. last - c + 1 :
      LET s == [i \in 1 .. len |-> i]
      IN  /\ InsertLoop(s, c, n, last) = Inserted(s, c, n, last)
          /\ DeleteLoop(s, c, n, last) = Deleted(s, c, n, last)
=============================================================================
