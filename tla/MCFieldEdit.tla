---------------------------- MODULE MCFieldEdit ----------------------------
EXTENDS FieldEdit

\* A field on one line that does not grow, one that does, and fields of two lines
\* that wrap words, break them, or grow to three.
MCKinds ==
  { [static |-> TRUE,  wrap |-> TRUE,  blank |-> TRUE,  rows |-> 1, cols |-> 3, nrows |-> 0, max |-> 0],
    [static |-> FALSE, wrap |-> TRUE,  blank |-> FALSE, rows |-> 1, cols |-> 3, nrows |-> 0, max |-> 5],
    [static |-> TRUE,  wrap |-> TRUE,  blank |-> FALSE, rows |-> 2, cols |-> 3, nrows |-> 0, max |-> 0],
    [static |-> TRUE,  wrap |-> FALSE, blank |-> FALSE, rows |-> 2, cols |-> 2, nrows |-> 0, max |-> 0],
    [static |-> FALSE, wrap |-> TRUE,  blank |-> FALSE, rows |-> 2, cols |-> 3, nrows |-> 0, max |-> 3] }

MCTexts == {<<>>, <<"a", Blank, "a">>}
=============================================================================
