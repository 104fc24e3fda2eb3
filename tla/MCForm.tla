------------------------------- MODULE MCForm -------------------------------
EXTENDS Form, FieldChecks, FieldTypes

F(row, col) == [row |-> row, col |-> col, brk |-> FALSE]

P(row, col) == [row |-> row, col |-> col, brk |-> TRUE]

\* One page, three pages whose array order is not the sorted order, and one whose first
\* field begins a page.
PagesAndBreaks ==
  {<<F(0, 0), F(0, 1)>>,
   <<F(1, 3), F(0, 3), F(0, 0), P(1, 0), F(0, 0), P(0, 0)>>,
   <<P(0, 0), F(0, 2), P(1, 0)>>}

\* The row below and the row above of a place in a sequence of rows, by their
\* definition: the field as far along its row as this one is along its own.
RowStart(r, c) == CHOOSE s \in 1 .. c : /\ \A d \in s .. c : r[d] = r[c]
                                        /\ s = 1 \/ r[s - 1] # r[c]

SameInRow(r, c, s) ==
  LET d == s + c - RowStart(r, c)
  IN  IF d <= Len(r) /\ RowStart(r, d) = s THEN d ELSE None

DownByRows(r, c) ==
  LET s == RowAfter(r, RowStart(r, c)) IN IF s = None THEN None ELSE SameInRow(r, c, s)

UpByRows(r, c) ==
  LET s == RowStart(r, c)
  IN  IF s = 1 THEN None ELSE SameInRow(r, c, RowStart(r, s - 1))

\* The walk of _formi_stitch_fields() finds the neighbours of every field, for
\* all forms of up to six fields on three rows.
ASSUME StitchFindsNeighbours ==
  \A n \in 1 .. 6 : \A r \in [1 .. n -> 1 .. 3] :
    LET w == StitchRows(r)
    IN  \A c \in 1 .. n : w.up[c] = UpByRows(r, c) /\ w.down[c] = DownByRows(r, c)

-----------------------------------------------------------------------------
Texts(chars, n) == UNION {[1 .. k -> chars] : k \in 0 .. n}
Bounds == {<<-12, 15>>, <<0, 1>>, <<1, 1>>, <<5, -5>>}
ChoiceLists == {c \in Texts({<<"a">>, <<"a", "b">>, <<" ", "A">>, <<"b", " ">>, <<"b", "a">>}, 3) : c # <<>>}
Joined(p) == p[1] \o <<".">> \o p[2] \o <<".">> \o p[3] \o <<".">> \o p[4]
QuadParts == {<<"1">>, <<"2", "5">>, <<"5", "a">>, <<>>, <<"5", "5", "5">>, <<"0", "1">>}
Addresses == {Joined(parts) \o rest : parts \in [1 .. 4 -> QuadParts],
                                      rest \in {<<>>, <<"/", "5">>, <<".", "1">>, <<"/">>, <<"/", "5", "5">>, <<" ">>}}

\* words are accepted up to the width, and cut
ASSUME WordsAccepted == \A s \in Texts({"a", "1", " ", "+"}, 5), width \in 1 .. 3 : WordAccepted(s, width)
\* and what is accepted may be typed
ASSUME TakesWhatIsAccepted ==
  \A s \in Texts({"1", "a", ".", "e", "-", " "}, 4) \cup Addresses : TakesWhatItAccepts(s)
\* what TYPE_INTEGER leaves in the field it accepts again
ASSUME IntegersStable ==
  \A s \in Texts({"1", "0", "-", " "}, 4), precision \in 0 .. 3, bounds \in Bounds, digits \in {3, 9} :
    IntegerStable(s, precision, bounds[1], bounds[2], digits)
\* the ranges of TYPE_INTEGER and TYPE_NUMERIC
ASSUME NumbersInRange ==
  \A s \in Texts({"1", "5", "-", ".", "e"}, 4), bounds \in Bounds : NumericTakesIntegers(s, bounds[1], bounds[2])
\* the choices of TYPE_ENUM
ASSUME ChoicesTurn ==
  \A choices \in ChoiceLists, exact \in BOOLEAN :
    (\A ignoreCase \in BOOLEAN : TurnsThrough(choices, ignoreCase, exact)) /\ OnlyPrefixesHide(choices, exact)
\* the addresses of TYPE_IPV4
ASSUME AddressesStable == \A s \in Addresses : Ipv4Stable(s)

\* the libraries that three calls make of two built-in types, one with
\* arguments, and the fields f and g
FirstLibrary == [types  |-> <<Builtin(FALSE, FALSE), Builtin(TRUE, TRUE)>>,
                 fields |-> [f \in {"f", "g"} |-> [type |-> NoType, args |-> NoArgs]]]
Alive(lib) == {t \in DOMAIN lib.types : ~lib.types[t].freed}
After(lib) ==
  {NewFieldtype(lib).lib}
    \cup {LinkFieldtype(lib, t, u).lib : t, u \in Alive(lib)}
    \cup {FreeFieldtype(lib, t).lib : t \in Alive(lib)}
    \cup {SetFieldtypeArg(lib, t).lib : t \in Alive(lib)}
    \cup {SetFieldtypeChoice(lib, t).lib : t \in Alive(lib)}
    \cup {SetFieldType(lib, f, t, good).lib : f \in {"f", "g"}, t \in Alive(lib), good \in BOOLEAN}
Sane(libs) == {lib \in libs : Linked(lib)}
Made3 == LET Next1(libs) == UNION {After(lib) : lib \in Sane(libs)}
         IN  Next1(Next1(Next1({FirstLibrary})))

\* linked types keep their parts, and fields get the types they are given
ASSUME TypesKept ==
  \A lib \in Made3 :
    /\ PartsAlive(lib)
    /\ \A t, u \in Alive(lib) : Linked(lib) => LosesChoices(lib, t, u)
    /\ Linked(lib) => \A t \in Alive(lib), good \in BOOLEAN : TypeGiven(lib, "f", t, good)

\* the first type takes "x", the second one "y", and others have no check
Checks == [t \in {1, 2} |-> [x \in {"x", "y"} |-> IF (x = "x") = (t = 1) THEN {x} ELSE {}]]
ASSUME LinkedTypesTakeBoth ==
  \A lib \in Sane(Made3) : \A t \in Alive(lib), x \in {"x", "y"} : AcceptsEither(lib, t, Checks, x)

\* checks of the first two types that accept again what they made of a text
Stable(check) == \A x \in DOMAIN check : \A y \in check[x] : check[y] = {y}
Makes == {check \in [{"x", "y", Empty} -> {{}, {"x"}, {"y"}, {Empty}}] : Stable(check)}
\* what a field accepts it accepts again, in the form its types gave it, unless
\* they emptied it; and the characters of that text may be typed
ASSUME AcceptedAgain ==
  \A lib \in Sane(Made3), c1, c2 \in Makes, x \in {"x", "y"}, opts \in {{}, {"O_NULLOK"}} :
    LET checks == <<c1, c2>>
        takes  == [t \in {1, 2} |-> {y \in {"x", "y"} : checks[t][y] # {}}]
        v == ValidateField(lib, "f", opts, TRUE, checks, x)
    IN  v.ok => /\ ValidateField(lib, "f", opts, TRUE, checks, v.text).ok
                     = (v.text # Empty \/ "O_NULLOK" \in opts)
                /\ ValidateChar(lib, "f", takes, x)

(***************************************************************************)
(* What three calls make of two fields, the first with a buffer more than  *)
(* the other, and two forms.                                               *)
(***************************************************************************)
Calls == INSTANCE Fields

TwoFields == LET s == Calls!NewField(Calls!NewField(Calls!NoneMade, 1, 2, 0, 0, 0, 1).s, 1, 2, 1, 0, 0, 0).s
             IN  Calls!NewForm(Calls!NewForm(s, Calls!NoFields).s, <<>>).s
Programs(s) == {id \in DOMAIN s.fields : Calls!Sound(s, id)}
Forms(s) == {fm \in DOMAIN s.forms : ~s.forms[fm].freed /\ fm # Calls!Default}
Copies(s) == {Calls!DupField(s, id, 0, 2).s : id \in Programs(s)}
               \cup {Calls!LinkField(s, id, 0, 2).s : id \in Programs(s)}
Frees(s) == {Calls!FreeField(s, id).s : id \in Programs(s)}
Sets(s) == {Calls!SetFieldOpts(s, id, opts).s : id \in Programs(s), opts \in {{"PUBLIC"}, {"STATIC"}}}
             \cup {Calls!FieldOptsOn(s, id, {"STATIC"}).s : id \in Programs(s)}
             \cup {Calls!FieldOptsOff(s, id, {"STATIC"}).s : id \in Programs(s)}
             \cup {Calls!SetMaxField(s, id, 4).s : id \in Programs(s)}
             \cup {Calls!SetNewPage(s, id, TRUE).s : id \in Programs(s)}
             \cup {Calls!MoveField(s, id, 2, 1).s : id \in Programs(s)}
             \cup {Calls!SetFieldJust(s, id, "right").s : id \in Programs(s)}
             \cup {Calls!SetFieldBuffer(s, id, buffer, value, moves).s :
                     id \in Programs(s), buffer \in {0, 1}, value \in {1, 3}, moves \in BOOLEAN}
Connects(s) == {Calls!FreeForm(s, fm).s : fm \in Forms(s)}
                 \cup {Calls!SetFormFields(s, fm, given).s :
                         fm \in Forms(s), given \in Texts(Programs(s) \ {Calls!Default}, 2)}
MadeOf(s) == Copies(s) \cup Frees(s) \cup Sets(s) \cup Connects(s)
\* a form that may be posted
Posted(s) == [s EXCEPT !.forms[1].posted = TRUE]
Made2 == {TwoFields} \cup MadeOf(TwoFields) \cup UNION {MadeOf(s) : s \in MadeOf(TwoFields)}

\* fields and forms keep track of each other, but for copies; so do the fields
\* of a ring until one is freed
ASSUME FieldsConnected ==
  \A s \in Made2 :
    /\ \A t \in MadeOf(s) : /\ Calls!PointBack(t)
                            /\ Calls!Listed(s) /\ ~Calls!Listed(t) => t \in Copies(s)
                            /\ Calls!Rings(s) /\ ~Calls!Rings(t) => t \in Frees(s)
    /\ \A id \in Programs(s) \ {Calls!Default} :
         /\ Calls!SizeTold(s, id)
         /\ Calls!Connected(s.fields[id]) => Calls!CopyIsBound(s, id, 3 - s.fields[id].parent)
         /\ Calls!Rings(s) /\ ~Calls!Connected(s.fields[id]) =>
              Calls!Rings(Calls!FreeField(s, id).s) = (s.fields[id].link = id)
    /\ \A fm \in Forms(s) : Calls!Scaled(s, fm)
\* a posted form keeps its fields
ASSUME PostedKept ==
  \A s \in Made2 : 1 \in Forms(s) =>
    \A t \in Connects(Posted(s)) : ~t.forms[1].freed /\ t.forms[1].fields = s.forms[1].fields

ASSUME TextsReturned ==
  \A s \in Made2 : \A id \in Programs(s) \ {Calls!Default}, value \in {1, 3}, moves \in BOOLEAN :
    /\ Calls!LinkedShare(s, id, value, moves) /\ Calls!PrintsLess(s, id, value, moves)
    /\ Calls!DupShares(s, id, value, moves) /\ Calls!CutComesBack(s, id)
    /\ \A buffer \in {0, 1} : Calls!BufferGiven(s, id, buffer) => Calls!ReturnsText(s, id, buffer, value, moves)
=============================================================================
