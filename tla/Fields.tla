------------------------------- MODULE Fields -------------------------------
(***************************************************************************)
(* Fields and forms as a program makes, copies, connects and frees them:   *)
(* lib/libform/field.c and the calls of form.c that connect, as functions  *)
(* of the state of the library.  Memory is never short.                    *)
(*                                                                         *)
(*   fields   the fields made so far; Default stands for the NULL field,   *)
(*            which is the prototype of new ones                           *)
(*   forms    the forms made so far, Default likewise                      *)
(*   arrays   the arrays of buffers: for each buffer the length it is said *)
(*            to have, and the string                                      *)
(*   strings  the number of characters of each, or Freed                   *)
(*   lines    the text from which a field is drawn, likewise, or Unset     *)
(*                                                                         *)
(* A text is its number of characters, and it fits on one line; what       *)
(* becomes of lines is in FieldEdit, pages and what is drawn are in Form.  *)
(***************************************************************************)
EXTENDS Integers, SequencesExt

Default == 0
None    == -1                              \* no form, no window, no field
Freed   == -1
Unset   == [length |-> 0, chars |-> Freed]
NoFields == <<None>>                       \* the NULL array
Justifications == {"none", "right", "left", "center"}

Result(s, value) == [s |-> s, value |-> value]
Fails(s, error) == Result(s, error)
Done(s) == Result(s, "E_OK")
NewId(f) == Max(DOMAIN f) + 1
With(f, id, x) == [i \in DOMAIN f \cup {id} |-> IF i = id THEN x ELSE f[i]]

DefaultField ==
  [rows |-> 0, cols |-> 0, nrows |-> 0, row |-> 0, col |-> 0, max |-> 0, index |-> 0, page |-> 0,
   brk |-> FALSE, just |-> "none", opts |-> {"STATIC"}, parent |-> None, link |-> None,
   array |-> None, lines |-> None, x |-> 0, y |-> 0, freed |-> FALSE]
DefaultForm ==
  [fields |-> <<>>, cur |-> 0, posted |-> FALSE, maxPage |-> 0, win |-> None, sub |-> None,
   scr |-> None, freed |-> FALSE]
NoneMade == [fields |-> [f \in {Default} |-> DefaultField], forms |-> [f \in {Default} |-> DefaultForm],
             arrays |-> <<>>, strings |-> <<>>, lines |-> <<>>]

Static(f) == "STATIC" \in f.opts
OneRow(f) == f.rows + f.nrows = 1
Connected(f) == f.parent # None
\* the first field of a form that nobody has posted is current, too
IsCurrent(s, id) ==
  LET f == s.fields[id]
  IN  id # Default /\ Connected(f) /\ s.forms[f.parent].cur = f.index

(***************************************************************************)
(* Making, copying and freeing fields.                                     *)
(***************************************************************************)
\* all of the prototype that is not given is taken over, its form included
CreateField(prototype, id, rows, cols, row, col, nrows) ==
  [prototype EXCEPT !.rows = rows, !.cols = cols, !.row = row, !.col = col, !.nrows = nrows, !.link = id]
GoodField(rows, cols, row, col, nrows, nbuf) ==
  rows > 0 /\ cols > 0 /\ row >= 0 /\ col >= 0 /\ nrows >= 0 /\ nbuf >= 0

NewField(s, rows, cols, row, col, nrows, nbuf) ==
  LET id  == NewId(s.fields)
      n   == Len(s.strings)
      new == [CreateField(s.fields[Default], id, rows, cols, row, col, nrows)
                EXCEPT !.array = Len(s.arrays) + 1, !.lines = Len(s.lines) + 1]
      buffers == [i \in 1 .. nbuf + 1 |-> [length |-> 0, string |-> n + i]]
  IN  IF ~GoodField(rows, cols, row, col, nrows, nbuf) THEN Fails(s, None)
      ELSE Result([s EXCEPT !.fields = With(@, id, new), !.arrays = Append(@, buffers),
                            !.strings = @ \o [i \in 1 .. nbuf + 1 |-> 0], !.lines = Append(@, Unset)], id)

Copy(s, field, row, col) ==
  LET f == s.fields[field] IN CreateField(f, NewId(s.fields), f.rows, f.cols, row, col, f.nrows)
\* a copy has buffers of its own that hold the strings of the other, and its lines
DupField(s, field, row, col) ==
  LET id == NewId(s.fields)
  IN  IF field = Default \/ row < 0 \/ col < 0 THEN Fails(s, None)
      ELSE Result([s EXCEPT !.fields = With(@, id, [Copy(s, field, row, col) EXCEPT !.array = Len(s.arrays) + 1]),
                            !.arrays = Append(@, @[s.fields[field].array])], id)
LinkField(s, field, row, col) ==
  LET id == NewId(s.fields)
  IN  IF field = Default \/ row < 0 \/ col < 0 THEN Fails(s, None)
      ELSE Result([s EXCEPT !.fields = With([@ EXCEPT ![field].link = id], id,
                                            [Copy(s, field, row, col) EXCEPT !.link = s.fields[field].link])], id)
\* the walk along the links ends where it began, and takes out nothing; the
\* strings and the lines stay
FreeField(s, field) ==
  LET f == s.fields[field]
  IN  IF field = Default THEN Fails(s, "E_BAD_ARGUMENT")
      ELSE IF Connected(f) THEN Fails(s, "E_CONNECTED")
      ELSE Done([s EXCEPT !.fields[field].freed = TRUE,
                          !.arrays = IF f.link = field THEN [@ EXCEPT ![f.array] = <<>>] ELSE @])

(***************************************************************************)
(* What may be set.                                                        *)
(***************************************************************************)
Cut(s, field) ==
  LET f == s.fields[field]
      longer == IF f.array = None THEN {} ELSE {b \in Range(s.arrays[f.array]) : b.length > f.cols}
  IN  [s EXCEPT !.strings = [i \in DOMAIN @ |-> IF \E b \in longer : b.string = i
                                                THEN Min({@[i], f.cols}) ELSE @[i]]]
SetOpts(s, field, opts, static) ==
  IF IsCurrent(s, field) THEN Fails(s, "E_CURRENT")
  ELSE Done([(IF static THEN Cut(s, field) ELSE s) EXCEPT !.fields[field].opts = opts])
SetFieldOpts(s, field, opts) == SetOpts(s, field, opts, "STATIC" \in opts)
FieldOptsOn(s, field, opts)  == SetOpts(s, field, s.fields[field].opts \cup opts, "STATIC" \in opts)
FieldOptsOff(s, field, opts) == SetOpts(s, field, s.fields[field].opts \ opts, FALSE)

InitFieldXpos(f) ==
  CASE ~Static(f) \/ ~OneRow(f) -> 0 [] f.just = "right" -> f.cols - 1
    [] f.just = "center" -> (f.cols - 1) \div 2 [] OTHER -> 0
SetFieldJust(s, field, just) ==
  LET f == s.fields[field]
      justified == [f EXCEPT !.just = just]
  IN  IF IsCurrent(s, field) THEN Fails(s, "E_CURRENT")
      ELSE IF just \notin Justifications \/ ~Static(f) \/ f.rows + f.nrows > 1 THEN Fails(s, "E_BAD_ARGUMENT")
      ELSE Done([s EXCEPT !.fields[field] = [justified EXCEPT !.x = InitFieldXpos(justified)]])
SetMaxField(s, field, max) ==
  IF Static(s.fields[field]) \/ max < 0 THEN Fails(s, "E_BAD_ARGUMENT")
  ELSE Done([s EXCEPT !.fields[field].max = max])
SetNewPage(s, field, page) ==
  IF Connected(s.fields[field]) THEN Fails(s, "E_CONNECTED") ELSE Done([s EXCEPT !.fields[field].brk = page])
MoveField(s, field, row, col) ==
  IF Connected(s.fields[field]) THEN Fails(s, "E_CONNECTED")
  ELSE Done([s EXCEPT !.fields[field].row = row, !.fields[field].col = col])
\* the size of a field that grows is set nowhere
DynamicFieldInfo(s, field) ==
  LET f == s.fields[field] IN IF Static(f) THEN <<f.rows, f.cols, f.max>> ELSE <<0, 0, f.max>>

(***************************************************************************)
(* The text of a field.  realloc moves a string or not.                    *)
(***************************************************************************)
Reallocated(s, field, buffer, length, chars, moves) ==
  LET array == s.fields[field].array
      old   == s.arrays[array][buffer + 1].string
      new   == IF moves THEN Len(s.strings) + 1 ELSE old
  IN  [s EXCEPT !.arrays[array][buffer + 1] = [length |-> length, string |-> new],
                !.strings = IF moves THEN Append([@ EXCEPT ![old] = Freed], chars) ELSE [@ EXCEPT ![old] = chars]]
\* the first buffer is what the field shows
FieldBufferInit(s, field, buffer) ==
  IF buffer # 0 THEN s
  ELSE LET b == s.arrays[s.fields[field].array][1]
       IN  [s EXCEPT !.lines[s.fields[field].lines] = [length |-> b.length, chars |-> s.strings[b.string]],
                     !.fields[field].x = 0, !.fields[field].y = 0]
BufferGiven(s, field, buffer) == field # Default /\ buffer < Len(s.arrays[s.fields[field].array])
Fitting(f, length) == IF Static(f) /\ OneRow(f) THEN Min({length, f.cols}) ELSE length
SetFieldBuffer(s, field, buffer, value, moves) ==
  LET length == Fitting(s.fields[field], value)
  IN  IF ~BufferGiven(s, field, buffer) THEN Fails(s, "E_BAD_ARGUMENT")
      ELSE Done(FieldBufferInit(Reallocated(s, field, buffer, length, length, moves), field, buffer))
\* what is printed has no conversions and is not empty; its last character is
\* not put into the string
SetFieldPrintf(s, field, buffer, value, moves) ==
  LET length == Fitting(s.fields[field], value)
  IN  IF ~BufferGiven(s, field, buffer) THEN Fails(s, "E_BAD_ARGUMENT")
      ELSE Done(FieldBufferInit(Reallocated(s, field, buffer, length, length - 1, moves), field, buffer))
\* the first buffer is made anew from the lines, whichever is asked for
FieldBuffer(s, field, buffer) ==
  LET f     == s.fields[field]
      shown == s.lines[f.lines]
      synced == Reallocated(s, field, 0, shown.length, shown.chars, TRUE)
  IN  IF ~BufferGiven(s, field, buffer) \/ shown = Unset THEN Result(s, None)
      ELSE Result(synced, synced.strings[synced.arrays[f.array][buffer + 1].string])

(***************************************************************************)
(* Forms.                                                                  *)
(***************************************************************************)
Detached(s, form) ==
  [s EXCEPT !.fields = [id \in DOMAIN @ |-> IF id \in Range(s.forms[form].fields)
                                            THEN [@[id] EXCEPT !.parent = None, !.index = -1] ELSE @[id]]]
PageOf(s, fields, i) == 1 + Cardinality({j \in 1 .. i : s.fields[fields[j]].brk})
\* a field given twice has its last place
Attached(s, form, fields) ==
  LET place(id) == Max({i \in DOMAIN fields : fields[i] = id})
  IN  [s EXCEPT !.fields = [id \in DOMAIN @ |->
                              IF id \in Range(fields)
                              THEN [@[id] EXCEPT !.parent = form, !.index = place(id) - 1,
                                                 !.page = PageOf(s, fields, place(id))]
                              ELSE @[id]],
                !.forms[form] = [@ EXCEPT !.fields = fields, !.cur = 0, !.maxPage = PageOf(s, fields, Len(fields))]]
SetFormFields(s, form, fields) ==
  IF form = Default THEN Fails(s, "E_BAD_ARGUMENT")
  ELSE IF s.forms[form].posted THEN Fails(s, "E_POSTED")
  ELSE IF fields = NoFields THEN Fails(s, "E_BAD_ARGUMENT")
  ELSE IF \E id \in Range(fields) : s.fields[id].parent \notin {None, form} THEN Fails(s, "E_CONNECTED")
  ELSE Done(Attached(Detached(s, form), form, fields))

NewForm(s, fields) ==
  LET id   == NewId(s.forms)
      new  == [s.forms[Default] EXCEPT !.scr = IF s.forms[Default].win = None THEN "stdscr" ELSE @]
      made == [s EXCEPT !.forms = With(@, id, new)]
      r    == SetFormFields(made, id, fields)
  IN  IF fields = NoFields THEN Result(made, id)
      ELSE IF r.value = "E_OK" THEN Result(r.s, id) ELSE Fails(s, None)
FreeForm(s, form) ==
  IF form = Default THEN Fails(s, "E_BAD_ARGUMENT")
  ELSE IF s.forms[form].posted THEN Fails(s, "E_POSTED")
  ELSE Done([Detached(s, form) EXCEPT !.forms[form].freed = TRUE])

\* the window set last is the one that is written to
SetFormWin(s, form, win) ==
  IF form # Default /\ s.forms[form].posted THEN Fails(s, "E_POSTED")
  ELSE Done([s EXCEPT !.forms[form].win = win, !.forms[form].scr = win])
SetFormSub(s, form, win) ==
  IF form # Default /\ s.forms[form].posted THEN Fails(s, "E_POSTED")
  ELSE Done([s EXCEPT !.forms[form].sub = win, !.forms[form].scr = win])

ScaleForm(s, form) ==
  LET fields == {s.fields[id] : id \in Range(s.forms[form].fields)}
  IN  IF fields = {} THEN "E_NOT_CONNECTED"
      ELSE <<Max({f.row + f.rows : f \in fields}), Max({f.col + f.cols : f \in fields})>>
\* where pos_form_cursor() puts the cursor: past the end of the field, below
\* its beginning
CursorPlace(s, form) ==
  LET f == s.fields[s.forms[form].fields[s.forms[form].cur + 1]]
  IN  CASE "PUBLIC" \notin f.opts -> <<f.row, f.col>>
        [] f.x >= f.cols          -> <<f.row + f.y + 1, f.col>>
        [] OTHER                  -> <<f.row + f.y, f.col + f.x>>

(***************************************************************************)
(* What a program may count on, and what it may not.                       *)
(***************************************************************************)
Live(s) == {id \in DOMAIN s.fields : id # Default /\ ~s.fields[id].freed}
\* what a call on the field looks at is there
Sound(s, id) ==
  /\ id = Default \/ id \in Live(s)
  /\ id # Default => /\ s.fields[id].link \in Live(s)
                     /\ \A b \in Range(s.arrays[s.fields[id].array]) : s.strings[b.string] # Freed
  /\ Connected(s.fields[id]) => ~s.forms[s.fields[id].parent].freed

\* the fields of a form are there, and each knows a place it has in it
PointBack(s) ==
  \A form \in DOMAIN s.forms : ~s.forms[form].freed =>
    \A id \in Range(s.forms[form].fields) :
      id \in Live(s) /\ s.fields[id].parent = form /\ s.forms[form].fields[s.fields[id].index + 1] = id
\* a field that has a form is one of its fields: not so for copies
Listed(s) ==
  \A id \in Live(s) : Connected(s.fields[id]) => /\ ~s.forms[s.fields[id].parent].freed
                                               /\ id \in Range(s.forms[s.fields[id].parent].fields)
\* the links are rings of fields: not so when one of a ring was freed
Rings(s) == {s.fields[id].link : id \in Live(s)} = Live(s)

\* the copy of a connected field belongs to the form as that one does, and
\* cannot be freed, moved or given to another form
CopyIsBound(s, id, other) ==
  LET copy(r) == r.value # None => /\ FreeField(r.s, r.value).value = "E_CONNECTED"
                                   /\ MoveField(r.s, r.value, 1, 1).value = "E_CONNECTED"
                                   /\ SetFormFields(r.s, other, <<r.value>>).value = "E_CONNECTED"
  IN  copy(DupField(s, id, 0, 0)) /\ copy(LinkField(s, id, 0, 0))
\* the fields of a ring have one text, whichever it was given to
LinkedShare(s, id, value, moves) ==
  LET r     == LinkField(s, id, 0, 0)
      given == SetFieldBuffer(r.s, r.value, 0, value, moves).s
  IN  FieldBuffer(given, id, 0).value = Fitting(s.fields[id], value)
\* a copy that is not linked is drawn from the same lines; the string of the
\* other is gone when that of the copy is moved
DupShares(s, id, value, moves) ==
  LET r     == DupField(s, id, 0, 0)
      given == SetFieldBuffer(r.s, r.value, 0, value, moves).s
  IN  given.lines[given.fields[id].lines].length = Fitting(s.fields[id], value) /\ Sound(given, id) = ~moves
\* a field that was never given its first text returns no text at all
ReturnsText(s, id, buffer, value, moves) ==
  LET given == SetFieldBuffer(s, id, buffer, value, moves).s
      blank == given.lines[s.fields[id].lines] = Unset
  IN  FieldBuffer(given, id, buffer).value = IF blank THEN None ELSE Fitting(s.fields[id], value)
PrintsLess(s, id, value, moves) ==
  FieldBuffer(SetFieldPrintf(s, id, 0, value, moves).s, id, 0).value = Fitting(s.fields[id], value) - 1
\* the size a field is said to have is where its cursor may be, unless it grows
SizeTold(s, id) ==
  LET info == DynamicFieldInfo(s, id)
  IN  IF Static(s.fields[id]) THEN s.fields[id].x < info[2] /\ s.fields[id].y < info[1] ELSE info[1] * info[2] = 0
\* what is cut off when a field is made static comes back with the next look
\* at its first buffer, and is still counted in the others
CutComesBack(s, id) ==
  LET r == SetFieldOpts(s, id, {"STATIC"})
      kept == FieldBuffer(s, id, 0)
  IN  r.value = "E_OK" /\ kept.value # None =>
        /\ FieldBuffer(r.s, id, 0).value = kept.value
        /\ r.s.arrays = s.arrays
        /\ \A b \in Range(s.arrays[s.fields[id].array]) : r.s.strings[b.string] <= s.fields[id].cols
\* a form fits where scale_form says; the cursor is there or right below
Scaled(s, form) ==
  LET size == ScaleForm(s, form)
  IN  s.forms[form].fields # <<>> =>
        /\ \A id \in Range(s.forms[form].fields) :
             s.fields[id].row + s.fields[id].rows <= size[1] /\ s.fields[id].col + s.fields[id].cols <= size[2]
        /\ CursorPlace(s, form)[1] <= size[1] /\ CursorPlace(s, form)[2] < size[2]
=============================================================================
