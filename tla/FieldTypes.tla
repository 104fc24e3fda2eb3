----------------------------- MODULE FieldTypes ------------------------------
(***************************************************************************)
(* The types of fields of lib/libform/field_types.c, what a program may do *)
(* with them, and how the validation of internals.c uses them.             *)
(*                                                                         *)
(* lib.types has the types made so far, in that order, the built-in ones   *)
(* first; lib.fields gives every field its type and its arguments.  The    *)
(* calls are functions from a library to a library and a result.           *)
(***************************************************************************)
EXTENDS Integers, FiniteSets, SequencesExt

NoType == 0
NoLink == <<>>
Unset  == <<"unset">>                \* a link of which the parts were never stored
NoArgs == "none"
Empty  == "empty"                   \* a text of blanks only

CreateFieldtype ==
  [builtin |-> FALSE, hasArgs |-> FALSE, makes |-> FALSE, turns |-> FALSE, link |-> NoLink, refcount |-> 0, freed |-> FALSE]
\* of the built-in types only TYPE_ENUM has choices to turn to
Builtin(hasArgs, turns) ==
  [CreateFieldtype EXCEPT !.builtin = TRUE, !.hasArgs = hasArgs, !.makes = hasArgs, !.turns = turns]

Refuses == "no choice"

Result(lib, value) == [lib |-> lib, result |-> value]
IsLinked(type) == type.link # NoLink

NewFieldtype(lib) == Result([lib EXCEPT !.types = Append(@, CreateFieldtype)], "E_OK")

LinkFieldtype(lib, type1, type2) ==
  LET linked == [CreateFieldtype EXCEPT !.link = <<type1, type2>>,
                                        !.hasArgs = lib.types[type1].hasArgs \/ lib.types[type2].hasArgs]
      counted == [t \in DOMAIN lib.types |->
                    [lib.types[t] EXCEPT !.refcount = @ + Cardinality({i \in {1, 2} : <<type1, type2>>[i] = t})]]
  IN  Result([lib EXCEPT !.types = Append(counted, linked)], "E_OK")

FreeFieldtype(lib, type) ==
  LET t == lib.types[type]
      counted == [u \in DOMAIN lib.types |->
                    [lib.types[u] EXCEPT !.refcount = @ - Cardinality({i \in DOMAIN t.link : t.link[i] = u})]]
  IN  IF t.refcount > 0 THEN Result(lib, "E_CONNECTED")
      ELSE IF t.builtin THEN Result(lib, "E_BAD_ARGUMENT")
      ELSE Result([lib EXCEPT !.types = [counted EXCEPT ![type].freed = TRUE]], "E_OK")

\* set_fieldtype_arg stores the functions, not that the type has arguments
SetFieldtypeArg(lib, type) == Result([lib EXCEPT !.types[type].makes = TRUE], "E_OK")

SetFieldtypeChoice(lib, type) == Result([lib EXCEPT !.types[type].turns = TRUE], "E_OK")

(***************************************************************************)
(* set_field_type: the field has the type whatever comes of its arguments. *)
(* Those of a linked type are made for its parts, the second one first, so *)
(* that the last ones made remain; they always count as an error, and a    *)
(* link of which nothing is stored takes the place of the one it had.      *)
(***************************************************************************)
Parts(lib, type) ==
  LET parts[t \in DOMAIN lib.types] ==
        IF IsLinked(lib.types[t]) THEN parts[lib.types[t].link[2]] \o parts[lib.types[t].link[1]] ELSE <<t>>
  IN  parts[type]
LinkedBelow(lib, type) ==
  LET below[t \in DOMAIN lib.types] ==
        IF IsLinked(lib.types[t]) THEN {t} \cup below[lib.types[t].link[1]] \cup below[lib.types[t].link[2]] ELSE {}
  IN  below[type]

Made(lib, type) == IF lib.types[type].makes THEN ToString(type) ELSE NoArgs
ArgsOf(lib, type) == Made(lib, Last(SelectSeq(Parts(lib, type), LAMBDA part : lib.types[part].hasArgs)))
Unlinked(lib, type) ==
  [t \in DOMAIN lib.types |->
     IF t \in LinkedBelow(lib, type) /\ lib.types[t].hasArgs THEN [lib.types[t] EXCEPT !.link = Unset] ELSE lib.types[t]]
\* good: whether make_args finds the arguments good
SetFieldType(lib, field, type, good) ==
  LET t      == lib.types[type]
      typed  == [lib EXCEPT !.fields[field].type = type]
      args   == IF good THEN ArgsOf(lib, type) ELSE NoArgs
  IN  IF ~t.hasArgs THEN Result(typed, "E_OK")
      ELSE Result([typed EXCEPT !.fields[field].args = args, !.types = Unlinked(lib, type)],
                  IF good /\ ~IsLinked(t) THEN "E_OK" ELSE "E_BAD_ARGUMENT")

(***************************************************************************)
(* Validation.  The parts of a linked type, the second one first: a later  *)
(* check finds the text as the one before it left it, and the text is good *)
(* if any of them finds it good.                                           *)
(***************************************************************************)
\* checks[t]: what the type t makes of a text, or {} if it refuses it; a type
\* that has no check is not in its domain
DoValidation(lib, type, checks, text) ==
  LET Step(v, t) == IF t \notin DOMAIN checks THEN [v EXCEPT !.ok = TRUE]
                    ELSE IF checks[t][v.text] = {} THEN v
                    ELSE [ok |-> TRUE, text |-> CHOOSE x \in checks[t][v.text] : TRUE]
  IN  FoldLeft(Step, [ok |-> FALSE, text |-> text], Parts(lib, type))
DoCharValidation(lib, type, takes, c) ==
  \E i \in DOMAIN Parts(lib, type) :
    LET t == Parts(lib, type)[i] IN t \notin DOMAIN takes \/ c \in takes[t]

ValidateChar(lib, field, takes, c) ==
  lib.fields[field].type = NoType \/ DoCharValidation(lib, lib.fields[field].type, takes, c)

\* _formi_validate_field, after the text is in the buffer
ValidateField(lib, field, opts, changed, checks, text) ==
  LET type == lib.fields[field].type
      Verdict(ok) == [ok |-> ok, text |-> text]
  IN  IF text = Empty THEN Verdict("O_NULLOK" \in opts)
      ELSE IF ~changed THEN Verdict("O_PASSOK" \in opts)
      ELSE IF type = NoType THEN Verdict(TRUE)
      ELSE DoValidation(lib, type, checks, text)

\* _formi_field_choice: what there is to turn to, if the type has choices
FieldChoice(lib, field, choice) ==
  LET type == lib.fields[field].type
  IN  IF type # NoType /\ lib.types[type].turns THEN choice ELSE Refuses

(***************************************************************************)
(* What a program may count on.                                            *)
(***************************************************************************)
Uses(lib, t) == Cardinality({<<u, i>> \in (DOMAIN lib.types) \X {1, 2} :
                               ~lib.types[u].freed /\ IsLinked(lib.types[u]) /\ lib.types[u].link[i] = t})
Linked(lib) == \A t \in DOMAIN lib.types : lib.types[t].link # Unset
\* as long as no linked type with arguments is given to a field, the parts of
\* linked types are not freed; nothing keeps the type of a field from it
PartsAlive(lib) ==
  Linked(lib) => \A t \in DOMAIN lib.types :
                   /\ lib.types[t].refcount = Uses(lib, t)
                   /\ lib.types[t].freed => Uses(lib, t) = 0 /\ ~lib.types[t].builtin
\* a field has the arguments of its type if set_field_type() says so, and the
\* type in any case; linked types with arguments never work
TypeGiven(lib, field, type, good) ==
  LET set == SetFieldType(lib, field, type, good)
  IN  /\ set.lib.fields[field].type = type
      /\ set.result = "E_OK" /\ lib.types[type].hasArgs => set.lib.fields[field].args = ToString(type)
      /\ (set.result = "E_OK") = (lib.types[type].hasArgs => good /\ ~IsLinked(lib.types[type]))
      /\ Linked(lib) => (Linked(set.lib) <=> (IsLinked(lib.types[type]) => ~lib.types[type].hasArgs))

\* a linked type has choices only if it is given some, whatever its parts have
LosesChoices(lib, type1, type2) ==
  LET linked == LinkFieldtype(lib, type1, type2).lib
      field  == CHOOSE f \in DOMAIN lib.fields : TRUE
      given  == SetFieldType(linked, field, Len(linked.types), TRUE).lib
  IN  FieldChoice(given, field, "next") = Refuses

\* a linked type takes what one of its parts takes, if no part changes a text
AcceptsEither(lib, type, checks, text) ==
  DoValidation(lib, type, checks, text).ok =
    \E i \in DOMAIN Parts(lib, type) :
      LET t == Parts(lib, type)[i] IN t \in DOMAIN checks => checks[t][text] # {}
=============================================================================
