------------------------------ MODULE TermDesc ------------------------------
(***************************************************************************)
(* Terminal descriptions as libterminfo keeps them: compiled from the      *)
(* source text, merged with the descriptions they use, read back, and      *)
(* taken apart again by infocmp.                                           *)
(*                                                                         *)
(* A name is <<base, ver>>; version 3 records are named base,v3 and hold   *)
(* numbers of 32 bits, version 1 records those of 16 bits.  A source entry *)
(* is [names |-> sequence of bases, tokens |-> sequence of [cap, value]],  *)
(* where use is a capability whose value is a base.  A compiled entry, a   *)
(* tic, is [names, ver, caps |-> function from capabilities to values,     *)
(* uses |-> sequence of bases].  A value is a number, or the number of a   *)
(* string; a flag that is set is 1.  Capabilities outside DOMAIN Kind are  *)
(* the extra ones of -x.  Memory never runs out, and names and strings are *)
(* never too long.  Commented and obsolete (OT) capabilities are left out. *)
(***************************************************************************)
EXTENDS Integers, Sequences, FiniteSets, SequencesExt, FiniteSetsExt

CONSTANTS Kind,      \* the kind of every standard capability: flag, num or str
          Short      \* the number of values of 16 bits

ASSUME TermDescAssumption ==
  /\ Short \in Nat \ {0, 1}
  /\ \A cap \in DOMAIN Kind : Kind[cap] \in {"flag", "num", "str"}

Absent == -1
Cancelled == -2
Valid(value) == value >= 0
MaxShort == (Short \div 2) - 1

Known == DOMAIN Kind
IsKind(cap, kind) == cap \in Known /\ Kind[cap] = kind

\* _ti_getname
GetName(ver, name) == <<name[1], ver>>

(***************************************************************************)
(* Compiling an entry.                                                     *)
(***************************************************************************)
\* what is read back of a value that was encoded: a version 1 record keeps 16
\* bits, and reads them without a sign
Encoded(ver, cap, value) ==
  IF ver = 1 /\ (Valid(value) \/ IsKind(cap, "num")) THEN value % Short ELSE value

\* _ti_promote: of the aliases only the first is kept, the others end up
\* behind its NUL
Promoted(tic) ==
  [tic EXCEPT !.ver = 3, !.names = [i \in 1 .. Min({2, Len(@)}) |-> GetName(3, @[i])]]

IsBig(tic, token) ==
  tic.ver = 1 /\ token.value > MaxShort /\ (token.cap \in Known => Kind[token.cap] = "num")

With(tic, cap, value) ==
  [tic EXCEPT !.caps = [c \in DOMAIN @ \cup {cap} |-> IF c = cap THEN Encoded(tic.ver, cap, value) ELSE @[c]]]
AddToken(tic, token) ==
  With(IF IsBig(tic, token) THEN Promoted(tic) ELSE tic, token.cap, token.value)

\* _ti_store_extra refuses it
RefusesExtra(tic, cap, x) == cap \notin Known /\ (cap \in DOMAIN tic.caps \/ ~x)

CompileStep(s, token, x) ==
  CASE ~s.ok -> s
    [] s.ok /\ token.cap = "use" -> [s EXCEPT !.tic.uses = Append(@, token.value)]
    [] s.ok /\ token.cap # "use" /\ RefusesExtra(s.tic, token.cap, x) -> [s EXCEPT !.ok = FALSE]
    [] s.ok /\ token.cap \in DOMAIN s.tic.caps /\ token.cap \in Known -> s
    [] OTHER -> [s EXCEPT !.tic = AddToken(@, token)]

NewTic(names) == [names |-> [i \in DOMAIN names |-> <<names[i], 1>>], ver |-> 1, caps |-> <<>>, uses |-> <<>>]
\* _ti_compile: ok tells whether there is a tic
Compile(entry, x) ==
  FoldLeft(LAMBDA s, token : CompileStep(s, token, x), [ok |-> TRUE, tic |-> NewTic(entry.names)], entry.tokens)

(***************************************************************************)
(* merge: what a used description has and the other one does not.          *)
(***************************************************************************)
Inherited(r, u, x) ==
  {cap \in DOMAIN u.caps \ DOMAIN r.caps : Valid(u.caps[cap]) /\ (cap \in Known \/ x)}
Merge(r, u, x) ==
  [r EXCEPT !.caps = [cap \in DOMAIN @ \cup Inherited(r, u, x) |->
                        IF cap \in DOMAIN @ THEN @[cap] ELSE Encoded(r.ver, cap, u.caps[cap])]]

(***************************************************************************)
(* _ti_readterm.  A program sees no difference between what is cancelled   *)
(* and what is absent: only what is set is in its description.  infocmp    *)
(* reads the record as it is.                                              *)
(***************************************************************************)
Description(tic) == [cap \in {c \in DOMAIN tic.caps : Valid(tic.caps[c])} |-> tic.caps[cap]]

Unset(cap) == IF IsKind(cap, "flag") THEN 0 ELSE Absent
Raw(tic) ==
  [cap \in Known \cup DOMAIN tic.caps |-> IF cap \in DOMAIN tic.caps THEN tic.caps[cap] ELSE Unset(cap)]

(***************************************************************************)
(* infocmp -u: a description in terms of others.  term and the members of  *)
(* the sequence used are raw descriptions.                                 *)
(***************************************************************************)
HaveData(used, cap) == {i \in DOMAIN used : cap \in DOMAIN used[i] /\ Valid(used[i][cap])}
Agreeing(term, used, cap) == {i \in HaveData(used, cap) : used[i][cap] = term[cap]}

UseStandard(term, used, cap) ==
  CASE HaveData(used, cap) = {} -> term[cap]
    [] HaveData(used, cap) # {} /\ Agreeing(term, used, cap) = HaveData(used, cap) -> Absent
    [] HaveData(used, cap) # {} /\ Agreeing(term, used, cap) # HaveData(used, cap) ->
         IF term[cap] = Absent THEN Cancelled ELSE term[cap]

\* find_userdef finds a cancelled one as well, and it counts as data
UseExtra(term, used, cap) ==
  LET found == {i \in DOMAIN used : cap \in DOMAIN used[i]}
  IN  IF found # {} /\ \A i \in found : used[i][cap] = term[cap] THEN Absent ELSE term[cap]

\* the extra ones the terminal does not have are added, but of no type
UseTerms(term, used) ==
  [cap \in DOMAIN term |-> IF cap \in Known THEN UseStandard(term, used, cap) ELSE UseExtra(term, used, cap)]

\* load_ents and print_ent, all capabilities being asked for (-a); a flag that
\* is not set is left out
Listed(term, x) ==
  {cap \in DOMAIN term : /\ Valid(term[cap]) \/ term[cap] = Cancelled
                         /\ IsKind(cap, "flag") => term[cap] # 0
                         /\ cap \notin Known => x}
Tokens(term, x) ==
  [i \in 1 .. Cardinality(Listed(term, x)) |->
     LET cap == SetToSeq(Listed(term, x))[i] IN [cap |-> cap, value |-> term[cap]]]

(***************************************************************************)
(* infocmp of two terminals: ents1 and ents2 are sequences of [id, value], *)
(* sorted by id, a number.  The result is the sequence of the ids printed, *)
(* of the entries that differ, or with -c of those in common.              *)
(***************************************************************************)
SameValue(e1, e2, kind) == e1.value = e2.value /\ (kind = "str" => Valid(e1.value))

\* -c prints the entry after the one it compared, 0 if there is none
PrintCommon(ents1, i, same) ==
  IF ~same THEN <<>> ELSE IF i < Len(ents1) THEN <<ents1[i + 1].id>> ELSE <<0>>
PrintDifferent(id, same) == IF same THEN <<>> ELSE <<id>>

CompareEnts(ents1, ents2, kind, common) ==
  LET Compare[i \in 1 .. Len(ents1) + 1, j \in 1 .. Len(ents2) + 1] ==
        LET isFirst == i <= Len(ents1) /\ (j > Len(ents2) \/ ents1[i].id <= ents2[j].id)
            isSecond == j <= Len(ents2) /\ (i > Len(ents1) \/ ents2[j].id <= ents1[i].id)
            same == isFirst /\ isSecond /\ SameValue(ents1[i], ents2[j], kind)
            id == IF isFirst THEN ents1[i].id ELSE ents2[j].id
        IN  IF ~isFirst /\ ~isSecond THEN <<>>
            ELSE (IF common THEN PrintCommon(ents1, i, same) ELSE PrintDifferent(id, same))
                   \o Compare[IF isFirst THEN i + 1 ELSE i, IF isSecond THEN j + 1 ELSE j]
  IN  Compare[1, 1]

\* infocmp -n: what neither has; only what is absent counts
ShowMissing(term1, term2, kind) ==
  {cap \in Known : Kind[cap] = kind /\ term1[cap] = Absent /\ term2[cap] = Absent}

(***************************************************************************)
(* What infocmp -u promises: its output, compiled and merged with what it  *)
(* uses, is the terminal again.  It is not if a used terminal has a flag,  *)
(* a number or an extra capability the terminal lacks: a flag that is not  *)
(* set is not known to be absent, a cancelled number reads as a large one, *)
(* and what is added as cancelled has no type.                             *)
(***************************************************************************)
Rebuilt(term, used, x) ==
  FoldLeft(LAMBDA r, u : Merge(r, u, x),
           Compile([names |-> <<"rebuilt">>,
                    tokens |-> Tokens(UseTerms(Raw(term), [k \in DOMAIN used |-> Raw(used[k])]), x)], x).tic,
           used)
RebuildsTerm(term, used, x) == Description(Rebuilt(term, used, x)) = Description(term)

LacksOnlyStrings(term, used) ==
  \A k \in DOMAIN used : \A cap \in DOMAIN used[k].caps :
    cap \in DOMAIN term.caps \/ IsKind(cap, "str")
=============================================================================
