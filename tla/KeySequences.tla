---------------------------- MODULE KeySequences ----------------------------
(***************************************************************************)
(* The keymaps of lib/libcurses/getch.c: how sequences of keys are given   *)
(* symbols, lose them and are disabled, and what symbol the keys typed     *)
(* become.  KeyInput.tla has the timing; here all keys are there at once.  *)
(*                                                                         *)
(* The keymaps of a screen are a tree of which every entry is reached by   *)
(* one sequence of keys: a function from these sequences to the entries,   *)
(* of which one is "multi" if it leads on to another keymap.               *)
(***************************************************************************)
EXTENDS Integers, SequencesExt

NulKey == "nul"                  \* the key of code 0
NoSymbol == 0

Multi == [type |-> "multi", symbol |-> NoSymbol, enable |-> TRUE]
Leaf(symbol) == [type |-> "leaf", symbol |-> symbol, enable |-> TRUE]

NewKeymap == <<>>

IsLeafAt(map, keys) == keys \in DOMAIN map /\ map[keys].type = "leaf"
LeavesOf(map, symbol) == {keys \in DOMAIN map : IsLeafAt(map, keys) /\ map[keys].symbol = symbol}

(***************************************************************************)
(* Adding.                                                                 *)
(***************************************************************************)
\* add_new_key: an entry that is there stays as it is, whatever it is
AddNewKey(map, keys, entry) == map @@ (keys :> entry)

\* a terminfo string that begins with the key of code 0 is an empty one
Sequence(sequence) == IF sequence = <<>> THEN <<NulKey>> ELSE sequence
AddKeySequence(map, sequence, symbol) ==
  LET keys == Sequence(sequence)
      Add(m, j) == AddNewKey(m, SubSeq(keys, 1, j), IF j = Len(keys) THEN Leaf(symbol) ELSE Multi)
  IN  FoldLeft(Add, map, [j \in 1 .. Len(keys) |-> j])

\* add_key_sequence takes the symbol of a leaf for the keymap behind it: what
\* comes of that is not defined
FollowsLeaf(map, sequence) ==
  \E j \in 1 .. Len(sequence) - 1 : IsLeafAt(map, SubSeq(sequence, 1, j))

\* __init_getch: the strings of the terminal, in the order of the table tc;
\* those it does not have, or that do not fit, are skipped
InitGetch(table, limit) ==
  FoldLeft(LAMBDA m, t : IF ~t.has \/ Len(t.string) + 1 > limit THEN m
                         ELSE AddKeySequence(m, t.string, t.symbol),
           NewKeymap, table)

(***************************************************************************)
(* Removing and disabling: no entry ever goes away, count does not go down.*)
(***************************************************************************)
Enabling(map, symbol, flag) ==
  [keys \in DOMAIN map |-> IF keys \in LeavesOf(map, symbol) THEN [map[keys] EXCEPT !.enable = flag]
                           ELSE map[keys]]
DeleteKeySequence(map, symbol) == Enabling(map, symbol, FALSE)

Refuses(map) == [ok |-> FALSE, map |-> map]
Gives(map) == [ok |-> TRUE, map |-> map]

\* define_key: without a sequence, those of the symbol are deleted
DefineKey(map, sequence, symbol) ==
  IF symbol <= 0 THEN Refuses(map) ELSE Gives(AddKeySequence(map, sequence, symbol))
UndefineKey(map, symbol) ==
  IF symbol <= 0 THEN Refuses(map) ELSE Gives(DeleteKeySequence(map, symbol))
\* keyok and has_key: whether any entry has the symbol, disabled or not
SetKeyOk(map, symbol, flag) == [ok |-> LeavesOf(map, symbol) # {}, map |-> Enabling(map, symbol, flag)]
HasKey(map, symbol) == LeavesOf(map, symbol) # {}

(***************************************************************************)
(* Reading: inkey when no key is late.                                     *)
(***************************************************************************)
\* how many keys it looks at: up to one that leads nowhere or ends a sequence
LooksAt(map, keys) ==
  LET ends == {j \in 1 .. Len(keys) : SubSeq(keys, 1, j) \notin DOMAIN map \/ IsLeafAt(map, SubSeq(keys, 1, j))}
  IN  IF ends = {} THEN 0 ELSE CHOOSE j \in ends : \A k \in ends : j <= k
IsSymbol(map, keys) == IsLeafAt(map, keys) /\ map[keys].enable
Took(symbol, n) == [symbol |-> symbol, keys |-> n]
\* the symbol and the keys it takes; a key that is none is given back alone
Inkey(map, keys) ==
  LET seen == SubSeq(keys, 1, LooksAt(map, keys))
  IN  IF IsSymbol(map, seen) THEN Took(map[seen].symbol, Len(seen)) ELSE Took(NoSymbol, 1)

(***************************************************************************)
(* What a program may count on, as long as it defines no sequence that     *)
(* goes on from another one.                                               *)
(***************************************************************************)
\* no symbol hides behind another: KeyInput is given only such keymaps
NoneHides(map) ==
  \A p, q \in DOMAIN map : IsStrictPrefix(p, q) => map[p].type = "multi"
LeadsOn(map) ==
  \A p \in DOMAIN map : map[p].type = "multi" => \E q \in DOMAIN map : IsStrictPrefix(p, q)

\* a new sequence gives its symbol and no other sequence another one; one that
\* is there, or that another goes on from, is not defined, though define_key()
\* says it is
IsNew(map, sequence) == Sequence(sequence) \notin DOMAIN map
Defines(map, sequence, symbol, typed) ==
  LET new == DefineKey(map, sequence, symbol).map
  IN  /\ IsNew(map, sequence) => Inkey(new, Sequence(sequence)) = Took(symbol, Len(Sequence(sequence)))
      /\ ~IsNew(map, sequence) => new = map
      /\ \A keys \in typed : Inkey(new, keys) # Inkey(map, keys) => IsPrefix(Sequence(sequence), keys)

\* a symbol that is deleted is not seen again, and the others still are; yet
\* has_key() has it, keyok() brings it back and its sequences stay taken
Deletes(map, symbol, typed) ==
  LET new == UndefineKey(map, symbol).map
  IN  /\ \A keys \in typed :
           Inkey(new, keys) = IF Inkey(map, keys).symbol = symbol THEN Took(NoSymbol, 1) ELSE Inkey(map, keys)
      /\ HasKey(new, symbol) = HasKey(map, symbol)
      /\ \A keys \in LeavesOf(map, symbol) : Inkey(SetKeyOk(new, symbol, TRUE).map, keys).symbol = symbol

\* a string of a terminal gives its symbol if no earlier one is equal or goes on from it
FirstWins(table, limit) ==
  \A i \in DOMAIN table :
    LET t == table[i]
        before == {k \in 1 .. i - 1 : table[k].has /\ IsPrefix(Sequence(t.string), Sequence(table[k].string))}
    IN  t.has /\ Len(t.string) < limit /\ before = {} =>
          IsSymbol(InitGetch(table, limit), Sequence(t.string))
            /\ Inkey(InitGetch(table, limit), Sequence(t.string)).symbol = t.symbol
=============================================================================
