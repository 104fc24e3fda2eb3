----------------------------- MODULE MCKeyInput -----------------------------
(* KeyInput.tla with small keymaps and some ways to call wgetch(), and the  *)
(* keymaps themselves for short sequences.                                  *)
EXTENDS KeyInput, KeySequences

Win(keypad, delay, notimeout) == [keypad |-> keypad, delay |-> delay, notimeout |-> notimeout]

\* An escape sequence and a key of its own, which is also part of it.
DeleteMap == {<<"e", "l", "u">>, <<"l">>}
UpOnly    == {<<"e", "l", "u">>}

KeypadCalls == {Win(TRUE, "block", FALSE), Win(TRUE, "block", TRUE),
                Win(TRUE, "poll", FALSE), Win(TRUE, "timed", FALSE), Win(TRUE, "timed", TRUE)}
RawCalls    == {Win(FALSE, "block", FALSE), Win(FALSE, "poll", FALSE),
                Win(FALSE, "timed", FALSE)}

\* Programs that use one kind of window; signals come while they wait for a
\* first key.  The second changes the modes of the terminal.
Keypad == [calls |-> KeypadCalls, echo |-> FALSE, flushes |-> FALSE, cooks |-> FALSE,
           ungets |-> 0, signals |-> {"norm"}]
Cooked == [Keypad EXCEPT !.echo = TRUE, !.cooks = TRUE]
Raw    == [Keypad EXCEPT !.calls = RawCalls, !.flushes = TRUE, !.ungets = 2,
                         !.signals = {"raw"}]

UsualPrograms == {Keypad, Cooked, Raw}

\* They are programs the properties are about.
ASSUME ProgramsUsual == SymbolsFit /\ \A p \in Programs : OneKind(p) /\ Undisturbed(p) /\ EchoesKeypad(p)

-----------------------------------------------------------------------------
Typed == SeqOf({"e", "l"}, 3)
Symbols == {1, 2}
\* the keymaps two definitions make, and those with a symbol deleted
DefinedFrom(maps) ==
  maps \cup {DefineKey(m, s, symbol).map : m \in maps, s \in Typed, symbol \in Symbols}
Sound(maps) == {m \in maps : NoneHides(m)}
Maps == LET two == Sound(DefinedFrom(DefinedFrom({NewKeymap})))
        IN  two \cup {UndefineKey(m, 1).map : m \in two}
Tables == [1 .. 2 -> [has : BOOLEAN, string : SeqOf({"e", "l"}, 2), symbol : Symbols]]
FollowsInTable(table) ==
  \E i, k \in DOMAIN table : k < i /\ table[k].has /\ IsStrictPrefix(Sequence(table[k].string), table[i].string)

\* define_key() gives a new sequence its symbol and leaves the others alone
ASSUME DefinesSequences ==
  \A m \in Maps : LeadsOn(m) /\ \A s \in Typed, symbol \in Symbols :
    FollowsLeaf(m, s) \/ (NoneHides(DefineKey(m, s, symbol).map) /\ Defines(m, s, symbol, Typed))
\* define_key() without a sequence takes a symbol away, keyok() can bring it back
ASSUME DeletesSymbols == \A m \in Maps : \A symbol \in Symbols : Deletes(m, symbol, Typed)
\* the keymap of a terminal has the first string of several
ASSUME TerminalKeys == \A table \in Tables : FollowsInTable(table) \/ FirstWins(table, 3)
=============================================================================
