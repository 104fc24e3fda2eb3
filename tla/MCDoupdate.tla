----------------------------- MODULE MCDoupdate -----------------------------
(* Doupdate.tla on small screens, with the kinds of terminal it tells apart. *)
EXTENDS Doupdate, Tparm
Seqs == INSTANCE SequencesExt

Sp == [ch |-> "sp", colour |-> 0]

\* Automatic margins that wait and can be switched off, and scrollok().
Xterm == [rows |-> 2, cols |-> 2, colours |-> {0}, noqch |-> TRUE,
          el |-> 1, bce |-> FALSE, am |-> TRUE, xenl |-> TRUE, toggle |-> TRUE,
          insert |-> TRUE, scroll |-> TRUE, leave |-> FALSE]

\* No automatic margins and no clr_eol.
Dumb == [Xterm EXCEPT !.el = 0, !.am = FALSE, !.xenl = FALSE, !.toggle = FALSE,
                      !.scroll = FALSE]

\* The margins wrap at once, and nothing can be inserted.
NoInsert == [Xterm EXCEPT !.xenl = FALSE, !.toggle = FALSE, !.insert = FALSE,
                          !.scroll = FALSE]

\* The margins cannot be switched off, the corner has to be inserted.
Inserting == [Xterm EXCEPT !.toggle = FALSE, !.scroll = FALSE]

Terminals == {Xterm, Dumb, NoInsert, Inserting}

\* A short and a long clr_eol, clearing to the default or the current colour.
Colourful == {[Xterm EXCEPT !.rows = 1, !.cols = 3, !.colours = {0, 1}, !.scroll = FALSE,
                            !.el = e, !.bce = b] : e \in {1, 2}, b \in BOOLEAN}

\* Lines that quickch moves.
Scrolling == {[Dumb EXCEPT !.rows = 4, !.cols = 1, !.colours = {0, 1}, !.noqch = FALSE,
                           !.el = 1]}

Screens   == Terminals \cup Colourful \cup Scrolling
Left      == {[Dumb EXCEPT !.el = 1, !.leave = TRUE]}

-----------------------------------------------------------------------------
(* The strings of a terminal with parameters.                              *)
\* expressions and what they mean
Leaf(op, arg) == [kind |-> "leaf", op |-> op, arg |-> arg]
Leaves == {Leaf("p", 1), Leaf("p", 2), Leaf("push", 3)}
Nodes(left, right) == {[kind |-> "binary", op |-> op, y |-> y, x |-> x] : op \in BinaryOps, y \in left, x \in right}
Nots(of) == {[kind |-> "unary", op |-> op, x |-> x] : op \in UnaryOps, x \in of}
Flat == Nodes(Leaves, Leaves) \cup Nots(Leaves)
Expressions == Leaves \cup Flat \cup Nodes(Flat, {Leaf("p", 2)}) \cup Nodes({Leaf("p", 1)}, Flat) \cup Nots(Flat)

RECURSIVE Code(_), Meaning(_, _)
Code(e) == CASE e.kind = "leaf"   -> <<Token(e.op, e.arg)>>
             [] e.kind = "unary"  -> Append(Code(e.x), Token(e.op, 0))
             [] e.kind = "binary" -> Append(Code(e.y) \o Code(e.x), Token(e.op, 0))
Meaning(e, args) == CASE e.kind = "leaf"   -> IF e.op = "p" THEN args[e.arg].num ELSE e.arg
                      [] e.kind = "unary"  -> Unary(e.op, Meaning(e.x, args))
                      [] e.kind = "binary" -> Binary(e.op, Meaning(e.y, args), Meaning(e.x, args))

\* an "if" of conditions that are parameters, with or without an "else"
Say(c) == [kind |-> "say", c |-> c]
If(cases, else) == [kind |-> "if", cases |-> cases, else |-> else]
Simple == {<<>>, <<Say("x")>>}
Choice(bodies) == {If(cases, else) : cases \in Seqs!SeqOf([c : 1 .. 2, body : bodies], 2) \ {<<>>}, else \in bodies}
Programs == Choice(Simple \cup {<<p, Say("y")>> : p \in {If(<<[c |-> 2, body |-> <<Say("z")>>]>>, <<Say("w")>>)}})

RECURSIVE Written(_), Says(_, _)
Written(p) ==
  IF p.kind = "say" THEN <<Char(p.c)>>
  ELSE LET Block(b) == Seqs!FoldLeft(LAMBDA s, q : s \o Written(q), <<>>, b)
           Case(k) == <<Token("p", p.cases[k].c), Token("t", 0)>> \o Block(p.cases[k].body) \o <<Token("e", 0)>>
       IN  <<Token("?", 0)>> \o Seqs!FoldLeft(LAMBDA s, k : s \o Case(k), <<>>, [k \in DOMAIN p.cases |-> k])
             \o Block(p.else) \o <<Token(";", 0)>>
Says(p, args) ==
  IF p.kind = "say" THEN <<p.c>>
  ELSE LET Block(b) == Seqs!FoldLeft(LAMBDA s, q : s \o Says(q, args), <<>>, b)
           true == {k \in DOMAIN p.cases : args[p.cases[k].c].num # 0}
       IN  IF true = {} THEN Block(p.else) ELSE Block(p.cases[CHOOSE k \in true : \A l \in true : k <= l].body)

Numbers(values) == {[i \in 1 .. Params |-> IF i = 1 THEN Item(m, "q") ELSE Item(n, "q")] : m, n \in values}
Unknown == [v \in Variables |-> 7]
\* what is in the output, if nothing went wrong
Output(tokens, args) == LET m == Tiparm(tokens, args, Unknown, 3)
                        IN  IF m.failed \/ m.overrun THEN <<"wrong">> ELSE m.out

ASSUME EvaluatesExpressions ==
  \A e \in Expressions, args \in Numbers({-3, 0, 2}) :
    Output(Append(Code(e), Token("d", 0)), args) = <<AsInt(Meaning(e, args))>>
ASSUME TakesBranches ==
  \A p \in Programs, args \in Numbers({0, 1}) : Output(Written(p) \o <<Char("!")>>, args) = Says(p, args) \o <<"!">>
\* strings, and what is stored before it is used
ASSUME FindsStrings ==
  \A tokens \in Seqs!SeqOf({Token("p", 1), Token("p", 2), Token("s", 0), Token("s", 5), Token("l", 0), Token("d", 0), Char("x"), Char("%")}, 4) :
    AnalysesStrings(tokens)
\* a variable keeps its value; its name is sent along both times
ASSUME KeepsVariables ==
  \A v \in Variables, args \in Numbers({-3, 2}) :
    Output(<<Token("p", 1), Token("P", v), Token("i", 0), Token("p", 2), Token("g", v), Token("-", 0), Token("d", 0)>>, args)
      = <<v, v, AsInt(args[2].num + 1 - args[1].num)>>
\* only the room of the stack is not watched
ASSUME StackOverruns ==
  \A n \in 1 .. 5 : (Output([j \in 1 .. n |-> Token("p", 1)], CHOOSE args \in Numbers({0}) : TRUE) = <<"wrong">>) = (n > 3)

PieceSet == {[mark |-> "text", text |-> <<"x">>], [mark |-> "text", text |-> <<"$">>],
             Delay(5, <<>>), Delay(2, <<"*">>), Delay(5, <<"/">>)}
ASSUME SendsDelays ==
  \A pieces \in Seqs!SeqOf(PieceSet, 3), dodelay \in BOOLEAN, tenths \in {0, 7, 20} : SendsPieces(pieces, 3, tenths, dodelay)
\* padding is for terminals that need it, and for the bell; strings are compared
\* by address, a bell with the text of another string is that string here
ASSUME PadsWhereNeeded ==
  \A s \in {<<"x", "$", "<", "9", ">">>, <<"$", "<", "4", "/", ">">>}, bell \in {<<"x", "$", "<", "9", ">">>, <<"x">>},
     xon \in BOOLEAN, rate \in 0 .. 1 :
    LET sent == TiPuts([bell |-> bell, flash |-> <<"y">>, xon |-> xon, padding_rate |-> rate], s, 1, 10)
    IN  (Pad \in {sent[i] : i \in DOMAIN sent}) = (s[1] = "$" \/ s = bell \/ (~xon /\ rate = 1))
\* a number, a point, "*" and "/" at the beginning; "*" and "/" together
ASSUME LosesDelays ==
  /\ \A c \in {"1", ".", "*", "/"} : LosesHead(<<c, "x">>)
  /\ Puts(<<"$", "<", "5", "*", "/", ">", "x">>, 1, 7, FALSE) = <<">", "x">>
=============================================================================
