----------------------------- MODULE MCTerminfo -----------------------------
(* Terminal databases for TLC: a terminal that uses others, which have     *)
(* short or long numbers, and the data structures below them.              *)
EXTENDS Terminfo, TermString, TLC

KindDef == [cols |-> "num", cup |-> "str", am |-> "flag"]

Token(c, v) == [cap |-> c, value |-> v]
Entry(names, tokens) == [names |-> names, tokens |-> tokens]
Use(names) == [k \in DOMAIN names |-> Token("use", names[k])]

BaseEntries == {Entry(<<"base">>, <<Token("cols", 1), Token("am", 1), Token("X", 1)>>),
                Entry(<<"base", "bs">>, <<Token("cup", 1), Token("cols", 9)>>),
                Entry(<<"base">>, <<Token("cols", 1), Token("use", "top")>>)}
PlainEntry == Entry(<<"plain">>, <<Token("cup", 2), Token("am", 1)>>)
TopEntries ==
  {Entry(<<"top", "tp">>, own \o Use(uses)) :
     own \in {<<Token("cup", 3)>>, <<Token("am", Cancelled), Token("cup", Cancelled)>>,
             <<Token("cols", Cancelled)>>},
     uses \in {<<>>, <<"base">>, <<"base", "plain">>, <<"plain", "base">>, <<"top", "none", "base">>, <<"bs">>}}
Orders(b, t) == {<<b, PlainEntry, t>>, <<t, b, PlainEntry>>}
SystemSources == UNION {Orders(b, t) : b \in BaseEntries, t \in TopEntries}
Job(target, source, args) == [target |-> target, source |-> source, x |-> TRUE, args |-> args]
\* a first system database, then another one or one at home
JobSetsDef ==
  <<{Job("system", source, <<>>) : source \in SystemSources},
    {Job("home", <<Entry(<<"top">>, <<Token("cup", 4)>>)>>, <<>>),
     Job("home", <<Entry(<<"base">>, <<Token("cols", 12)>>), Entry(<<"top", "base">>, Use(<<"base">>))>>, <<"top">>),
     Job("system", <<Entry(<<"base", "bs">>, <<Token("cols", 10)>>), Entry(<<"top", "tp">>, Use(<<"base">>))>>, <<>>)}>>
QueriesDef == {[name |-> n, paths |-> <<"home", "system">>, entry |-> NoEntry] : n \in {"base", "top", "tp"}}
  \cup {[name |-> "top", paths |-> <<"system">>, entry |-> Entry(<<"top">>, <<Token("cols", 9), Token("X", 1)>>)],
        [name |-> "base", paths |-> <<"home">>, entry |-> Entry(<<"top">>, <<>>)]}

(* The constant database: keys that are names of terminals, and seeds of   *)
(* which some do not do.                                                   *)
HashOf(n, seed) == <<n * 7 + seed * 3, n * n + 5 * seed, (n * 13 + seed) % 11>>
HashDef == [seed \in 0 .. 3 |-> [n \in 1 .. 4 |-> HashOf(n, seed)]]
Datums(lens) == [k \in DOMAIN lens |-> [len |-> lens[k]]]
WithData(lens) == FoldLeft(LAMBDA db, d : PutData(db, d).db, EmptyDb, Datums(lens))
WithKeys(db, idx) == FoldSet(LAMBDA k, d : PutKey(d, k, idx[k]).db, db, DOMAIN idx)
Dbs == UNION {{WithKeys(WithData(lens), idx) : idx \in UNION {[ks -> 0 .. Len(lens) - 1] : ks \in SUBSET (1 .. 3)}} :
              lens \in UNION {[1 .. n -> {0, 1, 3, 9}] : n \in 1 .. 2}}

\* The reader of a constant database finds the data of every key where the
\* writer put it, and something for other keys; a file that is cut short is
\* refused.
FileRight(file, db) ==
  /\ file.dataAt = ReaderDataBase(file)
  /\ FitsIndex(db) => FindsKeys(file, db)
  /\ db.keys # <<>> => FindsSomething(file, db, 1 .. 4)
  /\ Opens(file, file.length)
  /\ file.dataSize > 0 => ~Opens(file, file.length - 1)
ASSUME DatabaseReadsBack == \A db \in Dbs : FileRight(Output(db), db)

\* A key is put once, and what its put added is taken back otherwise.
ASSUME PutOnce ==
  \A db \in Dbs : \A n \in 1 .. 3 :
    Put(db, n, [len |-> 1]) = IF HasKey(db, n) THEN Refused(db)
                              ELSE PutKey(PutData(db, [len |-> 1]).db, n, Len(db.data))

(* Perfect hashing: all graphs with three edges on five vertices.          *)
Triples == {t \in (0 .. 4) \X (0 .. 4) \X (0 .. 4) : t[1] # t[2] /\ t[1] < t[3] /\ t[2] # t[3]}
Pairs == {t \in (0 .. 4) \X (0 .. 4) : t[1] < t[2]}
Sorted3 == {t \in Triples : t[1] < t[2] /\ t[2] < t[3]}

\* Peeling decides whether the graph is acyclic, and then every key is found.
ASSUME GraphsPeel ==
  /\ \A edges \in [0 .. 2 -> Sorted3] \cup [0 .. 1 -> Triples] :
       PeelsAcyclic(edges, 5) /\ ChmFinds(edges, 5) /\ BdzFinds(edges, 5, 2, 4)
  /\ \A edges \in [0 .. 3 -> Pairs] : PeelsAcyclic(edges, 5) /\ ChmFinds(edges, 5)

\* Equal hash values are told apart, in nbperf and in what it generates.
ASSUME HashesToldApart ==
  \A a, b, c \in 0 .. 7 : ToldApart(<<a, b, c>>, 8) /\ ToldApart(<<a, b>>, 8)

\* Without -c there are as many vertices as random graphs need to have no cycle,
\* 2 and 1.24 for each key; chm3 rounds down where bdz rounds up.
ASSUME EnoughVertices ==
  \A n \in 1 .. 300, fudge \in BOOLEAN :
    /\ ChmSize(n, fudge) > 2 * n
    /\ 100 * BdzSize(n, fudge) >= 124 * n
    /\ 100 * (Chm3Size(n, fudge) + 1) > 124 * n
    /\ fudge => BdzSize(n, fudge) % 4 = 0 /\ Chm3Size(n, fudge) % 4 = 0

\* nbperf ends with a function for keys that differ, or finds the equal ones.
ASSUME NbperfDecides ==
  \A keys \in [0 .. 2 -> 1 .. 3] : \A i, j \in {1, 2, Word - 1} :
    LET tries(n) == [k \in 1 .. 3 |-> [e \in 0 .. 2 |-> LET h == HashOf(keys[e], k + n) IN <<h[1] % 7, h[2] % 7, h[3] % 7>>]]
    IN  \A fudge \in BOOLEAN : NbperfRight(keys, Nbperf(fudge, keys, tries(i), 8, j).result)

(* Strings and descriptions.                                               *)
Chars == {Escape, FormFeed, Delete, Nul, Blank, Percent, Comma, Caret, 7, 97, Question, 48, 200}
\* tic reads what infocmp writes, except for the strings that are not Plain.
ASSUME StringsReadBack ==
  /\ \A str \in UNION {[1 .. n -> Chars] : n \in 0 .. 2} :
       Plain(str) => ReadsAsWritten(str) /\ ReadsAsWritten(<<97, 97>> \o str)
  /\ \A str \in {<<Backslash>>, <<Percent, 7>>, <<Nul, 48>>} : ~ReadsAsWritten(str)

Tic(caps) == [NewTic(<<"t">>) EXCEPT !.caps = caps]
Tics == {Tic(caps) : caps \in UNION {[ks -> {1, 2}] : ks \in {{}, {"cup"}, {"cols"}, {"cup", "cols"}}}}
          \cup {Tic([am |-> 1, cup |-> 1]), Tic([am |-> 1, cols |-> 1]), Tic([X |-> 1, cup |-> 2])}
\* infocmp -u takes a terminal apart so that tic puts it together again.
ASSUME UseRebuilds ==
  \A term, u1, u2 \in Tics :
    LacksOnlyStrings(term, <<u1, u2>>) => RebuildsTerm(term, <<u1, u2>>, TRUE)

Ents == UNION {{[k \in DOMAIN ids |-> [id |-> ids[k], value |-> vs[k]]] : vs \in [DOMAIN ids -> {1, Cancelled}]} :
               ids \in {<<>>, <<1>>, <<2>>, <<1, 2>>, <<1, 3>>, <<2, 3>>}}
ValueIn(ents, id) ==
  LET at == {k \in DOMAIN ents : ents[k].id = id} IN IF at = {} THEN Absent ELSE ents[Min(at)].value
\* infocmp of two terminals shows every capability that differs, in order.
ASSUME ShowsDifferences ==
  \A e1, e2 \in Ents : CompareEnts(e1, e2, "num", FALSE) =
    SelectSeq(<<1, 2, 3>>, LAMBDA id : ValueIn(e1, id) # ValueIn(e2, id))

\* infocmp -n lists what neither terminal describes, but no flag: one that is
\* not set is not known to be absent.
ASSUME ShowsMissing ==
  \A t1, t2 \in Tics : \A kind \in {"flag", "num", "str"} :
    ShowMissing(Raw(t1), Raw(t2), kind) =
      {cap \in Known : IsKind(cap, kind) /\ kind # "flag" /\ cap \notin DOMAIN t1.caps \cup DOMAIN t2.caps}
=============================================================================
