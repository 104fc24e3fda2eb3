------------------------------ MODULE Terminfo ------------------------------
(***************************************************************************)
(* Terminal databases: tic compiles a source and replaces a database by    *)
(* it, while programs look terminals up.                                   *)
(*                                                                         *)
(* A job of tic is [target, source, x, args]: the database it writes, the  *)
(* sequence of the entries of the source, whether -x is given, and the     *)
(* terminals it is told to write, all if there are none.  A query is       *)
(* [name, paths, entry]: the databases a program looks into, and the entry *)
(* $TERMINFO holds, if any.                                                *)
(***************************************************************************)
EXTENDS TermDesc, Cdb

CONSTANTS Places,     \* the databases
          JobSets,    \* the jobs of tic, a set for each time it is run
          Queries,    \* what programs look up
          Cases       \* the troublesome cases that may happen

VARIABLES tic,        \* tic: its phase and job, where it is in its lists, the counters and the
                      \* flag of merge_use, what it saved and the ids the terms have there
          terms,      \* the list of tic: [name, base, tic], base the term of an alias, or 0
          dbs,        \* per place: [job, db], the job only to tell what was to be written
          runs,       \* how often tic was started
          reader      \* [query, step, result], and may, what it may find

Jobs == UNION Range(JobSets)

vars == <<tic, terms, dbs, runs, reader>>

NoEntry == [names |-> <<>>, tokens |-> <<>>]
NoJob == [target |-> "none", source |-> <<>>, x |-> FALSE, args |-> <<>>]
NoDb == [job |-> NoJob, db |-> EmptyDb]
NotFoundTerm == [none |-> 0]

(***************************************************************************)
(* tic: the terms.                                                         *)
(***************************************************************************)
\* find_term: 0 if there is none; the first one entered is found
Named(ts, name) == {i \in DOMAIN ts : ts[i].name = name}
FindTerm(ts, name) == Min(Named(ts, name) \cup {Len(ts) + 1}) % (Len(ts) + 1)
OneOf(first, second) == IF first # 0 THEN first ELSE second
FindNewestTerm(ts, name) == OneOf(FindTerm(ts, GetName(3, name)), FindTerm(ts, name))

AliasTerm(ts, name, base) ==
  IF Named(ts, name) # {} THEN ts ELSE Append(ts, [name |-> name, base |-> base, tic |-> NewTic(<<>>)])
AliasTerms(ts, names, base) ==
  FoldLeft(LAMBDA all, name : AliasTerm(all, name, base), ts, Tail(names))
StoreTerm(ts, t) ==
  AliasTerms(Append(ts, [name |-> t.names[1], base |-> 0, tic |-> t]), t.names, Len(ts) + 1)

\* an entry of version 3 is compiled again as version 1, from what the first
\* time has left of its text: its name
StoreCompat(ts, t) == IF t.ver = 3 THEN StoreTerm(ts, NewTic(<<t.names[1][1]>>)) ELSE ts
StoreCompiled(ts, compiled) ==
  IF ~compiled.ok \/ Named(ts, compiled.tic.names[1]) # {} THEN ts
  ELSE StoreCompat(StoreTerm(ts, compiled.tic), compiled.tic)

(***************************************************************************)
(* tic: merging the terms a term uses.                                     *)
(***************************************************************************)
BaseOf(ts, i) == IF i # 0 /\ ts[i].base # 0 THEN ts[i].base ELSE i
UsedTerm(ts, name, r) == BaseOf(ts, OneOf(FindTerm(ts, <<name, r.ver>>), FindTerm(ts, <<name, 1>>)))

\* promote: term i is copied as version 3 if what it uses has a version 3
Promote(ts, i, u) ==
  IF ts[FindNewestTerm(ts, ts[i].name)].tic.ver >= ts[FindNewestTerm(ts, ts[u].name)].tic.ver THEN ts
  ELSE StoreTerm(ts, Promoted(ts[i].tic))

DropUse(ts, i) == [ts EXCEPT ![i].tic.uses = Tail(@)]
MergeTerm(ts, i, u, x) == [ts EXCEPT ![i].tic = Merge(@, ts[u].tic, x)]

\* the first use of term i is dropped if it is none or the term itself
IsVoid(ts, i, u) == u = 0 \/ u = i \/ ts[i].tic.names[1][1] = Head(ts[i].tic.uses)
\* promote is called once for a term in a pass
Promotes(ts, i, promoted) == ~promoted /\ ts[i].tic.ver # 3
UseTerm(ts, i, u, promoted, x) ==
  MergeTerm(IF Promotes(ts, i, promoted) THEN Promote(ts, i, u) ELSE ts, i, u, x)

(***************************************************************************)
(* tic: writing the terms.                                                 *)
(***************************************************************************)
AliasDatum(id) == [len |-> 1, isAlias |-> TRUE, id |-> id, tic |-> NewTic(<<>>)]
TermDatum(t) == [len |-> 1, isAlias |-> FALSE, id |-> 0, tic |-> t]

\* save_term; the id of a base that is not saved before its alias is 0
PutTerm(put, name, id) == IF put.ok THEN PutKey(put.db, name, id) ELSE put
SaveTerm(db, ids, term) ==
  IF term.base # 0 THEN Put(db, term.name, AliasDatum(ids[term.base]))
  ELSE PutTerm(PutData(db, TermDatum(term.tic)), term.name, Len(db.data))

\* the arguments there is no terminal for are passed over
Arguments(ts, args) ==
  SelectSeq([i \in DOMAIN args |-> FindNewestTerm(ts, <<args[i], 1>>)], LAMBDA i : i # 0)
Chosen(ts, args) == IF args = <<>> THEN [i \in DOMAIN ts |-> i] ELSE Arguments(ts, args)

(***************************************************************************)
(* What a source means.  The first entry that claims a name has it; an     *)
(* entry whose own name is taken is dropped.  What an entry does not say   *)
(* itself it takes from the entries it uses, in their order; what it       *)
(* cancels stays unset.                                                    *)
(***************************************************************************)
Claim(owners, source, i) ==
  IF source[i].names[1] \in DOMAIN owners THEN owners
  ELSE [n \in DOMAIN owners \cup Range(source[i].names) |-> IF n \in DOMAIN owners THEN owners[n] ELSE i]
Owners(source) ==
  FoldLeft(LAMBDA owners, i : Claim(owners, source, i), <<>>, [i \in DOMAIN source |-> i])

Says(entry) == {entry.tokens[k].cap : k \in DOMAIN entry.tokens} \ {"use"}
Own(entry) ==
  [cap \in Says(entry) |->
     entry.tokens[Min({k \in DOMAIN entry.tokens : entry.tokens[k].cap = cap})].value]
Uses(entry) ==
  LET tokens == SelectSeq(entry.tokens, LAMBDA t : t.cap = "use")
  IN  [k \in DOMAIN tokens |-> tokens[k].value]

\* what entry i uses, as numbers of entries
UsedEntries(source, owners, i) ==
  LET uses == SelectSeq(Uses(source[i]), LAMBDA u : u \in DOMAIN owners /\ owners[u] # i)
  IN  [k \in DOMAIN uses |-> owners[uses[k]]]

Inheriting(own, used) ==
  LET all == DOMAIN own \cup UNION {DOMAIN used[k] : k \in DOMAIN used}
  IN  [cap \in all |-> IF cap \in DOMAIN own THEN own[cap]
                       ELSE used[Min({k \in DOMAIN used : cap \in DOMAIN used[k]})][cap]]
SetIn(caps) == [cap \in {c \in DOMAIN caps : Valid(caps[c])} |-> caps[cap]]

\* entries that use themselves through others mean nothing
Circular == [circular |-> 0]
Meanings(source, owners) ==
  LET M[d \in 0 .. Len(source), i \in DOMAIN source] ==
        LET used == UsedEntries(source, owners, i)
            meant == [k \in DOMAIN used |-> M[d - 1, used[k]]]
        IN  IF d = 0 \/ \E k \in DOMAIN used : meant[k] = Circular THEN Circular
            ELSE SetIn(Inheriting(Own(source[i]), meant))
  IN  [i \in DOMAIN source |-> M[Len(source), i]]

(***************************************************************************)
(* The cases in which a database does not hold what its source means.      *)
(***************************************************************************)
IsBigEntry(entry) ==
  \E k \in DOMAIN entry.tokens : entry.tokens[k].cap # "use" /\ entry.tokens[k].value > MaxShort
\* whether entry i gets a version 3 record: through its first use, if not itself
GetsV3(source, owners) ==
  LET V[d \in 0 .. Len(source), i \in DOMAIN source] ==
        LET used == UsedEntries(source, owners, i)
        IN  IsBigEntry(source[i]) \/ (d > 0 /\ used # <<>> /\ V[d - 1, Head(used)])
  IN  {i \in DOMAIN source : V[Len(source), i]}

Troubles(source, x, owners, v3) ==
  LET tokens(i) == {source[i].tokens[k] : k \in DOMAIN source[i].tokens}
      own(i) == source[i].names[1]
  IN  {c \in {"cancelled"} : \E i \in DOMAIN source : \E t \in tokens(i) :
                               t.cap # "use" /\ t.value = Cancelled /\ IsKind(t.cap, "num")}
      \cup {c \in {"alias"} : \E i \in v3 :
             \/ Len(source[i].names) > 2
             \/ IsBigEntry(source[i]) /\ \E j \in DOMAIN source : \E t \in tokens(j) :
                  t.cap = "use" /\ t.value \in Range(source[i].names) \ {own(i)}}
      \cup {c \in {"second"} : \E i \in DOMAIN source \ v3 :
             \E k \in DOMAIN UsedEntries(source, owners, i) : UsedEntries(source, owners, i)[k] \in v3}
      \cup {c \in {"extra"} : \E i \in DOMAIN source :
             \E k \in DOMAIN source[i].tokens :
               LET cap == source[i].tokens[k].cap
               IN  /\ cap \notin Known \cup {"use"}
                   /\ ~x \/ \E l \in 1 .. k - 1 : source[i].tokens[l].cap = cap}
TroublesOf[job \in Jobs] ==
  Troubles(job.source, job.x, Owners(job.source), GetsV3(job.source, Owners(job.source)))

(***************************************************************************)
(* What a program may find.                                                *)
(***************************************************************************)
Means(source, owners) ==
  [name \in DOMAIN owners |-> Meanings(source, owners)[owners[name]]]
MeaningOf[job \in Jobs \cup {NoJob}] == Means(job.source, Owners(job.source))
JobMeans(job, name) == MeaningOf[job][name]
\* a terminal that was not among the arguments may be found or not
MayMiss(job, name) ==
  name \notin DOMAIN MeaningOf[job] \/ (job.args # <<>> /\ name \notin Range(job.args))

\* the meaning in the first database that has it; all tells what they were made from
MayFindIn(paths, all, name) ==
  LET reached == {k \in DOMAIN paths : \A l \in 1 .. k - 1 : MayMiss(all[paths[l]].job, name)}
      missed == \A k \in DOMAIN paths : MayMiss(all[paths[k]].job, name)
  IN  {JobMeans(all[paths[k]].job, name) : k \in {l \in reached : name \in DOMAIN MeaningOf[all[paths[l]].job]}}
        \cup {r \in {NotFoundTerm} : missed}

InEntry(query) == query.name \in Range(query.entry.names)
MayFind(query, all) ==
  IF InEntry(query) THEN {SetIn(Own(query.entry))} ELSE MayFindIn(query.paths, all, query.name)

(***************************************************************************)
(* tic.                                                                    *)
(***************************************************************************)
\* every entry, compiled
Sources == {job.source : job \in Jobs}
Compiled[entry \in UNION {Range(source) : source \in Sources}, x \in BOOLEAN] == Compile(entry, x)

Idle == [phase |-> "idle", job |-> NoJob, at |-> 0, merged |-> 0, promoted |-> FALSE,
         saved |-> EmptyDb, ids |-> <<>>]
Nothing == [name |-> "none", paths |-> <<>>, entry |-> NoEntry]

Init ==
  /\ tic = Idle
  /\ terms = <<>>
  /\ dbs = [p \in Places |-> NoDb]
  /\ runs = 0
  /\ reader = [query |-> Nothing, step |-> 0, result |-> NotFoundTerm, may |-> {NotFoundTerm}]

StartJob(job) ==
  /\ tic.phase = "idle"
  /\ runs < Len(JobSets)
  /\ job \in JobSets[runs + 1]
  /\ TroublesOf[job] \subseteq Cases
  /\ tic' = [Idle EXCEPT !.phase = "reading", !.job = job, !.at = 1]
  /\ terms' = <<>>
  /\ runs' = runs + 1
  /\ UNCHANGED <<dbs, reader>>

ProcessEntry ==
  /\ tic.phase = "reading"
  /\ tic.at <= Len(tic.job.source)
  /\ terms' = StoreCompiled(terms, Compiled[tic.job.source[tic.at], tic.job.x])
  /\ tic' = [tic EXCEPT !.at = @ + 1]
  /\ UNCHANGED <<dbs, runs, reader>>

EndOfSource ==
  /\ tic.phase = "reading"
  /\ tic.at > Len(tic.job.source)
  /\ tic' = [tic EXCEPT !.phase = "merging", !.at = 1]
  /\ UNCHANGED <<terms, dbs, runs, reader>>

\* merge_use, a use at a time: the terms in turn, and the uses of each until
\* one is of a term that has uses itself
AtTerm == tic.phase = "merging" /\ tic.at <= Len(terms)
Used == UsedTerm(terms, Head(terms[tic.at].tic.uses), terms[tic.at].tic)

NextTerm ==
  /\ AtTerm
  /\ terms[tic.at].base # 0 \/ terms[tic.at].tic.uses = <<>>
  /\ tic' = [tic EXCEPT !.at = @ + 1, !.promoted = FALSE]
  /\ UNCHANGED <<terms, dbs, runs, reader>>

\* with a use taken out the counter goes up, whether anything was merged or not
RemoveUse ==
  /\ AtTerm
  /\ terms[tic.at].tic.uses # <<>>
  /\ IsVoid(terms, tic.at, Used)
  /\ terms' = DropUse(terms, tic.at)
  /\ tic' = [tic EXCEPT !.merged = @ + 1]
  /\ UNCHANGED <<dbs, runs, reader>>

MergeUse ==
  /\ AtTerm
  /\ terms[tic.at].tic.uses # <<>>
  /\ \E u \in {Used} :
       /\ ~IsVoid(terms, tic.at, u)
       /\ terms[u].tic.uses = <<>>
       /\ terms' = DropUse(UseTerm(terms, tic.at, u, tic.promoted, tic.job.x), tic.at)
  /\ tic' = [tic EXCEPT !.merged = @ + 1, !.promoted = TRUE]
  /\ UNCHANGED <<dbs, runs, reader>>

SkipUse ==
  /\ AtTerm
  /\ terms[tic.at].tic.uses # <<>>
  /\ \E u \in {Used} : ~IsVoid(terms, tic.at, u) /\ terms[u].tic.uses # <<>>
  /\ tic' = [tic EXCEPT !.at = @ + 1, !.promoted = FALSE]
  /\ UNCHANGED <<terms, dbs, runs, reader>>

\* mutant of EndOfPass: as long as there is a use
EndOfPassWithoutUses ==
  /\ tic.phase = "merging"
  /\ tic.at > Len(terms)
  /\ tic' = [tic EXCEPT !.phase = IF \E i \in DOMAIN terms : terms[i].tic.uses # <<>> THEN "merging" ELSE "writing",
                        !.at = 1, !.merged = 0, !.ids = [i \in DOMAIN terms |-> 0]]
  /\ UNCHANGED <<terms, dbs, runs, reader>>
\* as long as a pass merged something there is another
EndOfPass ==
  /\ tic.phase = "merging"
  /\ tic.at > Len(terms)
  /\ tic' = [tic EXCEPT !.phase = IF tic.merged # 0 THEN "merging" ELSE "writing",
                        !.at = 1, !.merged = 0, !.ids = [i \in DOMAIN terms |-> 0]]
  /\ UNCHANGED <<terms, dbs, runs, reader>>

\* write_database: tic exits if a term cannot be saved
Save ==
  /\ tic.phase = "writing"
  /\ \E list \in {Chosen(terms, tic.job.args)} :
       /\ tic.at <= Len(list)
       /\ \E put \in {SaveTerm(tic.saved, tic.ids, terms[list[tic.at]])} :
            tic' = IF put.ok THEN [tic EXCEPT !.at = @ + 1, !.saved = put.db,
                                              !.ids[list[tic.at]] = IF terms[list[tic.at]].base # 0 THEN 0
                                                                    ELSE Len(tic.saved.data)]
                   ELSE Idle
  /\ UNCHANGED <<terms, dbs, runs, reader>>

\* into a temporary file
WriteDatabase ==
  /\ tic.phase = "writing"
  /\ tic.at > Len(Chosen(terms, tic.job.args))
  /\ tic' = [tic EXCEPT !.phase = "written"]
  /\ UNCHANGED <<terms, dbs, runs, reader>>

(***************************************************************************)
(* A program that looks a terminal up: _ti_getterm tries every database    *)
(* for the name of version 3, then every one for that of version 1.        *)
(***************************************************************************)
Looking == reader.step # 0
Steps(query) ==
  LET at == <<"entry">> \o query.paths
  IN  [k \in 1 .. 2 * Len(at) |-> <<IF k <= Len(at) THEN 3 ELSE 1, at[((k - 1) % Len(at)) + 1]>>]

HasTerm(db, name, ver) == HasKey(db, <<name, ver>>)
\* a version 1 record goes before a version 3 record that is further on
IsShadowed(query, all) ==
  \E i, j \in DOMAIN query.paths :
    /\ i < j
    /\ HasTerm(all[query.paths[i]].db, query.name, 1) /\ ~HasTerm(all[query.paths[i]].db, query.name, 3)
    /\ HasTerm(all[query.paths[j]].db, query.name, 3)
\* a database that has another version of the terminal comes while it is looked up
Switches(query, p, new) ==
  /\ p \in Range(query.paths)
  /\ HasTerm(new, query.name, 3) # HasTerm(dbs[p].db, query.name, 3)

Rename ==
  /\ tic.phase = "written"
  /\ LET p == tic.job.target
         all == [dbs EXCEPT ![p] = [job |-> tic.job, db |-> tic.saved]]
     IN  /\ "shadow" \in Cases \/ ~Looking \/ ~IsShadowed(reader.query, all)
         /\ "replaced" \in Cases \/ ~Looking \/ ~Switches(reader.query, p, tic.saved)
         /\ dbs' = all
         /\ reader' = IF Looking THEN [reader EXCEPT !.may = @ \cup MayFind(reader.query, all)]
                      ELSE reader
  /\ tic' = Idle
  /\ terms' = <<>>
  /\ UNCHANGED runs

\* tic may die at any time: nothing is left but the temporary file
Die ==
  /\ tic.phase # "idle"
  /\ tic' = Idle
  /\ terms' = <<>>
  /\ UNCHANGED <<dbs, runs, reader>>

StartLookup(query) ==
  /\ ~Looking
  /\ "shadow" \in Cases \/ ~IsShadowed(query, dbs)
  /\ reader' = [query |-> query, step |-> 1, result |-> NotFoundTerm, may |-> MayFind(query, dbs)]
  /\ UNCHANGED <<tic, terms, dbs, runs>>

\* what the database finds for a key: its datum, or any datum if the key is not there
Candidates(db, key) ==
  IF db.keys = <<>> THEN {}
  ELSE IF HasKey(db, key) THEN {db.keys[i].idx : i \in {j \in DOMAIN db.keys : db.keys[j].key = key}}
  ELSE 0 .. Len(db.data) - 1
\* the record an alias stands for; an alias is no record
RecordOf(db, idx) == IF db.data[idx + 1].isAlias THEN db.data[db.data[idx + 1].id + 1] ELSE db.data[idx + 1]

\* mutant of Answers: without looking at its names
AnswersUnchecked(record, key) ==
  IF ~record.isAlias THEN Description(record.tic) ELSE NotFoundTerm
Answers(record, key) ==
  IF ~record.isAlias /\ key \in Range(record.tic.names) THEN Description(record.tic) ELSE NotFoundTerm
DbAnswers(db, key) ==
  IF db.keys = <<>> THEN {NotFoundTerm} ELSE {Answers(RecordOf(db, idx), key) : idx \in Candidates(db, key)}
\* the entry in the environment is compiled, but uses nothing
EntryAnswers(entry, key) ==
  LET compiled == Compile(entry, TRUE)
  IN  {IF compiled.ok /\ key \in Range(compiled.tic.names) THEN Description(compiled.tic) ELSE NotFoundTerm}

Found(query, ver, at) ==
  IF at = "entry" THEN EntryAnswers(query.entry, <<query.name, ver>>)
  ELSE DbAnswers(dbs[at].db, <<query.name, ver>>)

LookUp ==
  /\ Looking
  /\ LET step == Steps(reader.query)[reader.step]
     IN  \E answer \in Found(reader.query, step[1], step[2]) :
           reader' = [reader EXCEPT !.result = answer,
                                    !.step = IF answer # NotFoundTerm \/ @ = Len(Steps(reader.query))
                                             THEN 0 ELSE @ + 1]
  /\ UNCHANGED <<tic, terms, dbs, runs>>

TicStep ==
  \/ ProcessEntry \/ EndOfSource
  \/ NextTerm \/ RemoveUse \/ MergeUse \/ SkipUse \/ EndOfPass
  \/ Save \/ WriteDatabase \/ Rename
Next ==
  \/ \E job \in Jobs : StartJob(job)
  \/ TicStep
  \/ Die
  \/ \E query \in Queries : StartLookup(query)
  \/ LookUp

\* tic and the programs run on, but nobody has to start them
Spec == Init /\ [][Next]_vars /\ WF_vars(TicStep) /\ WF_vars(LookUp)

(***************************************************************************)
(* Properties.                                                             *)
(***************************************************************************)
\* A program that looks a terminal up finds what the source of the database
\* means by its name, in the first database that has it, before or after a
\* database is replaced: under every alias, through every use, in whatever
\* version the record is kept.
ReadsBack == Looking \/ reader.result \in reader.may \/ Circular \in reader.may

\* The passes of tic come to an end and its database is written, even if
\* terminals use each other in a circle.
TicEnds == tic.phase \in {"reading", "merging", "writing"} ~> tic.phase \in {"written", "idle"}
=============================================================================
