-------------------------------- MODULE Cdb --------------------------------
(***************************************************************************)
(* The constant database of compat/cdbw.c and compat/cdbr.c, in which the  *)
(* terminal descriptions are kept: a writer collects data and keys, writes *)
(* a file with an index, and a reader finds the data of a key in the file. *)
(*                                                                         *)
(* The writer db is [data |-> sequence of data, keys |-> sequence of       *)
(* [key, idx]]; a datum d has a length d.len.  A file is a record of its   *)
(* header, its index and its offsets, with the places where the offsets    *)
(* and the data begin.  The hash function is external: Hash[seed][key] is  *)
(* a sequence of three numbers.  Memory never runs out.                    *)
(***************************************************************************)
EXTENDS PerfectHash

CONSTANTS Byte,      \* the number of values of a byte
          Hash,      \* mi_vector_hash: Hash[seed][key]
          MaxData    \* max_data_counter

ASSUME CdbAssumption == Byte \in Nat \ {0, 1} /\ MaxData \in Nat

(***************************************************************************)
(* Writing.                                                                *)
(***************************************************************************)
EmptyDb == [data |-> <<>>, keys |-> <<>>]

\* the bytes of the first n data
SizeOf(data, n) == SumFunction([i \in 1 .. n |-> data[i].len])
DataSize(db) == SizeOf(db.data, Len(db.data))
HasKey(db, key) == \E i \in DOMAIN db.keys : db.keys[i].key = key

Refused(db) == [ok |-> FALSE, db |-> db]
Taken(db) == [ok |-> TRUE, db |-> db]

PutData(db, d) ==
  IF Len(db.data) = MaxData \/ DataSize(db) + d.len >= Byte * Byte * Byte * Byte
    THEN Refused(db)
    ELSE Taken([db EXCEPT !.data = Append(@, d)])
PutKey(db, key, idx) ==
  IF idx >= Len(db.data) \/ Len(db.keys) = MaxData \/ HasKey(db, key)
    THEN Refused(db)
    ELSE Taken([db EXCEPT !.keys = Append(@, [key |-> key, idx |-> idx])])

\* a datum whose key is refused is taken back
PutBoth(put, db, key) == IF put.ok THEN PutKey(put.db, key, Len(db.data)) ELSE put
KeptOrNot(put, db) == IF put.ok THEN put ELSE Refused(db)
Put(db, key, d) == KeptOrNot(PutBoth(PutData(db, d), db, key), db)

(***************************************************************************)
(* The file.                                                               *)
(***************************************************************************)
ComputeSize(n) == IF n < Byte THEN 1 ELSE IF n < Byte * Byte THEN 2 ELSE 4
\* the number that is read back from the size bytes n is written to
Stored(n, size) ==
  n % (CASE size = 1 -> Byte [] size = 2 -> Byte * Byte [] size = 4 -> Byte * Byte * Byte * Byte)

HeaderSize == 40
\* where the offsets begin: they are aligned to their own size
OffsetBase(entriesIndex, indexSize, offsetSize) ==
  LET size == entriesIndex * indexSize
  IN  HeaderSize + size + (IF size % offsetSize = 0 THEN 0 ELSE offsetSize - (size % offsetSize))

PrintHash(db, entries, seed, g) ==
  LET n == Len(db.data)
      indexSize == ComputeSize(entries)
      offsetSize == ComputeSize(DataSize(db))
      offsetsAt == OffsetBase(entries, indexSize, offsetSize)
      dataAt == offsetsAt + (n + 1) * offsetSize
  IN  [dataSize |-> DataSize(db), entries |-> n, entriesIndex |-> entries, seed |-> seed,
       index |-> [v \in 0 .. entries - 1 |-> Stored(g[v], indexSize)],
       offsets |-> [i \in 0 .. n |-> Stored(SizeOf(db.data, i), offsetSize)],
       dataAt |-> dataAt, length |-> dataAt + DataSize(db)]

Entries(db) == Max({10, Len(db.keys) + (Len(db.keys) + 3) \div 4})
VerticesOf(key, seed, entries) == [j \in 1 .. 3 |-> Hash[seed][key][j] % entries]
DbEdges(db, seed) ==
  [e \in 0 .. Len(db.keys) - 1 |-> VerticesOf(db.keys[e + 1].key, seed, Entries(db))]
DbIndex(db) == [e \in 0 .. Len(db.keys) - 1 |-> db.keys[e + 1].idx]

\* build_graph: an edge with equal vertices is refused before any is removed
BuildGraph(edges, v) ==
  /\ \A e \in DOMAIN edges : ~Collides(edges[e])
  /\ Peeled(edges, OutputOrder(edges, v))

\* seeds are tried from 1 on until a graph can be peeled
GoodSeeds(db) == {seed \in DOMAIN Hash : seed > 0 /\ BuildGraph(DbEdges(db, seed), Entries(db))}
WithGraph(db, seed, edges, v) ==
  PrintHash(db, v, seed, AssignCdb(edges, DbIndex(db), OutputOrder(edges, v), v, Len(db.data)))
WithSeed(db, seed) == WithGraph(db, seed, DbEdges(db, seed), Entries(db))
Output(db) ==
  IF db.data = <<>> \/ db.keys = <<>> THEN PrintHash(db, 0, 0, <<>>) ELSE WithSeed(db, Min(GoodSeeds(db)))

(***************************************************************************)
(* Reading.                                                                *)
(***************************************************************************)
\* cdbr_open_mem computes the places of the offsets and the data again
ReaderDataBase(file) ==
  LET offsetSize == ComputeSize(file.dataSize)
  IN  OffsetBase(file.entriesIndex, ComputeSize(file.entriesIndex), offsetSize)
        + (file.entries + 1) * offsetSize
\* length is what is left of the file
Opens(file, length) ==
  length >= HeaderSize /\ ReaderDataBase(file) + file.dataSize <= length

NotFound == [from |-> 0, to |-> 0]
Bytes(file, start, end) ==
  IF start > end \/ end > file.dataSize THEN NotFound
  ELSE [from |-> ReaderDataBase(file) + start, to |-> ReaderDataBase(file) + end]
Get(file, idx) ==
  IF idx >= file.entries THEN NotFound ELSE Bytes(file, file.offsets[idx], file.offsets[idx + 1])
Find(file, key) ==
  IF file.entriesIndex = 0 THEN NotFound
  ELSE Get(file, FindCdb(file.index, VerticesOf(key, file.seed, file.entriesIndex), file.entries))

(***************************************************************************)
(* What the database promises: the bytes of a key's datum where the writer *)
(* put them, and the bytes of some datum for a key that is not there.  The *)
(* size of an index entry is that of the number of entries, though what it *)
(* holds is the number of a datum: FitsIndex is left to the callers.       *)
(***************************************************************************)
FitsIndex(db) == ComputeSize(Entries(db)) >= ComputeSize(Len(db.data) - 1)
Written(file, db, idx) ==
  [from |-> file.dataAt + SizeOf(db.data, idx), to |-> file.dataAt + SizeOf(db.data, idx + 1)]
FindsKeys(file, db) ==
  \A i \in DOMAIN db.keys : Find(file, db.keys[i].key) = Written(file, db, db.keys[i].idx)
FindsSomething(file, db, keys) ==
  \A key \in keys : \E idx \in 0 .. Len(db.data) - 1 : Find(file, key) = Written(file, db, idx)
=============================================================================
