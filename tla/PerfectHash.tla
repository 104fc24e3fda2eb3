---------------------------- MODULE PerfectHash ----------------------------
(***************************************************************************)
(* Perfect hashing by peeling random graphs: the three algorithms of       *)
(* nbperf (chm on graphs, chm3 and bdz on 3-graphs) and the constant       *)
(* database of compat/cdbw.c, which repeats the peeling on its own.        *)
(*                                                                         *)
(* A key is an edge, the values of the hash function are its vertices.  The*)
(* edges are removed one by one, each at a vertex it is the last edge of;  *)
(* in the reverse order each edge then finds a vertex no earlier edge has  *)
(* visited, whose value g makes the values of the edge add up to the index *)
(* of the key.                                                             *)
(*                                                                         *)
(* edges[e] is the sequence of the vertices of edge e, e \in 0 .. E - 1,   *)
(* vertices are 0 .. v - 1.  The hash function itself is external: any     *)
(* vertices.  An XOR of edge numbers is a symmetric difference of sets.    *)
(***************************************************************************)
EXTENDS Integers, Sequences, FiniteSets, SequencesExt, FiniteSetsExt

CONSTANT Word     \* one more than the greatest unsigned integer

ASSUME WordAssumption == Word \in Nat \ {0, 1}

Upto(n) == [i \in 1 .. n |-> i - 1]

(***************************************************************************)
(* The graph: degrees and edges of the vertices.                           *)
(***************************************************************************)
\* change_edge, graph2_add_edge, graph2_remove_edge
ChangeEdge(verts, edge, e, delta) ==
  FoldLeft(LAMBDA vs, v : [vs EXCEPT ![v] = [degree |-> @.degree + delta,
                                             edges |-> SymDiff(@.edges, {e})]],
           verts, edge)

AddEdges(edges, v) ==
  FoldLeft(LAMBDA vs, e : ChangeEdge(vs, edges[e], e, 1),
           [i \in 0 .. v - 1 |-> [degree |-> 0, edges |-> {}]], Upto(Cardinality(DOMAIN edges)))

\* s.order is output_order from output_index on: it grows at its head
RemoveEdge(s, edges, e) ==
  [verts |-> ChangeEdge(s.verts, edges[e], e, -1), order |-> <<e>> \o s.order]
RemoveVertex(s, edges, v) ==
  IF s.verts[v].degree = 1
    THEN RemoveEdge(s, edges, CHOOSE e \in s.verts[v].edges : TRUE)
    ELSE s

\* one look at every vertex, then at the vertices of every edge removed
RemoveLeaves(edges, v) ==
  FoldLeft(LAMBDA s, i : RemoveVertex(s, edges, i), [verts |-> AddEdges(edges, v), order |-> <<>>], Upto(v))
FollowEdges(start, edges) ==
  FoldLeft(LAMBDA s, i : IF i < Len(s.order)
                         THEN FoldLeft(LAMBDA t, v : RemoveVertex(t, edges, v), s,
                                       edges[s.order[Len(s.order) - i]])
                         ELSE s,
           start, Upto(Cardinality(DOMAIN edges)))
OutputOrder(edges, v) == FollowEdges(RemoveLeaves(edges, v), edges).order

Peeled(edges, order) == Len(order) = Cardinality(DOMAIN edges)

(***************************************************************************)
(* Equal values of the hash function: refused, or told apart by bits.      *)
(***************************************************************************)
FlipOne(x) == IF x % 2 = 0 THEN x + 1 ELSE x - 1
FlipTwo(x) == IF (x \div 2) % 2 = 0 THEN x + 2 ELSE x - 2

\* graph2_hash: the vertices of a key, and hash_fudge as the set of its bits
Second(h) == IF h[1] = h[2] THEN FlipOne(h[2]) ELSE h[2]
Third(h, second) ==
  IF h[3] \notin {h[1], second} THEN h[3]
  ELSE IF FlipOne(h[3]) \notin {h[1], second} THEN FlipOne(h[3])
  ELSE FlipTwo(FlipOne(h[3]))
Fudged(h) == IF Len(h) = 2 THEN <<h[1], Second(h)>> ELSE <<h[1], Second(h), Third(h, Second(h))>>
FudgeBits(h) ==
  (IF h[1] = h[2] THEN {1} ELSE {}) \cup (IF Len(h) = 3 /\ h[3] \in {h[1], Second(h)} THEN {2} ELSE {})

\* the same in the generated function, which has only the lines of the bits set
GeneratedVertices(h, bits) ==
  LET second == IF 1 \in bits THEN Second(h) ELSE h[2]
  IN  IF Len(h) = 2 THEN <<h[1], second>>
      ELSE <<h[1], second, IF 2 \in bits THEN Third(h, second) ELSE h[3]>>

Collides(h) == Cardinality(Range(h)) < Len(h)

(***************************************************************************)
(* assign_nodes: the values of the vertices.                               *)
(***************************************************************************)
NoValues(v, x) == [g |-> [i \in 0 .. v - 1 |-> x], visited |-> [i \in 0 .. v - 1 |-> 0]]

\* the place in edge of the first vertex not visited; the last one is not tested
Free(visited, edge) ==
  IF visited[edge[1]] = 0 THEN 1
  ELSE IF Len(edge) = 2 \/ visited[edge[2]] = 0 THEN 2 ELSE 3
Values(g, edge, places) == SumFunction([i \in places |-> g[edge[i]]])
Others(g, edge, free) == Values(g, edge, (1 .. Len(edge)) \ {free})
Visit(visited, edge) == [v \in DOMAIN visited |-> IF v \in Range(edge) /\ visited[v] = 0 THEN 1 ELSE visited[v]]

\* chm and chm3: e - g - g modulo Word, brought back below n by adding n
Wrapped(x, n) == IF x >= n THEN (x + n) % Word ELSE x
AssignChm(edges, order, v) ==
  LET n == Cardinality(DOMAIN edges)
      Assign(s, e) ==
        LET free == Free(s.visited, edges[e])
            x == Wrapped((e + 2 * Word - Others(s.g, edges[e], free)) % Word, n)
        IN  [g |-> [s.g EXCEPT ![edges[e][free]] = IF Len(edges[e]) = 3 THEN Wrapped(x, n) ELSE x],
             visited |-> Visit(s.visited, edges[e])]
  IN  FoldLeft(Assign, NoValues(v, 0), order).g
FindChm(g, vertices, n) == Values(g, vertices, DOMAIN vertices) % n

\* cdbw: idx[e] is the entry of key e, of which there are n
AssignCdb(edges, idx, order, v, n) ==
  LET Assign(s, e) ==
        LET free == Free(s.visited, edges[e])
        IN  [g |-> [s.g EXCEPT ![edges[e][free]] =
                      ((2 * n + idx[e] + 2 * Word - Others(s.g, edges[e], free)) % Word) % n],
             visited |-> Visit(s.visited, edges[e])]
  IN  FoldLeft(Assign, NoValues(v, 0), order).g
FindCdb(g, vertices, n) == (Values(g, vertices, DOMAIN vertices) % Word) % n

\* bdz: the values of an edge, modulo 3, add up to the place of its vertex;
\* 3 is the value of a vertex no edge has (a hole)
AssignBdz(edges, order, v) ==
  LET Assign(s, e) ==
        LET free == Free(s.visited, edges[e])
            t == edges[e][free]
        IN  [g |-> [s.g EXCEPT ![t] = (9 + free - 1 - Values(s.g, edges[e], 1 .. 3)) % 3],
             visited |-> [Visit(s.visited, edges[e]) EXCEPT ![t] = 2 + e]]
  IN  FoldLeft(Assign, NoValues(v, 3), order)

Holes(g, i) == Cardinality({j \in 0 .. i - 1 : g[j] = 3})
ResultMap(s, n) == [e \in 0 .. n - 1 |->
  LET i == CHOOSE j \in DOMAIN s.visited : s.visited[j] = 2 + e IN i - Holes(s.g, i)]

\* the generated function counts the holes by tables for blocks of vertices;
\* fine and coarse are the sizes of the blocks, 64 and 65536
Holes64k(g, i, coarse) == Holes(g, (i \div coarse) * coarse)
Holes64(g, i, fine, coarse) ==
  Holes(g, (i \div fine) * fine) - Holes64k(g, (i \div fine) * fine, coarse)
FindBdz(g, vertices, fine, coarse) ==
  LET Bit(k, v) == IF k = 1 THEN g[v] % 2 ELSE g[v] \div 2
      choice == (9 + SumFunction([i \in 1 .. 3 |-> Bit(1, vertices[i]) - Bit(2, vertices[i])])) % 3
      i == vertices[choice + 1]
      inBlock == Cardinality({j \in (i \div fine) * fine .. i - 1 : Bit(1, j) = 1 /\ Bit(2, j) = 1})
  IN  i - Holes64(g, i, fine, coarse) - Holes64k(g, i, coarse) - inBlock

(***************************************************************************)
(* nbperf: main tries one hash function after the other.                   *)
(***************************************************************************)
\* the number of vertices for n keys when -c is not given
ChmSize(n, fudge) == IF fudge THEN 2 * n + 2 ELSE 2 * n + 1
Chm3Size(n, fudge) ==
  LET v == Max({10, IF (124 * n) % 100 = 0 THEN (124 * n) \div 100 + 1 ELSE (124 * n) \div 100})
  IN  IF fudge THEN ((v + 3) \div 4) * 4 ELSE v
BdzSize(n, fudge) ==
  LET v == Max({10, (124 * n + 99) \div 100}) IN IF fudge THEN ((v + 3) \div 4) * 4 ELSE v

KeyEdges(fudge, hashes) == [e \in DOMAIN hashes |-> IF fudge THEN Fudged(hashes[e]) ELSE hashes[e]]

\* what one of the algorithms makes of the values of one hash function;
\* keys[e] tells which keys are equal
Try(check, keys, edges, v) ==
  IF \E e \in DOMAIN edges : Collides(edges[e]) THEN "collision"
  ELSE IF check /\ \E e, f \in DOMAIN keys : e # f /\ keys[e] = keys[f] THEN "duplicates"
  ELSE IF Peeled(edges, OutputOrder(edges, v)) THEN "done"
  ELSE "cyclic"

\* the loop of main: duplicates are looked for once, after the first failure;
\* left is what remains of the iterations of -i, Word - 1 if there is no limit
Attempt(s, result) ==
  LET failed == result \in {"collision", "cyclic"}
      left == IF s.left = Word - 1 THEN s.left ELSE (s.left + Word - 1) % Word
  IN  [check |-> (s.check /\ result = "collision") \/ (failed /\ ~s.looped),
       looped |-> s.looped \/ failed,
       left |-> IF failed THEN left ELSE s.left,
       result |-> IF ~failed THEN result ELSE IF left = 0 THEN "exhausted" ELSE "trying"]
Nbperf(fudge, keys, tries, v, iterations) ==
  FoldLeft(LAMBDA s, hashes : IF s.result = "trying"
                              THEN Attempt(s, Try(s.check, keys, KeyEdges(fudge, hashes), v)) ELSE s,
           [check |-> FALSE, looped |-> FALSE, left |-> iterations, result |-> "trying"], tries)

(***************************************************************************)
(* What perfect hashing promises.  A graph can be peeled if and only if    *)
(* every nonempty set of edges has a vertex that only one of them touches; *)
(* then every key is found at its own index, by bdz at one nobody else has.*)
(***************************************************************************)
Touching(edges, es, v) == {e \in es : v \in Range(edges[e])}
Acyclic(edges) ==
  \A es \in (SUBSET DOMAIN edges) \ {{}} :
    \E e \in es : \E v \in Range(edges[e]) : Touching(edges, es, v) = {e}
PeelsAcyclic(edges, v) == Peeled(edges, OutputOrder(edges, v)) = Acyclic(edges)

FindsItsIndex(edges, g) ==
  \A e \in DOMAIN edges : FindChm(g, edges[e], Cardinality(DOMAIN edges)) = e
ChmFinds(edges, v) ==
  Acyclic(edges) => FindsItsIndex(edges, AssignChm(edges, OutputOrder(edges, v), v))

IsBijection(map) == Range(map) = DOMAIN map
FindsItsPlace(edges, s, map, fine, coarse) ==
  IsBijection(map) /\ \A e \in DOMAIN edges : FindBdz(s.g, edges[e], fine, coarse) = map[e]
BdzFinds(edges, v, fine, coarse) ==
  Acyclic(edges) =>
    \E s \in {AssignBdz(edges, OutputOrder(edges, v), v)} :
      FindsItsPlace(edges, s, ResultMap(s, Cardinality(DOMAIN edges)), fine, coarse)

\* the vertices of a key are told apart, and the generated function agrees,
\* whatever other lines it has because of other keys
ToldApart(h, v) ==
  /\ ~Collides(Fudged(h)) /\ Range(Fudged(h)) \subseteq 0 .. v - 1
  /\ \A bits \in SUBSET {1, 2} : GeneratedVertices(h, bits \cup FudgeBits(h)) = Fudged(h)

\* nbperf is done only with keys that differ, and reports only keys that do not
NbperfRight(keys, result) ==
  LET equal == \E e, f \in DOMAIN keys : e # f /\ keys[e] = keys[f]
  IN  (result = "done" => ~equal) /\ (result = "duplicates" => equal)
=============================================================================
