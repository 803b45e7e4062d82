------------------------------ MODULE CsrGraph ------------------------------
(***************************************************************************)
(* The compact graph every query walks (weave-graph-core/src/csr.rs), and  *)
(* the breadth-first search the sqlite store runs on its edge rows         *)
(* (query_path, weave-graph-store-sqlite/src/backend.rs).                  *)
(*                                                                         *)
(* Node ids are sparse: deleted rows leave gaps.  CsrGraph::load sorts     *)
(* them and works on positions 0..n-1; every answer has to be translated   *)
(* back.  A graph is a set of ids and a sequence of edge rows, in rowid    *)
(* order, that may mention ids no node row has.                            *)
(***************************************************************************)
EXTENDS Integers, Sequences, SequencesExt, FiniteSetsExt

\* No answer: an id that is not indexed, a path that does not exist.
Missing == -1

\* A set as a sequence, in the order of Less.
Sorted(S, Less(_, _)) ==
  [k \in 1..Cardinality(S) |-> CHOOSE x \in S : Cardinality({y \in S : Less(y, x)}) = k - 1]

\* A left fold.
Fold(Op(_, _), base, s) ==
  LET fold[k \in 0..Len(s)] == IF k = 0 THEN base ELSE Op(fold[k - 1], s[k]) IN fold[Len(s)]

LexLess(e, f) == e[1] < f[1] \/ (e[1] = f[1] /\ e[2] < f[2])

\* sort_unstable, then dedup.
SortAndDedupEdges(edges) == Sorted(ToSet(edges), LexLess)

(***************************************************************************)
(* CompactCsr: the neighbours of u are columns[offsets[u]+1 .. offsets[u+1]]. *)
(* Rows up to the source of the next edge are closed at the current        *)
(* length; edges that leave 0..n-1 are dropped.                            *)
(***************************************************************************)
FromSortedEdges(edges, n) ==
  LET CloseRows(r, u) ==
        [r EXCEPT !.offsets = [i \in 0..n |-> IF i > r.current /\ i <= u
                                              THEN Len(r.columns) ELSE @[i]],
                  !.current = Max({r.current, u})]
      Push(r, e) ==
        IF e[1] >= n \/ e[2] >= n THEN r
        ELSE [CloseRows(r, e[1]) EXCEPT !.columns = Append(@, e[2])]
      start == [offsets |-> [i \in 0..n |-> 0], columns |-> << >>, current |-> 0]
      done == CloseRows(Fold(Push, start, edges), n)
  IN [offsets |-> done.offsets, columns |-> done.columns, n |-> n]

NeighborsSlice(csr, u) ==
  IF u + 1 > csr.n THEN << >>
  ELSE SubSeq(csr.columns, csr.offsets[u] + 1, csr.offsets[u + 1])

(***************************************************************************)
(* build_reverse: in-degrees give the rows; the edges are taken in order,  *)
(* u -> v goes to the next free place of row v.                            *)
(***************************************************************************)
BuildReverse(csr) ==
  LET places == DOMAIN csr.columns
      InDegree(v) == Cardinality({p \in places : csr.columns[p] = v})
      offsets == [i \in 0..csr.n |-> MapThenSumSet(InDegree, 0..(i - 1))]
      Source(p) == CHOOSE u \in 0..(csr.n - 1) : csr.offsets[u] < p /\ p <= csr.offsets[u + 1]
      Place(p) == offsets[csr.columns[p]]
                    + Cardinality({q \in 1..p : csr.columns[q] = csr.columns[p]})
  IN [offsets |-> offsets, n |-> csr.n,
      columns |-> [k \in places |-> Source(CHOOSE p \in places : Place(p) = k)]]

\* bfs_within: max_hops rounds, or until a round finds nothing new, which
\* happens after n rounds at the latest.
BfsWithin(csr, from, hops) ==
  LET round[h \in 0..csr.n] ==
        IF h = 0 THEN [reached |-> {from}, frontier |-> {from}]
        ELSE LET p == round[h - 1]
                 next == UNION {ToSet(NeighborsSlice(csr, u)) : u \in p.frontier} \ p.reached
             IN [reached |-> p.reached \cup next, frontier |-> next]
  IN round[Min({hops, csr.n})].reached

(***************************************************************************)
(* CsrGraph                                                                *)
(***************************************************************************)
\* binary_search in index_to_id: a position, or Missing.
IndexOf(g, id) ==
  IF \E i \in DOMAIN g.ids : g.ids[i] = id
  THEN (CHOOSE i \in DOMAIN g.ids : g.ids[i] = id) - 1
  ELSE Missing

IdOfIndex(g, index) == IF index < Len(g.ids) THEN g.ids[index + 1] ELSE Missing

\* CsrGraph::load, and from_nodes_and_edges, which compacts the same way.
Load(ids, edges) ==
  LET g == [ids |-> Sorted(ids, <)]
      Known(e) == e.source \in ids /\ e.target \in ids
      compact == [k \in DOMAIN SelectSeq(edges, Known) |->
                    LET e == SelectSeq(edges, Known)[k]
                    IN <<IndexOf(g, e.source), IndexOf(g, e.target)>>]
  IN [ids |-> g.ids, csr |-> FromSortedEdges(SortAndDedupEdges(compact), Len(g.ids))]

Outbound(g, id) ==
  LET i == IndexOf(g, id) IN
  IF i = Missing THEN << >>
  ELSE [k \in DOMAIN NeighborsSlice(g.csr, i) |-> IdOfIndex(g, NeighborsSlice(g.csr, i)[k])]

\* reachable_within and callers_within return positions, not ids.
ReachableWithin(g, id, hops) ==
  IF IndexOf(g, id) = Missing THEN {} ELSE BfsWithin(g.csr, IndexOf(g, id), hops)

CallersWithin(g, id, hops) ==
  IF IndexOf(g, id) = Missing THEN {} ELSE BfsWithin(BuildReverse(g.csr), IndexOf(g, id), hops)

(***************************************************************************)
(* Both query_path searches: a queue, the predecessor of everything seen,  *)
(* and a stop as soon as the target is seen.  next[u] lists the targets of *)
(* u in the order the caller reads them; every node is popped at most once.*)
(***************************************************************************)
SearchPath(next, from, to) ==
  LET See(u, s, v) ==
        IF s.found \/ v \in DOMAIN s.pred THEN s
        ELSE [queue |-> Append(s.queue, v), pred |-> (v :> u) @@ s.pred, found |-> v = to]
      pop[k \in 0..Cardinality(DOMAIN next)] ==
        IF k = 0 THEN [queue |-> <<from>>, pred |-> from :> from, found |-> FALSE]
        ELSE LET s == pop[k - 1] IN
             IF s.found \/ s.queue = << >> THEN s
             ELSE LET u == Head(s.queue)
                  IN Fold(LAMBDA a, v : See(u, a, v),
                              [s EXCEPT !.queue = Tail(@)], next[u])
      end == pop[Cardinality(DOMAIN next)]
      trail[v \in DOMAIN end.pred] ==
        IF v = from THEN <<from>> ELSE Append(trail[end.pred[v]], v)
  IN IF end.found THEN trail[to] ELSE << >>

QueryPath(g, from, to) ==
  LET f == IndexOf(g, from)
      t == IndexOf(g, to)
      path == SearchPath([u \in 0..(g.csr.n - 1) |-> NeighborsSlice(g.csr, u)], f, t)
  IN IF f = Missing \/ t = Missing THEN << >>
     ELSE IF f = t THEN <<from>>
     ELSE [k \in DOMAIN path |-> IdOfIndex(g, path[k])]

\* SqliteStorage::query_path, on the rows themselves.
Targets(edges, u) ==
  LET out == SelectSeq(edges, LAMBDA e : e.source = u) IN [k \in DOMAIN out |-> out[k].target]

StoreQueryPath(edges, from, to) ==
  LET nodes == {e.source : e \in ToSet(edges)} \cup {e.target : e \in ToSet(edges)} \cup {from}
  IN IF from = to THEN <<from>>
     ELSE SearchPath([u \in nodes |-> Targets(edges, u)], from, to)
=============================================================================
