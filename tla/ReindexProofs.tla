---------------------------- MODULE ReindexProofs ----------------------------
(***************************************************************************)
(* Core Invariant 3 for every project: no edge of the served database      *)
(* points at a missing node.  NoDanglingEdges is not inductive, because    *)
(* the node pass of an incremental update deletes nodes while edges are in *)
(* the table.  What makes the deletion safe is the earlier purge in both   *)
(* directions: from then until the edge pass no staged edge touches a      *)
(* changed file, and only nodes of changed files are moved or deleted.     *)
(*                                                                         *)
(* The second part is about content, for files that are edited between     *)
(* passes only: the served nodes are the symbols of the indexed files, the *)
(* references that can be resolved are, and every edge has its reference.  *)
(***************************************************************************)
EXTENDS Reindex, FiniteSetTheorems, WellFoundedInduction, TLAPS

IsDb(db) ==
  db = [nodes |-> db.nodes, edges |-> db.edges, unresolved |-> db.unresolved]

Live(db) == \A e \in db.edges : e.src \in DOMAIN db.nodes /\ e.tgt \in DOMAIN db.nodes

\* The node pass of an incremental update is running.
Replacing == pc = "nodes" /\ mode = "incremental"

Untouched ==
  \A e \in staged.edges : /\ staged.nodes[e.src].path \notin changed
                          /\ staged.nodes[e.tgt].path \notin changed

\* The inductive invariant.
LiveInv ==
  /\ IsDb(active) /\ Live(active)
  /\ IsDb(staged) /\ Live(staged)
  /\ Replacing => Untouched /\ todo \subseteq changed
  /\ Replacing /\ rows # <<>> => cur \in changed
  /\ pc # "nodes" => rows = <<>>
  /\ mode \in {"full", "incremental"}

\* A fresh database has no edge.
LEMMA EmptyLive == IsDb(EmptyDb) /\ Live(EmptyDb)
BY Zenon DEF IsDb, Live, EmptyDb

\* The resolver only connects nodes of the table it was built from.
LEMMA ResolvedLive ==
  ASSUME NEW nodes, NEW p, NEW content, NEW e \in ResolveIds(nodes, p, content)
  PROVE  e.src \in DOMAIN nodes /\ e.tgt \in DOMAIN nodes
<1>1. ASSUME NEW S, NEW T, NEW k, NEW r, NEW d \in Edges(S, T, k, r)
      PROVE  d.src \in S /\ d.tgt \in T
  BY <1>1 DEF Edges
<1>2. ASSUME NEW c, e \in CallEdges(nodes, p, c)
      PROVE  e.src \in DOMAIN nodes /\ e.tgt \in DOMAIN nodes
  <2> DEFINE C == Named(nodes, c.callee)
             held(T) == {n \in T : Holder(nodes, n)}
             same == {n \in C : nodes[n].path = p}
             from == Source(nodes, p, c.caller)
  <2>1. from \subseteq DOMAIN nodes /\ held(C) \subseteq DOMAIN nodes
        /\ held(same) \subseteq DOMAIN nodes
    BY Zenon DEF Source, Named
  <2>2. \/ e \in Edges(from, held(same), "CALLS_EXACT", "same_file_exact")
        \/ e \in Edges(from, held(C), "CALLS_EXACT", "unique_global_exact")
        \/ e \in Edges(from, held(C), "CALLS_DYNAMIC", "ambiguous_heuristic")
    BY <1>2, Zenon DEF CallEdges
  <2> HIDE DEF C, held, same, from
  <2> QED
    BY <1>1, <2>1, <2>2, Zenon
<1>3. ASSUME NEW s, e \in StructuralEdges(nodes, p, s)
      PROVE  e.src \in DOMAIN nodes /\ e.tgt \in DOMAIN nodes
  <2> DEFINE C == Named(nodes, s.target)
             to == {n \in C : Holder(nodes, n)}
             from == Source(nodes, p, s.source)
             res == IF Cardinality(C) = 1 THEN "unique_global_exact"
                                          ELSE "ambiguous_heuristic"
  <2>1. from \subseteq DOMAIN nodes /\ to \subseteq DOMAIN nodes
    BY Zenon DEF Source, Named
  <2>2. e \in Edges(from, to, s.kind, res)
    BY <1>3, Zenon DEF StructuralEdges
  <2> HIDE DEF C, to, from, res
  <2> QED
    BY <1>1, <2>1, <2>2, Zenon
<1> QED
  BY <1>2, <1>3, Zenon DEF ResolveIds

\* Nothing is indexed at first.
LEMMA InitLive == Init => LiveInv
BY EmptyLive, Zenon DEF Init, LiveInv, Replacing

\* No step of a pass leaves a served edge without an end.
LEMMA NextLive == LiveInv /\ [Next]_vars => LiveInv'
<1> SUFFICES ASSUME LiveInv, [Next]_vars
             PROVE  LiveInv'
  BY Zenon
<1> USE DEF LiveInv
\* A step that leaves the function drops the staged tables.
<1>l. ASSUME Leave, IsDb(active)' /\ Live(active)'
      PROVE  LiveInv'
  BY <1>l, EmptyLive, Zenon DEF Leave, Replacing
<1>1. ASSUME NEW p \in Path, Edit(p) PROVE LiveInv'
  BY <1>1, Zenon DEF Edit, Replacing, Untouched, Live, IsDb
<1>2. CASE StartFull
  BY <1>2, EmptyLive, Zenon DEF StartFull, Replacing
<1>3. ASSUME NEW C \in SUBSET Path, StartIncremental(C) PROVE LiveInv'
  BY <1>3, Zenon DEF StartIncremental, Replacing
<1>4. ASSUME NEW p \in Path, CollectNames(p) PROVE LiveInv'
  BY <1>4, Zenon DEF CollectNames, Replacing
<1>5. CASE PurgeChanged
  <2>1. /\ staged'.nodes = staged.nodes
        /\ staged'.edges = PurgeFileEdges(staged, changed)
        /\ IsDb(staged')
    BY <1>5, Zenon DEF PurgeChanged, IsDb
  <2>2. /\ active' = active /\ changed' = changed /\ rows' = <<>>
        /\ todo' \subseteq changed /\ mode' = mode
    BY <1>5, Zenon DEF PurgeChanged
  <2>3. Live(staged')
    BY <2>1, Zenon DEF Live, PurgeFileEdges
  <2>4. Untouched'
    BY <2>1, <2>2, Zenon DEF Untouched, PurgeFileEdges, Touches, Live
  <2> QED
    BY <2>1, <2>2, <2>3, <2>4, Zenon
<1>6. ASSUME NEW p \in Path, ParseForNodes(p) PROVE LiveInv'
  BY <1>6, Zenon DEF ParseForNodes, IsNext, Replacing, Untouched
<1>7. CASE InsertFresh
  <2> DEFINE row == Row(cur, Head(rows))
             same == {n \in DOMAIN staged.nodes : SameKey(staged.nodes[n], row)}
  <2>1. /\ staged'.edges = staged.edges /\ IsDb(staged')
        /\ DOMAIN staged.nodes \subseteq DOMAIN staged'.nodes
    <3>1. CASE same # {}
      BY <1>7, <3>1 DEF InsertFresh, IsDb
    <3>2. CASE same = {}
      <4>1. PICK id \in NodeId : staged' = [staged EXCEPT !.nodes = Insert(@, id, row)]
        BY <1>7, <3>2, Zenon DEF InsertFresh
      <4> QED
        BY <4>1, Zenon DEF IsDb, Insert
    <3> QED
      BY <3>1, <3>2, Zenon
  <2> QED
    BY <1>7, <2>1, Zenon DEF InsertFresh, Replacing, Live
<1>8. CASE UpsertNode
  <2> DEFINE row == Row(cur, Head(rows))
             E == Existing(staged.nodes, row)
  <2>1. PICK id \in NodeId :
          /\ id \in E \/ (E = {} /\ IsFreshId(staged.nodes, id))
          /\ staged' = [staged EXCEPT !.nodes = Insert(@, id, row)]
    BY <1>8, Zenon DEF UpsertNode
  <2>2. cur \in changed /\ row.path = cur
    BY <1>8, Zenon DEF UpsertNode, Replacing, Row
  <2>3. id \in DOMAIN staged.nodes => staged.nodes[id].path \in changed
    <3>1. CASE id \in E
      BY <2>2, <3>1, Zenon DEF Existing, Candidates
    <3>2. CASE IsFreshId(staged.nodes, id)
      BY <3>2 DEF IsFreshId, NodeId
    <3> QED
      BY <2>1, <3>1, <3>2, Zenon
  <2>4. /\ staged'.edges = staged.edges /\ IsDb(staged')
        /\ staged'.nodes = Insert(staged.nodes, id, row)
    BY <2>1, Zenon DEF IsDb
  <2>5. \A n \in DOMAIN staged.nodes :
          n \in DOMAIN staged'.nodes /\ (n # id => staged'.nodes[n] = staged.nodes[n])
    BY <2>4, Zenon DEF Insert
  <2>6. Replacing /\ changed' = changed /\ active' = active /\ todo' = todo
        /\ cur' = cur /\ pc' = "nodes" /\ mode' = mode
    BY <1>8, Zenon DEF UpsertNode, Replacing
  <2>7. Live(staged') /\ Untouched'
    BY <2>3, <2>4, <2>5, <2>6, Zenon DEF Live, Untouched
  <2> QED
    BY <2>2, <2>4, <2>6, <2>7, Zenon DEF Replacing
<1>9. CASE UpsertFails
  BY <1>9, <1>l, Zenon DEF UpsertFails
<1>10. CASE FinishNodes
  <2>1. pc' = "edges" /\ rows' = <<>> /\ active' = active /\ mode' = mode
    BY <1>10, Zenon DEF FinishNodes
  <2>2. IsDb(staged') /\ Live(staged')
    <3>1. CASE mode = "full"
      BY <1>10, <3>1, Zenon DEF FinishNodes
    <3>2. CASE mode # "full"
      <4> DEFINE keep == {m \in DOMAIN staged.nodes :
                            staged.nodes[m].path \in changed => m \in retained}
      <4>1. /\ staged'.nodes = [n \in keep |-> staged.nodes[n]]
            /\ staged'.edges = staged.edges /\ IsDb(staged')
        BY <1>10, <3>2, Zenon DEF FinishNodes, IsDb
      <4>2. Untouched
        BY <1>10, <3>2, Zenon DEF FinishNodes, Replacing
      <4> QED
        BY <4>1, <4>2, Zenon DEF Live, Untouched
    <3> QED
      BY <3>1, <3>2, Zenon
  <2> QED
    BY <2>1, <2>2, Zenon DEF Replacing
<1>11. ASSUME NEW p \in Path, ResolveFile(p) PROVE LiveInv'
  <2>1. IsDb(staged') /\ Live(staged')
    <3>1. CASE ~Parsed(p)
      BY <1>11, <3>1, Zenon DEF ResolveFile
    <3>2. CASE Parsed(p)
      <4> DEFINE new == ResolveIds(staged.nodes, p, tree[p])
      <4>1. /\ staged'.nodes = staged.nodes
            /\ staged'.edges = UpsertEdges(staged.edges, new)
            /\ IsDb(staged')
        BY <1>11, <3>2, Zenon DEF ResolveFile, IsDb
      <4>2. \A e \in new : e.src \in DOMAIN staged.nodes /\ e.tgt \in DOMAIN staged.nodes
        BY ResolvedLive, Zenon
      <4> HIDE DEF new
      <4> QED
        BY <4>1, <4>2, Zenon DEF Live, UpsertEdges
    <3> QED
      BY <3>1, <3>2, Zenon
  <2> QED
    BY <1>11, <2>1, Zenon DEF ResolveFile, Replacing
<1>12. CASE Promote
  BY <1>12, <1>l, Zenon DEF Promote
<1>13. CASE Crash
  BY <1>13, <1>l, Zenon DEF Crash
<1>14. CASE UNCHANGED vars
  BY <1>14, Zenon DEF vars, Replacing, Untouched
<1> QED
  BY <1>1, <1>2, <1>3, <1>4, <1>5, <1>6, <1>7, <1>8, <1>9, <1>10, <1>11, <1>12,
     <1>13, <1>14, Zenon DEF Next

\* Core Invariant 3 holds for any number of files, any contents and any ids:
\* whichever files a pass is told about, and whatever is edited, fails or
\* dies while it runs, the served edges have both ends.
THEOREM EdgesNeverDangle == Spec => []NoDanglingEdges
<1>1. LiveInv => NoDanglingEdges
  BY Zenon DEF LiveInv, Live, NoDanglingEdges
<1> QED
  BY InitLive, NextLive, <1>1, PTL DEF Spec

-----------------------------------------------------------------------------
(* What the tables hold after a pass, for a tree that is still while a     *)
(* pass runs.                                                              *)

\* No two symbols of a file share a name and a line, or a name, a kind and a
\* signature.  upsert_nodes tells symbols of one file apart by these.
NoTwins ==
  \A c \in Contents : \A i, j \in DOMAIN c.symbols :
    /\ c.symbols[i].symbol = c.symbols[j].symbol
    /\ \/ c.symbols[i].line = c.symbols[j].line
       \/ c.symbols[i].kind = c.symbols[j].kind /\ c.symbols[i].sig = c.symbols[j].sig
    => i = j

\* Of the rows with an id of K, those of path p are the symbols of t[p] with
\* an index of W.
Exact(nodes, K, t, p, W) ==
  /\ \A n \in K : nodes[n].path = p => \E i \in W : nodes[n] = Row(p, t[p].symbols[i])
  /\ \A i \in W : \E n \in K : nodes[n] = Row(p, t[p].symbols[i])

All(t, p) == IF t[p] \in Contents THEN DOMAIN t[p].symbols ELSE {}

NodesAre(db, t) == \A p \in Path : Exact(db.nodes, DOMAIN db.nodes, t, p, All(t, p))

\* A reference of file p from a symbol that is indexed has an edge, or is on
\* record as unresolved.
Met(db, p, caller, name, kinds) ==
  Source(db.nodes, p, caller) = {} \/
  IF Named(db.nodes, name) = {}
    THEN <<p, name>> \in db.unresolved
    ELSE \E e \in db.edges : /\ e.src \in Source(db.nodes, p, caller)
                             /\ e.tgt \in Named(db.nodes, name)
                             /\ e.kind \in kinds

CallKinds == {"CALLS_EXACT", "CALLS_DYNAMIC"}

RefsMet(db, p, content) ==
  /\ \A c \in content.calls : Met(db, p, c.caller, c.callee, CallKinds)
  /\ \A s \in content.structural : Met(db, p, s.source, s.target, {s.kind})

\* The file of the edge's source makes a reference the edge stands for.
Backed(content, symbol, name, kind) ==
  /\ content \in Contents
  /\ \/ \E c \in content.calls : c.caller = symbol /\ c.callee = name
     \/ \E r \in content.structural :
           r.source = symbol /\ r.target = name /\ r.kind = kind
Reason(nodes, t, e) ==
  Backed(t[nodes[e.src].path], nodes[e.src].symbol, ShortName[nodes[e.tgt].symbol], e.kind)

Sound(db) == DOMAIN db.nodes \subseteq NodeId /\ \A n \in DOMAIN db.nodes : db.nodes[n].path \in Path

\* The tables a finished pass leaves for tree t.
Finished(db, t) ==
  /\ NodesAre(db, t)
  /\ \A p \in Path : t[p] \in Contents => RefsMet(db, p, t[p])
  /\ \A e \in db.edges : Reason(db.nodes, t, e)

\* The indices of the symbols of p that the node pass has written.
Written(p) ==
  IF p \in todo \/ ~Parsed(p) THEN {}
  ELSE IF p = cur THEN 1..(Len(tree[p].symbols) - Len(rows))
  ELSE DOMAIN tree[p].symbols

\* The file being written: rows is what is left of its symbols.
RowsOK ==
  rows # <<>> =>
    /\ cur \in Path /\ cur \notin todo /\ Parsed(cur)
    /\ rows \in Seq(SymbolRow) /\ Len(rows) <= Len(tree[cur].symbols)
    /\ \A j \in DOMAIN rows :
         rows[j] = tree[cur].symbols[Len(tree[cur].symbols) - Len(rows) + j]

\* The nodes of unchanged files are those of the active database.
Agree(nodes) ==
  \A n \in NodeId :
    /\ n \in DOMAIN nodes /\ nodes[n].path \notin changed
         => n \in DOMAIN active.nodes /\ active.nodes[n] = nodes[n]
    /\ n \in DOMAIN active.nodes /\ active.nodes[n].path \notin changed
         => n \in DOMAIN nodes /\ active.nodes[n] = nodes[n]

NamesOK(P) ==
  \A p \in P : Parsed(p) =>
    \A i \in DOMAIN tree[p].symbols : ShortName[tree[p].symbols[i].symbol] \in names

FullOK ==
  /\ staged.edges = {}
  /\ \A p \in Path : Exact(staged.nodes, DOMAIN staged.nodes, tree, p, Written(p))

IncrementalOK ==
  /\ Agree(staged.nodes)
  /\ staged.edges = PurgeFileEdges(active, changed)
  /\ staged.unresolved = PurgeUnresolved(active, changed)
  /\ affected = changed \cup SourcePaths(active, changed) \cup UnresolvedIn(active, names)
  /\ NamesOK(changed)
  /\ retained \subseteq DOMAIN staged.nodes
  /\ \A p \in changed : Exact(staged.nodes, retained, tree, p, Written(p))

EdgesOK ==
  /\ NodesAre(staged, tree)
  /\ \A p \in Path \ todo : Parsed(p) => RefsMet(staged, p, tree[p])
  /\ \A e \in staged.edges : Reason(staged.nodes, tree, e)

\* The inductive invariant.
ContentInv ==
  /\ tree \in [Path -> Contents \cup {Absent, Broken}]
  /\ pc \in {"idle", "names", "nodes", "edges"}
  /\ Sound(active) /\ Finished(active, indexed)
  /\ Sound(staged)
  /\ pc # "idle" => files = OnDisk
  /\ todo \subseteq Path
  /\ pc = "idle" => mode = "full"
  /\ pc \in {"idle", "names"} => retained = {}
  /\ mode = "incremental" => /\ changed \subseteq Path
                             /\ \A p \in Path \ changed : tree[p] = indexed[p]
  /\ pc = "names" => /\ mode = "incremental" /\ staged = active
                     /\ affected = changed \cup SourcePaths(active, changed)
                     /\ NamesOK(changed \ todo)
  /\ pc = "nodes" => RowsOK
  /\ pc = "nodes" /\ mode = "full" => FullOK
  /\ pc = "nodes" /\ mode = "incremental" => IncrementalOK
  /\ pc = "edges" => EdgesOK

\* A node that shares its moniker with others has a last one among them.
LEMMA SomeHolder ==
  ASSUME NEW nodes, DOMAIN nodes \subseteq NodeId, NEW n \in DOMAIN nodes
  PROVE  \E h \in DOMAIN nodes : /\ nodes[h].path = nodes[n].path
                                 /\ nodes[h].symbol = nodes[n].symbol
                                 /\ Holder(nodes, h)
<1> DEFINE same == {m \in DOMAIN nodes : /\ nodes[m].path = nodes[n].path
                                         /\ nodes[m].symbol = nodes[n].symbol}
           gaps == {MaxNodes - m : m \in same}
<1>0. MaxNodes \in Nat /\ \A m \in DOMAIN nodes : m \in Int /\ MaxNodes - m \in Nat
  BY ReindexAssumption DEF NodeId
<1>1. gaps \subseteq Nat /\ gaps # {}
  BY <1>0, Zenon
<1>2. PICK g \in gaps : \A k \in gaps : ~(<<k, g>> \in OpToRel(<, Nat))
  <2> HIDE DEF gaps
  <2> QED
    BY <1>1, NatLessThanWellFounded, WFMin, Zenon
<1>3. PICK h \in same : g = MaxNodes - h
  BY Zenon DEF gaps
<1>4. \A m \in same : m <= h
  <2> SUFFICES ASSUME NEW m \in same PROVE m <= h
    BY Zenon
  <2>1. MaxNodes - m \in gaps /\ MaxNodes - m \in Nat /\ g \in Nat
    BY <1>0, <1>1, Zenon
  <2>2. ~(MaxNodes - m < g)
    BY <1>2, <2>1, Zenon DEF OpToRel
  <2> QED
    BY <1>0, <1>3, <2>1, <2>2
<1> QED
  BY <1>3, <1>4, Zenon DEF Holder

\* What a name may mean includes a node that an edge may point at.
LEMMA SomeTarget ==
  ASSUME NEW nodes, DOMAIN nodes \subseteq NodeId, NEW name,
         NEW n \in Named(nodes, name)
  PROVE  \E h \in Named(nodes, name) : nodes[h].path = nodes[n].path /\ Holder(nodes, h)
BY SomeHolder, Zenon DEF Named

\* A call from an indexed symbol to a known name yields an edge.
LEMMA CallMet ==
  ASSUME NEW nodes, DOMAIN nodes \subseteq NodeId, NEW p, NEW c,
         Source(nodes, p, c.caller) # {}, Named(nodes, c.callee) # {}
  PROVE  \E e \in CallEdges(nodes, p, c) :
           /\ e.src \in Source(nodes, p, c.caller)
           /\ e.tgt \in Named(nodes, c.callee)
           /\ e.kind \in CallKinds
<1> DEFINE C == Named(nodes, c.callee)
           same == {n \in C : nodes[n].path = p}
           held(T) == {n \in T : Holder(nodes, n)}
           from == Source(nodes, p, c.caller)
<1>1. PICK s : s \in from
  BY Zenon
<1>2. PICK t : t \in C /\ Holder(nodes, t)
  BY SomeTarget, Zenon
<1>3. \A T, k, r : \A x \in held(T) : \E e \in Edges(from, held(T), k, r) :
        e.src = s /\ e.tgt = x /\ e.kind = k
  <2> SUFFICES ASSUME NEW T, NEW k, NEW r, NEW x \in held(T)
               PROVE  \E e \in Edges(from, held(T), k, r) : e.src = s /\ e.tgt = x /\ e.kind = k
    BY Zenon
  <2>1. [src |-> s, tgt |-> x, kind |-> k, res |-> r] \in Edges(from, held(T), k, r)
    BY <1>1 DEF Edges
  <2> QED
    BY <2>1, Zenon
<1>4. CASE ~c.member /\ Cardinality(same) = 1
  <2>1. CallEdges(nodes, p, c) = Edges(from, held(same), "CALLS_EXACT", "same_file_exact")
    BY <1>4, Zenon DEF CallEdges
  <2>2. PICK x : x \in held(same)
    <3>1. same # {}
      <4>1. Cardinality(same) = 1
        BY <1>4, Zenon
      <4> HIDE DEF same
      <4> QED
        BY <4>1, FS_EmptySet
    <3>2. PICK y : y \in C /\ nodes[y].path = p
      BY <3>1, Zenon
    <3> QED
      BY <3>2, SomeTarget, Zenon
  <2>3. x \in C
    BY <2>2, Zenon
  <2> HIDE DEF C, same, held, from
  <2> QED
    BY <1>1, <1>3, <2>1, <2>2, <2>3 DEF CallKinds, C, from
<1>5. CASE ~(~c.member /\ Cardinality(same) = 1)
  <2>1. \/ CallEdges(nodes, p, c) = Edges(from, held(C), "CALLS_EXACT", "unique_global_exact")
        \/ CallEdges(nodes, p, c) = Edges(from, held(C), "CALLS_DYNAMIC", "ambiguous_heuristic")
    BY <1>5, Zenon DEF CallEdges
  <2>2. t \in held(C)
    BY <1>2, Zenon
  <2> HIDE DEF same, held
  <2> QED
    BY <1>1, <1>2, <1>3, <2>1, <2>2 DEF CallKinds
<1> QED
  BY <1>4, <1>5, Zenon

\* A structural reference gets its edge when both ends have a node.
LEMMA StructuralMet ==
  ASSUME NEW nodes, DOMAIN nodes \subseteq NodeId, NEW p, NEW s,
         Source(nodes, p, s.source) # {}, Named(nodes, s.target) # {}
  PROVE  \E e \in StructuralEdges(nodes, p, s) :
           /\ e.src \in Source(nodes, p, s.source)
           /\ e.tgt \in Named(nodes, s.target)
           /\ e.kind \in {s.kind}
<1> DEFINE C == Named(nodes, s.target)
           to == {n \in C : Holder(nodes, n)}
           from == Source(nodes, p, s.source)
           res == IF Cardinality(C) = 1 THEN "unique_global_exact" ELSE "ambiguous_heuristic"
<1>1. PICK f : f \in from
  BY Zenon
<1>2. PICK t : t \in C /\ Holder(nodes, t)
  BY SomeTarget, Zenon
<1>3. StructuralEdges(nodes, p, s) = Edges(from, to, s.kind, res)
  BY Zenon DEF StructuralEdges
<1>4. t \in to
  BY <1>2, Zenon
<1> HIDE DEF to, from, res
<1>5. [src |-> f, tgt |-> t, kind |-> s.kind, res |-> res] \in Edges(from, to, s.kind, res)
  BY <1>1, <1>4 DEF Edges
<1> QED
  BY <1>1, <1>2, <1>3, <1>5 DEF from

\* The resolver makes edges only for references the file makes.
LEMMA ResolvedBacked ==
  ASSUME NEW nodes, NEW p, NEW content \in Contents, NEW e \in ResolveIds(nodes, p, content)
  PROVE  /\ nodes[e.src].path = p
         /\ Backed(content, nodes[e.src].symbol, ShortName[nodes[e.tgt].symbol], e.kind)
<1>1. ASSUME NEW S, NEW T, NEW k, NEW r, NEW d \in Edges(S, T, k, r)
      PROVE  d.src \in S /\ d.tgt \in T /\ d.kind = k
  BY <1>1 DEF Edges
<1>2. ASSUME NEW c \in content.calls, e \in CallEdges(nodes, p, c)
      PROVE  e.src \in Source(nodes, p, c.caller) /\ e.tgt \in Named(nodes, c.callee)
  <2> DEFINE C == Named(nodes, c.callee)
             held(T) == {n \in T : Holder(nodes, n)}
             same == {n \in C : nodes[n].path = p}
             from == Source(nodes, p, c.caller)
  <2>1. held(C) \subseteq C /\ held(same) \subseteq C
    BY Zenon
  <2>2. \/ e \in Edges(from, held(same), "CALLS_EXACT", "same_file_exact")
        \/ e \in Edges(from, held(C), "CALLS_EXACT", "unique_global_exact")
        \/ e \in Edges(from, held(C), "CALLS_DYNAMIC", "ambiguous_heuristic")
    BY <1>2, Zenon DEF CallEdges
  <2> HIDE DEF C, held, same, from
  <2>3. e.src \in from /\ e.tgt \in C
    BY <1>1, <2>1, <2>2, Zenon
  <2> QED
    BY <2>3, Zenon DEF C, from
<1>3. ASSUME NEW s \in content.structural, e \in StructuralEdges(nodes, p, s)
      PROVE  /\ e.src \in Source(nodes, p, s.source) /\ e.tgt \in Named(nodes, s.target)
             /\ e.kind = s.kind
  <2> DEFINE C == Named(nodes, s.target)
             to == {n \in C : Holder(nodes, n)}
             from == Source(nodes, p, s.source)
             res == IF Cardinality(C) = 1 THEN "unique_global_exact"
                                          ELSE "ambiguous_heuristic"
  <2>1. to \subseteq C
    BY Zenon
  <2>2. e \in Edges(from, to, s.kind, res)
    BY <1>3, Zenon DEF StructuralEdges
  <2> HIDE DEF C, to, from, res
  <2>3. e.src \in from /\ e.tgt \in C /\ e.kind = s.kind
    BY <1>1, <2>1, <2>2, Zenon
  <2> QED
    BY <2>3, Zenon DEF C, from
<1>4. CASE \E c \in content.calls : e \in CallEdges(nodes, p, c)
  BY <1>2, <1>4, Zenon DEF Source, Named, Backed
<1>5. CASE \E s \in content.structural : e \in StructuralEdges(nodes, p, s)
  BY <1>3, <1>5, Zenon DEF Source, Named, Backed
<1> QED
  BY <1>4, <1>5, Zenon DEF ResolveIds

\* upsert_edges overwrites an edge by one with the same key.
LEMMA KeyKept ==
  ASSUME NEW edges, NEW new, NEW e \in edges
  PROVE  \E d \in UpsertEdges(edges, new) : d.src = e.src /\ d.tgt = e.tgt /\ d.kind = e.kind
BY DEF UpsertEdges

\* Edges added and unresolved references recorded cost no reference its edge.
LEMMA MetStays ==
  ASSUME NEW db, NEW db2, NEW p, NEW content, RefsMet(db, p, content),
         db2.nodes = db.nodes,
         \A name : <<p, name>> \in db.unresolved => <<p, name>> \in db2.unresolved,
         \A e \in db.edges :
           \E d \in db2.edges : d.src = e.src /\ d.tgt = e.tgt /\ d.kind = e.kind
  PROVE  RefsMet(db2, p, content)
<1>1. ASSUME NEW caller, NEW name, NEW kinds, Met(db, p, caller, name, kinds)
      PROVE  Met(db2, p, caller, name, kinds)
  <2> DEFINE S == Source(db.nodes, p, caller)
             T == Named(db.nodes, name)
  <2>1. Source(db2.nodes, p, caller) = S /\ Named(db2.nodes, name) = T
    BY Zenon
  <2>2. \/ S = {}
        \/ T = {} /\ <<p, name>> \in db.unresolved
        \/ T # {} /\ \E e \in db.edges : e.src \in S /\ e.tgt \in T /\ e.kind \in kinds
    BY <1>1, Zenon DEF Met
  <2> HIDE DEF S, T
  <2>3. \/ S = {}
        \/ T = {} /\ <<p, name>> \in db2.unresolved
        \/ T # {} /\ \E e \in db2.edges : e.src \in S /\ e.tgt \in T /\ e.kind \in kinds
    BY <2>2, Zenon
  <2> QED
    BY <2>1, <2>3, Zenon DEF Met
<1> QED
  BY <1>1, Zenon DEF RefsMet

\* After the edge pass has resolved a file its references are met.
LEMMA FileMet ==
  ASSUME NEW db, DOMAIN db.nodes \subseteq NodeId, NEW p, NEW content, NEW edges,
         db.edges = UpsertEdges(edges, ResolveIds(db.nodes, p, content)),
         \A n \in Unresolved(db.nodes, content) : <<p, n>> \in db.unresolved
  PROVE  RefsMet(db, p, content)
<1> DEFINE new == ResolveIds(db.nodes, p, content)
<1>1. new \subseteq db.edges
  BY Zenon DEF UpsertEdges
<1>2. ASSUME NEW c \in content.calls
      PROVE  Met(db, p, c.caller, c.callee, CallKinds)
  <2>1. CASE Source(db.nodes, p, c.caller) # {} /\ Named(db.nodes, c.callee) # {}
    <3>1. PICK e \in CallEdges(db.nodes, p, c) :
            /\ e.src \in Source(db.nodes, p, c.caller)
            /\ e.tgt \in Named(db.nodes, c.callee)
            /\ e.kind \in CallKinds
      BY <2>1, CallMet, Zenon
    <3>2. e \in new
      BY <3>1, Zenon DEF ResolveIds
    <3> QED
      BY <1>1, <2>1, <3>1, <3>2, Zenon DEF Met
  <2>2. CASE Named(db.nodes, c.callee) = {}
    BY <2>2, Zenon DEF Met, Unresolved, References
  <2> QED
    BY <2>1, <2>2, Zenon DEF Met
<1>3. ASSUME NEW s \in content.structural
      PROVE  Met(db, p, s.source, s.target, {s.kind})
  <2>1. CASE Source(db.nodes, p, s.source) # {} /\ Named(db.nodes, s.target) # {}
    <3>1. PICK e \in StructuralEdges(db.nodes, p, s) :
            /\ e.src \in Source(db.nodes, p, s.source)
            /\ e.tgt \in Named(db.nodes, s.target)
            /\ e.kind \in {s.kind}
      BY <2>1, StructuralMet, Zenon
    <3>2. e \in new
      BY <3>1, Zenon DEF ResolveIds
    <3> QED
      BY <1>1, <2>1, <3>1, <3>2, Zenon DEF Met
  <2>2. CASE Named(db.nodes, s.target) = {}
    BY <2>2, Zenon DEF Met, Unresolved, References
  <2> QED
    BY <2>1, <2>2, Zenon DEF Met
<1> QED
  BY <1>2, <1>3, Zenon DEF RefsMet

\* Writing a row adds its symbol to those of the file, unless it overwrites one
\* of them.
LEMMA ExactGrows ==
  ASSUME NEW nodes, NEW K \in SUBSET DOMAIN nodes, NEW t, NEW p, NEW W, NEW i, NEW id,
         Exact(nodes, K, t, p, W),
         id \in K => \A j \in W : nodes[id] # Row(p, t[p].symbols[j])
  PROVE  Exact(Insert(nodes, id, Row(p, t[p].symbols[i])), K \cup {id}, t, p, W \cup {i})
<1> DEFINE row == Row(p, t[p].symbols[i])
           after == Insert(nodes, id, row)
<1>1. after[id] = row /\ \A n \in K : n # id => after[n] = nodes[n]
  BY Zenon DEF Insert
<1> HIDE DEF after
<1>2. \A n \in K \cup {id} : after[n].path = p =>
        \E j \in W \cup {i} : after[n] = Row(p, t[p].symbols[j])
  BY <1>1 DEF Exact
<1>3. \A j \in W \cup {i} : \E n \in K \cup {id} : after[n] = Row(p, t[p].symbols[j])
  <2> SUFFICES ASSUME NEW j \in W \cup {i}
               PROVE  \E n \in K \cup {id} : after[n] = Row(p, t[p].symbols[j])
    BY Zenon
  <2>1. CASE j = i
    BY <1>1, <2>1, Zenon
  <2>2. CASE j \in W
    <3>1. PICK n \in K : nodes[n] = Row(p, t[p].symbols[j])
      BY <2>2, Zenon DEF Exact
    <3>2. n # id
      BY <2>2, <3>1, Zenon
    <3> QED
      BY <1>1, <3>1, <3>2, Zenon
  <2> QED
    BY <2>1, <2>2, Zenon
<1> QED
  BY <1>2, <1>3, Zenon DEF Exact, after

\* Writing a row of one file changes no other.
LEMMA ExactElsewhere ==
  ASSUME NEW nodes, NEW K \in SUBSET DOMAIN nodes, NEW t, NEW p, NEW W, NEW id, NEW row,
         Exact(nodes, K, t, p, W), row.path # p,
         id \in DOMAIN nodes => nodes[id].path # p
  PROVE  Exact(Insert(nodes, id, row), K \cup {id}, t, p, W)
<1> DEFINE after == Insert(nodes, id, row)
<1>1. after[id] = row /\ \A n \in K : n # id => after[n] = nodes[n]
  BY Zenon DEF Insert
<1> HIDE DEF after
<1>2. \A n \in K \cup {id} : after[n].path = p => \E j \in W : after[n] = Row(p, t[p].symbols[j])
  BY <1>1, Zenon DEF Exact
<1>3. ASSUME NEW j \in W PROVE \E n \in K \cup {id} : after[n] = Row(p, t[p].symbols[j])
  <2>1. PICK n \in K : nodes[n] = Row(p, t[p].symbols[j])
    BY Zenon DEF Exact
  <2>2. nodes[n].path = p
    BY <2>1 DEF Row
  <2>3. n # id
    BY <2>2, Zenon
  <2> QED
    BY <1>1, <2>1, <2>3, Zenon
<1> QED
  BY <1>2, <1>3, Zenon DEF Exact, after

\* A row that upsert_nodes takes for the symbol, or that has the symbol's key, is
\* not that of another symbol of the same content.
LEMMA NoOther ==
  ASSUME NoTwins, NEW c \in Contents, NEW i \in DOMAIN c.symbols, NEW j \in DOMAIN c.symbols,
         i # j, NEW p, NEW nodes, NEW n,
         n \in Existing(nodes, Row(p, c.symbols[i])) \/ SameKey(nodes[n], Row(p, c.symbols[i]))
  PROVE  nodes[n] # Row(p, c.symbols[j])
<1> DEFINE a == c.symbols[i]
           b == c.symbols[j]
<1>1. a.symbol = b.symbol => a.line # b.line /\ ~(a.kind = b.kind /\ a.sig = b.sig)
  BY Zenon DEF NoTwins
<1> HIDE DEF a, b
<1>2. ASSUME n \in Existing(nodes, Row(p, a)) PROVE nodes[n] # Row(p, b)
  <2>1. /\ nodes[n].symbol = a.symbol /\ nodes[n].kind = a.kind
        /\ nodes[n].sig = a.sig \/ nodes[n].line = a.line
    BY <1>2, Zenon DEF Existing, Candidates, Row
  <2>2. /\ Row(p, b).symbol = b.symbol /\ Row(p, b).kind = b.kind
        /\ Row(p, b).sig = b.sig /\ Row(p, b).line = b.line
    BY Zenon DEF Row
  <2> QED
    BY <1>1, <2>1, <2>2, Zenon
<1>3. ASSUME SameKey(nodes[n], Row(p, a)) PROVE nodes[n] # Row(p, b)
  BY <1>1, <1>3 DEF SameKey, Row
<1> QED
  BY <1>2, <1>3, Zenon DEF a, b

\* The symbols of a file are a list.
LEMMA SymbolsSeq ==
  ASSUME NEW c \in Contents
  PROVE  /\ c.symbols \in Seq(SymbolRow) /\ Len(c.symbols) \in Nat
         /\ DOMAIN c.symbols = 1..Len(c.symbols)
<1>1. c.symbols \in Seq(SymbolRow)
  BY ReindexAssumption, Zenon
<1> HIDE DEF SymbolRow
<1> QED
  BY <1>1

\* The next symbol of the file being written.
NextIndex == Len(tree[cur].symbols) - Len(rows) + 1

\* One symbol further.
LEMMA RowsStep ==
  ASSUME RowsOK, rows # <<>>, rows' = Tail(rows), UNCHANGED <<tree, todo, cur>>
  PROVE  /\ RowsOK'
         /\ tree[cur] \in Contents
         /\ NextIndex \in DOMAIN tree[cur].symbols /\ Written(cur) \subseteq DOMAIN tree[cur].symbols
         /\ NextIndex \notin Written(cur)
         /\ Head(rows) = tree[cur].symbols[NextIndex]
         /\ Written(cur)' = Written(cur) \cup {NextIndex}
         /\ \A q \in Path \ {cur} : Written(q)' = Written(q)
<1> DEFINE s == tree[cur].symbols
<1>1. /\ tree[cur] \in Contents /\ cur \in Path /\ cur \notin todo /\ rows \in Seq(SymbolRow)
      /\ Len(rows) <= Len(s)
      /\ \A j \in DOMAIN rows : rows[j] = s[Len(s) - Len(rows) + j]
  BY Zenon DEF RowsOK, Parsed
<1>2. s \in Seq(SymbolRow) /\ Len(s) \in Nat /\ DOMAIN s = 1..Len(s)
  BY <1>1, SymbolsSeq, Zenon
<1>3. /\ Len(rows) \in Nat \ {0} /\ DOMAIN rows = 1..Len(rows)
      /\ Head(rows) = rows[1] /\ Tail(rows) \in Seq(SymbolRow)
      /\ Len(Tail(rows)) = Len(rows) - 1
      /\ \A j \in 1..Len(rows) - 1 : Tail(rows)[j] = rows[j + 1]
      /\ DOMAIN Tail(rows) = 1..Len(rows) - 1
  <2> HIDE DEF SymbolRow
  <2> QED
    BY <1>1
<1> DEFINE k == Len(s) - Len(rows)
<1>4. k \in Nat /\ k + 1 \in 1..Len(s) /\ k + 1 \notin 1..k /\ 1..k \subseteq 1..Len(s)
      /\ 1..k + 1 = 1..k \cup {k + 1} /\ Len(s) - Len(Tail(rows)) = k + 1
  <2> HIDE DEF s, SymbolRow
  <2>1. k \in Nat /\ k + 1 \in 1..Len(s) /\ Len(s) - Len(Tail(rows)) = k + 1
    BY <1>1, <1>2, <1>3
  <2>2. k <= Len(s)
    BY <1>1, <1>2, <1>3
  <2> HIDE DEF k
  <2>3. k + 1 \notin 1..k /\ 1..k + 1 = 1..k \cup {k + 1}
    BY <2>1
  <2>4. 1..k \subseteq 1..Len(s)
    BY <1>2, <2>1, <2>2
  <2> QED
    BY <2>1, <2>3, <2>4, Zenon
<1>5. Written(cur) = 1..k /\ Written(cur)' = 1..Len(s) - Len(Tail(rows))
  BY <1>1, Zenon DEF Written, Parsed
<1>6. Head(rows) = s[k + 1]
  BY <1>1, <1>3, SMTT(60)
<1>7. RowsOK'
  <2>1. ASSUME NEW j \in 1..Len(rows) - 1
        PROVE  Tail(rows)[j] = s[Len(s) - Len(Tail(rows)) + j]
    <3> HIDE DEF s, SymbolRow
    <3>1. Tail(rows)[j] = rows[j + 1] /\ j + 1 \in DOMAIN rows
      BY <1>3
    <3>2. rows[j + 1] = s[Len(s) - Len(rows) + (j + 1)]
      BY <1>1, <3>1, Zenon
    <3>3. Len(s) - Len(rows) + (j + 1) = Len(s) - Len(Tail(rows)) + j
      BY <1>2, <1>3
    <3> QED
      BY <3>1, <3>2, <3>3, Zenon
  <2> QED
    BY <1>1, <1>2, <1>3, <2>1, SMTT(60) DEF RowsOK, Parsed
<1>8. \A q \in Path \ {cur} : Written(q)' = Written(q)
  BY Zenon DEF Written, Parsed
<1> QED
  BY <1>1, <1>2, <1>4, <1>5, <1>6, <1>7, <1>8, Zenon DEF NextIndex

\* The table a written row leaves.
LEMMA SoundInsert ==
  ASSUME NEW db, NEW db2, Sound(db), NEW id \in NodeId, NEW p \in Path, NEW s,
         db2.nodes = Insert(db.nodes, id, Row(p, s))
  PROVE  Sound(db2) /\ DOMAIN db2.nodes = DOMAIN db.nodes \cup {id}
<1>1. DOMAIN db2.nodes = DOMAIN db.nodes \cup {id}
  BY Zenon DEF Insert
<1>2. \A n \in DOMAIN db2.nodes : db2.nodes[n] = IF n = id THEN Row(p, s) ELSE db.nodes[n]
  BY Zenon DEF Insert
<1>3. Row(p, s).path = p
  BY Zenon DEF Row
<1> QED
  BY <1>1, <1>2, <1>3, Zenon DEF Sound

\* A fresh id is not in use.
LEMMA FreshIsNew ==
  ASSUME NEW nodes, NEW id \in NodeId, IsFreshId(nodes, id)
  PROVE  id \notin DOMAIN nodes
BY DEF IsFreshId, NodeId

\* insert_fresh_nodes never meets a row with the symbol's key.
LEMMA InsertFreshContent ==
  ASSUME ContentInv, LiveInv, NoTwins, InsertFresh
  PROVE  ContentInv'
<1> DEFINE row == Row(cur, Head(rows))
           same == {n \in DOMAIN staged.nodes : SameKey(staged.nodes[n], row)}
<1>1. /\ pc = "nodes" /\ mode = "full" /\ rows # <<>> /\ rows' = Tail(rows)
      /\ UNCHANGED <<tree, edits, active, pc, mode, files, changed, affected, names, todo,
                     cur, retained, indexed, refreshed>>
  BY Zenon DEF InsertFresh
<1>2. RowsOK /\ FullOK /\ Sound(staged) /\ IsDb(staged)
  BY <1>1, Zenon DEF ContentInv, LiveInv
<1>3. /\ RowsOK' /\ tree[cur] \in Contents /\ NextIndex \in DOMAIN tree[cur].symbols
      /\ Written(cur) \subseteq DOMAIN tree[cur].symbols /\ NextIndex \notin Written(cur)
      /\ row = Row(cur, tree[cur].symbols[NextIndex])
      /\ Written(cur)' = Written(cur) \cup {NextIndex}
      /\ \A q \in Path \ {cur} : Written(q)' = Written(q)
  BY <1>1, <1>2, RowsStep, Zenon
<1>4. cur \in Path
  BY <1>1, <1>2, Zenon DEF RowsOK
<1>5. Exact(staged.nodes, DOMAIN staged.nodes, tree, cur, Written(cur))
  BY <1>2, <1>4, Zenon DEF FullOK
<1>6. same = {}
  <2> SUFFICES ASSUME NEW n \in DOMAIN staged.nodes, SameKey(staged.nodes[n], row) PROVE FALSE
    BY Zenon
  <2>1. staged.nodes[n].path = cur
    BY Zenon DEF SameKey, Row
  <2>2. PICK j \in Written(cur) : staged.nodes[n] = Row(cur, tree[cur].symbols[j])
    BY <1>5, <2>1, Zenon DEF Exact
  <2> QED
    BY <1>3, <2>2, NoOther, Zenon
<1>7. PICK id \in NodeId : /\ IsFreshId(staged.nodes, id)
                           /\ staged' = [staged EXCEPT !.nodes = Insert(@, id, row)]
  BY <1>6, Zenon DEF InsertFresh
<1>8. id \notin DOMAIN staged.nodes
  BY <1>7, FreshIsNew, Zenon
<1> HIDE DEF row, same
<1>9. staged'.nodes = Insert(staged.nodes, id, row) /\ staged'.edges = staged.edges
  BY <1>2, <1>7, Zenon DEF IsDb
<1>10. Sound(staged') /\ DOMAIN staged'.nodes = DOMAIN staged.nodes \cup {id}
  <2>1. staged'.nodes = Insert(staged.nodes, id, Row(cur, tree[cur].symbols[NextIndex]))
    BY <1>3, <1>9, Zenon
  <2> QED
    BY <1>2, <1>4, <2>1, SoundInsert
<1>11. row.path = cur
  BY <1>3, Zenon DEF Row
<1>12. ASSUME NEW p \in Path
       PROVE  Exact(staged'.nodes, DOMAIN staged'.nodes, tree, p, Written(p)')
  <2>1. CASE p = cur
    <3> DEFINE next == NextIndex
    <3>1. Exact(Insert(staged.nodes, id, Row(cur, tree[cur].symbols[next])),
                DOMAIN staged.nodes \cup {id}, tree, cur, Written(cur) \cup {next})
      <4> HIDE DEF next
      <4> QED
        BY <1>5, <1>8, ExactGrows, Zenon
    <3> QED
      BY <1>1, <1>3, <1>9, <1>10, <2>1, <3>1, Zenon
  <2>2. CASE p # cur
    <3>1. Exact(staged.nodes, DOMAIN staged.nodes, tree, p, Written(p))
      BY <1>2, Zenon DEF FullOK
    <3>2. Exact(Insert(staged.nodes, id, row), DOMAIN staged.nodes \cup {id}, tree, p, Written(p))
      BY <1>8, <1>11, <2>2, <3>1, ExactElsewhere, Zenon
    <3> QED
      BY <1>3, <1>9, <1>10, <2>2, <3>2, Zenon
  <2> QED
    BY <2>1, <2>2, Zenon
<1>13. FullOK'
  BY <1>1, <1>2, <1>9, <1>12, Zenon DEF FullOK
<1> QED
  BY <1>1, <1>3, <1>10, <1>13, Zenon DEF ContentInv, OnDisk

\* upsert_nodes overwrites no row it has written for another symbol of the file,
\* and none of another file.
LEMMA UpsertNodeContent ==
  ASSUME ContentInv, LiveInv, NoTwins, UpsertNode
  PROVE  ContentInv'
<1> DEFINE row == Row(cur, Head(rows))
           E == Existing(staged.nodes, row)
<1>1. /\ pc = "nodes" /\ mode = "incremental" /\ rows # <<>> /\ rows' = Tail(rows)
      /\ UNCHANGED <<tree, edits, active, pc, mode, files, changed, affected, names, todo,
                     cur, indexed, refreshed>>
  BY Zenon DEF UpsertNode
<1>2. /\ RowsOK /\ IncrementalOK /\ Sound(staged) /\ Sound(active) /\ IsDb(staged)
      /\ changed \subseteq Path
  BY <1>1, Zenon DEF ContentInv, LiveInv
<1>3. /\ RowsOK' /\ tree[cur] \in Contents /\ NextIndex \in DOMAIN tree[cur].symbols
      /\ Written(cur) \subseteq DOMAIN tree[cur].symbols /\ NextIndex \notin Written(cur)
      /\ row = Row(cur, tree[cur].symbols[NextIndex])
      /\ Written(cur)' = Written(cur) \cup {NextIndex}
      /\ \A q \in Path \ {cur} : Written(q)' = Written(q)
  BY <1>1, <1>2, RowsStep, Zenon
<1>4. cur \in Path /\ cur \in changed
  BY <1>1, <1>2, Zenon DEF RowsOK, LiveInv, Replacing
<1>5. PICK id \in NodeId :
        /\ id \in E \/ (E = {} /\ IsFreshId(staged.nodes, id))
        /\ staged' = [staged EXCEPT !.nodes = Insert(@, id, row)]
        /\ retained' = retained \cup {id}
  BY Zenon DEF UpsertNode
<1>6. id \in DOMAIN staged.nodes => id \in E
  BY <1>5, FreshIsNew, Zenon
<1>7. id \in DOMAIN staged.nodes => staged.nodes[id].path = cur
  BY <1>6, Zenon DEF Existing, Candidates, Row
<1>8. ASSUME id \in retained, NEW j \in Written(cur)
      PROVE  staged.nodes[id] # Row(cur, tree[cur].symbols[j])
  <2>1. id \in Existing(staged.nodes, Row(cur, tree[cur].symbols[NextIndex]))
    BY <1>2, <1>3, <1>6, <1>8, Zenon DEF IncrementalOK
  <2>2. j \in DOMAIN tree[cur].symbols /\ NextIndex # j
    BY <1>3, Zenon
  <2> QED
    BY <1>3, <2>1, <2>2, NoOther, Zenon
<1> HIDE DEF row, E
<1>9. /\ staged'.nodes = Insert(staged.nodes, id, row) /\ staged'.edges = staged.edges
      /\ staged'.unresolved = staged.unresolved
  BY <1>2, <1>5, Zenon DEF IsDb
<1>10. Sound(staged') /\ DOMAIN staged'.nodes = DOMAIN staged.nodes \cup {id}
  <2>1. staged'.nodes = Insert(staged.nodes, id, Row(cur, tree[cur].symbols[NextIndex]))
    BY <1>3, <1>9, Zenon
  <2> QED
    BY <1>2, <1>4, <2>1, SoundInsert, SMTT(60)
<1>11. row.path = cur
  BY <1>3, Zenon DEF Row
<1>12. retained \in SUBSET DOMAIN staged.nodes
  BY <1>2, Zenon DEF IncrementalOK
<1>13. ASSUME NEW p \in changed
       PROVE  Exact(staged'.nodes, retained', tree, p, Written(p)')
  <2>0. Exact(staged.nodes, retained, tree, p, Written(p))
    BY <1>2, Zenon DEF IncrementalOK
  <2>1. CASE p = cur
    <3> DEFINE next == NextIndex
    <3>1. Exact(Insert(staged.nodes, id, Row(cur, tree[cur].symbols[next])),
                retained \cup {id}, tree, cur, Written(cur) \cup {next})
      <4> HIDE DEF next
      <4> QED
        BY <1>8, <1>12, <2>0, <2>1, ExactGrows, Zenon
    <3> QED
      BY <1>1, <1>3, <1>5, <1>9, <2>1, <3>1, Zenon
  <2>2. CASE p # cur
    <3>1. Exact(Insert(staged.nodes, id, row), retained \cup {id}, tree, p, Written(p))
      BY <1>7, <1>11, <1>12, <2>0, <2>2, ExactElsewhere, Zenon
    <3> QED
      BY <1>2, <1>3, <1>5, <1>9, <2>2, <3>1, Zenon
  <2> QED
    BY <2>1, <2>2, Zenon
<1>14. Agree(staged.nodes)'
  <2>1. \A n \in DOMAIN staged'.nodes : staged'.nodes[n] = IF n = id THEN row ELSE staged.nodes[n]
    BY <1>9, Zenon DEF Insert
  <2> QED
    BY <1>1, <1>2, <1>4, <1>7, <1>10, <1>11, <2>1, Zenon DEF IncrementalOK, Agree
<1>15. IncrementalOK'
  <2>1. /\ active' = active /\ changed' = changed /\ affected' = affected /\ names' = names
        /\ tree' = tree
    BY <1>1, Zenon
  <2>2. NamesOK(changed)'
    BY <1>2, <2>1, Zenon DEF IncrementalOK, NamesOK, Parsed
  <2>3. retained' \subseteq DOMAIN staged'.nodes
    BY <1>5, <1>10, <1>12, Zenon
  <2>4. /\ staged'.edges = PurgeFileEdges(active', changed')
        /\ staged'.unresolved = PurgeUnresolved(active', changed')
        /\ affected' = changed' \cup SourcePaths(active', changed') \cup UnresolvedIn(active', names')
    BY <1>2, <1>9, <2>1, Zenon DEF IncrementalOK
  <2> QED
    BY <1>13, <1>14, <2>1, <2>2, <2>3, <2>4, Zenon DEF IncrementalOK
<1> QED
  BY <1>1, <1>3, <1>10, <1>15, Zenon DEF ContentInv, OnDisk

\* The sources of a file that did not change are those of the active database.
LEMMA SameSources ==
  ASSUME Sound(active), NEW nodes, DOMAIN nodes \subseteq NodeId, Agree(nodes),
         NEW p, p \notin changed, NEW caller
  PROVE  Source(nodes, p, caller) = Source(active.nodes, p, caller)
<1>1. \A n : n \in DOMAIN nodes /\ nodes[n].path = p
               => n \in DOMAIN active.nodes /\ active.nodes[n] = nodes[n]
  BY Zenon DEF Agree
<1>2. \A n : n \in DOMAIN active.nodes /\ active.nodes[n].path = p
               => n \in DOMAIN nodes /\ active.nodes[n] = nodes[n]
  BY Zenon DEF Agree, Sound
<1>3. \A n : n \in DOMAIN nodes /\ nodes[n].path = p
               => (Holder(nodes, n) <=> Holder(active.nodes, n))
  BY <1>1, <1>2, Zenon DEF Holder
<1>4. \A n : n \in Source(nodes, p, caller) <=> n \in Source(active.nodes, p, caller)
  BY <1>1, <1>2, <1>3, Zenon DEF Source
<1> QED
  BY <1>4, Zenon

\* A row keeps its symbol's name.
LEMMA RowSymbol == \A p, s : Row(p, s).symbol = s.symbol
  BY Zenon DEF Row

\* A file that the closure leaves out keeps what its references had: a symbol that
\* a changed file lost had an edge from it, and one it gained was on record as
\* missing.
LEMMA Unaffected ==
  ASSUME Sound(active), Live(active), NEW db, DOMAIN db.nodes \subseteq NodeId,
         Agree(db.nodes),
         db.edges = PurgeFileEdges(active, changed),
         db.unresolved = PurgeUnresolved(active, changed),
         changed \subseteq Path,
         \A q \in changed : Exact(db.nodes, DOMAIN db.nodes, tree, q, All(tree, q)),
         NamesOK(changed),
         NEW p \in Path, p \notin changed, p \notin SourcePaths(active, changed),
         p \notin UnresolvedIn(active, names),
         NEW content, RefsMet(active, p, content)
  PROVE  RefsMet(db, p, content)
<1>1. ASSUME NEW caller, NEW name, NEW kinds, Met(active, p, caller, name, kinds)
      PROVE  Met(db, p, caller, name, kinds)
  <2> DEFINE S == Source(active.nodes, p, caller)
             T == Named(active.nodes, name)
  <2>1. Source(db.nodes, p, caller) = S
    BY SameSources, Zenon
  <2>2. \/ S = {}
        \/ T = {} /\ <<p, name>> \in active.unresolved
        \/ \E e \in active.edges : e.src \in S /\ e.tgt \in T /\ e.kind \in kinds
    BY <1>1, Zenon DEF Met
  <2>3. CASE S = {}
    BY <2>1, <2>3, Zenon DEF Met
  <2>4. CASE T = {} /\ <<p, name>> \in active.unresolved
    <3>1. name \notin names
      BY <2>4, Zenon DEF UnresolvedIn
    <3>2. Named(db.nodes, name) = {}
      <4> SUFFICES ASSUME NEW n \in DOMAIN db.nodes, ShortName[db.nodes[n].symbol] = name
                   PROVE  FALSE
        BY Zenon DEF Named
      <4>1. CASE db.nodes[n].path \notin changed
        BY <2>4, <4>1, Zenon DEF Agree, Named
      <4>2. CASE db.nodes[n].path \in changed
        <5> DEFINE q == db.nodes[n].path
        <5>1. PICK i \in All(tree, q) : db.nodes[n] = Row(q, tree[q].symbols[i])
          BY <4>2, Zenon DEF Exact
        <5>2. tree[q] \in Contents /\ i \in DOMAIN tree[q].symbols
          BY <5>1, Zenon DEF All
        <5>3. db.nodes[n].symbol = tree[q].symbols[i].symbol
          BY <5>1, RowSymbol, ZenonT(60)
        <5>4. ShortName[tree[q].symbols[i].symbol] \in names
          BY <4>2, <5>2, Zenon DEF NamesOK, Parsed
        <5> QED
          BY <3>1, <5>3, <5>4, Zenon
      <4> QED
        BY <4>1, <4>2, Zenon
    <3>3. <<p, name>> \in db.unresolved
      BY <2>4, Zenon DEF PurgeUnresolved
    <3> QED
      BY <3>2, <3>3, Zenon DEF Met
  <2>5. ASSUME NEW e \in active.edges, e.src \in S, e.tgt \in T, e.kind \in kinds
        PROVE  Met(db, p, caller, name, kinds)
    <3>1. /\ e.src \in DOMAIN active.nodes /\ active.nodes[e.src].path = p
          /\ e.tgt \in DOMAIN active.nodes /\ ShortName[active.nodes[e.tgt].symbol] = name
      BY <2>5, Zenon DEF Source, Named
    <3>2. active.nodes[e.tgt].path \notin changed
      BY <3>1, Zenon DEF SourcePaths
    <3>3. e \in db.edges
      BY <3>1, <3>2, Zenon DEF PurgeFileEdges, Touches
    <3>4. e.tgt \in DOMAIN db.nodes /\ db.nodes[e.tgt] = active.nodes[e.tgt]
      BY <3>1, <3>2, Zenon DEF Agree, Sound
    <3>5. e.tgt \in Named(db.nodes, name)
      BY <3>1, <3>4, Zenon DEF Named
    <3> HIDE DEF S
    <3> QED
      BY <2>1, <2>5, <3>3, <3>5, Zenon DEF Met
  <2> QED
    BY <2>2, <2>3, <2>4, <2>5, Zenon
<1> QED
  BY <1>1, Zenon DEF RefsMet

\* The edges the purge leaves keep their reasons.
LEMMA StillBacked ==
  ASSUME Sound(active), Live(active), NEW nodes, Agree(nodes),
         \A e \in active.edges : Reason(active.nodes, indexed, e),
         \A p \in Path \ changed : tree[p] = indexed[p],
         NEW e \in PurgeFileEdges(active, changed)
  PROVE  Reason(nodes, tree, e)
<1>1. /\ e \in active.edges /\ e.src \in DOMAIN active.nodes /\ e.tgt \in DOMAIN active.nodes
      /\ active.nodes[e.src].path \notin changed /\ active.nodes[e.tgt].path \notin changed
  BY Zenon DEF PurgeFileEdges, Touches, Live
<1>2. nodes[e.src] = active.nodes[e.src] /\ nodes[e.tgt] = active.nodes[e.tgt]
  BY <1>1, Zenon DEF Agree, Sound
<1>3. tree[active.nodes[e.src].path] = indexed[active.nodes[e.src].path]
  BY <1>1, Zenon DEF Sound
<1> QED
  BY <1>1, <1>2, <1>3, Zenon DEF Reason

\* A node pass that is through has written every symbol.
LEMMA AllWritten ==
  ASSUME todo = {}, rows = <<>>, NEW p
  PROVE  Written(p) = All(tree, p)
<1>1. CASE tree[p] \in Contents
  <2>1. Len(tree[p].symbols) \in Nat /\ DOMAIN tree[p].symbols = 1..Len(tree[p].symbols)
    BY <1>1, SymbolsSeq, Zenon
  <2>2. Len(tree[p].symbols) - Len(rows) = Len(tree[p].symbols)
    BY <2>1
  <2> QED
    BY <1>1, <2>1, <2>2, Zenon DEF Written, All, Parsed
<1>2. CASE tree[p] \notin Contents
  BY <1>2, Zenon DEF Written, All, Parsed
<1> QED
  BY <1>1, <1>2, Zenon

\* What is on disk and parsed is in the list of files.
LEMMA ParsedOnDisk ==
  ASSUME NEW p \in Path, Parsed(p)
  PROVE  p \in OnDisk
BY ReindexAssumption, Zenon DEF Parsed, OnDisk

\* A full pass has written the symbols of every file when its node loop ends.
LEMMA FinishFullContent ==
  ASSUME ContentInv, LiveInv, FinishNodes, mode = "full"
  PROVE  ContentInv'
<1>1. /\ pc = "nodes" /\ todo = {} /\ rows = <<>> /\ staged' = staged /\ todo' = files
      /\ pc' = "edges"
      /\ UNCHANGED <<tree, edits, active, mode, files, changed, affected, names, cur, rows,
                     retained, indexed, refreshed>>
  BY Zenon DEF FinishNodes
<1>2. FullOK /\ files = OnDisk
  BY <1>1, Zenon DEF ContentInv
<1>3. NodesAre(staged, tree)
  BY <1>1, <1>2, AllWritten, Zenon DEF FullOK, NodesAre
<1>4. EdgesOK'
  <2>1. \A p \in Path \ files : ~Parsed(p)
    BY <1>2, ParsedOnDisk, Zenon
  <2>2. staged.edges = {}
    BY <1>2, Zenon DEF FullOK
  <2>3. /\ NodesAre(staged', tree')
        /\ \A p \in Path \ todo' : Parsed(p)' => RefsMet(staged', p, tree'[p])
        /\ \A e \in staged'.edges : Reason(staged'.nodes, tree', e)
    BY <1>1, <1>3, <2>1, <2>2, Zenon DEF Parsed
  <2> QED
    BY <2>3, Zenon DEF EdgesOK
<1>5. files \subseteq Path
  BY <1>2, Zenon DEF OnDisk
<1> QED
  BY <1>1, <1>4, <1>5, Zenon DEF ContentInv, OnDisk

\* The stale nodes go; the files that need no new edges are exactly those outside
\* the closure.
LEMMA FinishIncrementalContent ==
  ASSUME ContentInv, LiveInv, FinishNodes, mode = "incremental"
  PROVE  ContentInv'
<1> DEFINE keep == {m \in DOMAIN staged.nodes : staged.nodes[m].path \in changed => m \in retained}
<1>1. /\ pc = "nodes" /\ todo = {} /\ rows = <<>> /\ todo' = files \cap affected
      /\ pc' = "edges"
      /\ UNCHANGED <<tree, edits, active, mode, files, changed, affected, names, cur, rows,
                     retained, indexed, refreshed>>
  BY Zenon DEF FinishNodes
<1>2. /\ IncrementalOK /\ files = OnDisk /\ Sound(active) /\ Live(active) /\ Sound(staged)
      /\ Finished(active, indexed) /\ IsDb(staged) /\ changed \subseteq Path
      /\ \A p \in Path \ changed : tree[p] = indexed[p]
  BY <1>1, Zenon DEF ContentInv, LiveInv
<1>3. staged' = [staged EXCEPT !.nodes = [n \in keep |-> staged.nodes[n]]]
  BY Zenon DEF FinishNodes
<1>4. /\ staged'.nodes = [n \in keep |-> staged.nodes[n]]
      /\ staged'.edges = staged.edges /\ staged'.unresolved = staged.unresolved
  BY <1>2, <1>3, Zenon DEF IsDb
<1>5. /\ DOMAIN staged'.nodes = keep /\ keep \subseteq DOMAIN staged.nodes
      /\ \A n \in keep : staged'.nodes[n] = staged.nodes[n]
  BY <1>4, Zenon
<1>6. Sound(staged') /\ DOMAIN staged'.nodes \subseteq NodeId
  BY <1>2, <1>5, Zenon DEF Sound
<1>7. Agree(staged'.nodes)
  BY <1>2, <1>5, Zenon DEF IncrementalOK, Agree
<1>8. ASSUME NEW p \in changed
      PROVE  Exact(staged'.nodes, DOMAIN staged'.nodes, tree, p, All(tree, p))
  <2>1. Exact(staged.nodes, retained, tree, p, All(tree, p)) /\ retained \subseteq DOMAIN staged.nodes
    BY <1>1, <1>2, AllWritten, Zenon DEF IncrementalOK
  <2>2. \A n \in keep : staged.nodes[n].path = p => n \in retained
    BY Zenon
  <2>3. retained \subseteq keep
    BY <2>1, Zenon
  <2> HIDE DEF keep
  <2> QED
    BY <1>5, <2>1, <2>2, <2>3 DEF Exact
<1>9. ASSUME NEW p \in Path, p \notin changed
      PROVE  Exact(staged'.nodes, DOMAIN staged'.nodes, tree, p, All(tree, p))
  <2>1. Exact(active.nodes, DOMAIN active.nodes, tree, p, All(tree, p))
    <3>1. Exact(active.nodes, DOMAIN active.nodes, indexed, p, All(indexed, p))
      BY <1>2, Zenon DEF Finished, NodesAre
    <3>2. tree[p] = indexed[p]
      BY <1>2, <1>9, Zenon
    <3> QED
      BY <3>1, <3>2 DEF Exact, All
  <2>2. \A n \in DOMAIN staged'.nodes : staged'.nodes[n].path = p
          => n \in DOMAIN active.nodes /\ active.nodes[n] = staged'.nodes[n]
    BY <1>6, <1>7, <1>9, Zenon DEF Agree
  <2>3. \A n \in DOMAIN active.nodes : active.nodes[n].path = p
          => n \in DOMAIN staged'.nodes /\ active.nodes[n] = staged'.nodes[n]
    BY <1>2, <1>7, <1>9, Zenon DEF Agree, Sound
  <2>4. \A i : Row(p, tree[p].symbols[i]).path = p
    BY Zenon DEF Row
  <2> QED
    BY <2>1, <2>2, <2>3, <2>4 DEF Exact
<1>10. NodesAre(staged', tree)
  BY <1>8, <1>9, Zenon DEF NodesAre
<1>11. ASSUME NEW p \in Path \ (files \cap affected), Parsed(p)
       PROVE  RefsMet(staged', p, tree[p])
  <2>1. /\ p \notin changed /\ p \notin SourcePaths(active, changed)
        /\ p \notin UnresolvedIn(active, names)
    BY <1>2, <1>11, ParsedOnDisk, Zenon DEF IncrementalOK
  <2>2. RefsMet(active, p, tree[p])
    BY <1>2, <1>11, <2>1, Zenon DEF Finished, Parsed
  <2>3. /\ staged'.edges = PurgeFileEdges(active, changed)
        /\ staged'.unresolved = PurgeUnresolved(active, changed) /\ NamesOK(changed)
    BY <1>2, <1>4, Zenon DEF IncrementalOK
  <2> QED
    BY <1>2, <1>6, <1>7, <1>8, <2>1, <2>2, <2>3, Unaffected, Zenon
<1>12. ASSUME NEW e \in staged'.edges PROVE Reason(staged'.nodes, tree, e)
  <2>1. e \in PurgeFileEdges(active, changed) /\ \A d \in active.edges : Reason(active.nodes, indexed, d)
    BY <1>2, <1>4, Zenon DEF IncrementalOK, Finished
  <2> QED
    BY <1>2, <1>7, <2>1, StillBacked, Zenon
<1>13. EdgesOK'
  <2>1. /\ NodesAre(staged', tree')
        /\ \A p \in Path \ todo' : Parsed(p)' => RefsMet(staged', p, tree'[p])
        /\ \A e \in staged'.edges : Reason(staged'.nodes, tree', e)
    BY <1>1, <1>10, <1>11, <1>12, Zenon DEF Parsed
  <2> QED
    BY <2>1, Zenon DEF EdgesOK
<1>14. files \cap affected \subseteq Path
  BY <1>2, Zenon DEF OnDisk
<1> QED
  BY <1>1, <1>6, <1>13, <1>14, Zenon DEF ContentInv, OnDisk

\* Resolving a file adds exactly the edges its references ask for.
LEMMA ResolveFileContent ==
  ASSUME ContentInv, LiveInv, NEW p \in Path, ResolveFile(p)
  PROVE  ContentInv'
<1>1. /\ pc = "edges" /\ todo' = todo \ {p}
      /\ UNCHANGED <<tree, edits, active, pc, mode, files, changed, affected, names, cur,
                     rows, retained, indexed, refreshed>>
  BY Zenon DEF ResolveFile
<1>2. EdgesOK /\ Sound(staged) /\ IsDb(staged)
  BY <1>1, Zenon DEF ContentInv, LiveInv
<1>3. /\ staged'.nodes = staged.nodes
      /\ ~Parsed(p) => staged' = staged
      /\ Parsed(p) =>
           /\ staged'.edges = UpsertEdges(staged.edges, ResolveIds(staged.nodes, p, tree[p]))
           /\ staged'.unresolved = PurgeUnresolved(staged, {p})
                \cup {<<p, n>> : n \in Unresolved(staged.nodes, tree[p])}
  BY <1>2, Zenon DEF ResolveFile, IsDb
<1>4. Sound(staged') /\ NodesAre(staged', tree) /\ DOMAIN staged.nodes \subseteq NodeId
  BY <1>2, <1>3, Zenon DEF Sound, NodesAre, EdgesOK
<1>5. ASSUME NEW q \in Path \ todo', Parsed(q)
      PROVE  RefsMet(staged', q, tree[q])
  <2>1. CASE q = p
    <3>1. \A n \in Unresolved(staged'.nodes, tree[p]) : <<p, n>> \in staged'.unresolved
      BY <1>3, <1>5, <2>1, Zenon
    <3>2. staged'.edges = UpsertEdges(staged.edges, ResolveIds(staged'.nodes, p, tree[p]))
      BY <1>3, <1>5, <2>1, Zenon
    <3> QED
      BY <1>3, <1>4, <2>1, <3>1, <3>2, FileMet, Zenon
  <2>2. CASE q # p
    <3>1. RefsMet(staged, q, tree[q])
      BY <1>1, <1>2, <1>5, <2>2, Zenon DEF EdgesOK
    <3>2. CASE ~Parsed(p)
      BY <1>3, <3>1, <3>2, Zenon
    <3>3. CASE Parsed(p)
      <4>1. \A name : <<q, name>> \in staged.unresolved => <<q, name>> \in staged'.unresolved
        BY <1>3, <2>2, <3>3, Zenon DEF PurgeUnresolved
      <4>2. \A e \in staged.edges :
              \E d \in staged'.edges : d.src = e.src /\ d.tgt = e.tgt /\ d.kind = e.kind
        BY <1>3, <3>3, KeyKept
      <4> QED
        BY <1>3, <3>1, <4>1, <4>2, MetStays, Zenon
    <3> QED
      BY <3>2, <3>3, Zenon
  <2> QED
    BY <2>1, <2>2, Zenon
<1>6. ASSUME NEW e \in staged'.edges PROVE Reason(staged'.nodes, tree, e)
  <2>1. CASE e \in staged.edges
    BY <1>2, <1>3, <2>1, Zenon DEF EdgesOK
  <2>2. CASE e \notin staged.edges
    <3>1. Parsed(p) /\ e \in ResolveIds(staged.nodes, p, tree[p])
      BY <1>3, <1>6, <2>2, Zenon DEF UpsertEdges
    <3>2. /\ staged.nodes[e.src].path = p
          /\ Backed(tree[p], staged.nodes[e.src].symbol,
                    ShortName[staged.nodes[e.tgt].symbol], e.kind)
      BY <3>1, ResolvedBacked, Zenon DEF Parsed
    <3> QED
      BY <1>3, <3>2, Zenon DEF Reason
  <2> QED
    BY <2>1, <2>2, Zenon
<1>7. EdgesOK'
  <2>1. /\ NodesAre(staged', tree')
        /\ \A q \in Path \ todo' : Parsed(q)' => RefsMet(staged', q, tree'[q])
        /\ \A e \in staged'.edges : Reason(staged'.nodes, tree', e)
    BY <1>1, <1>4, <1>5, <1>6, Zenon DEF Parsed
  <2> QED
    BY <2>1, Zenon DEF EdgesOK
<1> QED
  BY <1>1, <1>4, <1>7, Zenon DEF ContentInv, OnDisk

\* A function that returns leaves what is promoted as it found it or as it wants it.
LEMMA LeaveContent ==
  ASSUME ContentInv, Leave, tree' = tree, Sound(active'), Finished(active', indexed')
  PROVE  ContentInv'
<1>1. /\ pc' = "idle" /\ mode' = "full" /\ todo' = {} /\ retained' = {} /\ staged' = EmptyDb
  BY Zenon DEF Leave
<1>2. Sound(EmptyDb)
  BY Zenon DEF Sound, EmptyDb
<1> QED
  BY <1>1, <1>2, Zenon DEF ContentInv

\* The staged database that is renamed is exact.
LEMMA PromoteContent ==
  ASSUME ContentInv, ~EditsDuringReindex, Promote
  PROVE  ContentInv'
<1>1. /\ pc = "edges" /\ todo = {} /\ active' = staged /\ Leave /\ indexed' = tree /\ tree' = tree
  BY Zenon DEF Promote
<1>2. EdgesOK /\ Sound(staged)
  BY <1>1, Zenon DEF ContentInv
<1>3. Finished(staged, tree)
  BY <1>1, <1>2, Zenon DEF Finished, EdgesOK, Parsed
<1> QED
  BY <1>1, <1>2, <1>3, LeaveContent, Zenon

\* A full pass starts from nothing.
LEMMA StartFullContent ==
  ASSUME ContentInv, LiveInv, StartFull
  PROVE  ContentInv'
<1>1. /\ pc = "idle" /\ pc' = "nodes" /\ mode' = "full" /\ staged' = EmptyDb
      /\ files' = OnDisk /\ todo' = OnDisk
      /\ UNCHANGED <<tree, edits, active, changed, affected, names, cur, rows, retained,
                     indexed, refreshed>>
  BY Zenon DEF StartFull
<1>2. rows = <<>>
  BY <1>1, Zenon DEF LiveInv
<1>3. Sound(EmptyDb) /\ EmptyDb.edges = {} /\ DOMAIN EmptyDb.nodes = {}
  BY Zenon DEF Sound, EmptyDb
<1>4. \A p \in Path : Written(p)' = {}
  BY <1>1, ParsedOnDisk, Zenon DEF Written, Parsed
<1>5. \A p \in Path : Exact(EmptyDb.nodes, {}, tree, p, {})
  BY Zenon DEF Exact
<1>6. FullOK'
  <2>1. \A p \in Path : Exact(staged'.nodes, DOMAIN staged'.nodes, tree', p, Written(p)')
    BY <1>1, <1>3, <1>4, <1>5, Zenon
  <2> QED
    BY <1>1, <1>3, <2>1, Zenon DEF FullOK
<1>7. OnDisk \subseteq Path /\ OnDisk' = OnDisk
  BY <1>1, Zenon DEF OnDisk
<1> QED
  BY <1>1, <1>2, <1>3, <1>6, <1>7, Zenon DEF ContentInv, RowsOK

\* An incremental pass starts from a copy that was exact before the changes.
LEMMA StartIncrementalContent ==
  ASSUME ContentInv, LiveInv, ~EditsDuringReindex, NEW C \in SUBSET Path, StartIncremental(C)
  PROVE  ContentInv'
<1>1. /\ pc = "idle" /\ pc' = "names" /\ mode' = "incremental" /\ staged' = active
      /\ {p \in Path : tree[p] # indexed[p]} \subseteq C
      /\ files' = OnDisk /\ todo' = OnDisk \cap C /\ changed' = C
      /\ affected' = C \cup SourcePaths(active, C)
      /\ UNCHANGED <<tree, edits, active, cur, rows, retained, indexed, refreshed>>
  BY Zenon DEF StartIncremental
<1>2. OnDisk \subseteq Path /\ OnDisk' = OnDisk
  BY <1>1, Zenon DEF OnDisk
<1>3. NamesOK(changed \ todo)'
  BY <1>1, ParsedOnDisk, Zenon DEF NamesOK, Parsed
<1> QED
  BY <1>1, <1>2, <1>3, Zenon DEF ContentInv

\* Collecting names changes no row.
LEMMA CollectNamesContent ==
  ASSUME ContentInv, NEW p \in Path, CollectNames(p)
  PROVE  ContentInv'
<1>1. /\ pc = "names" /\ todo' = todo \ {p}
      /\ names \subseteq names'
      /\ Parsed(p) => \A s \in Elements(tree[p].symbols) : ShortName[s.symbol] \in names'
      /\ UNCHANGED <<tree, edits, active, staged, pc, mode, files, changed, affected, cur,
                     rows, retained, indexed, refreshed>>
  BY Zenon DEF CollectNames
<1>2. NamesOK(changed \ todo)'
  BY <1>1 DEF NamesOK, Parsed, ContentInv, Elements
<1> QED
  BY <1>1, <1>2, Zenon DEF ContentInv, OnDisk

\* The purge removes the edges whose reasons may be gone, and affects their
\* sources.
LEMMA PurgeContent ==
  ASSUME ContentInv, LiveInv, PurgeChanged
  PROVE  ContentInv'
<1>1. /\ pc = "names" /\ todo = {} /\ affected' = affected \cup UnresolvedIn(staged, names)
      /\ staged' = [staged EXCEPT !.edges = PurgeFileEdges(staged, changed),
                                  !.unresolved = PurgeUnresolved(staged, changed)]
      /\ todo' = files \cap changed /\ pc' = "nodes"
      /\ UNCHANGED <<tree, edits, active, mode, files, changed, names, cur, rows, retained,
                     indexed, refreshed>>
  BY Zenon DEF PurgeChanged
<1>2. /\ mode = "incremental" /\ staged = active /\ retained = {} /\ rows = <<>>
      /\ files = OnDisk /\ NamesOK(changed) /\ changed \subseteq Path /\ IsDb(staged)
      /\ affected = changed \cup SourcePaths(active, changed) /\ Sound(active)
  BY <1>1, Zenon DEF ContentInv, LiveInv
<1>3. /\ staged'.nodes = active.nodes /\ staged'.edges = PurgeFileEdges(active, changed)
      /\ staged'.unresolved = PurgeUnresolved(active, changed)
  BY <1>1, <1>2, Zenon DEF IsDb
<1>4. \A p \in changed : Written(p)' = {}
  BY <1>1, <1>2, ParsedOnDisk, Zenon DEF Written, Parsed
<1>5. \A p : Exact(active.nodes, {}, tree, p, {})
  BY Zenon DEF Exact
<1>6. IncrementalOK'
  <2>1. Agree(staged.nodes)'
    BY <1>1, <1>3, Zenon DEF Agree
  <2>2. NamesOK(changed)'
    BY <1>1, <1>2, Zenon DEF NamesOK, Parsed
  <2>3. \A p \in changed : Exact(staged'.nodes, retained', tree', p, Written(p)')
    BY <1>1, <1>2, <1>3, <1>4, <1>5, Zenon
  <2> QED
    BY <1>1, <1>2, <1>3, <2>1, <2>2, <2>3, Zenon DEF IncrementalOK
<1>7. Sound(staged')
  BY <1>2, <1>3, Zenon DEF Sound
<1>8. RowsOK' /\ files \cap changed \subseteq Path /\ OnDisk' = OnDisk
  BY <1>1, <1>2, Zenon DEF RowsOK, OnDisk
<1> QED
  BY <1>1, <1>2, <1>6, <1>7, <1>8, Zenon DEF ContentInv

\* A file is about to be written with what is on disk.
LEMMA ParseForNodesContent ==
  ASSUME ContentInv, NEW p \in Path, ParseForNodes(p)
  PROVE  ContentInv'
<1>1. /\ pc = "nodes" /\ rows = <<>> /\ p \in todo /\ cur' = p /\ todo' = todo \ {p}
      /\ rows' = IF Parsed(p) THEN tree[p].symbols ELSE <<>>
      /\ UNCHANGED <<tree, edits, active, staged, pc, mode, files, changed, affected,
                     names, retained, indexed, refreshed>>
  BY Zenon DEF ParseForNodes, IsNext
<1>2. Written(p) = {} /\ Written(p)' = {}
  <2>1. CASE Parsed(p)
    <3>1. Len(tree[p].symbols) \in Nat /\ Len(tree[p].symbols) - Len(tree[p].symbols) = 0
      BY <2>1, SymbolsSeq DEF Parsed
    <3>2. Written(p)' = 1..0
      BY <1>1, <2>1, <3>1, Zenon DEF Written, Parsed
    <3>3. 1..0 = {}
      OBVIOUS
    <3>4. Written(p) = {}
      BY <1>1, Zenon DEF Written
    <3> QED
      BY <3>2, <3>3, <3>4, Zenon
  <2>2. CASE ~Parsed(p)
    BY <1>1, <2>2, Zenon DEF Written, Parsed
  <2> QED
    BY <2>1, <2>2, Zenon
<1>3. ASSUME NEW q \in Path, q # p PROVE Written(q)' = Written(q)
  <2>1. CASE q = cur /\ tree[q] \in Contents
    <3>1. /\ Len(tree[q].symbols) - Len(rows) = Len(tree[q].symbols)
          /\ DOMAIN tree[q].symbols = 1..Len(tree[q].symbols)
      BY <1>1, <2>1, SymbolsSeq
    <3> QED
      BY <1>1, <1>3, <2>1, <3>1, Zenon DEF Written, Parsed
  <2>2. CASE ~(q = cur /\ tree[q] \in Contents)
    BY <1>1, <1>3, <2>2, Zenon DEF Written, Parsed
  <2> QED
    BY <2>1, <2>2, Zenon
<1>4. \A q \in Path : Written(q)' = Written(q)
  BY <1>2, <1>3, Zenon
<1>5. RowsOK'
  <2>1. CASE Parsed(p)
    <3> DEFINE s == tree[p].symbols
    <3>1. s \in Seq(SymbolRow) /\ Len(s) \in Nat /\ DOMAIN s = 1..Len(s)
      BY <2>1, SymbolsSeq, Zenon DEF Parsed
    <3>2. Len(s) <= Len(s) /\ \A j \in DOMAIN s : Len(s) - Len(s) + j = j
      BY <3>1
    <3> QED
      BY <1>1, <2>1, <3>1, <3>2, Zenon DEF RowsOK, Parsed
  <2>2. CASE ~Parsed(p)
    BY <1>1, <2>2, Zenon DEF RowsOK
  <2> QED
    BY <2>1, <2>2, Zenon
<1>6. FullOK => FullOK'
  BY <1>1, <1>4, Zenon DEF FullOK
<1>7. IncrementalOK /\ changed \subseteq Path => IncrementalOK'
  <2> SUFFICES ASSUME IncrementalOK, changed \subseteq Path PROVE IncrementalOK'
    BY Zenon
  <2>1. Agree(staged.nodes)' /\ NamesOK(changed)'
    BY <1>1, Zenon DEF IncrementalOK, Agree, NamesOK, Parsed
  <2>2. \A q \in changed : Exact(staged'.nodes, retained', tree', q, Written(q)')
    BY <1>1, <1>4, Zenon DEF IncrementalOK
  <2> QED
    BY <1>1, <2>1, <2>2, Zenon DEF IncrementalOK
<1> QED
  BY <1>1, <1>5, <1>6, <1>7, Zenon DEF ContentInv, OnDisk

\* An edit between passes changes no row.
LEMMA EditContent ==
  ASSUME ContentInv, ~EditsDuringReindex, NEW p \in Path, Edit(p)
  PROVE  ContentInv'
<1>1. /\ pc = "idle" /\ \E c \in Contents \cup {Absent, Broken} : tree' = [tree EXCEPT ![p] = c]
      /\ UNCHANGED <<active, staged, pc, mode, files, changed, affected, names,
                     todo, cur, rows, retained, indexed, refreshed>>
  BY Zenon DEF Edit
<1>2. tree' \in [Path -> Contents \cup {Absent, Broken}]
  BY <1>1, Zenon DEF ContentInv
<1> QED
  BY <1>1, <1>2, Zenon DEF ContentInv

\* Nor does stuttering.
LEMMA SameContent ==
  ASSUME ContentInv, UNCHANGED vars
  PROVE  ContentInv'
<1>1. /\ tree' = tree /\ active' = active /\ staged' = staged /\ pc' = pc /\ mode' = mode
      /\ files' = files /\ changed' = changed /\ affected' = affected /\ names' = names
      /\ todo' = todo /\ cur' = cur /\ rows' = rows /\ retained' = retained
      /\ indexed' = indexed
  BY Zenon DEF vars
<1>2. /\ OnDisk' = OnDisk /\ NamesOK(changed \ todo)' = NamesOK(changed \ todo)
      /\ RowsOK' = RowsOK /\ FullOK' = FullOK /\ IncrementalOK' = IncrementalOK
      /\ EdgesOK' = EdgesOK
  BY <1>1, Zenon DEF OnDisk, NamesOK, RowsOK, FullOK, IncrementalOK, EdgesOK, Written, Parsed, Agree
<1> QED
  BY <1>1, <1>2, Zenon DEF ContentInv

\* Nothing is indexed at first.
LEMMA InitContent == Init => ContentInv
<1> SUFFICES ASSUME Init PROVE ContentInv
  BY Zenon
<1>1. Sound(EmptyDb) /\ EmptyDb.edges = {} /\ DOMAIN EmptyDb.nodes = {}
  BY Zenon DEF Sound, EmptyDb
<1>2. \A p \in Path : indexed[p] \notin Contents
  BY ReindexAssumption, Zenon DEF Init
<1>3. Finished(EmptyDb, indexed)
  BY <1>1, <1>2, Zenon DEF Finished, NodesAre, Exact, All
<1> QED
  BY <1>1, <1>3, Zenon DEF ContentInv, Init

\* Every step of a pass keeps the rows and the content in agreement.
LEMMA NextContent ==
  ASSUME ContentInv, LiveInv, ~EditsDuringReindex, NoTwins, [Next]_vars
  PROVE  ContentInv'
<1>1. ASSUME NEW p \in Path, Edit(p) PROVE ContentInv'
  BY <1>1, EditContent, Zenon
<1>2. ASSUME StartFull PROVE ContentInv'
  BY <1>2, StartFullContent, Zenon
<1>3. ASSUME NEW C \in SUBSET Path, StartIncremental(C) PROVE ContentInv'
  BY <1>3, StartIncrementalContent, Zenon
<1>4. ASSUME NEW p \in Path, CollectNames(p) PROVE ContentInv'
  BY <1>4, CollectNamesContent, Zenon
<1>5. ASSUME PurgeChanged PROVE ContentInv'
  BY <1>5, PurgeContent, Zenon
<1>6. ASSUME NEW p \in Path, ParseForNodes(p) PROVE ContentInv'
  BY <1>6, ParseForNodesContent, Zenon
<1>7. ASSUME InsertFresh PROVE ContentInv'
  BY <1>7, InsertFreshContent, Zenon
<1>8. ASSUME UpsertNode PROVE ContentInv'
  BY <1>8, UpsertNodeContent, Zenon
<1>9. ASSUME UpsertFails PROVE ContentInv'
  <2>1. Leave /\ tree' = tree /\ active' = active /\ indexed' = indexed
    BY <1>9, Zenon DEF UpsertFails
  <2> QED
    BY <2>1, LeaveContent, Zenon DEF ContentInv
<1>10. ASSUME FinishNodes PROVE ContentInv'
  BY <1>10, FinishFullContent, FinishIncrementalContent, Zenon DEF LiveInv
<1>11. ASSUME NEW p \in Path, ResolveFile(p) PROVE ContentInv'
  BY <1>11, ResolveFileContent, Zenon
<1>12. ASSUME Promote PROVE ContentInv'
  BY <1>12, PromoteContent, Zenon
<1>13. ASSUME Crash PROVE ContentInv'
  <2>1. Leave /\ tree' = tree /\ active' = active /\ indexed' = indexed
    BY <1>13, Zenon DEF Crash
  <2> QED
    BY <2>1, LeaveContent, Zenon DEF ContentInv
<1>14. ASSUME UNCHANGED vars PROVE ContentInv'
  BY <1>14, SameContent, Zenon
<1> QED
  BY <1>1, <1>2, <1>3, <1>4, <1>5, <1>6, <1>7, <1>8, <1>9, <1>10, <1>11, <1>12,
     <1>13, <1>14, Zenon DEF Next

\* So they always agree.
LEMMA ContentAlways ==
  ASSUME ~EditsDuringReindex, NoTwins
  PROVE  Spec => [](ContentInv /\ LiveInv)
<1>1. Init => ContentInv /\ LiveInv
  BY InitContent, InitLive, Zenon
<1>2. ContentInv /\ LiveInv /\ [Next]_vars => (ContentInv /\ LiveInv)'
  BY NextContent, NextLive, Zenon
<1> QED
  BY <1>1, <1>2, PTL DEF Spec

\* When files are edited only between passes and no file has two symbols that
\* upsert_nodes cannot tell apart, the nodes of every path are exactly the symbols
\* of its indexed content, after any mixture of full and incremental passes,
\* failures and crashes.
THEOREM NodesAlwaysMatchTree ==
  ASSUME ~EditsDuringReindex, NoTwins
  PROVE  Spec => []NodesMatchTree
<1>1. ContentInv => NodesMatchTree
  <2> SUFFICES ASSUME ContentInv, NEW p \in Path
               PROVE  {active.nodes[n] : n \in {m \in DOMAIN active.nodes : active.nodes[m].path = p}}
                        = SymbolsAt(p)
    BY Zenon DEF NodesMatchTree
  <2>1. Exact(active.nodes, DOMAIN active.nodes, indexed, p, All(indexed, p))
    BY Zenon DEF ContentInv, Finished, NodesAre
  <2>2. SymbolsAt(p) = {Row(p, indexed[p].symbols[i]) : i \in All(indexed, p)}
    BY Zenon DEF SymbolsAt, All, Elements
  <2>3. \A i : Row(p, indexed[p].symbols[i]).path = p
    BY Zenon DEF Row
  <2> QED
    BY <2>1, <2>2, <2>3 DEF Exact
<1> QED
  BY <1>1, ContentAlways, PTL

\* Under the same conditions a reference that some symbol satisfies, from a symbol
\* that is indexed, has an edge, although an incremental pass resolves only the
\* files its closure finds.
THEOREM ReferencesAlwaysResolved ==
  ASSUME ~EditsDuringReindex, NoTwins
  PROVE  Spec => []ReferencesResolved
<1>1. ContentInv => ReferencesResolved
  <2> SUFFICES ASSUME ContentInv, NEW p \in Path, indexed[p] \in Contents
               PROVE  /\ \A c \in indexed[p].calls :
                           Source(active.nodes, p, c.caller) # {} /\ Named(active.nodes, c.callee) # {}
                             => Resolves(p, c.caller, c.callee, {"CALLS_EXACT", "CALLS_DYNAMIC"})
                      /\ \A s \in indexed[p].structural :
                           Source(active.nodes, p, s.source) # {} /\ Named(active.nodes, s.target) # {}
                             => Resolves(p, s.source, s.target, {s.kind})
    BY SMTT(60) DEF ReferencesResolved
  <2>1. RefsMet(active, p, indexed[p])
    BY Zenon DEF ContentInv, Finished
  <2>2. ASSUME NEW caller, NEW name, NEW kinds, Met(active, p, caller, name, kinds),
               Source(active.nodes, p, caller) # {}, Named(active.nodes, name) # {}
        PROVE  Resolves(p, caller, name, kinds)
    BY <2>2, Zenon DEF Met, Resolves
  <2> QED
    BY <2>1, <2>2, Zenon DEF RefsMet, CallKinds
<1> QED
  BY <1>1, ContentAlways, PTL

\* Under the same conditions every edge comes from a reference that the indexed
\* content of its source file makes: an id that is given to another symbol brings
\* no old edge with it.
THEOREM EdgesAlwaysJustified ==
  ASSUME ~EditsDuringReindex, NoTwins
  PROVE  Spec => []EdgesJustified
<1>1. ContentInv /\ LiveInv => EdgesJustified
  <2> SUFFICES ASSUME ContentInv, LiveInv, NEW e \in active.edges
               PROVE  /\ e.src \in DOMAIN active.nodes /\ e.tgt \in DOMAIN active.nodes
                      /\ Reason(active.nodes, indexed, e)
    BY Zenon DEF EdgesJustified, Reason, Backed
  <2> QED
    BY Zenon DEF ContentInv, Finished, LiveInv, Live
<1> QED
  BY <1>1, ContentAlways, PTL
=============================================================================
