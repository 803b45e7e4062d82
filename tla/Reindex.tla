------------------------------- MODULE Reindex -------------------------------
(***************************************************************************)
(* The two ways the index of a project is brought up to date: full_reindex *)
(* and incremental_reindex (weave-graph-cli/src/index.rs), the rows they   *)
(* write (weave-graph-store-sqlite/src/backend.rs), and the resolver they  *)
(* call between the node pass and the edge pass (ProjectIndex,             *)
(* weave-graph-parse/src/resolve.rs).                                      *)
(*                                                                         *)
(* A pass stages a database, writes the nodes of some files, resolves the  *)
(* references of some files, and promotes the staged database.  It reads   *)
(* each file when it parses it, so the working tree may change between the *)
(* closure, node and edge passes.                                          *)
(*                                                                         *)
(* Paths are 1..NFiles, in the order discover_files lists them.  A moniker *)
(* is a path and a qualified symbol; ShortName maps a qualified symbol to  *)
(* its last segment.                                                       *)
(***************************************************************************)
EXTENDS Integers, Sequences, FiniteSets

CONSTANTS
  NFiles,             \* how many paths the project may have
  Contents,           \* what a parsed file may contain
  Absent,             \* the path is not on disk
  Broken,             \* the file is on disk, the extractor skips it
  Symbols, Names,     \* qualified symbols and short names
  ShortName,          \* [Symbols -> Names]
  MaxNodes,           \* bound on node ids
  MaxEdits,           \* bound on the edits of the tree
  EditsDuringReindex  \* may the tree change while a pass runs?

Path == 1..NFiles
NodeId == 1..MaxNodes

\* What an extractor says of one symbol.
SymbolRow == [symbol : Symbols, kind : STRING, line : Nat, sig : STRING]

ASSUME ReindexAssumption ==
  /\ NFiles \in Nat /\ MaxNodes \in Nat /\ MaxEdits \in Nat
  /\ Absent \notin Contents /\ Broken \notin Contents
  /\ ShortName \in [Symbols -> Names]
  /\ EditsDuringReindex \in BOOLEAN
  /\ \A c \in Contents : c.symbols \in Seq(SymbolRow)

VARIABLES
  tree,      \* the working tree: path -> what is there
  edits,     \* how often it was edited
  active,    \* the tables of .weave/graph.db
  staged,    \* the tables of .weave/graph.db.rebuild
  pc,        \* "idle", "names", "nodes" or "edges"
  mode,      \* "full" or "incremental"
  files,     \* the paths discover_files returned
  changed,   \* incremental: the paths to replace
  affected,  \* incremental: the paths to resolve again
  names,     \* incremental: short names the changed files define or defined
  todo,      \* the paths this pass has still to parse
  cur, rows, \* the path being written and its symbols still to write
  retained,  \* incremental: the ids written for changed files
  indexed,   \* history: the tree the promoted pass parsed, and the paths
  refreshed  \*   it resolved; kept when the tree holds still during a pass

vars == <<tree, edits, active, staged, pc, mode, files, changed, affected, names,
          todo, cur, rows, retained, indexed, refreshed>>

\* The tables of a graph database.
EmptyDb == [nodes |-> [n \in {} |-> {}], edges |-> {}, unresolved |-> {}]

-----------------------------------------------------------------------------
(* Storage.                                                                *)

\* The row a symbol of path p is stored as (repo_id is always "local").
Row(p, s) ==
  [path |-> p, symbol |-> s.symbol, kind |-> s.kind, line |-> s.line,
   sig |-> s.sig]

\* The unique key (repo_id, path, symbol, line_start) of the nodes table.
SameKey(a, b) == a.path = b.path /\ a.symbol = b.symbol /\ a.line = b.line

\* The id SQLite gives a new row: one more than the largest in use.
IsFreshId(nodes, id) ==
  /\ \A n \in DOMAIN nodes : n < id
  /\ id = 1 \/ id - 1 \in DOMAIN nodes

Insert(nodes, id, row) ==
  [n \in DOMAIN nodes \cup {id} |-> IF n = id THEN row ELSE nodes[n]]

\* Rows upsert_nodes considers to be the symbol: same path, symbol and kind.
Candidates(nodes, row) ==
  {n \in DOMAIN nodes : /\ nodes[n].path = row.path
                        /\ nodes[n].symbol = row.symbol
                        /\ nodes[n].kind = row.kind}

\* The row upsert_nodes updates: the first candidate (they come in the order
\* of the natural-key index, so by line) with the same signature, else the
\* one on the same line.
Existing(nodes, row) ==
  LET C == Candidates(nodes, row)
      bySig == {n \in C : nodes[n].sig = row.sig}
  IN  IF bySig # {}
        THEN {n \in bySig : \A m \in bySig : nodes[n].line <= nodes[m].line}
        ELSE {n \in C : nodes[n].line = row.line}

\* A unique-key violation: the statement fails and the pass returns Err.
Collides(nodes, id, row) ==
  \E n \in DOMAIN nodes \ {id} : SameKey(nodes[n], row)

Touches(nodes, e, P) ==
  \/ e.src \in DOMAIN nodes /\ nodes[e.src].path \in P
  \/ e.tgt \in DOMAIN nodes /\ nodes[e.tgt].path \in P

\* A faulty form: only the edges that leave the files are deleted.
PurgeFileEdgesOutbound(db, P) ==
  {e \in db.edges : ~(e.src \in DOMAIN db.nodes /\ db.nodes[e.src].path \in P)}

\* A faulty form: only the edges that enter the files are deleted.
PurgeFileEdgesInbound(db, P) ==
  {e \in db.edges : ~(e.tgt \in DOMAIN db.nodes /\ db.nodes[e.tgt].path \in P)}

\* purge_file_edges for every path of P: both directions.
PurgeFileEdges(db, P) == {e \in db.edges : ~Touches(db.nodes, e, P)}

\* purge_file_unresolved_refs for every path of P.
PurgeUnresolved(db, P) == {u \in db.unresolved : u[1] \notin P}

\* upsert_edges: a row with the key (source, target, kind) is overwritten.
UpsertEdges(edges, new) ==
  new \cup {e \in edges : \A d \in new :
              ~(d.src = e.src /\ d.tgt = e.tgt /\ d.kind = e.kind)}

\* source_paths_for_target_paths.
SourcePaths(db, P) ==
  {p \in Path : \E e \in db.edges :
      /\ e.src \in DOMAIN db.nodes /\ e.tgt \in DOMAIN db.nodes
      /\ db.nodes[e.src].path = p /\ db.nodes[e.tgt].path \in P}

\* short_symbol_names_for_paths.
ShortNamesOf(db, P) ==
  {ShortName[db.nodes[n].symbol] :
     n \in {m \in DOMAIN db.nodes : db.nodes[m].path \in P}}

\* get_files_with_unresolved_refs for every name of N.
UnresolvedIn(db, N) == {p \in Path : \E n \in N : <<p, n>> \in db.unresolved}

-----------------------------------------------------------------------------
(* The resolver: build_project_index_from_storage and resolve_ids.         *)

\* The nodes a short name may mean.
Named(nodes, name) ==
  {n \in DOMAIN nodes : ShortName[nodes[n].symbol] = name}

\* moniker_to_node_id: of several nodes with one moniker, the last read wins.
Holder(nodes, n) ==
  \A m \in DOMAIN nodes :
    nodes[m].path = nodes[n].path /\ nodes[m].symbol = nodes[n].symbol => m <= n

\* The node of a caller's moniker; there may be none.
Source(nodes, p, symbol) ==
  {n \in DOMAIN nodes : nodes[n].path = p /\ nodes[n].symbol = symbol
                         /\ Holder(nodes, n)}

Edges(sources, targets, kind, res) ==
  {[src |-> s, tgt |-> t, kind |-> kind, res |-> res] : s \in sources, t \in targets}

\* resolve_one for one call of file p.
CallEdges(nodes, p, c) ==
  LET C == Named(nodes, c.callee)
      same == {n \in C : nodes[n].path = p}
      held(T) == {n \in T : Holder(nodes, n)}
      from == Source(nodes, p, c.caller)
  IN  IF ~c.member /\ Cardinality(same) = 1
        THEN Edges(from, held(same), "CALLS_EXACT", "same_file_exact")
      ELSE IF ~c.member /\ Cardinality(C) = 1
        THEN Edges(from, held(C), "CALLS_EXACT", "unique_global_exact")
        ELSE Edges(from, held(C), "CALLS_DYNAMIC", "ambiguous_heuristic")

\* The structural references (IMPORTS, INHERITS, IMPLEMENTS) of file p.
StructuralEdges(nodes, p, s) ==
  LET C == Named(nodes, s.target)
  IN  Edges(Source(nodes, p, s.source), {n \in C : Holder(nodes, n)}, s.kind,
            IF Cardinality(C) = 1 THEN "unique_global_exact"
                                  ELSE "ambiguous_heuristic")

ResolveIds(nodes, p, content) ==
  UNION ({CallEdges(nodes, p, c) : c \in content.calls}
         \cup {StructuralEdges(nodes, p, s) : s \in content.structural})

References(content) ==
  {c.callee : c \in content.calls} \cup {s.target : s \in content.structural}

Unresolved(nodes, content) ==
  {n \in References(content) : Named(nodes, n) = {}}

-----------------------------------------------------------------------------
(* The actions.                                                            *)

Parsed(p) == tree[p] \in Contents
OnDisk == {p \in Path : tree[p] # Absent}
Elements(s) == {s[i] : i \in DOMAIN s}
IsNext(p) == p \in todo /\ \A q \in todo : p <= q

Init ==
  /\ tree \in [Path -> Contents \cup {Absent, Broken}]
  /\ edits = 0
  /\ active = EmptyDb
  /\ staged = EmptyDb
  /\ pc = "idle"
  /\ mode = "full"
  /\ files = {} /\ changed = {} /\ affected = {} /\ names = {}
  /\ todo = {} /\ cur = 0 /\ rows = <<>> /\ retained = {}
  /\ indexed = [p \in Path |-> Absent]
  /\ refreshed = {}

\* The function returns: its locals are gone, and the next call removes the
\* staged file before it does anything else.
Leave ==
  /\ pc' = "idle" /\ mode' = "full" /\ staged' = EmptyDb
  /\ files' = {} /\ changed' = {} /\ affected' = {} /\ names' = {}
  /\ todo' = {} /\ cur' = 0 /\ rows' = <<>> /\ retained' = {}

\* Somebody saves, creates or deletes a file.
Edit(p) ==
  /\ pc = "idle" \/ EditsDuringReindex
  /\ edits < MaxEdits
  /\ edits' = edits + 1
  /\ \E c \in Contents \cup {Absent, Broken} : c # tree[p] /\ tree' = [tree EXCEPT ![p] = c]
  /\ UNCHANGED <<active, staged, pc, mode, files, changed, affected, names,
                 todo, cur, rows, retained, indexed, refreshed>>

\* full_reindex up to the node pass: a fresh staged database.
StartFull ==
  /\ pc = "idle"
  /\ pc' = "nodes" /\ mode' = "full"
  /\ staged' = EmptyDb
  /\ files' = OnDisk /\ todo' = OnDisk
  /\ UNCHANGED <<tree, edits, active, changed, affected, names, cur, rows, retained,
                 indexed, refreshed>>

\* A faulty form: the files that refer into a changed file are not found.
StartIncrementalNoSources(C) ==
  /\ pc = "idle"
  /\ C # {}
  /\ EditsDuringReindex \/ {p \in Path : tree[p] # indexed[p]} \subseteq C
  /\ pc' = "names" /\ mode' = "incremental"
  /\ staged' = active
  /\ files' = OnDisk /\ todo' = OnDisk \cap C
  /\ changed' = C
  /\ affected' = C
  /\ names' = ShortNamesOf(active, C)
  /\ UNCHANGED <<tree, edits, active, cur, rows, retained, indexed, refreshed>>

\* incremental_reindex up to step 1b: the staged database is a backup of the
\* active one, and the closure starts from its edges and symbols.  The caller
\* names at least the files that differ from the indexed ones, unless they
\* change while the pass runs.  (Without a changed file it stages nothing.)
StartIncremental(C) ==
  /\ pc = "idle"
  /\ C # {}
  /\ EditsDuringReindex \/ {p \in Path : tree[p] # indexed[p]} \subseteq C
  /\ pc' = "names" /\ mode' = "incremental"
  /\ staged' = active
  /\ files' = OnDisk /\ todo' = OnDisk \cap C
  /\ changed' = C
  /\ affected' = C \cup SourcePaths(active, C)
  /\ names' = ShortNamesOf(active, C)
  /\ UNCHANGED <<tree, edits, active, cur, rows, retained, indexed, refreshed>>

\* Step 1b: the short names a changed file defines now.
CollectNames(p) ==
  /\ pc = "names"
  /\ IsNext(p)
  /\ todo' = todo \ {p}
  /\ names' = IF Parsed(p)
                THEN names \cup {ShortName[s.symbol] : s \in Elements(tree[p].symbols)}
                ELSE names
  /\ UNCHANGED <<tree, edits, active, staged, pc, mode, files, changed, affected, cur,
                 rows, retained, indexed, refreshed>>

\* Steps 1c and 2: close over the unresolved references, then purge the edges
\* and the unresolved references of the changed files.
PurgeChanged ==
  /\ pc = "names"
  /\ todo = {}
  /\ affected' = affected \cup UnresolvedIn(staged, names)
  /\ staged' = [staged EXCEPT !.edges = PurgeFileEdges(staged, changed),
                              !.unresolved = PurgeUnresolved(staged, changed)]
  /\ todo' = files \cap changed
  /\ pc' = "nodes"
  /\ UNCHANGED <<tree, edits, active, mode, files, changed, names, cur, rows, retained,
                 indexed, refreshed>>

\* The node pass parses the next file.
ParseForNodes(p) ==
  /\ pc = "nodes"
  /\ rows = <<>>
  /\ IsNext(p)
  /\ cur' = p
  /\ rows' = IF Parsed(p) THEN tree[p].symbols ELSE <<>>
  /\ todo' = todo \ {p}
  /\ UNCHANGED <<tree, edits, active, staged, pc, mode, files, changed, affected,
                 names, retained, indexed, refreshed>>

\* insert_fresh_nodes: one symbol of a full pass, ON CONFLICT DO UPDATE.
InsertFresh ==
  /\ pc = "nodes" /\ mode = "full"
  /\ rows # <<>>
  /\ rows' = Tail(rows)
  /\ LET row == Row(cur, Head(rows))
         same == {n \in DOMAIN staged.nodes : SameKey(staged.nodes[n], row)}
     IN  IF same # {}
           THEN staged' = [staged EXCEPT !.nodes =
                             [n \in DOMAIN @ |-> IF n \in same THEN row ELSE @[n]]]
           ELSE \E id \in NodeId :
                  /\ IsFreshId(staged.nodes, id)
                  /\ staged' = [staged EXCEPT !.nodes = Insert(@, id, row)]
  /\ UNCHANGED <<tree, edits, active, pc, mode, files, changed, affected, names, todo,
                 cur, retained, indexed, refreshed>>

\* upsert_nodes on the next symbol of an incremental pass ends in an error.
Rejected ==
  /\ pc = "nodes" /\ mode = "incremental"
  /\ rows # <<>>
  /\ LET row == Row(cur, Head(rows))
         E == Existing(staged.nodes, row)
     IN  \/ \E id \in E : Collides(staged.nodes, id, row)
         \/ E = {} /\ Collides(staged.nodes, 0, row)

\* upsert_nodes on the next symbol: the matching row is moved, or a new one
\* is inserted.
UpsertNode ==
  /\ pc = "nodes" /\ mode = "incremental"
  /\ rows # <<>>
  /\ ~Rejected
  /\ rows' = Tail(rows)
  /\ LET row == Row(cur, Head(rows))
         E == Existing(staged.nodes, row)
     IN  \E id \in NodeId :
           /\ id \in E \/ (E = {} /\ IsFreshId(staged.nodes, id))
           /\ staged' = [staged EXCEPT !.nodes = Insert(@, id, row)]
           /\ retained' = retained \cup {id}
  /\ UNCHANGED <<tree, edits, active, pc, mode, files, changed, affected, names, todo,
                 cur, indexed, refreshed>>

\* The `?` on upsert_nodes: the pass returns the error, nothing is promoted.
UpsertFails ==
  /\ Rejected
  /\ Leave
  /\ UNCHANGED <<tree, edits, active, indexed, refreshed>>

\* A faulty form: the stale nodes of a changed file are left in the table.
FinishNodesKeepStale ==
  /\ pc = "nodes"
  /\ todo = {} /\ rows = <<>>
  /\ todo' = IF mode = "full" THEN files ELSE files \cap affected
  /\ pc' = "edges"
  /\ UNCHANGED <<tree, edits, active, staged, mode, files, changed, affected, names,
                 cur, rows, retained, indexed, refreshed>>

\* The end of the node pass: purge_file_nodes_except for every changed file.
FinishNodes ==
  /\ pc = "nodes"
  /\ todo = {} /\ rows = <<>>
  /\ staged' =
       IF mode = "full" THEN staged
       ELSE [staged EXCEPT !.nodes =
               [n \in {m \in DOMAIN @ : @[m].path \in changed => m \in retained}
                  |-> @[n]]]
  /\ todo' = IF mode = "full" THEN files ELSE files \cap affected
  /\ pc' = "edges"
  /\ UNCHANGED <<tree, edits, active, mode, files, changed, affected, names, cur, rows,
                 retained, indexed, refreshed>>

\* The edge pass parses the next file and resolves its references.
ResolveFile(p) ==
  /\ pc = "edges"
  /\ IsNext(p)
  /\ todo' = todo \ {p}
  /\ staged' =
       IF ~Parsed(p) THEN staged
       ELSE [staged EXCEPT
               !.edges = UpsertEdges(@, ResolveIds(staged.nodes, p, tree[p])),
               !.unresolved = PurgeUnresolved(staged, {p})
                   \cup {<<p, n>> : n \in Unresolved(staged.nodes, tree[p])}]
  /\ UNCHANGED <<tree, edits, active, pc, mode, files, changed, affected, names, cur,
                 rows, retained, indexed, refreshed>>

\* commit_bulk_write, checkpoint_wal and promote_rebuild.
Promote ==
  /\ pc = "edges"
  /\ todo = {}
  /\ active' = staged
  /\ Leave
  /\ IF EditsDuringReindex
       THEN UNCHANGED <<indexed, refreshed>>
       ELSE /\ indexed' = tree
            /\ refreshed' = IF mode = "full" THEN Path ELSE affected
  /\ UNCHANGED <<tree, edits>>

\* The process dies before the rename.
Crash ==
  /\ pc # "idle"
  /\ Leave
  /\ UNCHANGED <<tree, edits, active, indexed, refreshed>>

Next ==
  \/ \E p \in Path : Edit(p)
  \/ StartFull
  \/ \E C \in SUBSET Path : StartIncremental(C)
  \/ \E p \in Path : CollectNames(p) \/ ParseForNodes(p) \/ ResolveFile(p)
  \/ PurgeChanged
  \/ InsertFresh \/ UpsertNode \/ UpsertFails
  \/ FinishNodes
  \/ Promote
  \/ Crash

Spec == Init /\ [][Next]_vars

-----------------------------------------------------------------------------
(* Properties.                                                             *)

Node == [path : Path, symbol : Symbols, kind : STRING, line : Nat, sig : STRING]

Edge ==
  [src : NodeId, tgt : NodeId,
   kind : {"CALLS_EXACT", "CALLS_DYNAMIC", "IMPORTS", "INHERITS", "IMPLEMENTS"},
   res : {"same_file_exact", "unique_global_exact", "ambiguous_heuristic"}]

\* Core Invariant 3: no edge of the database that is served points at a
\* missing node, whichever files a pass is told about, whatever is edited
\* while it runs, and wherever it fails or dies.
NoDanglingEdges ==
  \A e \in active.edges : e.src \in DOMAIN active.nodes /\ e.tgt \in DOMAIN active.nodes

\* No pass runs.  (active and indexed change only when one ends.)
Settled == pc = "idle"

\* What the index holds of path p.
SymbolsAt(p) ==
  IF indexed[p] \in Contents THEN {Row(p, s) : s \in Elements(indexed[p].symbols)}
                             ELSE {}

\* The nodes of every path are exactly the symbols of its indexed content:
\* an incremental pass leaves no symbol of an older version behind and loses
\* none of the new one.
NodesMatchTree == Settled =>
  \A p \in Path :
    {active.nodes[n] : n \in {m \in DOMAIN active.nodes : active.nodes[m].path = p}}
      = SymbolsAt(p)

Resolves(p, caller, name, kinds) ==
  \E e \in active.edges :
    /\ e.src \in Source(active.nodes, p, caller)
    /\ e.tgt \in Named(active.nodes, name)
    /\ e.kind \in kinds

\* However the index was brought up to date, a reference that some symbol
\* satisfies, from a symbol that is indexed, has an edge: the purge of a
\* changed file never costs an unchanged file its edges into it.
ReferencesResolved == Settled =>
  \A p \in Path : indexed[p] \in Contents =>
    /\ \A c \in indexed[p].calls :
         Source(active.nodes, p, c.caller) # {} /\ Named(active.nodes, c.callee) # {}
           => Resolves(p, c.caller, c.callee, {"CALLS_EXACT", "CALLS_DYNAMIC"})
    /\ \A s \in indexed[p].structural :
         Source(active.nodes, p, s.source) # {} /\ Named(active.nodes, s.target) # {}
           => Resolves(p, s.source, s.target, {s.kind})

\* Every edge comes from a reference that its source file still makes.
EdgesJustified == Settled =>
  \A e \in active.edges :
    LET s == active.nodes[e.src]
        name == ShortName[active.nodes[e.tgt].symbol]
        content == indexed[s.path]
    IN  /\ e.src \in DOMAIN active.nodes /\ e.tgt \in DOMAIN active.nodes
        /\ content \in Contents
        /\ \/ \E c \in content.calls : c.caller = s.symbol /\ c.callee = name
           \/ \E r \in content.structural :
                 r.source = s.symbol /\ r.target = name /\ r.kind = e.kind
=============================================================================
