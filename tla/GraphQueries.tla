---------------------------- MODULE GraphQueries ----------------------------
(***************************************************************************)
(* The questions weave answers from an index: weave query and blast and    *)
(* export (weave-graph-cli), weave_trace_calls, weave_impact_radius,       *)
(* weave_file_api, weave_find_all, weave_repo_map and weave_explore        *)
(* (weave-graph-mcp), the symbol resolution all of them share              *)
(* (weave-graph-core/src/resolve.rs) and the masking of an RbacGuard       *)
(* (weave-graph-core/src/rbac.rs).                                         *)
(*                                                                         *)
(* A behaviour picks an index and asks one question of it.  A symbol is    *)
(* the sequence of its character codes, a path the sequence of its         *)
(* segments.  A line of an answer names a node by symbol, path and line.   *)
(* The size of a text is its number of words, as in estimate_tokens.       *)
(***************************************************************************)
EXTENDS CsrGraph

CONSTANTS
  NodeTable,    \* the node rows: [id, path, symbol, kind, lang, exported, line]
  EdgeTables,   \* the edge tables: sequences of [source, target, kind, resolution]
  Guards,       \* the RbacGuards: [internal, scope, public]
  Symbols,      \* the symbols asked for
  Filters,      \* the filters written after a query
  Depths,       \* the hop limits asked for
  Budgets,      \* the max_tokens asked for
  Partitions,   \* the foldings of the files into modules build_modules may return
  Rankings,     \* what a search ranks: sequences of "visible?"
  FusedIds,     \* the ids in two rankings to be fused
  Pages         \* the page sizes asked for

NoGuard == [internal |-> TRUE, scope |-> {}, public |-> {-1}]   \* mask: None
NoBudget == -1
Unset == "any"              \* a filter not given, a language not known
Unlimited == 2147483647   \* u32::MAX hops: more than any walk needs

Nodes == Sorted(NodeTable, LAMBDA m, n : m.id < n.id)   \* all_nodes: ORDER BY id
NodeIds == {n.id : n \in NodeTable}

VARIABLES
  edges,   \* the edge rows
  graph,   \* the CsrGraph loaded from them
  ask,     \* the question asked
  answer   \* and its answer

vars == <<edges, graph, ask, answer>>

Map(Op(_), s) == [k \in DOMAIN s |-> Op(s[k])]
First(s, P(_)) == SelectSeq(s, P)[1]
Some(s, P(_)) == \E k \in DOMAIN s : P(s[k])

(***************************************************************************)
(* RbacGuard                                                               *)
(***************************************************************************)
Hidden == <<60>>   \* "<rbac: hidden>", as a symbol, a path and a kind

\* in_module compares whole segments; the empty prefix contains everything.
InModule(path, prefix) == IsPrefix(prefix, path)

Visible(guard, n) ==
  \/ /\ guard.internal
     /\ guard.scope = {} \/ \E prefix \in guard.scope : InModule(n.path, prefix)
  \/ n.id \in guard.public

\* An id survives masking; nothing else does.
MaskNode(guard, n) ==
  IF guard = NoGuard \/ Visible(guard, n) THEN n
  ELSE [id |-> n.id, path |-> Hidden, symbol |-> Hidden, kind |-> Hidden,
        lang |-> Unset, exported |-> TRUE, line |-> 0]

AnyGuard == Guards \cup {NoGuard}
MaskAll == [guard \in AnyGuard |-> Map(LAMBDA n : MaskNode(guard, n), Nodes)]

\* get_node and the lookup closures: a sequence of at most one node.
Lookup(guard, id) == SelectSeq(MaskAll[guard], LAMBDA n : n.id = id)

(***************************************************************************)
(* resolve_symbol                                                          *)
(***************************************************************************)
Lower(s) == Map(LAMBDA c : IF c \in 65..90 THEN c + 32 ELSE c, s)

LessSeq(a, b) ==
  \/ a # b /\ IsPrefix(a, b)
  \/ \E k \in DOMAIN a \cap DOMAIN b : a[k] < b[k] /\ \A j \in 1..(k - 1) : a[j] = b[j]

ShortNameMatches(nodes, s) ==
  SelectSeq(nodes, LAMBDA n : n.symbol = s \/ IsSuffix(<<58, 58>> \o s, n.symbol))

\* levenshtein: two rows of the edit table, curr computed from prev.
Levenshtein(a, b) ==
  LET row[i \in 0..Len(a)] ==
        IF i = 0 THEN [j \in 0..Len(b) |-> j]
        ELSE LET prev == row[i - 1]
                 curr[j \in 0..Len(b)] ==
                   IF j = 0 THEN i
                   ELSE IF a[i] = b[j] THEN prev[j - 1]
                   ELSE 1 + Min({prev[j - 1], prev[j], curr[j - 1]})
             IN curr
  IN row[Len(a)][Len(b)]

MaxSuggestions == 5

Resolved(id) == [ok |-> TRUE, id |-> id]
NotFound(suggestions) == [ok |-> FALSE, suggestions |-> suggestions]

ResolveSymbol(nodes, s) ==
  LET Exact(n) == n.symbol = s
      Folded(n) == Lower(n.symbol) = Lower(s)
      short == ShortNameMatches(nodes, s)
      Dist(n) == Levenshtein(Lower(n.symbol), Lower(s))
      Nearer(m, n) == Dist(m) < Dist(n) \/ (Dist(m) = Dist(n) /\ LessSeq(m.symbol, n.symbol))
      ranked == SortSeq(nodes, Nearer)
      symbolOf == Map(LAMBDA n : n.symbol, ranked)
  IN IF Some(nodes, Exact) THEN Resolved(First(nodes, Exact).id)
     ELSE IF Some(nodes, Folded) THEN Resolved(First(nodes, Folded).id)
     ELSE IF Len(short) = 1 THEN Resolved(short[1].id)
     ELSE IF short # << >> THEN NotFound(Map(LAMBDA n : n.symbol, short))
     ELSE NotFound(SubSeq(symbolOf, 1, Min({MaxSuggestions, Len(symbolOf)})))

\* Mutant form: guarded callers too ask the store first.
ResolveForUnmasked(guard, s) ==
  LET Exact(n) == n.symbol = s IN
  IF Some(Nodes, Exact) THEN Resolved(First(Nodes, Exact).id)
  ELSE ResolveSymbol(MaskAll[guard], s)

\* Masked callers resolve in the masked list.  Unmasked ones ask sqlite for
\* the symbol first; the scan runs in rowid order.
ResolveFor(guard, s) ==
  LET Exact(n) == n.symbol = s IN
  IF guard = NoGuard /\ Some(Nodes, Exact) THEN Resolved(First(Nodes, Exact).id)
  ELSE ResolveSymbol(MaskAll[guard], s)

(***************************************************************************)
(* weave query                                                             *)
(***************************************************************************)
\* edge_confidence: the resolution if the row has one, else the kind.
IsExact(e) ==
  IF e.resolution # Unset THEN e.resolution # "AMBIGUOUS_HEURISTIC" ELSE e.kind # "CALLS_DYNAMIC"

Describe(n) == [symbol |-> n.symbol, path |-> n.path, line |-> n.line]

Lines(nodes) == Map(Describe, nodes)

\* Prefixes end at a segment; no path starts with NoPath.
NoPath == <<-1>>

MatchesNode(f, n) ==
  /\ IsPrefix(f.path, n.path)
  /\ ~IsPrefix(f.exclude, n.path)
  /\ f.kind # << >> => n.kind = f.kind
  /\ f.lang # Unset => n.lang = f.lang
  /\ f.visibility # Unset => n.exported = (f.visibility = "public")

NoFilter ==
  [path |-> << >>, exclude |-> NoPath, kind |-> << >>, lang |-> Unset, visibility |-> Unset,
   edge |-> Unset, precise |-> FALSE]

GetCallers(id) == SelectSeq(edges, LAMBDA e : e.target = id)

\* The walk of callers_text and incoming_chain: a queue of nodes and hops,
\* and for every caller the first edge that led to it.
CallerWalk(root, depth) ==
  LET See(hop, w, e) ==
        IF e.source \in w.visited THEN w
        ELSE IF e.source \notin NodeIds THEN [w EXCEPT !.visited = @ \cup {e.source}]
        ELSE [visited |-> w.visited \cup {e.source},
              queue |-> Append(w.queue, <<e.source, hop + 1>>),
              seen |-> Append(w.seen, e)]
      pop[k \in 0..(Cardinality(NodeIds) + 1)] ==
        IF k = 0 THEN [visited |-> {root}, queue |-> << <<root, 0>> >>, seen |-> << >>]
        ELSE LET w == pop[k - 1] IN
             IF w.queue = << >> THEN w
             ELSE LET c == Head(w.queue)
                      rest == [w EXCEPT !.queue = Tail(@)]
                  IN IF c[2] >= depth THEN rest
                     ELSE Fold(LAMBDA a, e : See(c[2], a, e), rest, GetCallers(c[1]))
  IN pop[Cardinality(NodeIds) + 1].seen

\* Filters hide a caller; the walk goes on through it.
CallersText(guard, root, f) ==
  LET Shown(e) == /\ f.edge # Unset => e.kind = f.edge
                  /\ f.precise => IsExact(e)
                  /\ MatchesNode(f, Lookup(guard, e.source)[1])
  IN Map(LAMBDA e : Describe(Lookup(guard, e.source)[1]),
         SelectSeq(CallerWalk(root, Unlimited), Shown))

\* Positions come back in increasing order, so in the order of the ids.
IdsOf(g, positions) == Map(LAMBDA i : IdOfIndex(g, i), Sorted(positions, <))

Others(guard, root, positions) ==
  LET ids == SelectSeq(IdsOf(graph, positions), LAMBDA id : id # root)
  IN Map(LAMBDA id : Lookup(guard, id)[1], ids)

ReachableText(guard, root, hops, f) ==
  Lines(SelectSeq(Others(guard, root, ReachableWithin(graph, root, hops)),
                  LAMBDA n : MatchesNode(f, n)))

PathText(guard, from, to) ==
  Map(LAMBDA id : [symbol |-> Lookup(guard, id)[1].symbol], QueryPath(graph, from, to))

Error(why) == [ok |-> FALSE, why |-> why, suggestions |-> << >>]
Text(lines) == [ok |-> TRUE, lines |-> lines]

\* What a resolved first argument is turned into, or the error.
WithSymbol(guard, s, Answer(_)) ==
  LET r == ResolveFor(guard, s) IN
  IF r.ok THEN Answer(r.id)
  ELSE [Error("symbol") EXCEPT !.suggestions = r.suggestions]

Query(fn, args, f, guard) ==
  LET Callers(root) == Text(CallersText(guard, root, f))
      Reach(hops) == WithSymbol(guard, args[1],
                                LAMBDA root : Text(ReachableText(guard, root, hops, f)))
      Between(from) == WithSymbol(guard, args[2],
                                  LAMBDA to : Text(PathText(guard, from, to)))
      bare == [f EXCEPT !.edge = Unset, !.precise = FALSE]
  IN IF fn = "path" /\ f # NoFilter THEN Error("filters")
     ELSE IF fn # "callers" /\ f # bare THEN Error("filters")
     ELSE IF Len(args) # (IF fn = "path" THEN 2 ELSE 1) THEN Error("arguments")
     ELSE CASE fn = "callers" -> WithSymbol(guard, args[1], Callers)
            [] fn = "callees" -> Reach(1)
            [] fn = "impact" -> Reach(Unlimited)
            [] fn = "path" -> WithSymbol(guard, args[1], Between)
=============================================================================
