----------------------------- MODULE AgentTools -----------------------------
(***************************************************************************)
(* The answers that have to fit a budget or a page: the MCP tools          *)
(* (weave-graph-mcp/src), weave blast and export (weave-graph-cli/src),    *)
(* the paged searches of the sqlite store, rank fusion, and the grounding  *)
(* of weave ask.  One action per question.                                 *)
(***************************************************************************)
EXTENDS GraphQueries

\* The masked name is two words, every other name one.
Words(name) == IF name = Hidden THEN 2 ELSE 1
LineWords(l) == Words(l.symbol) + Words(l.path)
SumOver(Op(_), s) == Fold(LAMBDA a, x : a + Op(x), 0, s)
Prefix(s, n) == SubSeq(s, 1, Min({n, Len(s)}))
UnderBudget(words, budget) == budget = NoBudget \/ words <= budget

(***************************************************************************)
(* weave_trace_calls                                                       *)
(***************************************************************************)
OutgoingChain(guard, root, depth) ==
  Map(LAMBDA n : [line |-> Describe(n), exact |-> TRUE],
      Others(guard, root, ReachableWithin(graph, root, depth)))

IncomingChain(guard, root, depth, precise) ==
  Map(LAMBDA e : [line |-> Describe(Lookup(guard, e.source)[1]), exact |-> IsExact(e)],
      SelectSeq(CallerWalk(root, depth), LAMBDA e : precise => IsExact(e)))

ChainWords(chain, per) ==
  2 + SumOver(LAMBDA c : 1 + LineWords(c.line) + (IF c.exact THEN 0 ELSE 1), Prefix(chain, per))
    + (IF Len(chain) > per THEN 4 ELSE 0)

\* Mutant form: the lines left out are not counted.
RenderTraceSilent(out, in, budget) ==
  LET longest == Max({Len(out), Len(in)})
      Size(per) == 2 + ChainWords(out, per) + ChainWords(in, per)
      fitting == {per \in 0..(longest - 1) : Size(per) <= budget}
      per == IF UnderBudget(Size(longest), budget) THEN longest
             ELSE IF fitting = {} THEN 0 ELSE Max(fitting)
      Chain(c) == [total |-> Len(c), shown |-> Prefix(c, per),
                   more |-> 0]
  IN [ok |-> TRUE, outgoing |-> Chain(out), incoming |-> Chain(in), words |-> Size(per)]

\* render_result: everything, else the longest cut of both chains that fits,
\* else no chain line at all.
RenderTrace(out, in, budget) ==
  LET longest == Max({Len(out), Len(in)})
      Size(per) == 2 + ChainWords(out, per) + ChainWords(in, per)
      fitting == {per \in 0..(longest - 1) : Size(per) <= budget}
      per == IF UnderBudget(Size(longest), budget) THEN longest
             ELSE IF fitting = {} THEN 0 ELSE Max(fitting)
      Chain(c) == [total |-> Len(c), shown |-> Prefix(c, per),
                   more |-> IF Len(c) > per THEN Len(c) - per ELSE 0]
  IN [ok |-> TRUE, outgoing |-> Chain(out), incoming |-> Chain(in), words |-> Size(per)]

TraceCalls(guard, s, depth, precise, budget) ==
  WithSymbol(guard, s, LAMBDA root :
    RenderTrace(OutgoingChain(guard, root, depth),
                IncomingChain(guard, root, depth, precise), budget))

(***************************************************************************)
(* weave_impact_radius: the masked variant reads the masked list at the    *)
(* position, the unmasked one asks the store for the id.                   *)
(***************************************************************************)
MaxImpactLines == 20

\* Mutant form: positions are used as if they were ids of the root.
ImpactedNodesById(guard, root) ==
  LET reached == Sorted(ReachableWithin(graph, root, Unlimited), <)
  IN IF guard = NoGuard
     THEN Map(LAMBDA id : Lookup(NoGuard, id)[1],
              SelectSeq(Map(LAMBDA i : IdOfIndex(graph, i), reached), LAMBDA id : id # root))
     ELSE SelectSeq(Map(LAMBDA i : MaskAll[guard][i + 1], reached), LAMBDA n : n.id # graph.ids[1])

ImpactedNodes(guard, root) ==
  LET reached == Sorted(ReachableWithin(graph, root, Unlimited), <)
  IN IF guard = NoGuard
     THEN Map(LAMBDA id : Lookup(NoGuard, id)[1],
              SelectSeq(Map(LAMBDA i : IdOfIndex(graph, i), reached), LAMBDA id : id # root))
     ELSE SelectSeq(Map(LAMBDA i : MaskAll[guard][i + 1], reached), LAMBDA n : n.id # root)

\* The modules of the files of these nodes, as build_modules folds them.
ModulesHit(partition, paths) == {m \cap paths : m \in partition} \ {{}}

RenderImpact(impacted, partition, budget) ==
  LET count == Len(impacted)
      shown == Prefix(impacted, MaxImpactLines)
      paths == {n.path : n \in ToSet(impacted)}
      SymbolsIn(p) == Len(SelectSeq(impacted, LAMBDA n : n.path = p))
      modules == ModulesHit(partition, paths)
      fullWords == 5 + SumOver(LAMBDA n : LineWords(n), shown)
                     + (IF count > MaxImpactLines THEN 4 ELSE 0)
      fileWords == 10 + MapThenSumSet(LAMBDA p : Words(p) + 2, paths)
      moduleWords == 10 + MapThenSumSet(LAMBDA m : 4 + MapThenSumSet(Words, m), modules)
      Answer(tier, words, body) ==
        [ok |-> TRUE, tier |-> tier, count |-> count, words |-> words, body |-> body]
  IN IF UnderBudget(fullWords, budget) THEN Answer("full", fullWords, Lines(shown))
     ELSE IF UnderBudget(fileWords, budget)
     THEN Answer("files", fileWords, [p \in paths |-> SymbolsIn(p)])
     ELSE Answer("modules", moduleWords, modules)

ImpactRadius(guard, s, partition, budget) ==
  WithSymbol(guard, s, LAMBDA root : RenderImpact(ImpactedNodes(guard, root), partition, budget))

(***************************************************************************)
(* weave_file_api: paths are matched before masking, so that a card of a   *)
(* masked file lists redacted rows.                                        *)
(***************************************************************************)
FileCard(guard, path) ==
  Map(LAMBDA n : MaskNode(guard, n), SelectSeq(Nodes, LAMBDA n : n.path = path))

FileApi(guard, paths, budget) ==
  LET cards == Map(LAMBDA p : [path |-> p, symbols |-> FileCard(guard, p)], paths)
      full == SumOver(LAMBDA c : 1 + SumOver(LAMBDA n : Words(n.symbol) + Words(n.kind) + 1,
                                             c.symbols), cards)
      names == SumOver(LAMBDA c : 1 + SumOver(LAMBDA n : Words(n.symbol), c.symbols), cards)
      Answer(tier, words) == [ok |-> TRUE, tier |-> tier, words |-> words, cards |-> cards]
  IN IF UnderBudget(full, budget) THEN Answer("full", full)
     ELSE IF names <= budget THEN Answer("names", names)
     ELSE Answer("counts", 3 * Len(cards))

(***************************************************************************)
(* weave_find_all: the matches of an exhaustive text search, masked, then  *)
(* filtered, then cut until they fit.                                      *)
(***************************************************************************)
FindAll(guard, matches, f, limit, budget) ==
  LET masked == Map(LAMBDA n : MaskNode(guard, n), SelectSeq(Nodes, LAMBDA n : n.id \in matches))
      filtered == SelectSeq(masked, LAMBDA n : MatchesNode(f, n))
      total == Len(filtered)
      Size(shown) ==
        IF shown = 0 THEN (IF total = 0 THEN 2 ELSE 8)
        ELSE SumOver(LAMBDA n : LineWords(n) + Words(n.kind), Prefix(filtered, shown))
               + (IF total > shown THEN 9 ELSE 0)
      most == Min({total, Max({limit, 1})})
      fitting == {k \in 0..most : UnderBudget(Size(k), budget)}
      shown == IF fitting = {} THEN 0 ELSE Max(fitting)
  IN [ok |-> TRUE, total |-> total, shown |-> Lines(Prefix(filtered, shown)), words |-> Size(shown)]

(***************************************************************************)
(* weave_repo_map, one line per file: files by out-degree, then by path.   *)
(***************************************************************************)
RepoMap(guard, maxFiles, budget) ==
  LET nodes == MaskAll[guard]
      OfFile(p) == SelectSeq(nodes, LAMBDA n : n.path = p)
      Degree(p) == SumOver(LAMBDA n : Len(Outbound(graph, n.id)), OfFile(p))
      Before(p, q) == Degree(p) > Degree(q) \/ (Degree(p) = Degree(q) /\ LessSeq(p, q))
      files == Sorted({n.path : n \in ToSet(nodes)}, Before)
      Size(k) == 6 + SumOver(LAMBDA p : Words(p) + 4, Prefix(files, k))
      most == Min({maxFiles, Len(files)})
      kept == IF budget = NoBudget THEN most
              ELSE Max({k \in 0..most : \A j \in 1..k : Size(j) <= budget})
  IN [ok |-> TRUE, total |-> Len(files), words |-> Size(kept),
      files |-> Map(LAMBDA p : [path |-> p, symbols |-> Len(OfFile(p)), degree |-> Degree(p)],
                    Prefix(files, kept))]

(***************************************************************************)
(* weave_explore: sections are given up from the last droppable one on;    *)
(* the note that replaces a section is four words.                         *)
(***************************************************************************)
Finish(sections, budget) ==
  LET Size(ss) == SumOver(LAMBDA s : s.heading + (IF s.omitted THEN 4 ELSE s.text), ss)
      Rearmost(ss) == Max({k \in DOMAIN ss : ss[k].droppable})
      drop[n \in 0..Len(sections)] ==
        IF n = 0 THEN sections
        ELSE LET ss == drop[n - 1] IN
             IF UnderBudget(Size(ss), budget) \/ \A k \in DOMAIN ss : ~ss[k].droppable THEN ss
             ELSE [ss EXCEPT ![Rearmost(ss)] = [@ EXCEPT !.omitted = TRUE, !.droppable = FALSE]]
      kept == drop[Len(sections)]
  IN [ok |-> TRUE, sections |-> kept, words |-> Size(kept)]

\* Around a symbol: the card of its file, its impact, its trace and its
\* source.  Headings are 5, 4, 6 and 5 words.
Explore(guard, s, partition, excerpt, budget) ==
  LET Section(heading, text, droppable) ==
        [heading |-> heading, text |-> text, droppable |-> droppable, omitted |-> FALSE]
      Around(root) ==
        Finish(<<Section(5, FileApi(guard, <<Lookup(guard, root)[1].path>>, NoBudget).words, FALSE),
                 Section(4, ImpactRadius(guard, s, partition, NoBudget).words, TRUE),
                 Section(6, TraceCalls(guard, s, 2, FALSE, NoBudget).words, TRUE),
                 Section(5, excerpt, TRUE)>>, budget)
  IN WithSymbol(guard, s, Around)

(***************************************************************************)
(* weave blast: every symbol of a changed file is touched; the positions   *)
(* reached from the touched ones index the node list.                      *)
(***************************************************************************)
SymbolBudget == 200

Blast(changed, hops, direction, partition) ==
  LET touched == SelectSeq(Nodes, LAMBDA n : n.path \in changed)
      Reach(n) ==
        (IF direction # "callees" THEN CallersWithin(graph, n.id, hops) ELSE {})
          \cup (IF direction # "callers" THEN ReachableWithin(graph, n.id, hops) ELSE {})
      impacted == {Describe(Nodes[i + 1]) : i \in UNION {Reach(n) : n \in ToSet(touched)}}
      modules == ModulesHit(partition, {l.path : l \in impacted})
  IN IF direction \notin {"callers", "callees", "both"} /\ touched # << >>
     THEN Error("direction")
     ELSE [ok |-> TRUE, impacted |-> impacted,
           folded |-> Cardinality(impacted) > SymbolBudget,
           exported |-> {Describe(n) : n \in {n \in ToSet(touched) : n.lang # Unset /\ n.exported}},
           modules |-> {[files |-> m,
                         symbols |-> Cardinality({l \in impacted : l.path \in m})] : m \in modules}]

(***************************************************************************)
(* weave export: the neighbourhood of an exactly named symbol.             *)
(***************************************************************************)
InboundWithin(root, depth) ==
  LET round[h \in 0..(Cardinality(NodeIds) + 1)] ==
        IF h = 0 THEN [seen |-> {root}, frontier |-> {root}]
        ELSE LET p == round[h - 1]
                 next == {e.source : e \in {e \in ToSet(edges) : e.target \in p.frontier}} \ p.seen
             IN [seen |-> p.seen \cup next, frontier |-> next]
  IN round[Min({depth, Cardinality(NodeIds) + 1})].seen

Neighborhood(guard, s, depth) ==
  LET nodes == MaskAll[guard]
      Named(n) == n.symbol = s
      root == First(nodes, Named).id
      ids == {nodes[i + 1].id : i \in ReachableWithin(graph, root, depth)}
               \cup InboundWithin(root, depth) \cup {root}
  IN IF ~Some(nodes, Named) THEN Error("symbol")
     ELSE [ok |-> TRUE, root |-> root,
           nodes |-> SelectSeq(nodes, LAMBDA n : n.id \in ids),
           edges |-> SelectSeq(edges, LAMBDA e : e.source \in ids /\ e.target \in ids)]

(***************************************************************************)
(* search_symbol_nodes and search_nodes_literal: read a window of the      *)
(* ranking, drop what the caller may not see, and widen the window until   *)
(* the page is full, the ranking is read, or the factor is 256.  A ranking *)
(* lists, in rank order, whether a hit is visible; an answer the ranks.    *)
(***************************************************************************)
Factors == <<4, 16, 64, 256>>

SearchPage(ranking, limit) ==
  LET VisibleIn(window) == SelectSeq([k \in 1..Min({window, Len(ranking)}) |-> k],
                                     LAMBDA k : ranking[k])
      Window(k) == Max({limit * Factors[k], limit})
      Stops(k) == \/ Len(VisibleIn(Window(k))) >= limit
                  \/ Len(ranking) < Window(k)
                  \/ Factors[k] >= 256
      stop == Min({k \in DOMAIN Factors : Stops(k)})
  IN [ok |-> TRUE, page |-> Prefix(VisibleIn(Window(stop)), limit), window |-> Window(stop)]

(***************************************************************************)
(* reciprocal_rank_fusion of two lists.  The score of an id is the sum of  *)
(* 1 / (60 + rank) over the lists, rank of its first occurrence from 1 on; *)
(* scores are compared as fractions.                                       *)
(***************************************************************************)
RankIn(list, id) ==
  IF id \in ToSet(list) THEN 60 + Min({k \in DOMAIN list : list[k] = id}) ELSE 0

Score(lists, id) ==
  LET a == RankIn(lists[1], id)
      b == RankIn(lists[2], id)
  IN IF a = 0 THEN <<1, b>> ELSE IF b = 0 THEN <<1, a>> ELSE <<a + b, a * b>>

Fuse(lists, limit) ==
  LET Before(x, y) ==
        LET s == Score(lists, x)
            t == Score(lists, y)
        IN \/ s[1] * t[2] > t[1] * s[2]
           \/ s[1] * t[2] = t[1] * s[2] /\ x < y
  IN Prefix(Sorted(ToSet(lists[1]) \cup ToSet(lists[2]), Before), limit)

(***************************************************************************)
(* weave ask: a routed name becomes a symbol of the index, or the closest  *)
(* three.                                                                  *)
(***************************************************************************)
HasSubstring(s, piece) == \E k \in 0..(Len(s) - Len(piece)) : SubSeq(s, k + 1, k + Len(piece)) = piece

GroundSymbol(name) ==
  LET Named(n) == n.symbol = name
      Folded(n) == Lower(n.symbol) = Lower(name)
      hits == SelectSeq(Nodes, LAMBDA n : HasSubstring(Lower(n.symbol), Lower(name)))
  IN IF Some(Nodes, Named) THEN Resolved(First(Nodes, Named).id)
     ELSE IF Some(Nodes, Folded) THEN Resolved(First(Nodes, Folded).id)
     ELSE IF Len(hits) = 1 THEN Resolved(hits[1].id)
     ELSE NotFound(Map(LAMBDA n : n.symbol, Prefix(hits, 3)))

\* ground_call, then the query it runs: both names are grounded or none is.
AskQuestion(fn, names) ==
  LET found == Map(GroundSymbol, names)
      symbols == Map(LAMBDA r : Lookup(NoGuard, r.id)[1].symbol, found)
  IN IF \E k \in DOMAIN found : ~found[k].ok THEN Error("symbol")
     ELSE [ok |-> TRUE, symbols |-> symbols, result |-> Query(fn, symbols, NoFilter, NoGuard)]

(***************************************************************************)
(* One question, asked of one index.                                       *)
(***************************************************************************)
Nothing == [op |-> "nothing"]
NoAnswer == Error("nothing asked")

Init ==
  /\ edges \in EdgeTables /\ graph = Load(NodeIds, edges)
  /\ ask = Nothing /\ answer = NoAnswer

Answer(question, reply) == /\ ask' = question /\ answer' = reply
                           /\ UNCHANGED <<edges, graph>>

Paths == {n.path : n \in NodeTable}

AskQuery ==
  /\ ask = Nothing
  /\ \E fn \in {"callers", "callees", "impact", "path"}, s, t \in Symbols, f \in Filters, g \in AnyGuard :
       /\ fn # "path" => t = s
       /\ LET args == IF fn = "path" THEN <<s, t>> ELSE <<s>>
          IN Answer([op |-> "query", fn |-> fn, args |-> args, filter |-> f, guard |-> g],
                    Query(fn, args, f, g))

AskTrace ==
  /\ ask = Nothing
  /\ \E s \in Symbols, g \in AnyGuard, d \in Depths, precise \in BOOLEAN, b \in Budgets :
       Answer([op |-> "trace", symbol |-> s, guard |-> g, depth |-> d, precise |-> precise, budget |-> b],
              TraceCalls(g, s, d, precise, b))

AskImpact ==
  /\ ask = Nothing
  /\ \E s \in Symbols, g \in AnyGuard, p \in Partitions, b \in Budgets :
       Answer([op |-> "impact", symbol |-> s, guard |-> g, budget |-> b], ImpactRadius(g, s, p, b))

AskFileApi ==
  /\ ask = Nothing /\ edges = << >>
  /\ \E g \in AnyGuard, p, q \in Paths, b \in Budgets :
       Answer([op |-> "file_api", paths |-> <<p, q>>, guard |-> g, budget |-> b],
              FileApi(g, <<p, q>>, b))

AskFindAll ==
  /\ ask = Nothing /\ edges = << >>
  /\ \E g \in AnyGuard, m \in SUBSET NodeIds, f \in Filters, limit \in Pages, b \in Budgets :
       /\ f.edge = Unset /\ ~f.precise /\ f.visibility = Unset /\ f.exclude = NoPath
       /\ Answer([op |-> "find_all", matches |-> m, filter |-> f, guard |-> g, budget |-> b,
                  limit |-> limit], FindAll(g, m, f, limit, b))

AskRepoMap ==
  /\ ask = Nothing
  /\ \E g \in AnyGuard, most \in Pages, b \in Budgets :
       Answer([op |-> "repo_map", guard |-> g, budget |-> b, most |-> most], RepoMap(g, most, b))

AskExplore ==
  /\ ask = Nothing
  /\ \E s \in Symbols, g \in AnyGuard, p \in Partitions, excerpt \in Pages, b \in Budgets :
       Answer([op |-> "explore", symbol |-> s, guard |-> g, budget |-> b],
              Explore(g, s, p, excerpt, b))

AskBlast ==
  /\ ask = Nothing
  /\ \E changed \in SUBSET Paths, d \in Depths \cup {Unlimited}, p \in Partitions,
        direction \in {"callers", "callees", "both", "sideways"} :
       Answer([op |-> "blast", changed |-> changed, depth |-> d, direction |-> direction],
              Blast(changed, d, direction, p))

AskExport ==
  /\ ask = Nothing
  /\ \E s \in Symbols, g \in AnyGuard, d \in Depths :
       Answer([op |-> "export", symbol |-> s, guard |-> g, depth |-> d], Neighborhood(g, s, d))

AskPath ==
  /\ ask = Nothing
  /\ \E from, to \in NodeIds :
       Answer([op |-> "path", from |-> from, to |-> to],
              [ok |-> TRUE, csr |-> QueryPath(graph, from, to), store |-> StoreQueryPath(edges, from, to)])

AskSearch ==
  /\ ask = Nothing /\ edges = << >>
  /\ \E r \in Rankings, limit \in Pages :
       /\ Answer([op |-> "search", ranking |-> r, limit |-> limit], SearchPage(r, limit))

AskFuse ==
  /\ ask = Nothing /\ edges = << >>
  /\ \E a, b \in SeqOf(FusedIds, 3), limit \in Pages :
       /\ Answer([op |-> "fuse", lists |-> <<a, b>>, limit |-> limit],
                 [ok |-> TRUE, ids |-> Fuse(<<a, b>>, limit)])

AskWeave ==
  /\ ask = Nothing
  /\ \E fn \in {"callers", "path"}, s, t \in Symbols :
       LET names == IF fn = "path" THEN <<s, t>> ELSE <<s>> IN
       /\ fn = "path" \/ s = t
       /\ Answer([op |-> "ask", fn |-> fn, names |-> names], AskQuestion(fn, names))

AskAgain == ask # Nothing /\ ask' = Nothing /\ answer' = NoAnswer /\ UNCHANGED <<edges, graph>>

Next ==
  \/ AskQuery \/ AskTrace \/ AskImpact \/ AskFileApi \/ AskFindAll \/ AskRepoMap \/ AskExplore
  \/ AskBlast \/ AskExport \/ AskPath \/ AskSearch \/ AskFuse \/ AskWeave \/ AskAgain

Spec == Init /\ [][Next]_vars

-----------------------------------------------------------------------------
(***************************************************************************)
(* What the answers mean.  The reference walks node ids, never positions:  *)
(* m reaches n within k hops when a repetition-free path of at most k      *)
(* edges leads there.                                                      *)
(***************************************************************************)
Edge(m, n) == n \in ToSet(Targets(edges, m))

SimplePaths == {p \in SeqOf(NodeIds, Cardinality(NodeIds)) : p # << >> /\ IsInjective(p)}

IsWalk(p) == \A j \in 1..(Len(p) - 1) : Edge(p[j], p[j + 1])
Walked == {p \in SimplePaths : IsWalk(p)}

Longest(k) == IF k = Unlimited THEN Cardinality(NodeIds) ELSE k + 1

Asked(op) == ask.op = op /\ answer.ok
RootId(s) == ResolveFor(ask.guard, s).id
IdsReached(root, k) ==
  {p[Len(p)] : p \in {p \in Walked : p[1] = root /\ Len(p) <= Longest(k)}} \ {root}
IdsReaching(root, k) ==
  {p[1] : p \in {p \in Walked : p[Len(p)] = root /\ Len(p) <= Longest(k)}} \ {root}
Listed(guard, ids) == Lines(SelectSeq(MaskAll[guard], LAMBDA n : n.id \in ids))
SameBag(s, t) == \A x \in ToSet(s) \cup ToSet(t) :
  Len(SelectSeq(s, LAMBDA y : y = x)) = Len(SelectSeq(t, LAMBDA y : y = x))

\* A walk lists exactly what the edge rows say, once each and without the root,
\* whether nodes were fetched by id or by position: callees(), impact(), the
\* outgoing half of a trace and the impact radius the nodes the rows lead to
\* within the hop limit (reachable_text, outgoing_chain, weave_impact_radius);
\* callers() and the incoming half of a trace, which walk the rows backwards, the
\* nodes from which they lead to the root (callers_text, incoming_chain).
WalksListWhatTheRowsSay ==
  /\ Asked("query") /\ ask.fn \in {"callees", "impact"} =>
       LET hops == IF ask.fn = "callees" THEN 1 ELSE Unlimited
           root == RootId(ask.args[1])
           Shown(n) == n.id \in IdsReached(root, hops) /\ MatchesNode(ask.filter, n)
       IN answer.lines = Lines(SelectSeq(MaskAll[ask.guard], Shown))
  /\ Asked("query") /\ ask.fn = "callers" /\ ask.filter = NoFilter =>
       SameBag(answer.lines, Listed(ask.guard, IdsReaching(RootId(ask.args[1]), Unlimited)))
  /\ Asked("trace") /\ ask.budget = NoBudget =>
       /\ Map(LAMBDA c : c.line, answer.outgoing.shown)
            = Listed(ask.guard, IdsReached(RootId(ask.symbol), ask.depth))
       /\ ~ask.precise =>
            SameBag(Map(LAMBDA c : c.line, answer.incoming.shown),
                    Listed(ask.guard, IdsReaching(RootId(ask.symbol), ask.depth)))
  /\ Asked("impact") /\ answer.tier = "full" =>
       answer.body = Listed(ask.guard, IdsReached(RootId(ask.symbol), Unlimited))

\* Masking changes names and nothing else (Core Invariant 7, rbac.rs): an
\* answer given to a guard has a line for exactly the nodes the unguarded
\* answer from the same root has, no line of it names a node the guard
\* hides, and no symbol resolves to a hidden node.
MaskingRedactsOnly ==
  LET named == {Describe(n) : n \in {n \in NodeTable : Visible(ask.guard, n)}}
                 \cup {Describe(MaskNode(ask.guard, n)) : n \in NodeTable}
      hidden == {n.id : n \in {n \in NodeTable : ~Visible(ask.guard, n)}}
  IN ask.op \in {"query", "trace", "impact", "export"} /\ answer.ok /\ ask.guard # NoGuard =>
       LET s == IF ask.op = "query" THEN ask.args[1] ELSE ask.symbol IN
       /\ RootId(s) \notin hidden
       /\ ask.op = "query" /\ ask.fn # "path" =>
            /\ ToSet(answer.lines) \subseteq named
            /\ ask.filter = NoFilter /\ ask.fn # "path" =>
                 Len(answer.lines) = Cardinality(
                   IF ask.fn = "callers" THEN IdsReaching(RootId(s), Unlimited)
                   ELSE IdsReached(RootId(s), IF ask.fn = "callees" THEN 1 ELSE Unlimited))
       /\ ask.op = "trace" => {c.line : c \in ToSet(answer.incoming.shown)} \subseteq named
       /\ ask.op = "impact" => answer.count = Cardinality(IdsReached(RootId(s), Unlimited))
       /\ ask.op = "export" => ToSet(Lines(answer.nodes)) \subseteq named

\* What a budget cuts is still counted ("the totals never go silent",
\* trace_calls.rs): whatever form was chosen, its totals are those of the
\* same question without a budget, and sum up what the form folded.
TotalsSurviveTheBudget ==
  /\ Asked("trace") =>
       LET whole == TraceCalls(ask.guard, ask.symbol, ask.depth, ask.precise, NoBudget)
           Kept(chain, all) ==
             /\ chain.total = Len(all.shown)
             /\ chain.more = chain.total - Len(chain.shown)
             /\ IsPrefix(chain.shown, all.shown)
       IN Kept(answer.outgoing, whole.outgoing) /\ Kept(answer.incoming, whole.incoming)
  /\ Asked("impact") =>
       LET ids == IdsReached(RootId(ask.symbol), Unlimited)
           files == {MaskNode(ask.guard, n).path : n \in {n \in NodeTable : n.id \in ids}}
       IN /\ answer.count = Cardinality(ids)
          /\ answer.tier = "files" => /\ DOMAIN answer.body = files
                                      /\ MapThenSumSet(LAMBDA p : answer.body[p], files) = answer.count
          /\ answer.tier = "modules" => UNION answer.body = files
  /\ Asked("find_all") =>
       answer.total = Cardinality({n \in NodeTable : /\ n.id \in ask.matches
                                                     /\ MatchesNode(ask.filter, MaskNode(ask.guard, n))})

=============================================================================
