------------------------------- MODULE MCAnswers -------------------------------
(* What the commands say of a graph; a behaviour is of one of three (part).  *)
(* Queries: five nodes in three files, with gaps between their ids, two      *)
(* named a, two ending in ::k, and B.  Modules: six files, one with two nodes, *)
(* in two repositories; edge tables with a ring, two triangles and a bridge, *)
(* a weighted pair, a pair of kinds between the same nodes, and none.        *)
(* Tarjan's algorithm: every graph of four nodes.                            *)
EXTENDS AgentTools, RepoModules, Tarjan

Row(id, path, symbol, kind, exported) ==
  [id |-> id, path |-> path, symbol |-> symbol, kind |-> kind,
   lang |-> "rust", exported |-> exported, line |-> id]

MCNodeTable ==
  {Row(2, <<1, 1>>, <<97>>, <<102>>, TRUE),
   Row(5, <<1, 2>>, <<98, 58, 58, 107>>, <<109>>, FALSE),
   Row(7, <<1, 2>>, <<66>>, <<99>>, TRUE),
   Row(9, <<2>>, <<99, 58, 58, 107>>, <<109>>, FALSE),
   Row(11, <<2>>, <<97>>, <<102>>, TRUE)}

Calls(m, n) == [source |-> m, target |-> n, kind |-> "CALLS", resolution |-> "EXACT"]
Guess(m, n) ==
  [source |-> m, target |-> n, kind |-> "CALLS_DYNAMIC", resolution |-> "AMBIGUOUS_HEURISTIC"]
Old(m, n) == [source |-> m, target |-> n, kind |-> "CALLS_DYNAMIC", resolution |-> Unset]

\* a -> b::k -> B -> a, both kinds of edge into B, a self loop, a branch.
Pool == <<Calls(2, 5), Calls(5, 7), Calls(7, 2), Guess(9, 7), Calls(9, 7), Calls(5, 5),
          Old(11, 9), Calls(2, 7)>>

Choose(ks) == [k \in 1..Cardinality(ks) |-> Pool[Sorted(ks, <)[k]]]
MCEdgeTables ==
  {Choose(ks) : ks \in UNION {kSubset(n, 1..7 \ {6}) : n \in {0, 3}}}
    \cup {Reverse(Choose(DOMAIN Pool))}

Guard(internal, scope, public) == [internal |-> internal, scope |-> scope, public |-> public]
MCGuards == {Guard(FALSE, {}, {2, 7, 11}), Guard(TRUE, {<<1>>}, {}), Guard(TRUE, {}, {})}

MCSymbols == {<<97>>, <<98>>, <<107>>, <<98, 58, 58, 107>>, <<99, 58>>}

MCFilters ==
  {NoFilter, [NoFilter EXCEPT !.precise = TRUE], [NoFilter EXCEPT !.edge = "CALLS"],
   [NoFilter EXCEPT !.path = <<1>>, !.kind = <<109>>]}

MCPartitions == {{{<<1, 1>>, <<1, 2>>}, {<<2>>, Hidden}}}

MCBudgets == {NoBudget, 0, 14, 36}

MCRankings == SeqOf(BOOLEAN, 6) \cup {[k \in 1..n |-> k > h] : n \in {257, 300}, h \in {250, 256, 299}}

-----------------------------------------------------------------------------
MCFileOf == <<1, 1, 2, 3, 4, 5, 6>>
MCRepoOf == <<"app", "app", "app", "app", "lib", "lib", "lib">>
MCDirOf  == [f \in 0..6 |-> IF f \in {1, 2} THEN "a" ELSE IF f \in {3, 4, 5} THEN "b" ELSE ""]
Ring      == {<<1, 3, 1>>, <<3, 4, 1>>, <<4, 5, 1>>, <<5, 6, 1>>, <<6, 7, 1>>, <<7, 1, 1>>}
Triangles == {<<1, 3, 1>>, <<3, 4, 1>>, <<4, 2, 1>>, <<5, 6, 1>>, <<6, 7, 1>>, <<7, 5, 1>>, <<4, 5, 2>>}
Heavy     == {<<1, 3, 1>>, <<2, 3, 1>>, <<3, 1, 2>>, <<1, 2, 1>>, <<4, 5, 1>>, <<3, 4, 1>>}
MCModuleTables == {Ring, Triangles, Heavy, {<<1, 2, 1>>}}
MCViews == {1..7, {1, 3, 4, 5, 7}}

\* The neighbours of a node in ascending order, and at times the node itself.
Ascending(S) == CHOOSE q \in [1..Cardinality(S) -> S] : \A i, j \in DOMAIN q : i < j => q[i] < q[j]
MCAdjacencies == {a \in [1..4 -> {Ascending(S) : S \in SUBSET (1..4)}] :
                    \A n \in 1..4 : (\E i \in DOMAIN a[n] : a[n][i] = n) => n = 2}

-----------------------------------------------------------------------------
VARIABLE part
answersVars == <<vars, moduleVars, tarjanVars, part>>

\* A part that does not move has nothing to do.
QueriesRest == Init /\ edges = << >>
TarjanRests ==
    /\ adjacency = [n \in Node |-> <<>>] /\ number = [n \in Node |-> n] /\ lowlink = number
    /\ stack = <<>> /\ todo = <<>> /\ components = {{n} : n \in Node}
ModulesRest == ModulesInit /\ moduleEdges = {<<1, 2, 1>>}
MCInit ==
    \/ part = "queries" /\ Init /\ ModulesRest /\ TarjanRests
    \/ part = "modules" /\ QueriesRest /\ ModulesInit /\ TarjanRests
    \/ part = "tarjan" /\ QueriesRest /\ ModulesRest /\ TarjanInit
QueriesStep == part = "queries" /\ Next /\ UNCHANGED <<moduleVars, tarjanVars, part>>
ModulesStep(A) == part = "modules" /\ A /\ UNCHANGED <<vars, tarjanVars, part>>
TarjanStep == part = "tarjan" /\ TarjanNext /\ UNCHANGED <<vars, moduleVars, part>>
MCNext == QueriesStep \/ ModulesStep(ModulesNext) \/ TarjanStep

\* The clustering loop of a command keeps running; nothing obliges a user to ask.
MCSpec == MCInit /\ [][MCNext]_answersVars /\ WF_moduleVars(ModulesStep(Move))
=============================================================================
