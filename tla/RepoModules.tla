------------------------------ MODULE RepoModules ------------------------------
(***************************************************************************)
(* Architectural modules: the file-dependency graph is folded by one pass  *)
(* of Louvain clustering (crates/weave-graph-core/src/{modules,cluster}.rs)*)
(* and the result is written out as a directory of canvases                *)
(* (crates/weave-graph-cli/src/report.rs) or answered as the module mode   *)
(* of weave_repo_map (crates/weave-graph-mcp/src/repo_map.rs).             *)
(*                                                                         *)
(* Files are numbered in path order.  f64 weights are counts of edges, so  *)
(* gains are compared exactly after multiplying by 2m; the order in which  *)
(* a HashMap yields equally good candidates is a choice.                   *)
(***************************************************************************)
EXTENDS Integers, Sequences, FiniteSets

CONSTANTS FileOf,      \* the file of each node of the index: [node -> Nat]
          RepoOf,      \* the repository of each node: [node -> string]
          DirOf,       \* the directory of each file: [file -> string]
          ModuleTables,  \* the edge tables an index can hold: sets of <<s, t, kind>>
          Views,       \* what the asking identity may see: sets of nodes
          NodeBudget,  \* NODE_BUDGET, 200 in the code
          MaxReports   \* bound on the reports and maps asked for

ASSUME ModulesAssumption ==
    /\ IsFiniteSet(DOMAIN FileOf) /\ \A n \in DOMAIN FileOf : FileOf[n] \in Nat
    /\ \A table \in ModuleTables : IsFiniteSet(table)
    /\ \A view \in Views : view \subseteq DOMAIN FileOf
    /\ NodeBudget \in Nat \ {0}

VARIABLES moduleEdges, job, plan, disk, moduleMap, asked
moduleVars == <<moduleEdges, job, plan, disk, moduleMap, asked>>

\* The sum of f over S, by counting.
Total(f, S) == Cardinality(UNION {{x} \X (1..f[x]) : x \in S})

-----------------------------------------------------------------------------
(* Folding edges into file pairs.                                          *)

\* The file each node counts for.  generate drops the nodes a view hides;
\* weave_repo_map masks them, so that all of them share one path, HiddenPath.
HiddenPath == 0
PathsSeen(kind, view) ==
    IF kind = "report" THEN [n \in view |-> FileOf[n]]
    ELSE [n \in DOMAIN FileOf |-> IF n \in view THEN FileOf[n] ELSE HiddenPath]

\* aggregate_file_edges: one weight per unordered pair of distinct files; an
\* edge with an endpoint that has no file is skipped.
AggregateFileEdges(es, fileOf) ==
    LET known == {e \in es : {e[1], e[2]} \subseteq DOMAIN fileOf}
        Pair(e) == LET a == fileOf[e[1]]
                       b == fileOf[e[2]] IN IF a <= b THEN <<a, b>> ELSE <<b, a>>
        pairs == {p \in {Pair(e) : e \in known} : p[1] # p[2]}
    IN [p \in pairs |-> Cardinality({e \in known : Pair(e) = p})]

\* undirected_adjacency: the weight between two files, seen from either side.
Weight(fe, a, b) == LET p == IF a <= b THEN <<a, b>> ELSE <<b, a>>
                    IN IF p \in DOMAIN fe THEN fe[p] ELSE 0

Degrees(files, fe) == [f \in files |-> Total([g \in files |-> Weight(fe, f, g)], files)]

-----------------------------------------------------------------------------
(* Louvain, phase one.                                                     *)

Neighbors(j, f) == {g \in j.files : g # f /\ Weight(j.fileEdges, f, g) > 0}

\* gain_of, times two_m.
Gain(j, sigma, f, c) ==
    LET inside == {g \in Neighbors(j, f) : j.community[g] = c}
    IN Total([g \in j.files |-> Weight(j.fileEdges, f, g)], inside) * j.twoM
         - sigma[c] * j.degree[f]

\* move_to_best_community: where file f may go, given what it belongs to now.
BestCommunities(j, f) ==
    LET current == j.community[f]
        sigma   == [j.communityDegree EXCEPT ![current] = @ - j.degree[f]]
        options == {j.community[g] : g \in Neighbors(j, f)} \ {current}
        better  == {c \in options : Gain(j, sigma, f, c) > Gain(j, sigma, f, current)}
    IN IF better = {} THEN {current}
       ELSE {c \in better : \A d \in better : Gain(j, sigma, f, d) <= Gain(j, sigma, f, c)}

MoveTo(j, f, best) ==
    LET current == j.community[f]
    IN IF best = current THEN j
       ELSE [j EXCEPT !.community[f] = best,
                      !.communityDegree = [@ EXCEPT ![current] = @ - j.degree[f],
                                                    ![best] = @ + j.degree[f]],
                      !.improved = TRUE]

\* renumber: communities numbered from zero in the order their first file comes.
Renumber(files, community) ==
    LET First(c) == CHOOSE f \in files : community[f] = c /\ \A g \in files : community[g] = c => f <= g
        Founders == {First(community[f]) : f \in files}
    IN [f \in files |-> Cardinality({g \in Founders : g < First(community[f])})]

-----------------------------------------------------------------------------
(* Modules and what is rendered from them.                                 *)

\* module_label: a directory most files of the module are in; ties are open.
Labels(files) ==
    LET dirs == {DirOf[f] : f \in files} \ {""}   \* the masked path has no '/'
        Count(d) == Cardinality({f \in files : DirOf[f] = d})
    IN IF dirs = {} THEN {"(root)"}
       ELSE {d \in dirs : \A e \in dirs : Count(e) <= Count(d)}

\* build_modules after clustering: biggest module first, then by id.
BuildModules(files, communities, label) ==
    LET ids == {communities[f] : f \in files}
        Members(i) == {f \in files : communities[f] = i}
        Before(a, b) == \/ Cardinality(Members(a)) > Cardinality(Members(b))
                        \/ Cardinality(Members(a)) = Cardinality(Members(b)) /\ a < b
        Place(i) == 1 + Cardinality({k \in ids : Before(k, i)})
        At(n) == CHOOSE i \in ids : Place(i) = n
    IN [n \in 1..Cardinality(ids) |->
          [id |-> At(n), label |-> label[At(n)], files |-> Members(At(n))]]

Cards(ms) == [n \in DOMAIN ms |-> [id |-> ms[n].id, label |-> ms[n].label,
                                   files |-> Cardinality(ms[n].files)]]

\* Mutant form: the link node is added to a full canvas.
ModulesCanvasFull(ms, fe) ==
    LET shown == IF Len(ms) > NodeBudget THEN NodeBudget ELSE Len(ms)
        Owner(f) == {n \in 1..shown : f \in ms[n].files}
        Crossing(m, n) == {p \in DOMAIN fe : \/ Owner(p[1]) = {m} /\ Owner(p[2]) = {n}
                                             \/ Owner(p[1]) = {n} /\ Owner(p[2]) = {m}}
        between == {b \in (1..shown) \X (1..shown) : b[1] < b[2] /\ Crossing(b[1], b[2]) # {}}
    IN [nodes |-> SubSeq(Cards(ms), 1, shown),
        link  |-> Len(ms) - shown,
        edges |-> {<<ms[b[1]].id, ms[b[2]].id,
                     Total(fe, Crossing(b[1], b[2]))>> :
                   b \in between}]

\* modules_canvas: the shown modules, one link node for the rest, and the
\* weights between shown modules; and the overflow canvas the link opens.
ModulesCanvas(ms, fe) ==
    LET shown == IF Len(ms) > NodeBudget THEN NodeBudget - 1 ELSE Len(ms)
        Owner(f) == {n \in 1..shown : f \in ms[n].files}
        Crossing(m, n) == {p \in DOMAIN fe : \/ Owner(p[1]) = {m} /\ Owner(p[2]) = {n}
                                             \/ Owner(p[1]) = {n} /\ Owner(p[2]) = {m}}
        between == {b \in (1..shown) \X (1..shown) : b[1] < b[2] /\ Crossing(b[1], b[2]) # {}}
    IN [nodes |-> SubSeq(Cards(ms), 1, shown),
        link  |-> Len(ms) - shown,
        edges |-> {<<ms[b[1]].id, ms[b[2]].id,
                     Total(fe, Crossing(b[1], b[2]))>> :
                   b \in between}]

OverflowCanvas(ms) == SubSeq(Cards(ms), NodeBudget, Len(ms))

\* module_canvas: the module's files and the weights between them.
ModuleCanvas(m, fe) ==
    [files |-> m.files,
     edges |-> {<<p[1], p[2], fe[p]>> : p \in {p \in DOMAIN fe : {p[1], p[2]} \subseteq m.files}}]

\* The files generate writes, in order; the markdown comes last and links
\* the canvas of every module.
ReportFiles(fileOf, ms, fe) ==
    << <<<<"repos", 0>>, {RepoOf[n] : n \in DOMAIN fileOf}>>,
       <<<<"modules", 0>>, ModulesCanvas(ms, fe)>> >>
    \o (IF Len(ms) > NodeBudget THEN << <<<<"overflow", 0>>, OverflowCanvas(ms)>> >> ELSE << >>)
    \o [n \in DOMAIN ms |-> <<<<"module", ms[n].id>>, ModuleCanvas(ms[n], fe)>>]
    \o << <<<<"markdown", 0>>, [symbols |-> Cardinality(DOMAIN fileOf), modules |-> Cards(ms)]>> >>

\* module_map: files, symbols and crossing weight of every module.
ModuleMap(fileOf, ms, fe) ==
    [n \in DOMAIN ms |->
       LET crossing == {p \in DOMAIN fe : (p[1] \in ms[n].files) # (p[2] \in ms[n].files)}
       IN [files   |-> ms[n].files, label |-> ms[n].label,
           symbols |-> Cardinality({k \in DOMAIN fileOf : fileOf[k] \in ms[n].files}),
           cross   |-> Total(fe, crossing)]]

-----------------------------------------------------------------------------
(* The commands.                                                           *)

Idle == [kind |-> "none"]
Clustering == job.kind # "none" /\ job.cursor > 0
IsFolded == job.kind # "none" /\ job.cursor = 0

\* cmd_report / module_map up to the clustering loop: nodes, edges and weights
\* are read once.  Without any weight every file is its own community.
Begin(kind, view) ==
    /\ job = Idle /\ plan = << >> /\ asked < MaxReports
    /\ asked' = asked + 1 /\ moduleMap' = << >>
    /\ LET fileOf == PathsSeen(kind, view)
           files  == {fileOf[n] : n \in DOMAIN fileOf}
           fe     == AggregateFileEdges(moduleEdges, fileOf)
           degree == Degrees(files, fe)
           twoM   == Total(degree, files)
           order  == LET At(i) == CHOOSE f \in files : Cardinality({g \in files : g < f}) = i - 1
                     IN [i \in 1..Cardinality(files) |-> At(i)]
       IN job' = [kind |-> kind, fileOf |-> fileOf, files |-> files, order |-> order,
                  fileEdges |-> fe, degree |-> degree, twoM |-> twoM,
                  community |-> [f \in files |-> f], communityDegree |-> degree,
                  improved |-> FALSE,
                  cursor |-> IF twoM = 0 THEN 0 ELSE 1]
    /\ UNCHANGED <<moduleEdges, plan, disk>>

\* Mutant form: one sweep is made, whatever moved in it.
MoveOneSweep ==
    /\ Clustering
    /\ \E best \in BestCommunities(job, job.order[job.cursor]) :
         LET moved == MoveTo(job, job.order[job.cursor], best)
         IN job' = IF job.cursor < Len(job.order) THEN [moved EXCEPT !.cursor = @ + 1]
                   ELSE [moved EXCEPT !.cursor = 0,
                                      !.improved = FALSE]
    /\ UNCHANGED <<moduleEdges, plan, disk, moduleMap, asked>>

\* Mutant form: a new sweep starts with the flag of the last one.
MoveNoReset ==
    /\ Clustering
    /\ \E best \in BestCommunities(job, job.order[job.cursor]) :
         LET moved == MoveTo(job, job.order[job.cursor], best)
         IN job' = IF job.cursor < Len(job.order) THEN [moved EXCEPT !.cursor = @ + 1]
                   ELSE [moved EXCEPT !.cursor = IF moved.improved THEN 1 ELSE 0]
    /\ UNCHANGED <<moduleEdges, plan, disk, moduleMap, asked>>

\* One file of one sweep of louvain_communities; a sweep in which nothing
\* moved is the last one.
Move ==
    /\ Clustering
    /\ \E best \in BestCommunities(job, job.order[job.cursor]) :
         LET moved == MoveTo(job, job.order[job.cursor], best)
         IN job' = IF job.cursor < Len(job.order) THEN [moved EXCEPT !.cursor = @ + 1]
                   ELSE [moved EXCEPT !.cursor = IF moved.improved THEN 1 ELSE 0,
                                      !.improved = FALSE]
    /\ UNCHANGED <<moduleEdges, plan, disk, moduleMap, asked>>

\* The modules are built and the answer, or the list of files to write, follows.
FoldModules ==
    /\ IsFolded
    /\ LET communities == Renumber(job.files, job.community)
           ids == {communities[f] : f \in job.files}
           Choices == [ids -> UNION {Labels({f \in job.files : communities[f] = i}) : i \in ids}]
       IN \E label \in {l \in Choices :
                          \A i \in ids : l[i] \in Labels({f \in job.files : communities[f] = i})} :
            LET ms == BuildModules(job.files, communities, label)
            IN IF job.kind = "report"
               THEN plan' = ReportFiles(job.fileOf, ms, job.fileEdges) /\ UNCHANGED moduleMap
               ELSE moduleMap' = ModuleMap(job.fileOf, ms, job.fileEdges) /\ UNCHANGED plan
    /\ job' = IF job.kind = "report" THEN [job EXCEPT !.cursor = -1] ELSE Idle
    /\ UNCHANGED <<moduleEdges, disk, asked>>

Put(files, name, content) == [n \in DOMAIN files \cup {name} |->
                                IF n = name THEN content ELSE files[n]]

\* write_canvas and the final fs::write of generate, one file at a time.
Write ==
    /\ plan # << >>
    /\ disk' = Put(disk, Head(plan)[1], Head(plan)[2])
    /\ plan' = Tail(plan)
    /\ UNCHANGED <<moduleEdges, job, moduleMap, asked>>

Written == job.kind = "report" /\ job.cursor = -1 /\ plan = << >>

\* The end of cmd_report.
FinishReport ==
    /\ Written
    /\ job' = Idle
    /\ UNCHANGED <<moduleEdges, plan, disk, moduleMap, asked>>

\* The command is killed, or a write fails and `?` ends it.
Stop ==
    /\ job # Idle
    /\ job' = Idle /\ plan' = << >>
    /\ UNCHANGED <<moduleEdges, disk, moduleMap, asked>>

Reindex ==
    /\ job = Idle
    /\ moduleEdges' \in ModuleTables
    /\ UNCHANGED <<job, plan, disk, moduleMap, asked>>

ModulesInit ==
    /\ moduleEdges \in ModuleTables
    /\ job = Idle /\ plan = << >>
    /\ disk = << >> /\ moduleMap = << >>
    /\ asked = 0

ModulesNext ==
    \/ \E view \in Views : Begin("report", view)
    \/ \E view \in Views : Begin("map", view)
    \/ Move
    \/ FoldModules
    \/ Write
    \/ FinishReport
    \/ Stop
    \/ Reindex
ModulesSpec == ModulesInit /\ [][ModulesNext]_moduleVars /\ WF_moduleVars(Move)

-----------------------------------------------------------------------------
\* The `while improved` loop of louvain_communities ends: a command that
\* clusters comes to fold what it found, unless it is stopped.
ClusteringEnds == Clustering ~> ~Clustering

\* When the loop ends no single file would gain by joining the community of
\* one of its neighbours: the last sweep saw every file in the final partition.
FoldedIsLocallyOptimal ==
    IsFolded => \A f \in job.files : BestCommunities(job, f) = {job.community[f]}

LinkedModules == IF <<"markdown", 0>> \notin DOMAIN disk THEN {}
                 ELSE LET ms == disk[<<"markdown", 0>>].modules IN {ms[n].id : n \in DOMAIN ms}

\* A report that was written to the end puts every visible file on the canvas
\* of exactly one of the modules it links, and draws every linked module on
\* the module canvas or behind its overflow link.
ReportCoversEveryFile ==
    Written =>
      /\ \A f \in job.files :
           Cardinality({i \in LinkedModules : f \in disk[<<"module", i>>].files}) = 1
      /\ UNION {disk[<<"module", i>>].files : i \in LinkedModules} = job.files
      /\ LET top  == disk[<<"modules", 0>>]
             rest == IF top.link = 0 THEN << >> ELSE disk[<<"overflow", 0>>]
         IN /\ Len(rest) = top.link
            /\ top.nodes \o rest = disk[<<"markdown", 0>>].modules
            /\ Len(top.nodes) + (IF top.link = 0 THEN 0 ELSE 1) <= NodeBudget
=============================================================================
