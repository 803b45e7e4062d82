------------------------------ MODULE DriftReport ------------------------------
(***************************************************************************)
(* `weave policy drift` (crates/weave-graph-core/src/policy.rs from        *)
(* find_cycles on, crates/weave-graph-cli/src/policy.rs:403): dependency   *)
(* cycles between files, files nothing depends on, and files that are alike*)
(* without a declared dependency, all as one identity may see them.        *)
(*                                                                         *)
(* Files are numbered in path order.  The search for cycles is taken step  *)
(* by step: one step is one call of dfs_cycle, or its return.              *)
(***************************************************************************)
EXTENDS Naturals, Sequences, FiniteSets

CONSTANTS FileOf,     \* the file of each node: [node -> file]
          PathOf,     \* the path of each file, a sequence of components
          EdgeTables, \* possible edges: sets of <<source, target>>
          Views,      \* the nodes an identity may see, possible sets
          Alike,      \* what find_similar_node_pairs can return: <<node, node, tenths>>
          Couplings   \* possible semantic_coupling sections: sequences of rules

ASSUME DriftAssumption ==
    /\ \A n \in DOMAIN FileOf : FileOf[n] \in Nat
    /\ \A v \in Views : v \subseteq DOMAIN FileOf

VARIABLES edges, view, coupling,
          starts,     \* the files find_cycles has yet to search from
          color,      \* 0: not visited, 1: on the stack, 2: done
          trail,      \* `stack`: files, each with the successors its call has yet to visit
          rings,      \* `found`
          answer
driftVars == <<edges, view, coupling, starts, color, trail, rings, answer>>

NotAsked == [asked |-> FALSE]
Files == {FileOf[n] : n \in view}
Kept == {e \in edges : {e[1], e[2]} \subseteq view}
Least(S) == CHOOSE x \in S : \A y \in S : x <= y

-----------------------------------------------------------------------------
(* Cycles.                                                                 *)

\* The file graph find_cycles searches: distinct files, both ends known.
Adjacency(es) == [f \in {FileOf[n] : n \in DOMAIN FileOf} |->
    {FileOf[e[2]] : e \in {d \in es : FileOf[d[1]] = f}} \ {f}]

Graph == Adjacency(Kept)

\* Mutant form: only the first file with a dependency is searched from.
StartsOnce == {f \in DOMAIN Graph : Graph[f] # {} /\ \A g \in DOMAIN Graph : Graph[g] # {} => f <= g}

\* find_cycles: a search from every file with a successor.
Starts == {f \in DOMAIN Graph : Graph[f] # {}}

DriftInit ==
    /\ edges \in EdgeTables /\ view \in Views /\ coupling \in Couplings
    /\ starts = Starts /\ color = [f \in DOMAIN Graph |-> 0] /\ trail = <<>> /\ rings = {}
    /\ answer = NotAsked

\* The file a loop calls dfs_cycle with next, in path order: of the call on top of
\* the stack, or of find_cycles when there is none.
Waiting == IF trail = <<>> THEN starts ELSE trail[Len(trail)].rest
Visits(file) == ~answer.asked /\ Waiting # {} /\ file = Least(Waiting)
StartsAfter(file) == IF trail = <<>> THEN starts \ {file} ELSE starts
TrailAfter(file) == IF trail = <<>> THEN trail ELSE [trail EXCEPT ![Len(trail)].rest = @ \ {file}]

\* dfs_cycle of a file that is on the stack: a ring is closed, from there to the top
\* and back.
CloseRing(file) ==
    LET start == Least({i \in DOMAIN trail : trail[i].file = file}) IN
    /\ Visits(file) /\ color[file] = 1
    /\ rings' = rings \cup {[i \in 1..Len(trail) - start + 2 |->
                               IF i = Len(trail) - start + 2 THEN file ELSE trail[start + i - 1].file]}
    /\ starts' = StartsAfter(file) /\ trail' = TrailAfter(file)
    /\ UNCHANGED <<edges, view, coupling, color, answer>>

\* ... of a file that is done ...
SkipFile(file) ==
    /\ Visits(file) /\ color[file] = 2
    /\ starts' = StartsAfter(file) /\ trail' = TrailAfter(file)
    /\ UNCHANGED <<edges, view, coupling, color, rings, answer>>

\* ... and of a new one.
EnterFile(file) ==
    /\ Visits(file) /\ color[file] = 0
    /\ color' = [color EXCEPT ![file] = 1]
    /\ starts' = StartsAfter(file)
    /\ trail' = Append(TrailAfter(file), [file |-> file, rest |-> Graph[file]])
    /\ UNCHANGED <<edges, view, coupling, rings, answer>>

\* A call has visited all successors and returns.
LeaveFile ==
    /\ trail # <<>> /\ trail[Len(trail)].rest = {}
    /\ trail' = SubSeq(trail, 1, Len(trail) - 1)
    /\ color' = [color EXCEPT ![trail[Len(trail)].file] = 2]
    /\ UNCHANGED <<edges, view, coupling, starts, rings, answer>>

\* rotate_canonical: the list starts at its first smallest file.
RotateCanonical(ring) ==
    LET k == Least({i \in DOMAIN ring : \A j \in DOMAIN ring : ring[i] <= ring[j]})
    IN SubSeq(ring, k, Len(ring)) \o SubSeq(ring, 1, k - 1)

-----------------------------------------------------------------------------
(* Orphans and alikes.                                                     *)

\* orphan_files.
OrphanFiles(ns, es) == {FileOf[n] : n \in ns} \ UNION {Adjacency(es)[f] : f \in DOMAIN Adjacency(es)}

\* in_module, of paths as sequences of components.
Under(path, prefix) == Len(prefix) <= Len(path) /\ SubSeq(path, 1, Len(prefix)) = prefix

\* glob_matches: `prefix/**` or a literal path.
GlobMatches(g, path) == IF g.deep THEN Under(path, g.prefix) ELSE path = g.prefix

\* semantic_coupling_findings for one rule: pairs of files, smaller first.
CouplingFindings(rule, es) ==
    LET Exempt(f) == \E g \in rule.exempt : GlobMatches(g, PathOf[f])
        Declared(f, h) == h \in Adjacency(es)[f] \/ f \in Adjacency(es)[h]
        alike == {p \in Alike : {p[1], p[2]} \subseteq view /\ p[3] >= rule.threshold}
        pairs == {<<FileOf[p[1]], FileOf[p[2]]>> : p \in alike}
    IN {IF p[1] <= p[2] THEN p ELSE <<p[2], p[1]>> :
          p \in {q \in pairs : /\ q[1] # q[2]
                               /\ Under(PathOf[q[1]], rule.within) /\ Under(PathOf[q[2]], rule.within)
                               /\ ~Exempt(q[1]) /\ ~Exempt(q[2])
                               /\ ~Declared(q[1], q[2])}}

\* load_semantic_coupling_rules: an empty prefix or a threshold outside 0..1 is an
\* error; no file, or no section, is no rules.
CouplingLoads == \A i \in DOMAIN coupling : coupling[i].within # <<>> /\ coupling[i].threshold \in 0..10

\* cmd_policy_drift, once the search is over.  An orphan of the view that is none in
\* the whole graph is labelled as having hidden inbound edges.
Report ==
    /\ ~answer.asked /\ trail = <<>> /\ starts = {}
    /\ answer' = [asked |-> TRUE, failed |-> ~CouplingLoads, cycles |-> {RotateCanonical(ring) : ring \in rings},
                  orphans |-> OrphanFiles(view, Kept),
                  labelled |-> OrphanFiles(view, Kept) \ OrphanFiles(DOMAIN FileOf, edges),
                  findings |-> IF CouplingLoads
                               THEN UNION {CouplingFindings(coupling[i], Kept) : i \in DOMAIN coupling} ELSE {}]
    /\ UNCHANGED <<edges, view, coupling, starts, color, trail, rings>>

Drift ==
    \/ \E file \in DOMAIN Graph : CloseRing(file) \/ SkipFile(file) \/ EnterFile(file)
    \/ LeaveFile
    \/ Report

DriftSpec == DriftInit /\ [][Drift]_driftVars

-----------------------------------------------------------------------------
(* Properties.                                                             *)

\* A file depends on another over one or more visible edges: all that every closed
\* set holds in which its successors are.
ClosedFiles(S) == \A f \in S : Graph[f] \subseteq S
Reaches(f, g) == \A S \in SUBSET Files : Graph[f] \subseteq S /\ ClosedFiles(S) => g \in S

\* Every tangle of mutually dependent files is in the report: each such group has
\* a ring, each ring stays in one group, and no ring is reported without one, even
\* though the search never looks at a finished file again (policy.rs:183).
EveryTangleIsReported ==
    answer.asked =>
        /\ \A f \in Files : Reaches(f, f) =>
             \E ring \in answer.cycles : \E i \in DOMAIN ring : Reaches(f, ring[i]) /\ Reaches(ring[i], f)
        /\ \A ring \in answer.cycles : \A i, j \in DOMAIN ring : Reaches(ring[i], ring[j])
=============================================================================
