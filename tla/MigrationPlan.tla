----------------------------- MODULE MigrationPlan -----------------------------
(***************************************************************************)
(* `weave plan-migration` (crates/weave-graph-cli/src/migration.rs): which *)
(* linked repositories call a deprecated symbol, and in which order they   *)
(* have to leave it.                                                       *)
(*                                                                         *)
(* Labels are numbers, in alphabetical order.  A repository has at most one*)
(* symbol of a name.  The symbols of a repository are known twice: from    *)
(* its stored graph and from its sources, which may have moved on.         *)
(***************************************************************************)
EXTENDS Naturals, Sequences, FiniteSets

CONSTANTS Surveys,     \* [roots: labels of this repository and the linked ones, as configured,
                       \*  indexed, sources: label -> symbols, uses: label -> [file, name] calls]
          Deprecated   \* the symbol that is to go

ASSUME PlanAssumption == \A s \in Surveys :
    s.roots \in Seq(Nat) /\ \A i \in DOMAIN s.roots : IsFiniteSet(s.uses[s.roots[i]])

VARIABLES survey,
          kahn         \* [pc, indegree, ready, order], and at the end the [outcome]
planVars == <<survey, kahn>>

NotPlanned == [kind |-> "none"]
PlanInit ==
    /\ survey \in Surveys
    /\ kahn = [pc |-> "load", indegree |-> <<>>, ready |-> <<>>, order |-> <<>>, outcome |-> NotPlanned]

-----------------------------------------------------------------------------
Linked == {survey.roots[i] : i \in DOMAIN survey.roots}
Calls == UNION {survey.uses[r] : r \in Linked}

\* cross_references: resolve_cross_repo of every ordered pair, a name that the
\* caller defines itself not being looked up elsewhere.
CrossReferences ==
    {x \in [caller : Linked, target : Linked, use : Calls] :
        /\ x.caller # x.target /\ x.use \in survey.uses[x.caller]
        /\ x.use.name \in survey.sources[x.target] \ survey.sources[x.caller]}

\* The first repository, as configured, whose stored graph has the symbol.
Providers == {i \in DOMAIN survey.roots : Deprecated \in survey.indexed[survey.roots[i]]}
ProviderRepo == survey.roots[CHOOSE i \in Providers : \A j \in Providers : i <= j]

CallersOf(p) == {x \in CrossReferences : x.target = p /\ x.use.name = Deprecated}
Affected == {x.caller : x \in CallersOf(ProviderRepo)}
CallerFiles(r) == {x.use.file : x \in {y \in CallersOf(ProviderRepo) : y.caller = r}}

\* The graph that is ordered: all references among the repositories concerned.
Concerned == Affected \cup {ProviderRepo}

\* Mutant form: only the calls of the deprecated symbol order the repositories.
OrderingEdgesOfSymbol == CallersOf(ProviderRepo)

OrderingEdges == {x \in CrossReferences : {x.caller, x.target} \subseteq Concerned}

Between(a, b) == {x \in OrderingEdges : x.caller = a /\ x.target = b}

\* The elements of a set of labels in the order of `before`.
InOrder(labels, before(_, _)) ==
    CHOOSE q \in [1..Cardinality(labels) -> labels] :
        \A i, j \in DOMAIN q : i < j => before(q[i], q[j]) /\ q[i] # q[j]
Position(r) == CHOOSE i \in DOMAIN survey.roots : survey.roots[i] = r

\* survey up to kahn, and the start of kahn.
StartPlan ==
    LET fails == \/ Cardinality(Linked) # Len(survey.roots)
                 \/ Providers = {}
                 \/ Affected = {}
        indegree == [r \in Concerned |-> Cardinality({x \in OrderingEdges : x.target = r})]
    IN /\ kahn.pc = "load"
       /\ kahn' = IF fails THEN [kahn EXCEPT !.pc = "done", !.outcome = [kind |-> "error"]]
                  ELSE [kahn EXCEPT !.pc = "sort", !.indegree = indegree,
                           !.ready = InOrder({r \in Concerned : indegree[r] = 0}, LAMBDA a, b : a < b)]
       /\ UNCHANGED survey

\* The loop of kahn: the repository that became ready last is taken, and the edges
\* it depends by, several between two repositories, are taken off one by one.
PopReady ==
    LET next == kahn.ready[Len(kahn.ready)]
        indegree == [r \in Concerned |-> kahn.indegree[r] - Cardinality(Between(next, r))]
        freed == {r \in Concerned : Between(next, r) # {} /\ indegree[r] = 0}
    IN /\ kahn.pc = "sort" /\ kahn.ready # <<>>
       /\ kahn' = [kahn EXCEPT !.order = Append(@, next), !.indegree = indegree,
                      !.ready = SubSeq(@, 1, Len(@) - 1) \o InOrder(freed, LAMBDA a, b : Position(a) < Position(b))]
       /\ UNCHANGED survey

\* What a repository reaches over the ordering edges.
ReachedFrom(a) ==
    {b \in Concerned : \A S \in SUBSET Concerned :
        (\A x \in OrderingEdges : x.caller \in S \cup {a} => x.target \in S) => b \in S}

\* cycle_message: the strongly connected components with several members.
Cycles == {{b \in ReachedFrom(a) : a \in ReachedFrom(b)} : a \in {c \in Concerned : c \in ReachedFrom(c)}}

\* render_plan, or the refusal when some repository never became ready.
EndPlan ==
    /\ kahn.pc = "sort" /\ kahn.ready = <<>>
    /\ kahn' = [kahn EXCEPT !.pc = "done", !.outcome =
         IF Len(kahn.order) = Cardinality(Concerned)
         THEN [kind |-> "plan", steps |-> [i \in DOMAIN kahn.order |->
                 [repo |-> kahn.order[i], files |-> IF kahn.order[i] = ProviderRepo THEN {} ELSE CallerFiles(kahn.order[i])]]]
         ELSE [kind |-> "cycle", cycles |-> Cycles]]
    /\ UNCHANGED survey

PlanNext == StartPlan \/ PopReady \/ EndPlan
PlanSpec == PlanInit /\ [][PlanNext]_planVars

-----------------------------------------------------------------------------
(* What the plan promises.                                                 *)

\* Whether a repository depends on another by any name the other's sources define.
DependsOn(a, b) ==
    a # b /\ \E u \in survey.uses[a] : u.name \in survey.sources[b] \ survey.sources[a]

\* A plan has every repository that calls the symbol, with all the files that do,
\* before the one that removes it, which is last, and no repository after one that
\* it depends on (migration.rs:1-11).
PlanMovesCallersFirst ==
    kahn.outcome.kind = "plan" =>
        LET listed == kahn.outcome.steps
            last == listed[Len(listed)]
        IN /\ last.repo = ProviderRepo
           /\ \A r \in Linked \ {last.repo}, u \in Calls :
                u \in survey.uses[r] /\ u.name = Deprecated /\ Deprecated \notin survey.sources[r]
                  => \E i \in DOMAIN listed : listed[i].repo = r /\ u.file \in listed[i].files
           /\ \A i, j \in DOMAIN listed : i < j => listed[i].repo # listed[j].repo /\ ~DependsOn(listed[j].repo, listed[i].repo)
=============================================================================
