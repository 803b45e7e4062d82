------------------------------ MODULE PolicyGate ------------------------------
(***************************************************************************)
(* Architecture rules (crates/weave-graph-core/src/policy.rs) and the three*)
(* places that judge a graph by them: `weave policy lint`, a CI gate with  *)
(* masking and waivers (crates/weave-graph-cli/src/{policy,waiver}.rs), the*)
(* MCP tool (crates/weave-graph-mcp/src/policy_lint.rs) and the hub's mesh *)
(* lint (crates/weave-graph-hub/src/policy_lint.rs).                       *)
(*                                                                         *)
(* A lint reads the identity twice, for the view and for the waiver, and   *)
(* the SCIM server of Access may rewrite the directory in between.         *)
(***************************************************************************)
EXTENDS Access

CONSTANTS Node,        \* the nodes a graph can hold: id -> [path, public]
          Repositories,\* possible [graph, peers]: the edges <<source, target>> of this
                       \* repository, and of the federated databases of its links
          Lookups,     \* which of the GitHub requests may be answered: sets of
                       \* "user", "orgs" and "teams"
          PolicyFiles, \* possible contents of policy.yaml
          Waives,      \* the sets of rule ids a caller may waive
          MaxLints     \* bound on the lints of a behaviour

VARIABLES graph, peers, policy,
          lint,     \* the lint process: Idle, or what it has judged and not yet gated
          log,      \* policy-waivers.log: <<subject, rule id>> lines
          verdict,  \* the last answer of a gate or a linter
          lints
gateVars == <<graph, peers, policy, lint, log, verdict, lints>>
policyVars == <<accessVars, gateVars>>

Idle == [phase |-> "idle"]
NoVerdict == [kind |-> "none"]
NoPolicy == <<[kind |-> "missing"]>>   \* there is no policy.yaml
NoDatabase == {<<0, 0>>}               \* a linked repository without a federated database
AllNodes == DOMAIN Node
KnownEnds(edges) == \A e \in edges : {e[1], e[2]} \subseteq AllNodes

\* Both ends of an edge are rows of the same database (schema.rs:38).
ASSUME GateAssumption ==
    /\ \A r \in Repositories :
         /\ KnownEnds(r.graph)
         /\ \A i \in DOMAIN r.peers : r.peers[i] = NoDatabase \/ KnownEnds(r.peers[i])
    /\ \A f \in PolicyFiles : f \in Seq({f[i] : i \in DOMAIN f})

Reached == IF token THEN Lookups ELSE {{}}

GateInit ==
    /\ AccessInit
    /\ \E r \in Repositories : graph = r.graph /\ peers = r.peers
    /\ policy \in PolicyFiles
    /\ lint = Idle /\ log = <<>> /\ verdict = NoVerdict /\ lints = 0

-----------------------------------------------------------------------------
(* Rules.                                                                  *)

\* load_rules of the command and of the MCP tool: a missing file is an error, an
\* entry is exactly one of disallow and require, and neither end is empty.
RulesLoad == \A i \in DOMAIN policy :
    policy[i].kind \in {"disallow", "require"} /\ policy[i].from # <<>> /\ policy[i].to # <<>>

\* load_rules of the hub: a missing file is no rules, and ends are not looked at.
MeshRulesLoad ==
    policy = NoPolicy \/ \A i \in DOMAIN policy : policy[i].kind \in {"disallow", "require"}
MeshRules == IF policy = NoPolicy THEN <<>> ELSE policy

\* The edges of a graph that cross a boundary, both ends being known.
Crossing(nodes, edges, rule) ==
    {e \in edges : /\ {e[1], e[2]} \subseteq nodes
                   /\ InModule(Node[e[1]].path, rule.from) /\ InModule(Node[e[2]].path, rule.to)}

\* lint_scoped: the rules that are violated.  Examples, owner and order are
\* presentation.
LintScoped(nodes, edges, rules, roles) ==
    {i \in DOMAIN rules :
        /\ rules[i].allowed \cap roles = {}
        /\ (rules[i].kind = "disallow") = (Crossing(nodes, edges, rules[i]) # {})}

\* rule_id.
RuleId(rule) == <<rule.kind, rule.from, rule.to>>

-----------------------------------------------------------------------------
(* Views.                                                                  *)

\* filter_view: hidden nodes, and the edges that lose an end, are counted.
FilterView(edges, masked, id) ==
    LET nodes == {n \in AllNodes : ~masked \/ Visible(id, Node[n])}
        kept == {e \in edges : {e[1], e[2]} \subseteq nodes}
    IN [nodes |-> nodes, edges |-> kept, incomplete |-> nodes # AllNodes \/ kept # edges]

\* cmd_policy_lint_federated keeps one violation of each id.
FirstOfEach(ids, federated) ==
    {i \in ids : ~federated \/ \A j \in ids : j < i => RuleId(policy[j]) # RuleId(policy[i])}

\* cmd_policy_lint up to report_and_gate.  Each federated peer is linted by itself.
StartLint(s, failOnMasked, waive, reason, federated, reached) ==
    LET id     == GuardFor(s, reached)
        roles  == IF s = NoSubject THEN {} ELSE id.roles
        sought == IF federated THEN peers ELSE <<graph>>
        views  == [i \in DOMAIN sought |-> FilterView(sought[i], s # NoSubject, id)]
    IN /\ lint = Idle /\ lints < MaxLints
       /\ lints' = lints + 1
       /\ IF ~RulesLoad \/ sought = <<>> \/ \E i \in DOMAIN sought : sought[i] = NoDatabase
          THEN verdict' = [kind |-> "error"] /\ UNCHANGED lint
          ELSE /\ lint' = [phase |-> "judged", subject |-> s, failOnMasked |-> failOnMasked,
                           waive |-> waive, reason |-> reason, sought |-> sought, roles |-> roles,
                           violations |-> FirstOfEach(UNION {LintScoped(views[i].nodes, views[i].edges, policy, roles) :
                                                             i \in DOMAIN views}, federated),
                           incomplete |-> \E i \in DOMAIN views : views[i].incomplete]
               /\ UNCHANGED verdict
       /\ UNCHANGED <<accessVars, graph, peers, policy, log>>

\* append_waiver_log, a line for each of the violations.
Lines(s, is) ==
    LET order == CHOOSE q \in [1..Cardinality(is) -> is] : \A i \in is : \E k \in DOMAIN q : q[k] = i
    IN [k \in DOMAIN order |-> <<s, RuleId(policy[order[k]])>>]

\* Mutant form: a masked run is incomplete only when asked to fail.
GateLintMaskedPasses(reached) ==
    LET waived   == {i \in lint.violations : RuleId(policy[i]) \in lint.waive}
        blocking == lint.violations \ waived
        refused  == lint.waive # {} /\ ~(Authorized(lint.subject, reached) /\ lint.reason)
        outcome  == IF refused THEN "error"
                    ELSE IF blocking # {} THEN "blocked"
                    ELSE IF lint.incomplete /\ lint.failOnMasked THEN "incomplete"
                    ELSE "pass"
    IN /\ lint # Idle
       /\ lint' = Idle
       /\ verdict' = [kind |-> outcome, subject |-> lint.subject, roles |-> lint.roles, sought |-> lint.sought,
                     blocking |-> blocking]
       /\ log' = IF refused THEN log ELSE log \o Lines(lint.subject, waived)
       /\ UNCHANGED <<accessVars, graph, peers, policy, lints>>

\* Mutant form: the right to waive is that of the identity the view was made for.
GateLintStale(reached) ==
    LET waived   == {i \in lint.violations : RuleId(policy[i]) \in lint.waive}
        blocking == lint.violations \ waived
        refused  == lint.waive # {} /\ ~("allow-drift" \in lint.roles /\ lint.reason)
        outcome  == IF refused THEN "error"
                    ELSE IF blocking # {} THEN "blocked"
                    ELSE IF lint.incomplete /\ (lint.failOnMasked \/ lint.subject # NoSubject) THEN "incomplete"
                    ELSE "pass"
    IN /\ lint # Idle
       /\ lint' = Idle
       /\ verdict' = [kind |-> outcome, subject |-> lint.subject, roles |-> lint.roles, sought |-> lint.sought,
                     blocking |-> blocking]
       /\ log' = IF refused THEN log ELSE log \o Lines(lint.subject, waived)
       /\ UNCHANGED <<accessVars, graph, peers, policy, lints>>

\* report_and_gate.
GateLint(reached) ==
    LET waived   == {i \in lint.violations : RuleId(policy[i]) \in lint.waive}
        blocking == lint.violations \ waived
        refused  == lint.waive # {} /\ ~(Authorized(lint.subject, reached) /\ lint.reason)
        outcome  == IF refused THEN "error"
                    ELSE IF blocking # {} THEN "blocked"
                    ELSE IF lint.incomplete /\ (lint.failOnMasked \/ lint.subject # NoSubject) THEN "incomplete"
                    ELSE "pass"
    IN /\ lint # Idle
       /\ lint' = Idle
       /\ verdict' = [kind |-> outcome, subject |-> lint.subject, roles |-> lint.roles, sought |-> lint.sought,
                     blocking |-> blocking]
       /\ log' = IF refused THEN log ELSE log \o Lines(lint.subject, waived)
       /\ UNCHANGED <<accessVars, graph, peers, policy, lints>>

\* weave_policy_lint, for a session with an identity or without one.
McpLint(s, reached) ==
    LET id    == GuardFor(s, reached)
        view  == FilterView(graph, s # NoSubject, id)
        roles == IF s = NoSubject THEN {} ELSE id.roles
    IN /\ lint = Idle /\ lints < MaxLints
       /\ lints' = lints + 1
       /\ verdict' = IF ~RulesLoad THEN [kind |-> "error"]
                     ELSE [kind |-> "mcp", violations |-> LintScoped(view.nodes, view.edges, policy, roles),
                           view |-> view, roles |-> roles]
       /\ UNCHANGED <<accessVars, graph, peers, policy, lint, log>>

\* mesh_policy_lint: the hub lints each repository's latest snapshot, unmasked.
MeshLint ==
    /\ lint = Idle /\ lints < MaxLints
    /\ lints' = lints + 1
    /\ verdict' = IF ~MeshRulesLoad THEN [kind |-> "error"]
                  ELSE [kind |-> "mesh", violations |-> LintScoped(AllNodes, graph, MeshRules, {})]
    /\ UNCHANGED <<accessVars, graph, peers, policy, lint, log>>

GateNext ==
    \/ ScimStep /\ UNCHANGED gateVars
    \/ \E s \in Subjects \cup {NoSubject}, failOnMasked, reason, federated \in BOOLEAN,
          waive \in Waives, reached \in Reached :
          /\ lint = Idle /\ lints < MaxLints
          /\ waive # {} \/ ~reason
          /\ StartLint(s, failOnMasked, waive, reason, federated, reached)
    \/ \E reached \in Reached : GateLint(reached)
    \/ \E s \in Subjects \cup {NoSubject}, reached \in Reached : McpLint(s, reached)
    \/ MeshLint
GateSpec == GateInit /\ [][GateNext]_policyVars

-----------------------------------------------------------------------------
(* Properties.                                                             *)

\* Whether a rule is respected by a whole graph.
Respected(rule, edges) ==
    LET across == \E e \in edges : InModule(Node[e[1]].path, rule.from) /\ InModule(Node[e[2]].path, rule.to)
    IN IF rule.kind = "require" THEN across ELSE ~across

\* A lint that passes certifies the whole repository, or every linked one: each
\* rule is respected by the graph nobody has masked, or exempts a role of the
\* identity that asked, or was waived in a line of the log (policy.rs:169).
PassCertifies ==
    verdict.kind = "pass" => \A i \in DOMAIN policy, k \in DOMAIN verdict.sought :
        \/ Respected(policy[i], verdict.sought[k])
        \/ policy[i].allowed \cap verdict.roles # {}
        \/ \E n \in DOMAIN log : log[n] = <<verdict.subject, RuleId(policy[i])>>

\* A subject whose account the provider was told is gone, and whom config.toml
\* does not know, adds no line to the waiver log: the right to waive is read
\* again after the graph was judged (waiver.rs:37).
GoneNeverWaives ==
    [][log' # log /\ ~token => lint.subject \in DOMAIN believed \cup DOMAIN users \cup {NoSubject}]_policyVars
=============================================================================
