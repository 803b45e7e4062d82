-------------------------------- MODULE MCGates --------------------------------
(* The commands that judge a change, one behaviour being of one (part).      *)
(* Policy: two subjects in three config.toml variants; a directory that      *)
(* changes; four nodes in three modules, two of them not exported.           *)
(* Drift: four files, the first with two nodes; every graph of at most five  *)
(* edges from a pool of ten, seen whole and with hidden nodes.               *)
(* Federation: two repositories, the partner with two symbols that change    *)
(* signature or stop being exported; two links, or one link beside a         *)
(* `config set`.  Submodules: two of them, in any state, four steps.  Rules: *)
(* two reviewers over documents with one sentence in two places.  Plans:     *)
(* three repositories that use any of each other's symbols.                  *)
EXTENDS PolicyGate, DriftReport, Federation, SubmoduleGate, RulesReview, MigrationPlan

MCUserTables ==
    {EmptyDirectory,
     [s \in {"ann", "bob"} |-> [given |-> s = "ann", roles |-> {"internal"}, scope |-> {<<"ui">>}]],
     [s \in {"ann"} |-> [given |-> TRUE, roles |-> {"internal", "allow-drift"}, scope |-> {}]]}
MCGroupMappings == [r \in {"group:arch"} |-> "allow-drift"]
MCBodies ==
    {[userName |-> NoSubject, given |-> FALSE, roles |-> {}, groups |-> {}],
     [userName |-> "ann", given |-> FALSE, roles |-> {}, groups |-> {}],
     [userName |-> "bob", given |-> TRUE, roles |-> {"internal"}, groups |-> {"group:arch"}]}
MCGithub == [login |-> "gh", orgs |-> {"github-org:acme"}, teams |-> {"github-team:acme/core"}]
MCGithubRoles == [m \in {"gh", "github-org:acme", "github-team:acme/core"} |->
    CASE m = "gh" -> {"reader"} [] m = "github-org:acme" -> {"internal"} [] OTHER -> {"allow-drift"}]
MCNode == << [path |-> <<"ui", "a">>, public |-> TRUE], [path |-> <<"ui", "b">>, public |-> FALSE],
             [path |-> <<"db", "c">>, public |-> TRUE], [path |-> <<"core", "d">>, public |-> FALSE] >>
MCRepositories == {[graph |-> {<<1, 3>>, <<2, 4>>}, peers |-> <<>>],
                   [graph |-> {<<2, 3>>}, peers |-> << {<<2, 3>>}, {} >>],
                   [graph |-> {<<1, 3>>}, peers |-> << {<<1, 3>>}, NoDatabase >>]}
MCLookups == {{}, {"user"}, {"user", "orgs", "teams"}}
Rule(kind, from, to, allowed) == [kind |-> kind, from |-> from, to |-> to, allowed |-> allowed]
MCPolicyFiles ==
    {NoPolicy,
     << Rule("disallow", <<"ui">>, <<"db">>, {}), Rule("disallow", <<"ui">>, <<"db">>, {"reader"}) >>,
     << Rule("require", <<"ui">>, <<"db">>, {}), Rule("disallow", <<"ui", "b">>, <<"core">>, {"reader"}) >>,
     << Rule("disallow", <<>>, <<"db">>, {}) >>,
     << Rule("both", <<"ui">>, <<"db">>, {}) >>}
MCWaives == {{}, {<<"disallow", <<"ui">>, <<"db">>>>}}

MCFileOf == <<1, 1, 2, 3, 4>>
MCPathOf == << <<"a", "x">>, <<"a", "y">>, <<"b">>, <<"c">> >>
Pool == {<<1, 3>>, <<3, 4>>, <<4, 3>>, <<4, 5>>, <<5, 3>>, <<5, 4>>, <<2, 4>>, <<5, 1>>, <<3, 2>>, <<1, 2>>}
MCEdgeTables == {es \in SUBSET Pool : Cardinality(es) <= 5}
MCViews == {1..5, {1, 3, 4, 5}, {1, 2, 4}}
MCAlike == {<<1, 3, 9>>, <<4, 2, 5>>, <<3, 5, 7>>, <<1, 2, 9>>}
Section(within, threshold, exempt) == [within |-> within, threshold |-> threshold, exempt |-> exempt]
MCCouplings == {<<>>, << Section(<<"a">>, 5, {}) >>, << Section(<<>>, 5, {}) >>,
    << Section(<<"a">>, 5, {[prefix |-> <<"a">>, deep |-> TRUE]}), Section(<<"b">>, 10, {}) >>}

Sym(sig, exported) == [signature |-> sig, exported |-> exported]
MCSources == [r \in {"a", "b"} |->
    IF r = "a" THEN {[s \in {"m"} |-> Sym(1, TRUE)]}
    ELSE {[s \in {"x", "y"} |-> Sym(1, TRUE)], [s \in {"x", "y"} |-> Sym(1, s = "x")],
          [s \in {"x", "y"} |-> Sym(IF s = "x" THEN 2 ELSE 1, TRUE)]}]
MCCallSets == [r \in {"a", "b"} |-> IF r = "a" THEN {{"x"}} ELSE {{"m"}}]
MCBudgets == {[link |-> 2, edit |-> 2, set |-> 0, check |-> 1], [link |-> 1, edit |-> 1, set |-> 1, check |-> 1]}
Waiver(skip, allow, reason, repos, granted) ==
    [skip |-> skip, allow |-> allow, reason |-> reason, repos |-> repos, granted |-> granted]
MCWaiverSets == {Waiver(FALSE, FALSE, FALSE, FALSE, FALSE), Waiver(TRUE, FALSE, FALSE, FALSE, TRUE),
                 Waiver(FALSE, TRUE, FALSE, FALSE, TRUE), Waiver(FALSE, TRUE, TRUE, FALSE, TRUE),
                 Waiver(FALSE, FALSE, FALSE, TRUE, FALSE)}

Def(sig, exported) == [signature |-> sig, exported |-> exported]
MCSubmodules == <<"s", "t">>
MCContents == [m \in {"s", "t"} |->
   IF m = "s" THEN {[n \in {"f", "g"} |-> Def(1, TRUE)], [n \in {"f", "g"} |-> Def(IF n = "f" THEN 2 ELSE 1, TRUE)],
                    [n \in {"g"} |-> Def(1, TRUE)], [n \in {"f", "g"} |-> Def(1, n = "g")]}
   ELSE {[n \in {"h"} |-> Def(1, TRUE)], [n \in {} |-> Def(1, TRUE)]}]
MCCheckout == [m \in {"s", "t"} |-> IF m = "s" THEN [n \in {"f", "g"} |-> Def(1, TRUE)] ELSE [n \in {"h"} |-> Def(1, TRUE)]]
MCCallTables == {{<<"p", "f">>}, {<<"p", "f">>, <<"q", "h">>}}
Config(phantoms, visibility, dirty, changed, exempt, guards) ==
    [rejectPhantoms |-> phantoms, enforceVisibility |-> visibility, rejectDirty |-> dirty,
     qualifyChanged |-> changed, exempt |-> exempt, guards |-> guards]
MCBroken == Config(FALSE, FALSE, FALSE, FALSE, {"p"}, {})
MCConfigs == {Config(TRUE, TRUE, TRUE, TRUE, {}, {}),
    Config(TRUE, FALSE, FALSE, FALSE, {"p"}, {[name |-> "h", callers |-> {"q"}], [name |-> "f", callers |-> {}]}),
    Config(TRUE, TRUE, TRUE, TRUE, {}, {[name |-> "f", callers |-> {"p"}]}),
    Config(FALSE, TRUE, FALSE, TRUE, {}, {}), MCBroken}

MCDocuments == {<<"x", "y", "x">>, <<"z", "y">>}
MCSelections == {<<>>, <<1>>, <<1, 3>>, <<2, 2>>}

Use(file, name) == [file |-> file, name |-> name]
Own == <<{"a"}, {"b"}, {"c"}>>
MCSurveys ==
    {[roots |-> roots, indexed |-> symbols[1], sources |-> symbols[2], uses |-> uses] :
        roots \in {<<2, 1, 3>>, <<1, 3, 2>>, <<1, 2, 1>>},
        symbols \in {<<Own, Own>>, <<Own, [Own EXCEPT ![3] = {"a", "c"}]>>, <<[Own EXCEPT ![2] = {}], Own>>,
                     <<[Own EXCEPT ![1] = {"a", "b"}], [Own EXCEPT ![1] = {"a", "b"}]>>},
        uses \in {<<x, y, z>> : x \in SUBSET {Use("f", "b"), Use("g", "b"), Use("f", "c")},
                               y \in SUBSET {Use("f", "a"), Use("f", "c")},
                               z \in SUBSET {Use("f", "b"), Use("f", "a"), Use("g", "a")}}}

-----------------------------------------------------------------------------
VARIABLE part
gatesVars == <<policyVars, driftVars, federationVars, subVars, rulesVars, planVars, part>>

\* A part that does not move stays in one initial state.
PolicyRests ==
    /\ AccessInit /\ ~token /\ users = EmptyDirectory /\ graph = {} /\ peers = <<>> /\ policy = NoPolicy
    /\ lint = Idle /\ log = <<>> /\ verdict = NoVerdict /\ lints = 0
DriftRests ==
    /\ edges = {} /\ view = {} /\ coupling = <<>> /\ answer = NotAsked
    /\ starts = {} /\ color = <<>> /\ trail = <<>> /\ rings = {}
FederationRests ==
    /\ FederationInit /\ source["b"] = [s \in {"x", "y"} |-> Sym(1, TRUE)] /\ calls["a"] = {"x"}
    /\ left.set = 0 /\ config["a"].policy = "unset"
SubmodulesRest == SubInit /\ refs = {<<"p", "f">>} /\ settings = MCBroken
RulesRest == RulesInit /\ Len(documents) = 2
PlanRests ==
    /\ survey = [roots |-> <<1, 2, 1>>, indexed |-> Own, sources |-> Own, uses |-> <<{}, {}, {}>>]
    /\ kahn = [pc |-> "done", indegree |-> <<>>, ready |-> <<>>, order |-> <<>>, outcome |-> [kind |-> "error"]]
MCInit ==
    \/ part = "policy" /\ GateInit /\ DriftRests /\ FederationRests /\ SubmodulesRest /\ RulesRest /\ PlanRests
    \/ part = "drift" /\ PolicyRests /\ DriftInit /\ FederationRests /\ SubmodulesRest /\ RulesRest /\ PlanRests
    \/ part = "federation" /\ PolicyRests /\ DriftRests /\ FederationInit /\ SubmodulesRest /\ RulesRest /\ PlanRests
    \/ part = "submodules" /\ PolicyRests /\ DriftRests /\ FederationRests /\ SubInit /\ RulesRest /\ PlanRests
    \/ part = "rules" /\ PolicyRests /\ DriftRests /\ FederationRests /\ SubmodulesRest /\ RulesInit /\ PlanRests
    \/ part = "plan" /\ PolicyRests /\ DriftRests /\ FederationRests /\ SubmodulesRest /\ RulesRest /\ PlanInit
MCNext ==
    /\ UNCHANGED part
    /\ \/ part = "policy" /\ GateNext /\ UNCHANGED <<planVars, driftVars, federationVars, subVars, rulesVars>>
       \/ part = "drift" /\ Drift /\ UNCHANGED <<planVars, policyVars, federationVars, subVars, rulesVars>>
       \/ part = "federation" /\ FederationNext /\ UNCHANGED <<planVars, policyVars, driftVars, subVars, rulesVars>>
       \/ part = "submodules" /\ SubNext /\ UNCHANGED <<planVars, policyVars, driftVars, federationVars, rulesVars>>
       \/ part = "rules" /\ RulesNext /\ UNCHANGED <<planVars, policyVars, driftVars, federationVars, subVars>>
       \/ part = "plan" /\ PlanNext /\ UNCHANGED <<policyVars, driftVars, federationVars, subVars, rulesVars>>
MCSpec == MCInit /\ [][MCNext]_gatesVars
=============================================================================
