------------------------------ MODULE Federation ------------------------------
(***************************************************************************)
(* Linking two repositories and checking their contracts later             *)
(* (crates/weave-graph-cli/src/{federation,contracts,config}.rs,           *)
(* crates/weave-graph-parse/src/contract.rs).                              *)
(*                                                                         *)
(* `weave link` loads both repositories and then writes six places one     *)
(* after the other: an expectation row in each database, linked_repos in   *)
(* each config.toml, a federated graph on each side.  It can be killed     *)
(* between any two.  `weave config set` reads, changes and rewrites the    *)
(* same config.toml, `weave check-contracts` reads all three, and people   *)
(* edit, index and break files meanwhile.                                  *)
(*                                                                         *)
(* A source is the symbols a repository defines, each with its signature   *)
(* and whether the language's visibility rule exports it; a contract is    *)
(* what is left of it for others.  Labels (directory names) are distinct.  *)
(***************************************************************************)
EXTENDS Naturals, FiniteSets

CONSTANTS RepoA, RepoB,  \* the repository `weave link` runs in, and its partner
          Sources,       \* possible sources of each repository
          CallSets,      \* possible sets of partner symbols each repository refers to
          WaiverSets,    \* the waivers a check may come with
          Budgets        \* bounds on the links, edits, settings and checks of a behaviour

ASSUME FederationAssumption == RepoA # RepoB

VARIABLES source, calls,
          index,      \* the symbols of each repository's database as last indexed
          expect,     \* the contract each repository has recorded of its partner
          config,     \* each config.toml
          fed,        \* the cross-repository edges of each federated database
          link,       \* the running `weave link`
          setter,     \* the running `weave config set`
          check,      \* the running `weave check-contracts`
          finding,    \* its last answer
          agreed,     \* what each repository's last completed link was based on
          halfLinked, \* whether a link was killed and none completed since
          left        \* what is left of the budget
workspace == <<source, calls, index>>
linked == <<expect, fed, link, agreed, halfLinked>>
checking == <<check, finding>>
federationVars == <<workspace, linked, config, setter, checking, left>>

Repo == {RepoA, RepoB}
Other(r) == IF r = RepoA THEN RepoB ELSE RepoA
Absent == [there |-> FALSE]
AtRest == [pc |-> "idle"]
NoFinding == [kind |-> "none"]

\* A config.toml: whether it parses, and the keys this module tells apart.
EmptyConfig == [parses |-> TRUE, linked |-> {}, policy |-> "unset", other |-> FALSE]

FederationInit ==
    /\ source \in {f \in [Repo -> UNION {Sources[r] : r \in Repo}] : \A r \in Repo : f[r] \in Sources[r]}
    /\ calls \in {f \in [Repo -> UNION {CallSets[r] : r \in Repo}] : \A r \in Repo : f[r] \in CallSets[r]}
    /\ index = [r \in Repo |-> DOMAIN source[r]]
    /\ expect = [r \in Repo |-> Absent] /\ fed = [r \in Repo |-> Absent]
    /\ \E value \in {"unset", "strict"} :
         config = [r \in Repo |-> [EmptyConfig EXCEPT !.other = TRUE, !.policy = value]]
    /\ link = AtRest /\ setter = AtRest /\ check = AtRest /\ finding = NoFinding
    /\ agreed = [r \in Repo |-> Absent] /\ halfLinked = FALSE
    /\ left \in Budgets

Spend(k) == left[k] > 0 /\ left' = [left EXCEPT ![k] = @ - 1]

-----------------------------------------------------------------------------
(* Contracts.                                                              *)

\* exported_entries_map over the files of a repository: exported symbols and
\* their signatures.
ContractMap(src) == [s \in {t \in DOMAIN src : src[t].exported} |-> src[s].signature]

\* repo_contract_map of contracts.rs, from the files as they are now.
RepoContractMap(r) == ContractMap(source[r])

\* repo_contract_map of federation.rs, from what load_repo has parsed.
LoadedContractMap(loaded) == ContractMap(loaded.source)

\* Mutant form: only added and removed symbols are drift.
DiffContractsNames(expected, actual) ==
    {s \in DOMAIN expected \cup DOMAIN actual :
        ~(s \in DOMAIN expected /\ s \in DOMAIN actual)}

\* diff_contracts: the symbols added, removed or changed.
DiffContracts(expected, actual) ==
    {s \in DOMAIN expected \cup DOMAIN actual :
        ~(s \in DOMAIN expected /\ s \in DOMAIN actual /\ expected[s] = actual[s])}

\* resolve_cross_repo_edges from a repository: a reference binds to a symbol of the
\* partner's sources, and both ends must be nodes of the stored graphs.
CrossRepoEdges(refs, partnerSource, partnerIndex) == refs \cap DOMAIN partnerSource \cap partnerIndex

-----------------------------------------------------------------------------
(* config.toml.                                                            *)

\* A file that does not parse, or is missing, is read as an empty table.
Table(file) == IF file.parses THEN file ELSE EmptyConfig
ReadLinkedRepos(file) == Table(file).linked
StalenessPolicy(file) == IF Table(file).policy = "unset" THEN "warn" ELSE Table(file).policy

\* set_key for the staleness policy or for an unrelated key: read, then rewrite.
SetKeyRead(r) ==
    /\ setter = AtRest /\ Spend("set")
    /\ \E value \in {"warn", "strict"} :
         setter' = [pc |-> "write", repo |-> r, table |-> [Table(config[r]) EXCEPT !.policy = value]]
    /\ UNCHANGED <<workspace, linked, config, checking>>

\* fs::write truncates the file and fills it.
SetKeyWrite ==
    /\ setter.pc \in {"write", "fill"}
    /\ config' = [config EXCEPT ![setter.repo] = IF setter.pc = "write" THEN EmptyConfig ELSE setter.table]
    /\ setter' = IF setter.pc = "write" THEN [setter EXCEPT !.pc = "fill"] ELSE AtRest
    /\ UNCHANGED <<workspace, linked, checking, left>>

-----------------------------------------------------------------------------
(* weave link.                                                             *)

\* cmd_link_from_config and the first load_repo: the partner is named, or it is
\* the one linked repository.  Nodes come from the database, the rest is parsed.
LinkStart(named) ==
    /\ link = AtRest
    /\ named \/ ReadLinkedRepos(config[RepoA]) = {RepoB}
    /\ Spend("link")
    /\ link' = [pc |-> "loadB", a |-> [source |-> source[RepoA], calls |-> calls[RepoA], index |-> index[RepoA]]]
    /\ UNCHANGED <<workspace, expect, fed, agreed, halfLinked, config, setter, checking>>

\* The second load_repo, and all that cmd_link computes from the two.
LinkLoadB ==
    /\ link.pc = "loadB"
    /\ link' = [pc |-> "expectA",
                map |-> [r \in Repo |-> LoadedContractMap(IF r = RepoA THEN link.a ELSE [source |-> source[RepoB]])],
                calls |-> [r \in Repo |-> IF r = RepoA THEN link.a.calls ELSE calls[RepoB]],
                index |-> [r \in Repo |-> IF r = RepoA THEN link.a.index ELSE index[RepoB]],
                table |-> EmptyConfig,
                cross |-> [r \in Repo |-> IF r = RepoA THEN CrossRepoEdges(link.a.calls, source[RepoB], index[RepoB])
                                          ELSE CrossRepoEdges(calls[RepoB], link.a.source, link.a.index)]]
    /\ UNCHANGED <<workspace, expect, fed, agreed, halfLinked, config, setter, checking, left>>

\* record_one_side: the consumer's database gets the partner's contract.
Record(r, pc, next) ==
    /\ link.pc = pc
    /\ expect' = [expect EXCEPT ![r] = [there |-> TRUE, map |-> link.map[Other(r)]]]
    /\ link' = [link EXCEPT !.pc = next]
    /\ UNCHANGED <<workspace, fed, agreed, halfLinked, config, setter, checking, left>>

\* add_linked_repo: read; nothing is written when the partner is listed.
ConfigRead(r, pc, write, next) ==
    LET table == Table(config[r]) IN
    /\ link.pc = pc
    /\ link' = IF Other(r) \in table.linked THEN [link EXCEPT !.pc = next]
               ELSE [link EXCEPT !.pc = write, !.table = [table EXCEPT !.linked = @ \cup {Other(r)}]]
    /\ UNCHANGED <<workspace, expect, fed, agreed, halfLinked, config, setter, checking, left>>

\* ... and write, again a truncation and a fill.
ConfigWrite(r, write, fill, next) ==
    /\ link.pc \in {write, fill}
    /\ config' = [config EXCEPT ![r] = IF link.pc = write THEN EmptyConfig ELSE link.table]
    /\ link' = [link EXCEPT !.pc = IF @ = write THEN fill ELSE next]
    /\ UNCHANGED <<workspace, expect, fed, agreed, halfLinked, setter, checking, left>>

\* persist_composite_graph: staged and renamed.
Persist(r, pc, next) ==
    /\ link.pc = pc
    /\ fed' = [fed EXCEPT ![r] = [there |-> TRUE, edges |-> link.cross]]
    /\ link' = IF next = "idle" THEN AtRest ELSE [link EXCEPT !.pc = next]
    /\ halfLinked' = (halfLinked /\ next # "idle")
    /\ agreed' = IF next # "idle" THEN agreed
                 ELSE [s \in Repo |-> [there |-> TRUE, map |-> link.map[Other(s)],
                                       relied |-> link.calls[s] \cap link.index[Other(s)]]]
    /\ UNCHANGED <<workspace, expect, config, setter, checking, left>>

LinkStep ==
    \/ LinkLoadB
    \/ Record(RepoA, "expectA", "expectB") \/ Record(RepoB, "expectB", "readA")
    \/ ConfigRead(RepoA, "readA", "writeA", "readB") \/ ConfigWrite(RepoA, "writeA", "fillA", "readB")
    \/ ConfigRead(RepoB, "readB", "writeB", "persistA") \/ ConfigWrite(RepoB, "writeB", "fillB", "persistA")
    \/ Persist(RepoA, "persistA", "persistB") \/ Persist(RepoB, "persistB", "idle")

LinkKilled ==
    /\ link # AtRest
    /\ link' = AtRest /\ halfLinked' = TRUE
    /\ UNCHANGED <<workspace, expect, fed, agreed, config, setter, checking, left>>

-----------------------------------------------------------------------------
(* weave check-contracts, in RepoA.                                        *)

\* A run that asks to be excused; `granted` is what waiver::authorize says.
Asks(w) == w.skip \/ w.allow \/ w.repos

\* The link a check can rely on: completed, with none running or cut short since.
Base == IF link = AtRest /\ ~halfLinked THEN agreed[RepoA] ELSE Absent

\* cmd_check_contracts up to its loop: what is decided before a provider is parsed.
CheckStart(scoped, warnOnly, override, w) ==
    LET staleness == IF override \in {"warn", "ignore"} THEN override ELSE StalenessPolicy(config[RepoA])
        job == [scoped |-> scoped, strict |-> staleness = "strict" /\ ~warnOnly, expected |-> expect[RepoA],
                waived |-> w.allow \/ w.repos, base |-> Base]
    IN /\ check = AtRest /\ Spend("check")
       /\ IF \/ Asks(w) /\ ~w.granted
             \/ ~w.skip /\ w.allow /\ ~w.reason
             \/ ~w.skip /\ RepoB \notin ReadLinkedRepos(config[RepoA])
          THEN finding' = [kind |-> "error"] /\ UNCHANGED check
          ELSE IF w.skip THEN finding' = [kind |-> "skipped"] /\ UNCHANGED check
          ELSE check' = [pc |-> "judge", job |-> job] /\ UNCHANGED finding
       /\ UNCHANGED <<workspace, linked, config, setter>>

\* imported_symbols and partition_by_scope: without a federated graph --scoped means
\* unscoped.
InImportScope(diff) == IF fed[RepoA].there THEN diff \cap fed[RepoA].edges[RepoA] ELSE diff

\* The loop's body for the one provider: missing, current, drifted out of scope,
\* waived or diverged.
CheckJudge ==
    LET job == check.job
        actual == RepoContractMap(RepoB)
        diff == DiffContracts(job.expected.map, actual)
        blocking == IF job.scoped THEN InImportScope(diff) ELSE diff
        found == IF ~job.expected.there THEN "missing"
                 ELSE IF blocking = {} THEN "current"
                 ELSE IF job.waived THEN "waived" ELSE "diverged"
    IN /\ check.pc = "judge"
       /\ check' = AtRest
       /\ finding' = [kind |-> IF found = "diverged" /\ job.strict THEN "drift" ELSE "ok", found |-> found,
                      job |-> job, actual |-> actual, base |-> IF Base = job.base THEN Base ELSE Absent]
       /\ UNCHANGED <<workspace, linked, config, setter, left>>

-----------------------------------------------------------------------------
(* People.                                                                 *)

Edit(r) ==
    /\ Spend("edit")
    /\ \/ \E s \in Sources[r] \ {source[r]} : source' = [source EXCEPT ![r] = s] /\ UNCHANGED <<calls, index, config>>
       \/ \E c \in CallSets[r] \ {calls[r]} : calls' = [calls EXCEPT ![r] = c] /\ UNCHANGED <<source, index, config>>
       \/ index' = [index EXCEPT ![r] = DOMAIN source[r]] /\ UNCHANGED <<source, calls, config>>
       \/ config' = [config EXCEPT ![r].parses = FALSE] /\ UNCHANGED <<source, calls, index>>
    /\ UNCHANGED <<linked, setter, checking>>

FederationNext ==
    \/ \E named \in BOOLEAN : LinkStart(named)
    \/ LinkStep \/ LinkKilled
    \/ \E r \in Repo : SetKeyRead(r) \/ Edit(r)
    \/ SetKeyWrite
    \/ \E scoped, warnOnly \in BOOLEAN, override \in {"none", "warn"}, w \in WaiverSets :
          check = AtRest /\ CheckStart(scoped, warnOnly, override, w)
    \/ CheckJudge
FederationSpec == FederationInit /\ [][FederationNext]_federationVars

-----------------------------------------------------------------------------
(* Properties.                                                             *)

\* A strict check that passes without a waiver vouches for the link it rests on:
\* nothing in the partner's contract changed since, or with --scoped nothing this
\* repository referred to then, as far as it was indexed.  It rests on three
\* places the link writes separately, and holds again once an interrupted link has
\* been repeated (contracts.rs:289, federation.rs:108).
StrictPassVouches ==
    finding.kind = "ok" /\ finding.job.strict /\ ~finding.job.waived /\ finding.base.there =>
        LET then == finding.base.map
            now  == finding.actual
            kept == {s \in DOMAIN then : s \in DOMAIN now /\ now[s] = then[s]}
        IN IF finding.job.scoped THEN finding.base.relied \cap DOMAIN then \subseteq kept ELSE now = then
=============================================================================
