----------------------------- MODULE SubmoduleGate -----------------------------
(***************************************************************************)
(* Git submodules and the two gates over them: `weave verify`              *)
(* (crates/weave-graph-cli/src/verify.rs) and `weave check-contracts       *)
(* --submodules` (crates/weave-graph-cli/src/contracts.rs:453 on, with     *)
(* crates/weave-graph-cli/src/git.rs:186 on).                              *)
(*                                                                         *)
(* Both compare a submodule's exported symbols, parsed now, with a baseline*)
(* in the database, and decide what matters by the edges of the graph as it*)
(* was last indexed; the second moves the baseline.  Submodules are        *)
(* committed to, left dirty or deinitialised, files are edited and the     *)
(* graph re-indexed in between.                                            *)
(*                                                                         *)
(* No two submodules define the same name.                                 *)
(***************************************************************************)
EXTENDS Naturals, FiniteSets, Sequences

CONSTANTS Submodules,     \* in the order of .gitmodules
          Contents,       \* possible contents: submodule -> set of [name -> [signature, exported]]
          Checkout,       \* what each submodule holds at first
          States,         \* what git can say of a submodule
          ParentFiles,    \* files of the parent repository
          CallTables,     \* possible calls of the parent: sets of <<file, name>>
          Configs,        \* possible .weave/contracts.yml
          BrokenConfig,   \* one that is not valid YAML
          MaxSteps        \* bound on the edits and commands of a behaviour

Subs == {Submodules[i] : i \in DOMAIN Submodules}
Holdings(s) == Contents[s] \cup {Checkout[s]}
NameSpace(s) == UNION {DOMAIN c : c \in Holdings(s)}

ASSUME SubmoduleAssumption ==
    /\ Submodules \in Seq(Subs) /\ DOMAIN Checkout = Subs
    /\ States \subseteq {"clean", "bumped", "bumped and dirty", "dirty", "uninitialized"}
    /\ \A s, t \in Subs : s # t => NameSpace(s) \cap NameSpace(t) = {}
    /\ \A s \in Subs : \A c \in Holdings(s) : \A n \in DOMAIN c :
         c[n] = [signature |-> c[n].signature, exported |-> c[n].exported] /\ c[n].exported \in BOOLEAN
    /\ \A table \in CallTables : \A call \in table : call[1] \in ParentFiles

VARIABLES checkedOut, state, refs,
          subGraph,   \* as last indexed: [edges, unresolved, calls]
          baseline,   \* submodule -> recorded contract
          settings,
          round,      \* the running check: which submodule is next, and who blocks
          subOutcome,
          steps
subVars == <<checkedOut, state, refs, subGraph, baseline, settings, round, subOutcome, steps>>

NoBaseline == [there |-> FALSE]
NoRound == [next |-> 0, blocking |-> {}]
NoOutcome == [kind |-> "none"]

\* The names a checked-out submodule defines, and in which one a name is.
Names(s) == IF state[s] = "uninitialized" THEN {} ELSE DOMAIN checkedOut[s]
Defining(n) == {s \in Subs : n \in Names(s)}

\* Indexing: a call binds to the submodule that defines the name, or stays among
\* the unresolved references of its file.
Indexed ==
    [edges |-> {[file |-> b.call[1], sub |-> b.sub, name |-> b.call[2], exported |-> checkedOut[b.sub][b.call[2]].exported] :
                  b \in {x \in [call : refs, sub : Subs] : x.call[2] \in Names(x.sub)}},
     unresolved |-> {c \in refs : Defining(c[2]) = {}}, calls |-> refs]

SubInit ==
    /\ checkedOut = Checkout
    /\ state = [s \in Subs |-> "clean"]
    /\ refs \in CallTables /\ settings \in Configs
    /\ subGraph = Indexed
    /\ baseline = [s \in Subs |-> NoBaseline]
    /\ round = NoRound /\ subOutcome = NoOutcome /\ steps = 0

Spent == steps < MaxSteps /\ steps' = steps + 1

\* submodule_state: a pointer that differs hides whether the tree is clean.
SubmoduleState(s) ==
    IF state[s] = "uninitialized" THEN "uninitialized"
    ELSE IF state[s] \in {"bumped", "bumped and dirty"} THEN "bumped"
    ELSE state[s]
Unprovable(s) == SubmoduleState(s) \in {"dirty", "uninitialized"}

-----------------------------------------------------------------------------
(* Drift.                                                                  *)

\* exported_entries_map: the exported symbols of a submodule and their signatures.
SubmoduleContract(s) == [n \in {m \in Names(s) : checkedOut[s][m].exported} |-> checkedOut[s][n].signature]

\* submodule_imported_symbols: the targets of edges from outside into it.
Imported(s) == {e.name : e \in {d \in subGraph.edges : d.sub = s}}

\* submodule_drift, split by partition_by_scope; only in-scope names are kept.
InScope(s) ==
    LET then == baseline[s].map
        now  == SubmoduleContract(s)
    IN [added   |-> Imported(s) \cap (DOMAIN now \ DOMAIN then),
        removed |-> Imported(s) \cap (DOMAIN then \ DOMAIN now),
        changed |-> {n \in Imported(s) \cap DOMAIN then \cap DOMAIN now : then[n] # now[n]}]

-----------------------------------------------------------------------------
(* weave check-contracts --submodules.                                     *)

RoundStart ==
    /\ round = NoRound /\ Spent
    /\ round' = [next |-> 1, blocking |-> {}]
    /\ subOutcome' = NoOutcome
    /\ UNCHANGED <<checkedOut, state, refs, subGraph, baseline, settings>>

\* The loop's body: an unprovable submodule blocks and is not compared; otherwise
\* its contract becomes the baseline, and blocks when an imported name moved.
RoundOne ==
    LET s == Submodules[round.next]
        drifted == baseline[s].there /\ baseline[s].map # SubmoduleContract(s)
        d == InScope(s)
        blocks == \/ Unprovable(s)
                  \/ drifted /\ d.added \cup d.removed \cup d.changed # {}
    IN /\ round.next \in DOMAIN Submodules
       /\ round' = [next |-> round.next + 1, blocking |-> IF blocks THEN round.blocking \cup {s} ELSE round.blocking]
       /\ baseline' = IF Unprovable(s) \/ (baseline[s].there /\ ~drifted) THEN baseline
                      ELSE [baseline EXCEPT ![s] = [there |-> TRUE, map |-> SubmoduleContract(s)]]
       /\ UNCHANGED <<checkedOut, state, refs, subGraph, settings, subOutcome, steps>>

\* A storage error ends the command, with what it has recorded recorded.
RoundFails ==
    /\ round.next \in DOMAIN Submodules
    /\ round' = NoRound
    /\ subOutcome' = [kind |-> "error"]
    /\ UNCHANGED <<checkedOut, state, refs, subGraph, baseline, settings, steps>>

RoundEnds ==
    /\ round.next = Len(Submodules) + 1
    /\ round' = NoRound
    /\ subOutcome' = [kind |-> IF round.blocking = {} THEN "ok" ELSE "blocked"]
    /\ UNCHANGED <<checkedOut, state, refs, subGraph, baseline, settings, steps>>

-----------------------------------------------------------------------------
(* weave verify.                                                           *)

\* phantom_symbols outside the exempt files.
Phantoms(targets) == {c \in subGraph.unresolved : c[1] \in targets \ settings.exempt}

\* submodule_encapsulation_violations, by the visibility the node was indexed with.
Encapsulation(targets) == {e \in subGraph.edges : e.file \in targets /\ ~e.exported}

\* required_guard_violations: callers of a guarded symbol that are not listed.
Guarded == {e \in subGraph.edges : \E g \in settings.guards : g.name = e.name /\ e.file \notin g.callers}

\* Mutant form: only removed symbols are stale.
StaleRemoved(s) == IF baseline[s].there /\ baseline[s].map # SubmoduleContract(s)
            THEN InScope(s).removed ELSE {}

\* stale_submodule_references: removed and changed names; added ones are no finding.
Stale(s) == IF baseline[s].there /\ baseline[s].map # SubmoduleContract(s)
            THEN InScope(s).removed \cup InScope(s).changed ELSE {}

\* cmd_verify, for one file or all of them, or for the submodule checks alone.
Verify(targets, submodulesOnly) ==
    LET phantom == IF submodulesOnly \/ ~settings.rejectPhantoms THEN {} ELSE Phantoms(targets)
        hidden  == IF settings.enforceVisibility THEN Encapsulation(targets) ELSE {}
        provable == {s \in Subs : ~Unprovable(s)}
        stale   == IF settings.qualifyChanged THEN UNION {Stale(s) : s \in provable} ELSE {}
        incomplete == \E s \in Subs : \/ SubmoduleState(s) = "uninitialized"
                                      \/ SubmoduleState(s) = "dirty" /\ settings.rejectDirty
        completed == (IF submodulesOnly \/ ~settings.rejectPhantoms THEN {} ELSE {"phantom_symbols"})
                       \cup (IF settings.enforceVisibility THEN {"submodule_boundaries"} ELSE {})
                       \cup {"stale_submodule_references"}
                       \cup (IF settings.guards = {} THEN {} ELSE {"required_guards"})
    IN /\ round = NoRound /\ Spent
       /\ subOutcome' = IF settings = BrokenConfig THEN [kind |-> "error"]
                     ELSE [kind |-> IF phantom # {} \/ hidden # {} \/ stale # {} \/ Guarded # {} THEN "fail"
                                    ELSE IF incomplete THEN "incomplete" ELSE "pass",
                           targets |-> targets, only |-> submodulesOnly, completed |-> completed]
       /\ UNCHANGED <<checkedOut, state, refs, subGraph, baseline, settings, round>>

-----------------------------------------------------------------------------
(* The world.                                                              *)

\* A commit or an edit inside a submodule, its checkout, or its removal.
Touch(s) ==
    /\ Spent
    /\ checkedOut' \in {[checkedOut EXCEPT ![s] = c] : c \in Contents[s]}
    /\ state' \in {[state EXCEPT ![s] = st] : st \in States}
    /\ <<checkedOut', state'>> # <<checkedOut, state>>
    /\ subOutcome' = NoOutcome
    /\ UNCHANGED <<refs, subGraph, baseline, settings, round>>

EditParent ==
    /\ Spent
    /\ refs' \in CallTables \ {refs}
    /\ subOutcome' = NoOutcome
    /\ UNCHANGED <<checkedOut, state, subGraph, baseline, settings, round>>

Reindexing ==
    /\ Spent
    /\ subGraph' = Indexed
    /\ subOutcome' = NoOutcome
    /\ UNCHANGED <<checkedOut, state, refs, baseline, settings, round>>

SubNext ==
    \/ RoundStart \/ RoundOne \/ RoundFails \/ RoundEnds
    \/ \E targets \in {ParentFiles} \cup {{f} : f \in ParentFiles}, only \in BOOLEAN : Verify(targets, only)
    \/ \E s \in Subs : Touch(s)
    \/ EditParent \/ Reindexing

SubSpec == SubInit /\ [][SubNext]_subVars

-----------------------------------------------------------------------------
(* Properties.                                                             *)

\* A passing verification with every check on vouches for what the graph knows: no
\* call is unbound, and each call into a submodule meets the signature of the
\* baseline, whether the graph was indexed before or after the submodule moved.
\* What the stale-reference check misses after a re-index (a removed symbol has no
\* edge left) the phantom check must find, and the other way round (verify.rs:475).
PassVouchesForTheBaseline ==
    subOutcome.kind = "pass" /\ ~subOutcome.only /\ subOutcome.targets = ParentFiles
      /\ settings.rejectPhantoms /\ settings.qualifyChanged /\ settings.rejectDirty /\ settings.exempt = {} =>
        \A c \in subGraph.calls, s \in Subs :
            /\ Cardinality({e \in subGraph.edges : e.file = c[1] /\ e.name = c[2]}) = 1
            /\ state[s] \in {"clean", "bumped", "bumped and dirty"}
            /\ baseline[s].there /\ c[2] \in DOMAIN baseline[s].map =>
                 /\ c[2] \in DOMAIN checkedOut[s]
                 /\ checkedOut[s][c[2]] = [signature |-> baseline[s].map[c[2]], exported |-> TRUE]
=============================================================================
