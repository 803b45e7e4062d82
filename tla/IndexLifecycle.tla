---------------------------- MODULE IndexLifecycle ----------------------------
(***************************************************************************)
(* When an index pass runs and what it may assume: `weave index`, the      *)
(* watcher's ticks and `weave sync pull` around one data directory         *)
(* (cmd_index, watch_tick, run_watch_loop, cmd_sync_pull; cache.rs,        *)
(* lock.rs, watch.rs).  The data directory holds the database graph.db,    *)
(* the staging file graph.db.rebuild, last_indexed_sha, extractor_version, *)
(* the per-commit snapshots cache/<sha>.idx, the pending marker and the    *)
(* in-flight file.  What a pass writes for one file is abstracted to the   *)
(* version it read and the extractor that parsed it; module Reindex has    *)
(* the inside of a pass.                                                   *)
(*                                                                         *)
(* Env names what the world around the data directory may do:              *)
(*   "edit"    files are edited and left uncommitted                       *)
(*   "race"    the tree changes while a process works                      *)
(*   "crash"   the running command dies between two steps                  *)
(*   "torn"    it may die in the middle of save_snapshot's copy            *)
(*   "fail"    a pass stops with an error, as in Reindex's UpsertFails     *)
(*   "upgrade" a newer binary with another EXTRACTOR_VERSION is installed  *)
(*   "watch"   a watcher is started right after an index                   *)
(*   "late"    a watcher is started whenever there is a database           *)
(*   "outlive" a watcher keeps running across an upgrade                   *)
(*   "timeout" a lock holder keeps the lock for more than five seconds     *)
(*   "pull"    `weave sync pull` is run, alone                             *)
(*   "overlap" it is run while an index or a watcher runs                  *)
(***************************************************************************)
EXTENDS Integers, FiniteSets

CONSTANTS Files,          \* the indexable paths
          Versions,       \* contents a file may have
          Commits,        \* commit ids
          TreeOf,         \* the tree of each commit
          Extractors,     \* EXTRACTOR_VERSIONs, oldest first
          BailoutFloor,   \* ReindexConfig.bailout_floor
          Env,            \* see above
          MaxMoves,       \* bound: checkouts, edits, upgrades and commands
          Gone,           \* the content and the rows of a missing file
          NoDb,           \* in place of a database: there is no file
          Torn,           \* in place of a database: a file cut short
          None            \* no commit, no lock holder

Content == Versions \cup {Gone}
Row == [version : Versions, extractor : Extractors] \cup {Gone}

ASSUME LifecycleAssumption ==
  /\ IsFiniteSet(Files) /\ Files # {}
  /\ Gone \notin Versions \cup [version : Versions, extractor : Extractors]
  /\ NoDb # Torn /\ NoDb \notin [Files -> Row] /\ Torn \notin [Files -> Row]
  /\ None \notin Commits \cup {"cli", "watch"}
  /\ TreeOf \in [Commits -> [Files -> Content]]
  /\ Extractors \subseteq Nat
  /\ BailoutFloor \in Nat
  /\ MaxMoves \in Nat

VARIABLES
  head,      \* the commit HEAD names
  work,      \* the working tree
  binary,    \* EXTRACTOR_VERSION of the installed weave
  moves,     \* how many outside moves have been made
  active,    \* graph.db
  rebuild,   \* graph.db.rebuild
  lastSha,   \* last_indexed_sha
  stamp,     \* extractor_version, 0 when the file is missing
  cache,     \* the snapshot of each commit
  marker,    \* files named by pending-manual-reindex, {} when absent
  inFlight,  \* files named by watch-in-flight, {} when absent
  lock,      \* who holds index.lock
  cli,       \* the running `weave index`
  watch,     \* the watcher
  pulling    \* a `weave sync pull` has written graph.db.rebuild

vars == <<head, work, binary, moves, active, rebuild, lastSha, stamp, cache,
          marker, inFlight, lock, cli, watch, pulling>>

tree == <<head, work, binary, moves>>
db == <<active, rebuild, lastSha, stamp, cache>>
signals == <<marker, inFlight>>

Idle == [pc |-> "idle", incremental |-> FALSE, cur |-> None, last |-> None,
         changed |-> {}, extractor |-> 0]
Off == [on |-> FALSE, pc |-> "idle", channel |-> {}, batch |-> {},
        pending |-> {}, extractor |-> 0]

\* The row a pass writes for a file, and what a full pass writes.
ParsedRow(content, e) ==
  IF content = Gone THEN Gone ELSE [version |-> content, extractor |-> e]
Parsed(t, e) == [f \in Files |-> ParsedRow(t[f], e)]

\* The rows show the file as it is in the working tree.
Current(f) == IF active[f] = Gone THEN work[f] = Gone
              ELSE active[f].version = work[f]

Init ==
  /\ head \in Commits
  /\ work = TreeOf[head]
  /\ binary \in Extractors /\ \A e \in Extractors : binary <= e
  /\ moves = 0
  /\ active = NoDb /\ rebuild = NoDb
  /\ lastSha = None /\ stamp = 0
  /\ cache = [c \in Commits |-> NoDb]
  /\ marker = {} /\ inFlight = {}
  /\ lock = None
  /\ cli = Idle /\ watch = Off /\ pulling = FALSE

-----------------------------------------------------------------------------
(* The world around the data directory *)

\* Unless "race" is in Env, the tree only changes while nothing is running.
Quiet == "race" \in Env \/ (cli.pc = "idle" /\ watch.pc = "idle")

Move == moves < MaxMoves /\ moves' = moves + 1

\* notify sends one event for each path that changed.
Notify(t) ==
  watch' = IF watch.on
           THEN [watch EXCEPT !.channel = @ \cup {f \in Files : t[f] # work[f]}]
           ELSE watch

\* git checkout: local edits are carried over, and git refuses when the two
\* commits differ in an edited file.
Checkout(c) ==
  /\ Quiet /\ Move
  /\ c # head
  /\ \A f \in Files :
       work[f] # TreeOf[head][f] => TreeOf[c][f] = TreeOf[head][f]
  /\ head' = c
  /\ work' = [f \in Files |-> IF work[f] # TreeOf[head][f]
                              THEN work[f] ELSE TreeOf[c][f]]
  /\ Notify(work')
  /\ UNCHANGED <<binary, db, signals, lock, cli, pulling>>

\* A file is written, created or deleted, or an edit is undone.
Edit(f, v) ==
  /\ "edit" \in Env
  /\ Quiet /\ Move
  /\ v # work[f]
  /\ work' = [work EXCEPT ![f] = v]
  /\ Notify(work')
  /\ UNCHANGED <<head, binary, db, signals, lock, cli, pulling>>

Upgrade(e) ==
  /\ "upgrade" \in Env
  /\ Quiet /\ Move
  /\ e > binary
  /\ watch.on => "outlive" \in Env
  /\ binary' = e
  /\ UNCHANGED <<head, work, db, signals, lock, cli, watch, pulling>>

-----------------------------------------------------------------------------
(* weave index *)

IndexStart(incremental) ==
  /\ Move
  /\ cli.pc = "idle"
  /\ pulling => "overlap" \in Env
  /\ cli' = [Idle EXCEPT !.pc = "waiting", !.incremental = incremental,
                         !.extractor = binary]
  /\ UNCHANGED <<head, work, binary, db, signals, lock, watch, pulling>>

\* The lock is held by another process for DEFAULT_LOCK_TIMEOUT.
IndexTimesOut ==
  /\ "timeout" \in Env
  /\ cli.pc = "waiting"
  /\ lock = "watch"
  /\ cli' = Idle
  /\ UNCHANGED <<tree, db, signals, lock, watch, pulling>>

\* Mutant form: a stale extractor skips the fast paths but keeps the cache.
IndexAcquireKeepCache ==
  /\ cli.pc = "waiting"
  /\ lock = None
  /\ lock' = "cli"
  /\ LET matches == stamp = cli.extractor IN
     cli' = [cli EXCEPT
               !.cur = head, !.last = lastSha,
               !.pc = IF matches /\ head = lastSha /\ active # NoDb
                      THEN "marker"
                      ELSE IF matches /\ cache[head] # NoDb
                           THEN "restore" ELSE "discover"]
  /\ UNCHANGED <<tree, db, signals, watch, pulling>>

\* Mutant form: the fast paths do not look at the extractor version.
IndexAcquireAnyExtractor ==
  /\ cli.pc = "waiting"
  /\ lock = None
  /\ lock' = "cli"
  /\ cli' = [cli EXCEPT
               !.cur = head, !.last = lastSha,
               !.pc = IF head = lastSha /\ active # NoDb
                      THEN "marker"
                      ELSE IF cache[head] # NoDb
                           THEN "restore" ELSE "discover"]
  /\ UNCHANGED <<tree, db, signals, watch, pulling>>

\* cmd_index up to the fast path: take the lock, read HEAD and
\* last_indexed_sha, wipe the snapshots of another extractor, and choose.
IndexAcquire ==
  /\ cli.pc = "waiting"
  /\ lock = None
  /\ lock' = "cli"
  /\ LET matches == stamp = cli.extractor IN
     /\ cache' = IF matches THEN cache ELSE [c \in Commits |-> NoDb]
     /\ cli' = [cli EXCEPT
                  !.cur = head, !.last = lastSha,
                  !.pc = IF matches /\ head = lastSha /\ active # NoDb
                         THEN "marker"
                         ELSE IF matches /\ cache[head] # NoDb
                              THEN "restore" ELSE "discover"]
  /\ UNCHANGED <<tree, active, rebuild, lastSha, stamp, signals, watch,
                 pulling>>

\* restore_snapshot: copy to graph.db.rebuild, rename over graph.db.
Restore ==
  /\ cli.pc = "restore"
  /\ active' = cache[cli.cur]
  /\ rebuild' = NoDb
  /\ cli' = [cli EXCEPT !.pc = "restoredSha"]
  /\ UNCHANGED <<tree, lastSha, stamp, cache, signals, lock, watch, pulling>>

\* git::changed_since: files that differ from the commit, and untracked ones.
ChangedSince(c) ==
  {f \in Files : \/ work[f] # TreeOf[c][f]
                 \/ work[f] # Gone /\ TreeOf[head][f] = Gone}

IndexedFileCount == Cardinality({f \in Files : active[f] # Gone})

\* should_bail_out with the default ratio of 10%.
ShouldBailOut(n, total) ==
  n > (IF total \div 10 > BailoutFloor THEN total \div 10 ELSE BailoutFloor)

\* Mutant form: the pass works on graph.db itself.
BeginInPlace == active' = Torn /\ UNCHANGED rebuild

\* Both reindex functions remove graph.db.rebuild and start a new one; it is
\* no database until the pass has written everything.
BeginStaging == rebuild' = Torn /\ UNCHANGED active

MayBeIncremental ==
  /\ cli.incremental /\ stamp = cli.extractor
  /\ active # NoDb /\ cli.last # None

\* discover_files finds nothing: cmd_index returns there.
NothingToIndex ==
  /\ cli.pc = "discover"
  /\ \A f \in Files : work[f] = Gone
  /\ cli' = [cli EXCEPT !.pc = "empty"]
  /\ UNCHANGED <<tree, db, signals, lock, watch, pulling>>

\* The first half of reindex: an incremental pass over the git diff or a full
\* one.  An incremental pass with an empty diff stages nothing.
Discover ==
  /\ cli.pc = "discover"
  /\ \E f \in Files : work[f] # Gone
  /\ ~(MayBeIncremental /\ active = Torn)
  /\ LET incremental ==
           /\ MayBeIncremental
           /\ ~ShouldBailOut(Cardinality(ChangedSince(cli.last)),
                             IndexedFileCount)
         changed == IF incremental THEN ChangedSince(cli.last) ELSE Files
     IN /\ cli' = [cli EXCEPT !.changed = changed,
                              !.pc = IF changed = {} THEN "stamp" ELSE "stage"]
        /\ IF changed = {} THEN rebuild' = NoDb /\ UNCHANGED active
                           ELSE BeginStaging
  /\ UNCHANGED <<tree, lastSha, stamp, cache, signals, lock, watch, pulling>>

\* What a pass leaves in graph.db.rebuild: the given files as they are now,
\* the others as graph.db has them.  A staging file that somebody else wrote
\* meanwhile ends up with pages of both.
Staged(changed, e) ==
  IF rebuild # Torn THEN Torn
  ELSE [f \in Files |-> IF f \in changed THEN ParsedRow(work[f], e)
                        ELSE active[f]]

Stage ==
  /\ cli.pc = "stage"
  /\ rebuild # NoDb
  /\ rebuild' = Staged(cli.changed, cli.extractor)
  /\ cli' = [cli EXCEPT !.pc = "promote"]
  /\ UNCHANGED <<tree, active, lastSha, stamp, cache, signals, lock, watch,
                 pulling>>

Promote ==
  /\ cli.pc = "promote"
  /\ rebuild # NoDb
  /\ active' = rebuild
  /\ rebuild' = NoDb
  /\ cli' = [cli EXCEPT !.pc = "stamp"]
  /\ UNCHANGED <<tree, lastSha, stamp, cache, signals, lock, watch, pulling>>

\* A database that cannot be opened, a staging file that is not there any
\* more or a rejected row ends the command with an error.
IndexFails ==
  /\ \/ /\ cli.pc = "discover" /\ \E f \in Files : work[f] # Gone
        /\ MayBeIncremental /\ active = Torn
     \/ cli.pc \in {"stage", "promote"} /\ rebuild = NoDb
     \/ cli.pc = "stage" /\ "fail" \in Env
  /\ cli' = Idle
  /\ lock' = None
  /\ UNCHANGED <<tree, db, signals, watch, pulling>>

WriteStamp ==
  /\ cli.pc = "stamp"
  /\ stamp' = cli.extractor
  /\ cli' = [cli EXCEPT !.pc = "sha"]
  /\ UNCHANGED <<tree, active, rebuild, lastSha, cache, signals, lock, watch,
                 pulling>>

\* write_last_indexed_sha after a pass and after a restored snapshot: the
\* commit is the one read at the start.
WriteSha ==
  /\ cli.pc \in {"sha", "restoredSha"}
  /\ lastSha' = cli.cur
  /\ cli' = [cli EXCEPT !.pc = IF cli.pc = "sha" THEN "save" ELSE "marker"]
  /\ UNCHANGED <<tree, active, rebuild, stamp, cache, signals, lock, watch,
                 pulling>>

\* is_working_tree_clean is asked now, the commit was read at the start.
SaveSnapshot ==
  /\ cli.pc = "save"
  /\ cache' = IF work = TreeOf[head]
              THEN [cache EXCEPT ![cli.cur] = active] ELSE cache
  /\ cli' = [cli EXCEPT !.pc = "marker"]
  /\ UNCHANGED <<tree, active, rebuild, lastSha, stamp, signals, lock, watch,
                 pulling>>

ClearMarker ==
  /\ cli.pc = "marker"
  /\ marker' = {}
  /\ cli' = [cli EXCEPT !.pc = "done"]
  /\ UNCHANGED <<tree, db, inFlight, lock, watch, pulling>>

\* The command returns and drops its lock.
IndexReturns ==
  /\ cli.pc \in {"done", "empty"}
  /\ lock' = None
  /\ cli' = Idle
  /\ UNCHANGED <<tree, db, signals, watch, pulling>>

\* The command dies.  fs::write truncates first, so a small file being
\* written may be left empty; an interrupted copy is left where it stopped.
IndexCrash ==
  /\ "crash" \in Env
  /\ cli.pc # "idle"
  /\ cli' = Idle
  /\ lock' = IF lock = "cli" THEN None ELSE lock
  /\ lastSha' \in {lastSha} \cup
        (IF cli.pc \in {"sha", "restoredSha"} THEN {None} ELSE {})
  /\ stamp' \in {stamp} \cup (IF cli.pc = "stamp" THEN {0} ELSE {})
  /\ cache' \in {cache} \cup
        (IF "torn" \in Env /\ cli.pc = "save" /\ work = TreeOf[head]
         THEN {[cache EXCEPT ![cli.cur] = Torn]} ELSE {})
  /\ UNCHANGED <<tree, active, rebuild, signals, watch, pulling>>

-----------------------------------------------------------------------------
(* weave index --watch, and the watcher inside weave serve *)

\* cmd_index_watch needs a database, nothing more.
WatchStart ==
  /\ "watch" \in Env
  /\ ~watch.on
  /\ active # NoDb /\ (cli.pc = "done" \/ "late" \in Env)
  /\ watch' = [Off EXCEPT !.on = TRUE, !.extractor = binary]
  /\ UNCHANGED <<tree, db, signals, lock, cli, pulling>>

\* Ctrl-C: what the watcher had gathered is forgotten, the files it wrote
\* stay.  In the middle of a tick it counts as a crash.
WatchStop ==
  /\ watch.on
  /\ watch.pc = "idle" \/ "crash" \in Env
  /\ watch' = Off
  /\ lock' = IF lock = "watch" THEN None ELSE lock
  /\ UNCHANGED <<tree, db, signals, cli, pulling>>

\* Mutant form: events of deleted files are dropped.
ReceiveExisting ==
  /\ watch.on /\ watch.pc = "idle"
  /\ watch.channel # {}
  /\ LET batch == watch.batch \cup {f \in watch.channel : work[f] # Gone} IN
     /\ watch' = [watch EXCEPT !.channel = {}, !.batch = batch]
     /\ inFlight' = batch
  /\ UNCHANGED <<tree, db, marker, lock, cli, pulling>>

\* on_event for everything the channel holds.
Receive ==
  /\ watch.on /\ watch.pc = "idle"
  /\ watch.channel # {}
  /\ LET batch == watch.batch \cup watch.channel IN
     /\ watch' = [watch EXCEPT !.channel = {}, !.batch = batch]
     /\ inFlight' = batch
  /\ UNCHANGED <<tree, db, marker, lock, cli, pulling>>

\* A quiet debounce window ends the batch: on_batch.
Batch ==
  /\ watch.on /\ watch.pc = "idle"
  /\ watch.channel = {} /\ watch.batch # {}
  /\ watch' = [watch EXCEPT !.batch = {}, !.pending = @ \cup watch.batch,
                            !.pc = "waiting"]
  /\ inFlight' = {}
  /\ UNCHANGED <<tree, db, marker, lock, cli, pulling>>

TickAcquire ==
  /\ watch.pc = "waiting"
  /\ lock = None
  /\ lock' = "watch"
  /\ watch' = [watch EXCEPT !.pc = "tick"]
  /\ UNCHANGED <<tree, db, signals, cli, pulling>>

\* run_watch_loop prints the error and keeps pending for the next batch.
TickTimesOut ==
  /\ "timeout" \in Env
  /\ watch.pc = "waiting"
  /\ lock = "cli"
  /\ watch' = [watch EXCEPT !.pc = "idle"]
  /\ UNCHANGED <<tree, db, signals, lock, cli, pulling>>

TickFails ==
  /\ \/ watch.pc = "tick" /\ active = Torn
     \/ watch.pc \in {"stage", "promote"} /\ rebuild = NoDb
     \/ watch.pc = "stage" /\ "fail" \in Env
  /\ watch' = [watch EXCEPT !.pc = "idle"]
  /\ lock' = None
  /\ UNCHANGED <<tree, db, signals, cli, pulling>>

\* Mutant form: the deferral does not reach the marker.
TickDeferSilently ==
  /\ watch.pc = "tick"
  /\ active # Torn
  /\ \E f \in watch.pending : active[f] # Gone
  /\ watch' = [watch EXCEPT !.pc = "idle"]
  /\ lock' = None
  /\ UNCHANGED <<tree, db, signals, cli, pulling>>

\* The blast radius reaches the ceiling, which needs an indexed symbol in a
\* pending file; how far it reaches is left open.
TickDefer ==
  /\ watch.pc = "tick"
  /\ active # Torn
  /\ \E f \in watch.pending : active[f] # Gone
  /\ marker' = watch.pending
  /\ watch' = [watch EXCEPT !.pc = "idle"]
  /\ lock' = None
  /\ UNCHANGED <<tree, db, inFlight, cli, pulling>>

TickReindex ==
  /\ watch.pc = "tick"
  /\ active # Torn
  /\ BeginStaging
  /\ watch' = [watch EXCEPT !.pc = "stage"]
  /\ UNCHANGED <<tree, lastSha, stamp, cache, signals, lock, cli, pulling>>

TickStage ==
  /\ watch.pc = "stage"
  /\ rebuild # NoDb
  /\ rebuild' = Staged(watch.pending, watch.extractor)
  /\ watch' = [watch EXCEPT !.pc = "promote"]
  /\ UNCHANGED <<tree, active, lastSha, stamp, cache, signals, lock, cli,
                 pulling>>

TickPromote ==
  /\ watch.pc = "promote"
  /\ rebuild # NoDb
  /\ active' = rebuild
  /\ rebuild' = NoDb
  /\ watch' = [watch EXCEPT !.pc = "finish"]
  /\ UNCHANGED <<tree, lastSha, stamp, cache, signals, lock, cli, pulling>>

\* The commit recorded is HEAD as it is now; the extractor is not stamped and
\* no snapshot is saved.
TickFinish ==
  /\ watch.pc = "finish"
  /\ lastSha' = head
  /\ marker' = {}
  /\ watch' = [watch EXCEPT !.pc = "idle", !.pending = {}]
  /\ lock' = None
  /\ UNCHANGED <<tree, active, rebuild, stamp, cache, inFlight, cli, pulling>>

-----------------------------------------------------------------------------
(* weave sync pull: no lock; graph.db.rebuild is written, then renamed.    *)
(* The hub's snapshot of a commit was built by the installed extractor.    *)

PullWrite(c) ==
  /\ "pull" \in Env
  /\ Move
  /\ ~pulling
  /\ "overlap" \in Env \/ (cli.pc = "idle" /\ ~watch.on)
  /\ rebuild' = Parsed(TreeOf[c], binary)
  /\ pulling' = TRUE
  /\ UNCHANGED <<head, work, binary, active, lastSha, stamp, cache, signals,
                 lock, cli, watch>>

PullRename ==
  /\ pulling
  /\ IF rebuild = NoDb THEN UNCHANGED active ELSE active' = rebuild
  /\ rebuild' = NoDb
  /\ pulling' = FALSE
  /\ UNCHANGED <<tree, lastSha, stamp, cache, signals, lock, cli, watch>>

-----------------------------------------------------------------------------
World ==
  \/ \E c \in Commits : Checkout(c)
  \/ \E f \in Files, v \in Content : Edit(f, v)
  \/ \E e \in Extractors : Upgrade(e)

IndexStep ==
  \/ IndexAcquire \/ Restore \/ NothingToIndex \/ Discover \/ Stage \/ Promote
  \/ IndexFails \/ WriteStamp \/ WriteSha \/ SaveSnapshot \/ ClearMarker
  \/ IndexReturns

WatchStep ==
  \/ Receive \/ Batch \/ TickAcquire \/ TickFails \/ TickDefer \/ TickReindex
  \/ TickStage \/ TickPromote \/ TickFinish

Next ==
  \/ World
  \/ \E incremental \in BOOLEAN : IndexStart(incremental)
  \/ IndexStep \/ IndexTimesOut \/ IndexCrash
  \/ WatchStart \/ WatchStop
  \/ WatchStep \/ TickTimesOut
  \/ \E c \in Commits : PullWrite(c)
  \/ PullRename

Spec == Init /\ [][Next]_vars

\* A started command and a running watcher keep taking steps; nobody has to
\* start, stop or kill one, and nobody has to move the tree.
FairSpec == Spec /\ WF_vars(IndexStep) /\ WF_vars(WatchStep)

-----------------------------------------------------------------------------
(* Properties *)

\* When weave index reports success, whichever path it took ("Already up to
\* date", a restored snapshot, an incremental or a full pass), the database
\* is what a full pass of this binary over the working tree writes.
FreshAfterIndex ==
  cli.pc = "done" => active = Parsed(work, cli.extractor)

\* No row, in the database or in a snapshot, comes from an extractor older
\* than the stamp: a stamp that matches the binary never vouches for data an
\* older parser produced.
NoOutdatedRows ==
  \A d \in {active} \cup {cache[c] : c \in Commits} :
    d \notin {NoDb, Torn} =>
      \A f \in Files : d[f] = Gone \/ d[f].extractor >= stamp

\* Core Invariant 2, as far as the code keeps it: graph.db becomes a file cut
\* short only by restoring a snapshot that a crash cut short, or while a sync
\* pull, which takes no lock, shares graph.db.rebuild with a pass.
CompleteUnlessCutOff ==
  [][active' = Torn /\ active # Torn =>
       pulling \/ (cli.pc = "restore" /\ cache[cli.cur] = Torn)]_vars

\* A file the watcher has taken out of its debounce window and whose rows are
\* out of date is announced once nobody is working on it: by the marker, or
\* by a new debounce window.
StalenessSignalled ==
  (watch.on /\ watch.pc = "idle" /\ cli.pc = "idle") =>
    \A f \in watch.pending :
      Current(f) \/ f \in watch.channel \cup inFlight \cup marker

\* A change the watcher is told of ends up in the database or in the marker,
\* unless the watcher is stopped.
WatchCatchesUp ==
  \A f \in Files :
    (f \in watch.channel) ~> (~watch.on \/ Current(f) \/ f \in marker)
=============================================================================
