------------------------ MODULE IndexLifecycleProofs ------------------------
(***************************************************************************)
(* What the index lifecycle guarantees for any files, commits and          *)
(* extractors.  Whole and RowsInv hold whatever Env lets happen (RowsInv   *)
(* needs that no watcher outlives an upgrade); TidyInv is about a world    *)
(* that moves the tree only while nothing runs.                            *)
(***************************************************************************)
EXTENDS IndexLifecycle, TLAPS

Db == [Files -> Row]
MaybeDb == Db \cup {NoDb, Torn}
MaybeCommit == Commits \cup {None}

CliPcs == {"idle", "waiting", "restore", "restoredSha", "discover", "empty",
           "stage", "promote", "stamp", "sha", "save", "marker", "done"}
WatchPcs == {"idle", "waiting", "tick", "stage", "promote", "finish"}

CliState ==
  [pc : CliPcs, incremental : BOOLEAN, cur : MaybeCommit, last : MaybeCommit,
   changed : SUBSET Files, extractor : Extractors \cup {0}]
WatchState ==
  [on : BOOLEAN, pc : WatchPcs, channel : SUBSET Files, batch : SUBSET Files,
   pending : SUBSET Files, extractor : Extractors \cup {0}]

TypeOK ==
  /\ head \in Commits /\ work \in [Files -> Content] /\ binary \in Extractors
  /\ active \in MaybeDb /\ rebuild \in MaybeDb
  /\ cache \in [Commits -> MaybeDb]
  /\ lastSha \in MaybeCommit /\ stamp \in Nat
  /\ marker \in SUBSET Files /\ inFlight \in SUBSET Files
  /\ lock \in {None, "cli", "watch"}
  /\ cli \in CliState /\ watch \in WatchState
  /\ pulling \in BOOLEAN

\* Who is past `waiting` holds the lock, and knows what it works with.
Discipline ==
  /\ lock = "cli" <=> cli.pc \notin {"idle", "waiting"}
  /\ lock = "watch" <=> watch.pc \notin {"idle", "waiting"}
  /\ watch.pc # "idle" => watch.on
  /\ cli.pc # "idle" => cli.extractor \in Extractors
  /\ cli.pc \notin {"idle", "waiting"} => cli.cur \in Commits
  /\ watch.on => watch.extractor \in Extractors /\ active # NoDb
  /\ cli.pc = "restore" => cache[cli.cur] # NoDb

\* What graph.db.rebuild is while a pass works on it: a pass that takes rows
\* over from graph.db finds a database there, and without a pull the staged
\* file is complete when it is renamed.
Staging ==
  /\ cli.pc = "stage" =>
       cli.changed = Files \/ rebuild # Torn \/ active \in Db
  /\ watch.pc = "stage" => rebuild # Torn \/ active \in Db
  /\ ~pulling /\ "stage" \in {cli.pc, watch.pc} => rebuild \in {Torn, NoDb}
  /\ ~pulling /\ "promote" \in {cli.pc, watch.pc} => rebuild # Torn

Whole == TypeOK /\ Discipline /\ Staging

\* Every row of a database comes from extractor e or a later one.
RowsFrom(d, e) ==
  d \in Db => \A f \in Files : d[f] = Gone \/ d[f].extractor >= e

\* The stamp never promises more than the rows, the snapshots and the staged
\* file hold, and what a running command is about to promise holds already.
RowsInv ==
  /\ stamp <= binary
  /\ cli.pc # "idle" => stamp <= cli.extractor /\ cli.extractor <= binary
  /\ watch.on => watch.extractor = binary
  /\ RowsFrom(active, stamp) /\ RowsFrom(rebuild, stamp)
  /\ \A c \in Commits : RowsFrom(cache[c], stamp)
  /\ cli.pc \notin {"idle", "waiting"} =>
       \A c \in Commits : RowsFrom(cache[c], cli.extractor)
  /\ cli.pc = "stage" => cli.changed = Files \/ stamp = cli.extractor
  /\ cli.pc \in {"promote", "stamp"} => RowsFrom(rebuild, cli.extractor)
  /\ cli.pc = "stamp" => RowsFrom(active, cli.extractor)
  /\ cli.pc \in {"sha", "save"} => stamp = cli.extractor

\* What a full pass of the recorded extractor writes for a commit.
Image(c) == Parsed(TreeOf[c], stamp)

\* Rows that need no more work: as a pass over the working tree writes them.
Settled(f) == active[f] = ParsedRow(work[f], stamp)

\* What weave index knows in a tidy world at each of its steps.
TidyCli ==
  /\ cli.pc # "idle" => cli.extractor = binary
  /\ cli.pc \notin {"idle", "waiting"} =>
       /\ cli.cur = head
       /\ stamp = cli.extractor \/ \A c \in Commits : cache[c] = NoDb
  /\ cli.pc = "discover" => cli.last = lastSha
  /\ cli.pc \in {"restore", "restoredSha"} => stamp = cli.extractor
  /\ cli.pc = "stage" =>
       /\ rebuild = Torn
       /\ \A f \in Files \ cli.changed :
            active \in Db /\ active[f] = ParsedRow(work[f], cli.extractor)
  /\ cli.pc = "promote" => rebuild = Parsed(work, cli.extractor)
  /\ cli.pc \in {"stamp", "restoredSha"} => active = Parsed(work, cli.extractor)
  /\ cli.pc \in {"sha", "save", "marker", "done"} =>
       stamp = cli.extractor /\ active = Parsed(work, stamp)

\* The same of the watcher, which has heard of every difference there is.
TidyWatch ==
  /\ watch.on =>
       /\ watch.extractor = binary /\ stamp = binary /\ active \in Db
       /\ \A f \in Files \ (watch.channel \cup watch.batch \cup watch.pending) :
            Settled(f)
  /\ watch.pc # "idle" => watch.channel = {} /\ watch.batch = {}
  /\ watch.pc = "stage" => rebuild = Torn
  /\ watch.pc = "promote" => rebuild = Parsed(work, stamp)
  /\ watch.pc = "finish" => active = Parsed(work, stamp)

\* In a tidy world every snapshot is what a full pass writes for its commit,
\* and so is graph.db for last_indexed_sha unless somebody is about to record
\* another.
TidyInv ==
  /\ work = TreeOf[head] /\ ~pulling /\ active # Torn
  /\ \A c \in Commits : cache[c] # NoDb => cache[c] = Image(c)
  /\ /\ lastSha # None /\ watch.pc # "finish"
     /\ cli.pc \notin {"stamp", "sha", "restoredSha"}
     => active = Image(lastSha)
  /\ TidyCli /\ TidyWatch

\* A file whose rows are out of date is announced, as soon as no command
\* that could bring it up to date holds the lock; no command gives up on an
\* empty tree.
Signals ==
  /\ cli.pc # "empty"
  /\ watch.on /\ watch.pending # {} => inFlight = watch.batch
  /\ watch.on /\ watch.pc = "idle" /\ cli.pc \in {"idle", "waiting"} =>
       \A f \in watch.pending :
         Current(f) \/ f \in watch.channel \cup inFlight \cup marker

\* The watcher's state keeps its type when it hears of changed files.
LEMMA NotifyType ==
  ASSUME watch \in WatchState, NEW t, Notify(t) PROVE watch' \in WatchState
<1>1. CASE watch.on
  <2>. DEFINE told == watch.channel \cup {f \in Files : t[f] # work[f]}
  <2>1. watch' = [watch EXCEPT !.channel = told]
    BY <1>1 DEF Notify
  <2>2. told \in SUBSET Files
    BY DEF WatchState
  <2>. HIDE DEF told
  <2>. QED  BY <2>1, <2>2 DEF WatchState
<1>2. CASE ~watch.on
  BY <1>2 DEF Notify
<1>. QED  BY <1>1, <1>2

\* Every step of every actor keeps the types; what a pass stages is a database
\* because it finds one in graph.db or parses every file.
LEMMA NextTypeOK == Whole /\ [Next]_vars => TypeOK'
<1>. SUFFICES ASSUME Whole, [Next]_vars PROVE TypeOK'
  OBVIOUS
<1>. USE LifecycleAssumption DEF Whole, TypeOK, tree, db, signals
<1>1. CASE \E c \in Commits : Checkout(c)
  <2>1. work' \in [Files -> Content]
    BY <1>1 DEF Checkout, Content
  <2>2. watch' \in WatchState
    BY <1>1, NotifyType DEF Checkout
  <2>. QED
    BY <1>1, <2>1, <2>2 DEF Checkout
<1>2. CASE \E f \in Files, v \in Content : Edit(f, v)
  <2>1. work' \in [Files -> Content]
    BY <1>2 DEF Edit, Content
  <2>2. watch' \in WatchState
    BY <1>2, NotifyType DEF Edit
  <2>. QED
    BY <1>2, <2>1, <2>2 DEF Edit
<1>3. CASE \E e \in Extractors : Upgrade(e)
  BY <1>3 DEF Upgrade
<1>4. CASE \E incremental \in BOOLEAN : IndexStart(incremental)
  <2>1. cli' \in CliState
    <3>. PICK i \in BOOLEAN : IndexStart(i)
      BY <1>4
    <3>1. cli' = [pc |-> "waiting", incremental |-> i, cur |-> None,
                  last |-> None, changed |-> {}, extractor |-> binary]
      BY Zenon DEF IndexStart, Idle
    <3>. QED  BY <3>1 DEF CliState, CliPcs, MaybeCommit
  <2>. QED
    BY <1>4, <2>1 DEF IndexStart
<1>5. CASE IndexTimesOut
  <2>1. cli' \in CliState
    BY <1>5 DEF IndexTimesOut, Idle, CliState, CliPcs, MaybeCommit
  <2>. QED
    BY <1>5, <2>1 DEF IndexTimesOut
<1>6. CASE IndexCrash
  <2>1. cli' \in CliState
    BY <1>6 DEF IndexCrash, Idle, CliState, CliPcs, MaybeCommit
  <2>2. cache' \in [Commits -> MaybeDb]
    BY <1>6 DEF IndexCrash, MaybeDb
  <2>3. lastSha' \in MaybeCommit
    BY <1>6 DEF IndexCrash, MaybeCommit
  <2>. QED
    BY <1>6, <2>1, <2>2, <2>3 DEF IndexCrash
<1>7. CASE IndexAcquire
  <2>1. cli' \in CliState
    BY <1>7, ZenonT(60) DEF IndexAcquire, CliState, CliPcs, MaybeCommit
  <2>2. cache' \in [Commits -> MaybeDb]
    BY <1>7 DEF IndexAcquire, MaybeDb
  <2>. QED
    BY <1>7, <2>1, <2>2 DEF IndexAcquire
<1>8. CASE Restore
  <2>1. cli' \in CliState
    BY <1>8, Zenon DEF Restore, CliState, CliPcs
  <2>2. active' \in MaybeDb
    BY <1>8 DEF Restore, Discipline
  <2>3. rebuild' \in MaybeDb
    BY <1>8 DEF Restore, MaybeDb
  <2>. QED
    BY <1>8, <2>1, <2>2, <2>3 DEF Restore
<1>9. CASE NothingToIndex
  <2>1. cli' \in CliState
    BY <1>9 DEF NothingToIndex, CliState, CliPcs
  <2>. QED
    BY <1>9, <2>1 DEF NothingToIndex
<1>10. CASE Discover
  <2>1. cli' \in CliState
    BY <1>10, Zenon DEF Discover, CliState, CliPcs, ChangedSince
  <2>2. rebuild' \in MaybeDb
    BY <1>10 DEF Discover, BeginStaging, MaybeDb
  <2>3. active' \in MaybeDb
    BY <1>10 DEF Discover, BeginStaging
  <2>. QED
    BY <1>10, <2>1, <2>2, <2>3 DEF Discover
<1>11. CASE Stage
  <2>1. cli' \in CliState
    BY <1>11 DEF Stage, CliState, CliPcs
  <2>2. rebuild' \in MaybeDb
    BY <1>11 DEF Stage, Discipline, Staging, Staged, ParsedRow, MaybeDb, Db, Row, Content
  <2>. QED
    BY <1>11, <2>1, <2>2 DEF Stage
<1>12. CASE Promote
  <2>1. cli' \in CliState
    BY <1>12 DEF Promote, CliState, CliPcs
  <2>2. rebuild' \in MaybeDb
    BY <1>12 DEF Promote, MaybeDb
  <2>. QED
    BY <1>12, <2>1, <2>2 DEF Promote
<1>13. CASE IndexFails
  <2>1. cli' \in CliState
    BY <1>13 DEF IndexFails, Idle, CliState, CliPcs, MaybeCommit
  <2>. QED
    BY <1>13, <2>1 DEF IndexFails
<1>14. CASE WriteStamp
  <2>1. cli' \in CliState
    BY <1>14 DEF WriteStamp, CliState, CliPcs
  <2>2. stamp' \in Nat
    BY <1>14 DEF WriteStamp, Discipline
  <2>. QED
    BY <1>14, <2>1, <2>2 DEF WriteStamp
<1>15. CASE WriteSha
  <2>1. cli' \in CliState
    BY <1>15 DEF WriteSha, CliState, CliPcs
  <2>2. lastSha' \in MaybeCommit
    BY <1>15 DEF WriteSha, CliState
  <2>. QED
    BY <1>15, <2>1, <2>2 DEF WriteSha
<1>16. CASE SaveSnapshot
  <2>1. cli' \in CliState
    BY <1>16, SMTT(60) DEF SaveSnapshot, CliState, CliPcs
  <2>2. cache' \in [Commits -> MaybeDb]
    BY <1>16 DEF SaveSnapshot, Discipline
  <2>. QED
    BY <1>16, <2>1, <2>2 DEF SaveSnapshot
<1>17. CASE ClearMarker
  <2>1. cli' \in CliState
    BY <1>17, SMTT(60) DEF ClearMarker, CliState, CliPcs
  <2>. QED
    BY <1>17, <2>1 DEF ClearMarker
<1>18. CASE IndexReturns
  <2>1. cli' \in CliState
    BY <1>18 DEF IndexReturns, Idle, CliState, CliPcs, MaybeCommit
  <2>. QED
    BY <1>18, <2>1 DEF IndexReturns
<1>19. CASE WatchStart
  <2>1. watch' \in WatchState
    BY <1>19, Zenon DEF WatchStart, Off, WatchState, WatchPcs
  <2>. QED
    BY <1>19, <2>1 DEF WatchStart
<1>20. CASE WatchStop
  <2>1. watch' \in WatchState
    BY <1>20 DEF WatchStop, Off, WatchState, WatchPcs
  <2>. QED
    BY <1>20, <2>1 DEF WatchStop
<1>21. CASE Receive
  <2>1. watch' \in WatchState
    BY <1>21, Zenon DEF Receive, WatchState
  <2>2. inFlight' \in SUBSET Files
    BY <1>21 DEF Receive, WatchState
  <2>. QED
    BY <1>21, <2>1, <2>2 DEF Receive
<1>22. CASE Batch
  <2>1. watch' \in WatchState
    BY <1>22, Zenon DEF Batch, WatchState, WatchPcs
  <2>. QED
    BY <1>22, <2>1 DEF Batch
<1>23. CASE TickAcquire
  <2>1. watch' \in WatchState
    BY <1>23, SMTT(60) DEF TickAcquire, WatchState, WatchPcs
  <2>. QED
    BY <1>23, <2>1 DEF TickAcquire
<1>24. CASE TickTimesOut
  <2>1. watch' \in WatchState
    BY <1>24, SMTT(60) DEF TickTimesOut, WatchState, WatchPcs
  <2>. QED
    BY <1>24, <2>1 DEF TickTimesOut
<1>25. CASE TickFails
  <2>1. watch' \in WatchState
    BY <1>25, SMTT(60) DEF TickFails, WatchState, WatchPcs
  <2>. QED
    BY <1>25, <2>1 DEF TickFails
<1>26. CASE TickDefer
  <2>1. watch' \in WatchState
    BY <1>26, Zenon DEF TickDefer, WatchState, WatchPcs
  <2>2. marker' \in SUBSET Files
    BY <1>26 DEF TickDefer, WatchState
  <2>. QED
    BY <1>26, <2>1, <2>2 DEF TickDefer
<1>27. CASE TickReindex
  <2>1. watch' \in WatchState
    BY <1>27, SMTT(60) DEF TickReindex, WatchState, WatchPcs
  <2>2. rebuild' \in MaybeDb
    BY <1>27 DEF TickReindex, BeginStaging, MaybeDb
  <2>3. active' \in MaybeDb
    BY <1>27 DEF TickReindex, BeginStaging
  <2>. QED
    BY <1>27, <2>1, <2>2, <2>3 DEF TickReindex
<1>28. CASE TickStage
  <2>1. watch' \in WatchState
    BY <1>28, SMTT(60) DEF TickStage, WatchState, WatchPcs
  <2>2. rebuild' \in MaybeDb
    BY <1>28 DEF TickStage, Discipline, Staging, Staged, ParsedRow, MaybeDb, Db, Row, Content
  <2>. QED
    BY <1>28, <2>1, <2>2 DEF TickStage
<1>29. CASE TickPromote
  <2>1. watch' \in WatchState
    BY <1>29, SMTT(60) DEF TickPromote, WatchState, WatchPcs
  <2>2. rebuild' \in MaybeDb
    BY <1>29 DEF TickPromote, MaybeDb
  <2>. QED
    BY <1>29, <2>1, <2>2 DEF TickPromote
<1>30. CASE TickFinish
  <2>1. watch' \in WatchState
    BY <1>30, Zenon DEF TickFinish, WatchState, WatchPcs
  <2>2. lastSha' \in MaybeCommit
    BY <1>30 DEF TickFinish, MaybeCommit
  <2>. QED
    BY <1>30, <2>1, <2>2 DEF TickFinish
<1>31. CASE \E c \in Commits : PullWrite(c)
  <2>1. rebuild' \in MaybeDb
    BY <1>31 DEF PullWrite, Parsed, ParsedRow, MaybeDb, Db, Row, Content
  <2>. QED
    BY <1>31, <2>1 DEF PullWrite
<1>32. CASE PullRename
  <2>1. rebuild' \in MaybeDb
    BY <1>32 DEF PullRename, MaybeDb
  <2>2. active' \in MaybeDb
    BY <1>32 DEF PullRename, MaybeDb
  <2>. QED
    BY <1>32, <2>1, <2>2, Zenon DEF PullRename
<1>33. CASE UNCHANGED vars
  BY <1>33 DEF vars
<1>. QED
  BY <1>1, <1>2, <1>3, <1>4, <1>5, <1>6, <1>7, <1>8, <1>9, <1>10, <1>11,
     <1>12, <1>13, <1>14, <1>15, <1>16, <1>17, <1>18, <1>19, <1>20, <1>21, <1>22,
     <1>23, <1>24, <1>25, <1>26, <1>27, <1>28, <1>29, <1>30, <1>31, <1>32, <1>33, Zenon
     DEF Next, World, IndexStep,
     WatchStep

\* Every step keeps the lock discipline and what holds of the staging file.
LEMMA NextWhole == Whole /\ [Next]_vars => Whole'
<1>. SUFFICES ASSUME Whole, [Next]_vars PROVE (Discipline /\ Staging)'
  BY NextTypeOK DEF Whole
<1>. USE LifecycleAssumption DEF Whole, TypeOK, Discipline, Staging, tree, db,
         signals, Content, Row, Db, MaybeDb, MaybeCommit, CliPcs, WatchPcs,
         CliState, WatchState
<1>1. CASE \E c \in Commits : Checkout(c)
  <2>1. Discipline'
    BY <1>1 DEF Checkout, Move, Notify
  <2>2. Staging'
    BY <1>1 DEF Checkout, Move, Notify
  <2>. QED  BY <2>1, <2>2
<1>2. CASE \E f \in Files, v \in Content : Edit(f, v)
  <2>1. Discipline'
    BY <1>2 DEF Edit, Move, Notify
  <2>2. Staging'
    BY <1>2 DEF Edit, Move, Notify
  <2>. QED  BY <2>1, <2>2
<1>3. CASE \E e \in Extractors : Upgrade(e)
  BY <1>3 DEF Upgrade, Move
<1>4. CASE \E incremental \in BOOLEAN : IndexStart(incremental)
  <2>1. Discipline'
    BY <1>4 DEF IndexStart, Move, Idle
  <2>2. Staging'
    BY <1>4 DEF IndexStart, Move, Idle
  <2>. QED  BY <2>1, <2>2
<1>5. CASE IndexTimesOut
  BY <1>5 DEF IndexTimesOut, Idle
<1>6. CASE IndexCrash
  BY <1>6 DEF IndexCrash, Idle
<1>7. CASE IndexAcquire
  <2>1. Discipline'
    BY <1>7 DEF IndexAcquire
  <2>2. Staging'
    BY <1>7 DEF IndexAcquire
  <2>. QED  BY <2>1, <2>2
<1>8. CASE Restore
  BY <1>8 DEF Restore
<1>9. CASE NothingToIndex
  BY <1>9 DEF NothingToIndex
<1>10. CASE Discover
  <2>1. Discipline'
    BY <1>10 DEF Discover, BeginStaging, MayBeIncremental
  <2>2. Staging'
    BY <1>10 DEF Discover, BeginStaging, MayBeIncremental
  <2>. QED  BY <2>1, <2>2
<1>11. CASE Stage
  <2>1. Discipline'
    BY <1>11 DEF Stage, Staged, ParsedRow
  <2>2. Staging'
    BY <1>11 DEF Stage, Staged, ParsedRow
  <2>. QED  BY <2>1, <2>2
<1>12. CASE Promote
  BY <1>12 DEF Promote
<1>13. CASE IndexFails
  BY <1>13 DEF IndexFails, Idle
<1>14. CASE WriteStamp
  BY <1>14 DEF WriteStamp
<1>15. CASE WriteSha
  BY <1>15 DEF WriteSha
<1>16. CASE SaveSnapshot
  BY <1>16 DEF SaveSnapshot
<1>17. CASE ClearMarker
  BY <1>17 DEF ClearMarker
<1>18. CASE IndexReturns
  BY <1>18 DEF IndexReturns, Idle
<1>19. CASE WatchStart
  <2>1. Discipline'
    BY <1>19 DEF WatchStart, Off
  <2>2. Staging'
    BY <1>19 DEF WatchStart, Off
  <2>. QED  BY <2>1, <2>2
<1>20. CASE WatchStop
  BY <1>20 DEF WatchStop, Off
<1>21. CASE Receive
  <2>1. Discipline'
    BY <1>21 DEF Receive
  <2>2. Staging'
    BY <1>21 DEF Receive
  <2>. QED  BY <2>1, <2>2
<1>22. CASE Batch
  <2>1. Discipline'
    BY <1>22 DEF Batch
  <2>2. Staging'
    BY <1>22 DEF Batch
  <2>. QED  BY <2>1, <2>2
<1>23. CASE TickAcquire
  BY <1>23 DEF TickAcquire
<1>24. CASE TickTimesOut
  <2>1. Discipline'
    BY <1>24 DEF TickTimesOut
  <2>2. Staging'
    BY <1>24 DEF TickTimesOut
  <2>. QED  BY <2>1, <2>2
<1>25. CASE TickFails
  <2>1. Discipline'
    BY <1>25 DEF TickFails
  <2>2. Staging'
    BY <1>25 DEF TickFails
  <2>. QED  BY <2>1, <2>2
<1>26. CASE TickDefer
  BY <1>26 DEF TickDefer
<1>27. CASE TickReindex
  BY <1>27 DEF TickReindex, BeginStaging
<1>28. CASE TickStage
  BY <1>28 DEF TickStage, Staged, ParsedRow
<1>29. CASE TickPromote
  BY <1>29 DEF TickPromote
<1>30. CASE TickFinish
  BY <1>30 DEF TickFinish
<1>31. CASE \E c \in Commits : PullWrite(c)
  BY <1>31 DEF PullWrite, Move, Parsed, ParsedRow
<1>32. CASE PullRename
  <2>1. Discipline'
    BY <1>32 DEF PullRename
  <2>2. Staging'
    BY <1>32 DEF PullRename
  <2>. QED  BY <2>1, <2>2
<1>33. CASE UNCHANGED vars
  BY <1>33 DEF vars
<1>. QED
  BY <1>1, <1>2, <1>3, <1>4, <1>5, <1>6, <1>7, <1>8, <1>9, <1>10, <1>11,
     <1>12, <1>13, <1>14, <1>15, <1>16, <1>17, <1>18, <1>19, <1>20, <1>21, <1>22,
     <1>23, <1>24, <1>25, <1>26, <1>27, <1>28, <1>29, <1>30, <1>31, <1>32, <1>33, Zenon
     DEF Next, World, IndexStep, WatchStep

\* An empty data directory is a sound starting point.
LEMMA InitWhole == Init => Whole
<1>. SUFFICES ASSUME Init PROVE Whole
  OBVIOUS
<1>1. cli \in CliState
  BY DEF Init, Idle, CliState, CliPcs, MaybeCommit
<1>2. watch \in WatchState
  BY DEF Init, Off, WatchState, WatchPcs
<1>3. TypeOK
  BY <1>1, <1>2, LifecycleAssumption, Zenon DEF Init, TypeOK, MaybeDb, MaybeCommit
<1>4. Discipline /\ Staging
  BY LifecycleAssumption DEF Init, Idle, Off, Discipline, Staging
<1>. QED  BY <1>3, <1>4 DEF Whole

\* Whatever the world does, the lock is kept, every file on disk is a
\* database, cut short or absent, and the staging file is what the pass at
\* work on it believes it to be.
THEOREM WholeAlways == Spec => []Whole
  BY InitWhole, NextWhole, PTL DEF Spec

\* CompleteUnlessCutOff, for every Env: graph.db is only replaced by renaming
\* a complete staging file or by restoring a snapshot.
THEOREM OnlyCutOffByPullOrRestore == Spec => CompleteUnlessCutOff
<1>. DEFINE Bad == /\ active' = Torn /\ active # Torn
                   /\ ~(pulling \/ (cli.pc = "restore" /\ cache[cli.cur] = Torn))
<1>1. ASSUME Whole, [Next]_vars PROVE ~Bad
  <2>. SUFFICES ASSUME active' # active, ~pulling PROVE ~Bad
    OBVIOUS
  <2>. USE <1>1
  <2>1. Restore \/ Promote \/ TickPromote \/ PullRename
    BY Zenon DEF Next, vars, World, IndexStep, WatchStep, Checkout, Edit, Upgrade,
       db, IndexStart, IndexTimesOut, IndexAcquire, IndexCrash, NothingToIndex,
       Discover, BeginStaging, Stage, IndexFails, WriteStamp, WriteSha,
       SaveSnapshot, ClearMarker, IndexReturns, WatchStart, WatchStop, Receive,
       Batch, TickAcquire, TickTimesOut, TickFails, TickDefer, TickReindex,
       TickStage, TickFinish, PullWrite
  <2>2. CASE Restore
    BY <2>2 DEF Restore
  <2>3. CASE Promote \/ TickPromote
    BY <2>3 DEF Promote, TickPromote, Whole, Staging
  <2>4. CASE PullRename
    BY <2>4 DEF PullRename
  <2>. QED  BY <2>1, <2>2, <2>3, <2>4
<1>. QED
  BY <1>1, WholeAlways, PTL DEF Spec, CompleteUnlessCutOff

-----------------------------------------------------------------------------
\* A promise about an extractor is a promise about the older ones.
LEMMA RowsMono ==
  ASSUME NEW d, NEW e \in Nat, NEW g \in Nat, g <= e, RowsFrom(d, e)
  PROVE  RowsFrom(d, g)
  BY LifecycleAssumption DEF RowsFrom, Db, Row

\* A full pass writes rows of its own extractor only.
LEMMA ParsedRows ==
  ASSUME NEW t, NEW e \in Nat PROVE RowsFrom(Parsed(t, e), e)
  BY DEF RowsFrom, Parsed, ParsedRow

\* What is no database has no rows.
LEMMA NoRows ==
  ASSUME NEW e PROVE RowsFrom(NoDb, e) /\ RowsFrom(Torn, e)
  BY LifecycleAssumption DEF RowsFrom, Db

\* The staged file has rows of the pass's extractor and of graph.db.
LEMMA StagedRows ==
  ASSUME NEW changed \in SUBSET Files, NEW e \in Nat, NEW g \in Nat, g <= e,
         \/ changed = Files \/ rebuild # Torn
         \/ active \in Db /\ RowsFrom(active, g)
  PROVE  RowsFrom(Staged(changed, e), g)
<1>1. CASE rebuild # Torn
  BY <1>1, NoRows DEF Staged
<1>2. CASE rebuild = Torn
  BY <1>2 DEF Staged, RowsFrom, ParsedRow
<1>. QED  BY <1>1, <1>2

\* Hearing of changes leaves the watcher's switch and extractor alone.
LEMMA NotifyKeeps ==
  ASSUME watch \in WatchState, NEW t, Notify(t)
  PROVE  /\ watch'.on = watch.on /\ watch'.pc = watch.pc
         /\ watch'.batch = watch.batch /\ watch'.pending = watch.pending
         /\ watch'.extractor = watch.extractor
  BY DEF Notify, WatchState

\* The promises the stamp makes are kept by every step, as long as no watcher
\* outlives an upgrade.
LEMMA NextRows ==
  ASSUME "outlive" \notin Env, Whole, RowsInv, [Next]_vars
  PROVE  RowsInv'
<1>. USE LifecycleAssumption DEF Whole, TypeOK, Discipline, RowsInv, tree, db,
         signals, CliState, WatchState, MaybeDb
<1>1. CASE \E c \in Commits : Checkout(c)
  BY <1>1, NotifyKeeps DEF Checkout
<1>2. CASE \E f \in Files, v \in Content : Edit(f, v)
  BY <1>2, NotifyKeeps DEF Edit
<1>3. CASE \E e \in Extractors : Upgrade(e)
  BY <1>3 DEF Upgrade
<1>4. CASE \E incremental \in BOOLEAN : IndexStart(incremental)
  BY <1>4 DEF IndexStart, Idle
<1>5. CASE IndexTimesOut
  BY <1>5 DEF IndexTimesOut, Idle
<1>6. CASE IndexCrash
  <2>1. stamp' \in Nat /\ stamp' <= stamp
    BY <1>6 DEF IndexCrash
  <2>2. RowsFrom(active, stamp') /\ RowsFrom(rebuild, stamp')
    BY <2>1, RowsMono
  <2>3. \A c \in Commits : RowsFrom(cache'[c], stamp')
    BY <1>6, <2>1, RowsMono, NoRows DEF IndexCrash
  <2>. QED  BY <1>6, <2>1, <2>2, <2>3 DEF IndexCrash, Idle
<1>7. CASE IndexAcquire
  BY <1>7, NoRows, RowsMono DEF IndexAcquire
<1>8. CASE Restore
  BY <1>8, NoRows DEF Restore
<1>9. CASE NothingToIndex
  BY <1>9 DEF NothingToIndex
<1>10. CASE Discover
  BY <1>10, NoRows, RowsMono DEF Discover, BeginStaging, MayBeIncremental
<1>11. CASE Stage
  <2>1. RowsFrom(rebuild', stamp) /\ RowsFrom(rebuild', cli.extractor)
    BY <1>11, StagedRows DEF Stage, Staging
  <2>. QED  BY <1>11, <2>1 DEF Stage
<1>12. CASE Promote
  BY <1>12, NoRows DEF Promote
<1>13. CASE IndexFails
  BY <1>13 DEF IndexFails, Idle
<1>14. CASE WriteStamp
  BY <1>14, RowsMono DEF WriteStamp
<1>15. CASE WriteSha
  BY <1>15 DEF WriteSha
<1>16. CASE SaveSnapshot
  BY <1>16 DEF SaveSnapshot
<1>17. CASE ClearMarker
  BY <1>17 DEF ClearMarker
<1>18. CASE IndexReturns
  BY <1>18 DEF IndexReturns, Idle
<1>19. CASE WatchStart
  BY <1>19 DEF WatchStart, Off
<1>20. CASE WatchStop
  BY <1>20 DEF WatchStop, Off
<1>21. CASE Receive
  BY <1>21 DEF Receive
<1>22. CASE Batch
  BY <1>22 DEF Batch
<1>23. CASE TickAcquire
  BY <1>23 DEF TickAcquire
<1>24. CASE TickTimesOut
  BY <1>24 DEF TickTimesOut
<1>25. CASE TickFails
  BY <1>25 DEF TickFails
<1>26. CASE TickDefer
  BY <1>26 DEF TickDefer
<1>27. CASE TickReindex
  BY <1>27, NoRows DEF TickReindex, BeginStaging
<1>28. CASE TickStage
  <2>1. RowsFrom(rebuild', stamp)
    BY <1>28, StagedRows DEF TickStage, Staging
  <2>. QED  BY <1>28, <2>1 DEF TickStage
<1>29. CASE TickPromote
  BY <1>29, NoRows DEF TickPromote
<1>30. CASE TickFinish
  BY <1>30 DEF TickFinish
<1>31. CASE \E c \in Commits : PullWrite(c)
  BY <1>31, ParsedRows, RowsMono DEF PullWrite
<1>32. CASE PullRename
  BY <1>32, NoRows DEF PullRename
<1>33. CASE UNCHANGED vars
  BY <1>33 DEF vars
<1>. QED
  BY [Next]_vars, <1>1, <1>2, <1>3, <1>4, <1>5, <1>6, <1>7, <1>8, <1>9, <1>10, <1>11,
     <1>12, <1>13, <1>14, <1>15, <1>16, <1>17, <1>18, <1>19, <1>20, <1>21, <1>22,
     <1>23, <1>24, <1>25, <1>26, <1>27, <1>28, <1>29, <1>30, <1>31, <1>32, <1>33, Zenon
     DEF Next, World, IndexStep, WatchStep

\* NoOutdatedRows, whatever crashes, fails, races or is pulled: the stamp
\* never vouches for rows of an older extractor, in graph.db or in a
\* snapshot, unless a watcher outlives the binary it was started from.
THEOREM StampVouches ==
  ASSUME "outlive" \notin Env PROVE Spec => []NoOutdatedRows
<1>1. Init => RowsInv
  BY LifecycleAssumption, NoRows DEF Init, RowsInv, Idle, Off
<1>2. Whole /\ RowsInv /\ [Next]_vars => RowsInv'
  BY NextRows
<1>3. Whole /\ RowsInv => NoOutdatedRows
  BY DEF Whole, TypeOK, MaybeDb, RowsInv, RowsFrom, NoOutdatedRows
<1>. QED
  BY <1>1, <1>2, <1>3, WholeAlways, PTL DEF Spec

-----------------------------------------------------------------------------
\* A world that moves the tree only while nothing runs, whose commands are
\* neither killed nor fail, and where nobody pulls.
TidyEnv == Env \subseteq {"watch", "upgrade", "timeout"}

\* A full pass writes a database.
LEMMA ParsedIsDb ==
  ASSUME NEW t \in [Files -> Content], NEW e \in Extractors
  PROVE  Parsed(t, e) \in Db /\ Parsed(t, e) \notin {NoDb, Torn}
  BY LifecycleAssumption DEF Parsed, ParsedRow, Db, Row, Content

\* In a tidy world the database a tick writes is there until it is promoted.
LEMMA TidyTickSucceeds ==
  ASSUME TidyEnv, Whole, TidyInv PROVE ~TickFails
<1>1. active # Torn /\ "fail" \notin Env
  BY DEF TidyEnv, TidyInv
<1>2. watch.pc = "stage" => rebuild # NoDb
  BY LifecycleAssumption DEF TidyInv, TidyWatch
<1>3. watch.pc = "promote" => rebuild # NoDb
  <2>. SUFFICES ASSUME watch.pc = "promote" PROVE rebuild # NoDb
    OBVIOUS
  <2>1. rebuild = Parsed(work, stamp) /\ watch.on
    BY DEF TidyInv, TidyWatch, Whole, Discipline
  <2>2. work \in [Files -> Content] /\ stamp \in Extractors
    BY <2>1 DEF TidyInv, TidyWatch, Whole, TypeOK
  <2>. QED  BY <2>1, <2>2, ParsedIsDb
<1>. QED  BY <1>1, <1>2, <1>3 DEF TickFails

\* A database with the rows of a full pass is what a full pass writes.
LEMMA ParsedExt ==
  ASSUME NEW d \in Db, NEW t, NEW e,
         \A f \in Files : d[f] = ParsedRow(t[f], e)
  PROVE  d = Parsed(t, e)
  BY DEF Parsed, Db

\* In a tidy world every step keeps graph.db and the snapshots what a full
\* pass would write, or keeps track of where they differ.
LEMMA NextTidy ==
  ASSUME TidyEnv, Whole, TidyInv, [Next]_vars
  PROVE  TidyInv'
<1>. USE LifecycleAssumption DEF TidyEnv, Whole, TypeOK, Discipline, TidyInv,
         TidyCli, TidyWatch, Image, Settled, tree, db, signals, CliState,
         WatchState, MaybeDb, MaybeCommit
<1>1. CASE \E c \in Commits : Checkout(c)
  <2>. PICK c \in Commits : Checkout(c)
    BY <1>1
  <2>1. cli.pc = "idle" /\ watch.pc = "idle"
    BY DEF Checkout, Quiet
  <2>2. work' = TreeOf[c]
    BY DEF Checkout
  <2>3. ASSUME watch.on
        PROVE  watch'.channel = watch.channel \cup {f \in Files : work'[f] # work[f]}
    BY <2>3 DEF Checkout, Notify
  <2>4. TidyWatch'
    <3>1. /\ watch'.on = watch.on /\ watch'.pc = "idle"
          /\ watch'.batch = watch.batch /\ watch'.pending = watch.pending
          /\ watch'.extractor = watch.extractor
      BY <2>1, NotifyKeeps DEF Checkout
    <3>2. active' = active /\ stamp' = stamp /\ binary' = binary
      BY DEF Checkout
    <3>. QED  BY <2>3, <3>1, <3>2
  <2>. QED  BY <2>1, <2>2, <2>4, NotifyKeeps DEF Checkout
<1>2. CASE \E f \in Files, v \in Content : Edit(f, v)
  BY <1>2 DEF Edit
<1>3. CASE \E e \in Extractors : Upgrade(e)
  BY <1>3 DEF Upgrade, Quiet
<1>4. CASE \E incremental \in BOOLEAN : IndexStart(incremental)
  BY <1>4 DEF IndexStart, Idle
<1>5. CASE IndexTimesOut
  BY <1>5 DEF IndexTimesOut, Idle
<1>6. CASE IndexCrash
  BY <1>6 DEF IndexCrash
<1>7. CASE IndexAcquire
  BY <1>7 DEF IndexAcquire
<1>8. CASE Restore
  <2>1. active' = Parsed(work, stamp)
    BY <1>8 DEF Restore
  <2>. QED  BY <1>8, <2>1, ParsedIsDb DEF Restore, Parsed
<1>9. CASE NothingToIndex
  BY <1>9 DEF NothingToIndex
<1>10. CASE Discover
  <2>1. active' = active /\ cli'.changed \in SUBSET Files
    BY <1>10 DEF Discover, BeginStaging, ChangedSince
  <2>2. ASSUME cli'.changed # Files
        PROVE  /\ active \in Db /\ stamp = cli.extractor
               /\ \A f \in Files \ cli'.changed :
                    active[f] = ParsedRow(work[f], cli.extractor)
    <3>1. /\ MayBeIncremental /\ active = Image(cli.last)
          /\ cli'.changed = ChangedSince(cli.last)
      BY <1>10, <2>2 DEF Discover, MayBeIncremental
    <3>2. cli.last \in Commits
      BY <3>1 DEF MayBeIncremental
    <3>3. active \in Db
      BY <3>1, <3>2, ParsedIsDb DEF MayBeIncremental
    <3>. QED  BY <3>1, <3>2, <3>3 DEF Parsed, ChangedSince, MayBeIncremental
  <2>3. CASE cli'.changed = {}
    <3>1. active = Parsed(work, cli.extractor)
      BY <2>2, <2>3, ParsedExt
    <3>. QED  BY <1>10, <2>1, <2>3, <3>1 DEF Discover
  <2>4. CASE cli'.changed # {}
    BY <1>10, <2>1, <2>2, <2>4 DEF Discover, BeginStaging
  <2>. QED  BY <2>3, <2>4
<1>11. CASE Stage
  <2>1. rebuild' = Parsed(work, cli.extractor)
    BY <1>11 DEF Stage, Staged, Parsed
  <2>. QED  BY <1>11, <2>1 DEF Stage
<1>12. CASE Promote
  BY <1>12, ParsedIsDb DEF Promote, Parsed
<1>13. CASE IndexFails
  BY <1>13 DEF IndexFails, Idle
<1>14. CASE WriteStamp
  BY <1>14 DEF WriteStamp
<1>15. CASE WriteSha
  BY <1>15 DEF WriteSha
<1>16. CASE SaveSnapshot
  BY <1>16 DEF SaveSnapshot
<1>17. CASE ClearMarker
  BY <1>17 DEF ClearMarker
<1>18. CASE IndexReturns
  BY <1>18 DEF IndexReturns, Idle
<1>19. CASE WatchStart
  BY <1>19, ParsedIsDb, SMTT(60) DEF WatchStart, Off, Parsed
<1>20. CASE WatchStop
  BY <1>20, ZenonT(60) DEF WatchStop, Off
<1>21. CASE Receive
  BY <1>21 DEF Receive
<1>22. CASE Batch
  BY <1>22 DEF Batch
<1>23. CASE TickAcquire
  BY <1>23 DEF TickAcquire
<1>24. CASE TickTimesOut
  BY <1>24 DEF TickTimesOut
<1>25. CASE TickFails
  BY <1>25 DEF TickFails
<1>26. CASE TickDefer
  BY <1>26 DEF TickDefer
<1>27. CASE TickReindex
  BY <1>27 DEF TickReindex, BeginStaging
<1>28. CASE TickStage
  <2>1. rebuild' = Parsed(work, stamp)
    BY <1>28 DEF TickStage, Staged, Parsed
  <2>. QED  BY <1>28, <2>1 DEF TickStage
<1>29. CASE TickPromote
  BY <1>29, ParsedIsDb DEF TickPromote, Parsed
<1>30. CASE TickFinish
  BY <1>30 DEF TickFinish, Parsed
<1>31. CASE \E c \in Commits : PullWrite(c)
  BY <1>31 DEF PullWrite
<1>32. CASE PullRename
  BY <1>32 DEF PullRename
<1>33. CASE UNCHANGED vars
  BY <1>33 DEF vars
<1>. QED
  BY [Next]_vars, <1>1, <1>2, <1>3, <1>4, <1>5, <1>6, <1>7, <1>8, <1>9, <1>10, <1>11,
     <1>12, <1>13, <1>14, <1>15, <1>16, <1>17, <1>18, <1>19, <1>20, <1>21, <1>22,
     <1>23, <1>24, <1>25, <1>26, <1>27, <1>28, <1>29, <1>30, <1>31, <1>32, <1>33, Zenon
     DEF Next, World, IndexStep, WatchStep

\* Some file of every commit is indexable: on an empty tree cmd_index returns
\* early and leaves the rows of the deleted files in place.
SomethingToIndex == \A c \in Commits : \E f \in Files : TreeOf[c][f] # Gone

\* FreshAfterIndex in a tidy world, for any files, commits and extractors:
\* every way to success leaves what a full pass over the tree writes.
THEOREM SuccessIsFresh ==
  ASSUME TidyEnv PROVE Spec => []FreshAfterIndex
<1>1. Init => TidyInv
  BY LifecycleAssumption
     DEF Init, TidyInv, TidyCli, TidyWatch, Idle, Off
<1>2. Whole /\ TidyInv /\ [Next]_vars => TidyInv'
  BY NextTidy
<1>3. TidyInv => FreshAfterIndex
  BY DEF TidyInv, TidyCli, FreshAfterIndex
<1>. QED
  BY <1>1, <1>2, <1>3, WholeAlways, PTL DEF Spec

\* Every step of a tidy world keeps outdated pending files announced.
LEMMA NextSignals ==
  ASSUME TidyEnv, SomethingToIndex, Whole, TidyInv, Signals, [Next]_vars
  PROVE  Signals'
<1>. USE LifecycleAssumption DEF TidyEnv, Whole, TypeOK, Discipline, TidyInv,
         TidyCli, TidyWatch, Signals, Current, tree, db, signals, CliState,
         WatchState, MaybeDb
<1>1. CASE \E c \in Commits : Checkout(c)
  BY <1>1, NotifyKeeps DEF Checkout, Quiet, Notify
<1>2. CASE \E f \in Files, v \in Content : Edit(f, v)
  BY <1>2 DEF Edit
<1>3. CASE \E e \in Extractors : Upgrade(e)
  BY <1>3 DEF Upgrade
<1>4. CASE \E incremental \in BOOLEAN : IndexStart(incremental)
  BY <1>4 DEF IndexStart, Idle
<1>5. CASE IndexTimesOut
  BY <1>5 DEF IndexTimesOut, Idle
<1>6. CASE IndexCrash
  BY <1>6 DEF IndexCrash
<1>7. CASE IndexAcquire
  BY <1>7 DEF IndexAcquire
<1>8. CASE Restore
  BY <1>8 DEF Restore
<1>9. CASE NothingToIndex
  BY <1>9 DEF NothingToIndex, SomethingToIndex
<1>10. CASE Discover
  BY <1>10 DEF Discover, BeginStaging
<1>11. CASE Stage
  BY <1>11 DEF Stage
<1>12. CASE Promote
  BY <1>12 DEF Promote
<1>13. CASE IndexFails
  BY <1>13, ParsedIsDb DEF IndexFails, Idle
<1>14. CASE WriteStamp
  BY <1>14 DEF WriteStamp
<1>15. CASE WriteSha
  BY <1>15 DEF WriteSha
<1>16. CASE SaveSnapshot
  BY <1>16 DEF SaveSnapshot
<1>17. CASE ClearMarker
  BY <1>17 DEF ClearMarker
<1>18. CASE IndexReturns
  <2>1. active = Parsed(work, stamp) /\ stamp \in Extractors
    BY <1>18 DEF IndexReturns
  <2>2. ASSUME NEW f \in Files PROVE Current(f)
    <3>1. CASE work[f] = Gone
      BY <2>1, <3>1 DEF Parsed, ParsedRow
    <3>2. CASE work[f] # Gone
      <4>1. active[f] = [version |-> work[f], extractor |-> stamp]
        BY <2>1, <3>2 DEF Parsed, ParsedRow
      <4>2. active[f] # Gone
        BY <2>1, <3>2, <4>1 DEF Content
      <4>. QED  BY <4>1, <4>2
    <3>. QED  BY <3>1, <3>2
  <2>. QED  BY <1>18, <2>2 DEF IndexReturns, Idle
<1>19. CASE WatchStart
  BY <1>19 DEF WatchStart, Off
<1>20. CASE WatchStop
  BY <1>20 DEF WatchStop, Off
<1>21. CASE Receive
  BY <1>21 DEF Receive
<1>22. CASE Batch
  BY <1>22 DEF Batch
<1>23. CASE TickAcquire
  BY <1>23 DEF TickAcquire
<1>24. CASE TickTimesOut
  BY <1>24 DEF TickTimesOut
<1>25. CASE TickFails
  BY <1>25, TidyTickSucceeds, Zenon
<1>26. CASE TickDefer
  BY <1>26 DEF TickDefer
<1>27. CASE TickReindex
  BY <1>27 DEF TickReindex, BeginStaging
<1>28. CASE TickStage
  BY <1>28 DEF TickStage
<1>29. CASE TickPromote
  BY <1>29 DEF TickPromote
<1>30. CASE TickFinish
  BY <1>30 DEF TickFinish
<1>31. CASE \E c \in Commits : PullWrite(c)
  BY <1>31 DEF PullWrite
<1>32. CASE PullRename
  BY <1>32 DEF PullRename
<1>33. CASE UNCHANGED vars
  BY <1>33 DEF vars
<1>. QED
  BY [Next]_vars, <1>1, <1>2, <1>3, <1>4, <1>5, <1>6, <1>7, <1>8, <1>9, <1>10, <1>11,
     <1>12, <1>13, <1>14, <1>15, <1>16, <1>17, <1>18, <1>19, <1>20, <1>21, <1>22,
     <1>23, <1>24, <1>25, <1>26, <1>27, <1>28, <1>29, <1>30, <1>31, <1>32, <1>33, Zenon
     DEF Next, World, IndexStep, WatchStep


\* StalenessSignalled in a tidy world: a pending file with outdated rows is
\* named by the marker, or is in a debounce window again.
THEOREM OutdatedIsAnnounced ==
  ASSUME TidyEnv, SomethingToIndex PROVE Spec => []StalenessSignalled
<1>1. Init => TidyInv /\ Signals
  BY LifecycleAssumption
     DEF Init, TidyInv, TidyCli, TidyWatch, Signals, Idle, Off
<1>2. Whole /\ TidyInv /\ Signals /\ [Next]_vars => TidyInv' /\ Signals'
  BY NextTidy, NextSignals
<1>3. Signals => StalenessSignalled
  BY DEF Signals, StalenessSignalled
<1>. QED
  BY <1>1, <1>2, <1>3, WholeAlways, PTL DEF Spec
=============================================================================
