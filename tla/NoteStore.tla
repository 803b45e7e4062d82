------------------------------- MODULE NoteStore -------------------------------
(***************************************************************************)
(* Notes pinned to symbols (crates/weave-graph-cli/src/notes.rs and        *)
(* crates/weave-graph-core/src/notes.rs; pin, recall, reattach and expiry  *)
(* in crates/weave-graph-store-sqlite/src/backend.rs:1211 on).             *)
(*                                                                         *)
(* Notes live in the database that every index pass replaces by another    *)
(* one: a full pass copies them from the old database when its rows are    *)
(* written, an incremental one starts from a copy of the whole, and a      *)
(* cached commit brings back the notes of its time.  The database files    *)
(* are numbered; graph.db names one of them, and a process that opened an  *)
(* older one keeps it.                                                     *)
(*                                                                         *)
(* Every edit is a commit here; IndexLifecycle has uncommitted ones, and   *)
(* Reindex the inside of a pass.                                           *)
(***************************************************************************)
EXTENDS Naturals, Sequences, FiniteSets

CONSTANTS Symbols,     \* monikers
          Trees,       \* possible working trees: symbol -> body, 0 when it is not defined
          Ttl,         \* EPHEMERAL_TTL_SECS
          Budgets      \* bounds: [moves (commits and index runs), pins, ticks]

ASSUME NoteAssumption == Ttl \in Nat

VARIABLES tree,
          disk,        \* the database files, oldest first: [nodes, notes], and
                       \* what its pass judged the notes by, and which
          path,        \* the one graph.db names
          mtime,       \* the modification time of each
          cache,       \* saved snapshots, by commit
          last,        \* last_indexed_sha
          pass,        \* the running `weave index`, which holds the lock
          clock,
          pins,        \* every pin: [symbol, body, tier, at, by, acked, excused]
          left         \* what is left of the budget
noteVars == <<tree, disk, path, mtime, cache, last, pass, clock, pins, left>>

NoPass == [pc |-> "idle"]
NoHash == 0
OtherLines == 99   \* the hash of lines that are not the symbol's
Tiers == {"ephemeral", "crystallized"}

\* A first index has been made and, the tree being clean, saved.
NoteInit ==
    /\ tree \in Trees
    /\ disk = << [nodes |-> tree, notes |-> {}, judged |-> tree, seen |-> {}] >>
    /\ path = 1 /\ mtime = <<1>>
    /\ cache = [t \in {tree} |-> disk[1]]
    /\ last = tree
    /\ pass = NoPass /\ clock = 0 /\ pins = <<>> /\ left \in Budgets

Spend(k) == left[k] > 0 /\ left' = [left EXCEPT ![k] = @ - 1]
Latest == CHOOSE t \in {mtime[i] : i \in DOMAIN mtime} : \A i \in DOMAIN mtime : mtime[i] <= t

\* recall_notes and delete_expired_notes at a time.
Alive(notes, now) == {x \in notes : x.tier = "crystallized" \/ x.expires > now}
Expired(notes, now) == {x \in notes : x.tier = "ephemeral" /\ x.expires <= now}

-----------------------------------------------------------------------------
(* Pinning.                                                                *)

\* The hash of the indexed lines of a symbol in the file as it is now: when the
\* symbol changed since, the lines may or may not be its own.
SpanHashes(nodes, s) ==
    IF tree[s] = 0 THEN {NoHash, OtherLines}
    ELSE IF tree[s] = nodes[s] THEN {tree[s]} ELSE {tree[s], OtherLines}

\* The row cmd_note_pin and weave_pin_note insert for a symbol of database i.
InsertNote(i, s, tier, hash) ==
    disk' = [disk EXCEPT ![i].notes = @ \cup
        {[pin |-> Len(pins) + 1, symbol |-> s, attached |-> TRUE, tier |-> tier, hash |-> hash,
          stale |-> FALSE, expires |-> clock + Ttl]}]
Pinned(s, tier, by, excused) ==
    pins' = Append(pins, [symbol |-> s, body |-> tree[s], tier |-> tier, at |-> clock,
                          by |-> by, acked |-> by = "cli", excused |-> excused])

\* Mutant form: a note is pinned without the lock.
CliPinUnlocked(s, tier) ==
    /\ Spend("pins")
    /\ disk[path].nodes[s] # 0
    /\ \E h \in SpanHashes(disk[path].nodes, s) : InsertNote(path, s, tier, h)
    /\ Pinned(s, tier, "cli", FALSE)
    /\ mtime' = [mtime EXCEPT ![path] = Latest + 1]
    /\ UNCHANGED <<tree, path, cache, last, pass, clock>>

\* cmd_note_pin: under the lock, into graph.db.  Closing the last connection
\* moves the file's time.
CliPin(s, tier) ==
    /\ pass = NoPass /\ Spend("pins")
    /\ disk[path].nodes[s] # 0
    /\ \E h \in SpanHashes(disk[path].nodes, s) : InsertNote(path, s, tier, h)
    /\ Pinned(s, tier, "cli", FALSE)
    /\ mtime' = [mtime EXCEPT ![path] = Latest + 1]
    /\ UNCHANGED <<tree, path, cache, last, pass, clock>>

-----------------------------------------------------------------------------
(* Indexing.                                                               *)

\* The target and the staleness of a note after the symbols `parsed` were indexed,
\* with the files as they are now.
Reattached(x, parsed) ==
    [x EXCEPT !.attached = parsed[x.symbol] # 0,
              !.stale = IF x.tier = "crystallized" /\ x.hash # NoHash /\ parsed[x.symbol] # 0 /\ tree[x.symbol] # 0
                        THEN tree[x.symbol] # x.hash ELSE @]

\* A pass begins.  The backup of an incremental one is taken now.
IndexStart(kind) ==
    /\ pass = NoPass /\ Spend("moves")
    /\ last # tree /\ tree \notin DOMAIN cache
    /\ pass' = [pc |-> "notes", kind |-> kind, parsed |-> tree, notes |-> disk[path].notes]
    /\ UNCHANGED <<tree, disk, path, mtime, cache, last, clock, pins>>

\* carry_over_and_prune reads the old database now, reattach_and_prune works on
\* the backup; then the expired notes go.
IndexNotes ==
    LET notes == IF pass.kind = "full" THEN disk[path].notes ELSE pass.notes
        moved == {Reattached(x, pass.parsed) : x \in notes}
    IN /\ pass.pc = "notes"
       /\ pass' = [pc |-> "promote", parsed |-> pass.parsed, judged |-> tree,
                   notes |-> moved \ Expired(moved, clock), read |-> {x.pin : x \in notes}]
       /\ UNCHANGED <<tree, disk, path, mtime, cache, last, clock, pins, left>>

\* A new database takes the name graph.db.  An agent's note that came too late for
\* it is lost, which nobody promised otherwise.
Install(db, read) ==
    /\ disk' = Append(disk, db)
    /\ path' = Len(disk) + 1
    /\ mtime' = Append(mtime, Latest + 1)
    /\ pins' = [n \in DOMAIN pins |-> IF n \in read THEN pins[n] ELSE [pins[n] EXCEPT !.excused = TRUE]]

IndexPromote ==
    /\ pass.pc = "promote"
    /\ Install([nodes |-> pass.parsed, notes |-> pass.notes, judged |-> pass.judged, seen |-> pass.read],
               pass.read \cup {n \in DOMAIN pins : pins[n].by = "cli"})
    /\ pass' = [pc |-> "finish", parsed |-> pass.parsed]
    /\ UNCHANGED <<tree, cache, last, clock, left>>

\* The commit is recorded and graph.db saved under it.
IndexFinish ==
    /\ pass.pc = "finish"
    /\ last' = pass.parsed
    /\ cache' = [t \in DOMAIN cache \cup {pass.parsed} |-> IF t = pass.parsed THEN disk[path] ELSE cache[t]]
    /\ pass' = NoPass
    /\ UNCHANGED <<tree, disk, path, mtime, clock, pins, left>>

\* try_fast_path: a cached commit is restored with the notes it was saved with.
Restore ==
    /\ pass = NoPass /\ Spend("moves")
    /\ last # tree /\ tree \in DOMAIN cache
    /\ Install(cache[tree], {x.pin : x \in cache[tree].notes})
    /\ last' = tree
    /\ UNCHANGED <<tree, cache, pass, clock>>

IndexDies ==
    /\ pass # NoPass
    /\ pass' = NoPass
    /\ UNCHANGED <<tree, disk, path, mtime, cache, last, clock, pins, left>>

Commit ==
    /\ Spend("moves")
    /\ tree' \in Trees \ {tree}
    /\ UNCHANGED <<disk, path, mtime, cache, last, pass, clock, pins>>

Tick == Spend("ticks") /\ clock' = clock + 1 /\ UNCHANGED <<tree, disk, path, mtime, cache, last, pass, pins>>

NoteNext ==
    \/ \E s \in Symbols, tier \in Tiers : CliPin(s, tier)
    \/ \E kind \in {"full", "incremental"} : IndexStart(kind)
    \/ IndexNotes \/ IndexPromote \/ IndexFinish \/ Restore \/ IndexDies
    \/ Commit \/ Tick

-----------------------------------------------------------------------------
(* Properties.                                                             *)

\* What `weave note list` shows now.
Listed == Alive(disk[path].notes, clock)
Due(n) == pins[n].tier = "crystallized" \/ clock < pins[n].at + Ttl

\* `weave note list` shows every note it should and no other: one that was pinned
\* under the lock, or by an agent before the pass at hand read the notes, is shown
\* until its day is over, across full and incremental passes and their deaths,
\* unless a cached commit brought back older notes; and an expired one never is,
\* deleted or not (notes.rs:139, backend.rs:1247-1289).
ListedUntilExpired ==
    /\ \A n \in DOMAIN pins : pins[n].acked /\ ~pins[n].excused /\ Due(n) => \E x \in Listed : x.pin = n
    /\ \A x \in Listed : Due(x.pin) /\ \A y \in Listed : x.pin = y.pin => x = y
=============================================================================
