------------------------------ MODULE Migrations ------------------------------
(***************************************************************************)
(* Opening a database and bringing its schema up to date (open, open_      *)
(* rebuild and open_read_only in crates/weave-graph-store-sqlite/src/      *)
(* backend.rs, migrate in its schema.rs and in that of store-turso,        *)
(* MIGRATIONS in crates/weave-graph-core/src/schema.rs).                   *)
(*                                                                         *)
(* Several processes, of binaries that know different numbers of           *)
(* migrations, open one file at the same time: a server, a note pin, an    *)
(* index.  The version is read once and outside any transaction; SQLite    *)
(* lets one transaction write at a time, and a dead one leaves nothing;    *)
(* nobody waits for another longer than the busy timeout.                  *)
(***************************************************************************)
EXTENDS Naturals, FiniteSets

CONSTANTS Openers,     \* process -> the last migration its binary knows
          Readers,     \* those that open read-only
          Repeatable,  \* migrations whose statements succeed a second time
          Found,       \* versions the file may have at first, 0 for none yet
          NoProcess,   \* in place of a process: nobody
          MaxDeaths

ASSUME MigrationsAssumption ==
    /\ NoProcess \notin DOMAIN Openers /\ \A p \in DOMAIN Openers : Openers[p] \in Nat
    /\ Found \subseteq Nat

VARIABLES applied,    \* migrations whose statements took effect
          versions,   \* rows of schema_version
          staged,     \* what the open transaction has done: [by, applied, versions]
          opener,     \* process -> [pc, next]
          deaths
migrationVars == <<applied, versions, staged, opener, deaths>>

NoTx == [by |-> NoProcess, applied |-> {}, versions |-> {}]
Recorded == IF versions = {} THEN 0 ELSE CHOOSE v \in versions : \A w \in versions : w <= v

\* An older binary's database, or none yet.
MigrationsInit ==
    /\ \E v \in Found : applied = 1..v /\ versions = 1..v
    /\ staged = NoTx /\ deaths = 0
    /\ opener = [p \in DOMAIN Openers |-> [pc |-> "closed", next |-> 0]]

Move(p, pc, next) == opener' = [opener EXCEPT ![p] = [pc |-> pc, next |-> next]]

\* open, open_rebuild: migrate reads the version, and refuses one that is too new.
Open(p) ==
    /\ opener[p].pc = "closed" /\ p \notin Readers
    /\ IF Recorded > Openers[p] THEN Move(p, "refused", 0) ELSE Move(p, "migrate", Recorded + 1)
    /\ UNCHANGED <<applied, versions, staged, deaths>>

\* open_read_only migrates nothing (ensure_not_newer_than_supported).
OpenReadOnly(p) ==
    /\ opener[p].pc = "closed" /\ p \in Readers
    /\ Move(p, IF Recorded > Openers[p] THEN "refused" ELSE "reading", 0)
    /\ UNCHANGED <<applied, versions, staged, deaths>>

\* migrations_after: the next one in order, in a transaction of its own.
BeginMigration(p) ==
    /\ opener[p].pc = "migrate"
    /\ IF opener[p].next > Openers[p] THEN Move(p, "ready", 0) /\ UNCHANGED staged
       ELSE /\ staged = NoTx
            /\ staged' = [by |-> p, applied |-> applied, versions |-> versions]
            /\ Move(p, "statements", opener[p].next)
    /\ UNCHANGED <<applied, versions, deaths>>

\* Mutant form: what exists already is taken for done.
RunStatementsDone(p) ==
    LET v == opener[p].next IN
    /\ opener[p].pc = "statements"
    /\ IF v \in staged.applied /\ v \notin Repeatable THEN staged' = NoTx /\ Move(p, "ready", 0)
       ELSE staged' = [staged EXCEPT !.applied = @ \cup {v}] /\ Move(p, "record", v)
    /\ UNCHANGED <<applied, versions, deaths>>

\* execute_batch: creating what exists already is an error, and the rollback follows.
RunStatements(p) ==
    LET v == opener[p].next IN
    /\ opener[p].pc = "statements"
    /\ IF v \in staged.applied /\ v \notin Repeatable THEN staged' = NoTx /\ Move(p, "failed", 0)
       ELSE staged' = [staged EXCEPT !.applied = @ \cup {v}] /\ Move(p, "record", v)
    /\ UNCHANGED <<applied, versions, deaths>>

\* The version row, whose number is the primary key.
RecordVersion(p) ==
    LET v == opener[p].next IN
    /\ opener[p].pc = "record"
    /\ IF v \in staged.versions THEN staged' = NoTx /\ Move(p, "failed", 0)
       ELSE staged' = [staged EXCEPT !.versions = @ \cup {v}] /\ Move(p, "commit", v)
    /\ UNCHANGED <<applied, versions, deaths>>

CommitMigration(p) ==
    /\ opener[p].pc = "commit"
    /\ applied' = staged.applied /\ versions' = staged.versions
    /\ staged' = NoTx
    /\ Move(p, "migrate", opener[p].next + 1)
    /\ UNCHANGED deaths

\* The process dies, or is done and opens the file another time.
Die(p) ==
    /\ opener[p].pc # "closed" /\ deaths < MaxDeaths
    /\ deaths' = deaths + 1
    /\ staged' = IF staged.by = p THEN NoTx ELSE staged
    /\ Move(p, "closed", 0)
    /\ UNCHANGED <<applied, versions>>

MigrationsNext ==
    \E p \in DOMAIN Openers :
        Open(p) \/ OpenReadOnly(p) \/ BeginMigration(p) \/ RunStatements(p) \/ RecordVersion(p) \/ CommitMigration(p) \/ Die(p)
MigrationsSpec == MigrationsInit /\ [][MigrationsNext]_migrationVars

-----------------------------------------------------------------------------
(* Properties.                                                             *)

\* The recorded version tells what the database has, whoever raced whom and died
\* where: every migration up to it took effect once and none beyond.  So whoever
\* holds an open connection to write finds every migration its binary knows,
\* although it read the version long before (schema.rs:31-55).
OpenMeansMigrated ==
    /\ applied = 1..Recorded /\ versions = 1..Recorded
    /\ \A p \in DOMAIN Openers : opener[p].pc = "ready" => 1..Openers[p] \subseteq applied
=============================================================================
