------------------------------ MODULE ServeProofs ------------------------------
(***************************************************************************)
(* What holds of opening a database, for any binaries, races and deaths;   *)
(* of the admission budget, for any machine; of the notes and the answers  *)
(* of the server, for any symbols, notes, requests and commits; and of the *)
(* full-text rows, for any working trees, passes and pushes.               *)
(***************************************************************************)
EXTENDS McpServer, DerivedIndex, Migrations, AdmissionBudget, FiniteSetTheorems, WellFoundedInduction, TLAPS

OpenerPcs == {"closed", "refused", "migrate", "statements", "record", "commit",
              "ready", "reading", "failed"}
InTransaction == {"statements", "record", "commit"}

Transaction == [by : DOMAIN Openers \cup {NoProcess}, applied : SUBSET Nat, versions : SUBSET Nat]

\* The transaction of p holds the database and what p has done at each of its
\* steps.
StagedBy(p) ==
    /\ staged.by = p
    /\ staged.applied = IF opener[p].pc = "statements" THEN applied ELSE applied \cup {opener[p].next}
    /\ staged.versions = IF opener[p].pc = "commit" THEN versions \cup {opener[p].next} ELSE versions

\* The database has the first n migrations and says so; whoever migrates is at
\* most one ahead of it, and alone in a transaction.
At(n) ==
    /\ applied = 1..n /\ versions = 1..n
    /\ opener \in [DOMAIN Openers -> [pc : OpenerPcs, next : Nat]]
    /\ staged \in Transaction
    /\ \A p \in DOMAIN Openers :
         /\ opener[p].pc \in InTransaction \cup {"migrate"} => opener[p].next \in 1..(n + 1)
         /\ opener[p].pc \in InTransaction => StagedBy(p)
         /\ opener[p].pc = "commit" => opener[p].next \notin versions
         /\ opener[p].pc = "ready" => Openers[p] <= n
MigrationsInv == \E n \in Nat : At(n)

\* MAX(version) of an unbroken list of versions is its length.
LEMMA RecordedIs == ASSUME NEW n \in Nat, versions = 1..n PROVE Recorded = n
<1>1. CASE n = 0
  BY <1>1 DEF Recorded
<1>2. CASE n # 0
  <2>1. n \in versions /\ \A w \in versions : w <= n
    BY <1>2
  <2>2. versions # {}
    BY <2>1, Zenon
  <2>3. \A v \in versions : (\A w \in versions : w <= v) => v = n
    BY <2>1
  <2>. QED  BY <2>1, <2>2, <2>3, Zenon DEF Recorded
<1>. QED  BY <1>1, <1>2, Zenon

\* One process moves and the others stay where they are.
LEMMA MoveOne ==
  ASSUME opener \in [DOMAIN Openers -> [pc : OpenerPcs, next : Nat]],
         NEW p \in DOMAIN Openers, NEW c \in OpenerPcs, NEW v \in Nat, Move(p, c, v)
  PROVE  /\ opener' \in [DOMAIN Openers -> [pc : OpenerPcs, next : Nat]]
         /\ opener'[p].pc = c /\ opener'[p].next = v
         /\ \A q \in DOMAIN Openers : q # p => opener'[q] = opener[q]
  BY Zenon DEF Move

\* A transaction has one owner.
LEMMA Alone ==
  ASSUME NEW n \in Nat, At(n), NEW p \in DOMAIN Openers, NEW q \in DOMAIN Openers,
         opener[p].pc \in InTransaction, opener[q].pc \in InTransaction
  PROVE  p = q
  BY ZenonT(60) DEF At, StagedBy

\* A step of p that leaves the database alone, and the transaction of anybody
\* else, only has to be right about p.
LEMMA OwnMove ==
  ASSUME NEW n \in Nat, At(n), NEW p \in DOMAIN Openers, NEW c \in OpenerPcs, NEW v \in Nat,
         Move(p, c, v), UNCHANGED <<applied, versions>>, staged' \in Transaction,
         staged' = staged \/ \A q \in DOMAIN Openers \ {p} : opener[q].pc \notin InTransaction,
         c \in InTransaction \cup {"migrate"} => v \in 1..(n + 1),
         c \in InTransaction => StagedBy(p)',
         c = "commit" => v \notin versions,
         c = "ready" => Openers[p] <= n
  PROVE  At(n)'
<1>1. /\ opener' \in [DOMAIN Openers -> [pc : OpenerPcs, next : Nat]]
      /\ opener'[p].pc = c /\ opener'[p].next = v
      /\ \A q \in DOMAIN Openers : q # p => opener'[q] = opener[q]
  BY MoveOne, Zenon DEF At
<1>2. ASSUME NEW q \in DOMAIN Openers, opener'[q].pc \in InTransaction PROVE StagedBy(q)'
  <2>1. CASE q = p
    BY <1>1, <1>2, <2>1, Zenon
  <2>2. CASE q # p
    <3>1. StagedBy(q) /\ staged' = staged /\ opener'[q] = opener[q]
      BY <1>1, <1>2, <2>2, Zenon DEF At
    <3>. QED  BY <3>1, Zenon DEF StagedBy
  <2>. QED  BY <2>1, <2>2, Zenon
<1>. QED  BY <1>1, <1>2, Zenon DEF At

\* Every step of every process, a death included, keeps it.
LEMMA NextMigrations == MigrationsInv /\ [MigrationsNext]_migrationVars => MigrationsInv'
<1>. SUFFICES ASSUME NEW n \in Nat, At(n), [MigrationsNext]_migrationVars PROVE MigrationsInv'
  BY Zenon DEF MigrationsInv
<1>. USE MigrationsAssumption DEF InTransaction, OpenerPcs
<1>0. /\ \A p \in DOMAIN Openers : opener[p].next \in Nat
      /\ NoTx \in Transaction /\ staged \in Transaction
  BY Zenon DEF At, NoTx, Transaction
<1>1. ASSUME NEW p \in DOMAIN Openers, Open(p) \/ OpenReadOnly(p) PROVE At(n)'
  <2>1. Recorded = n
    BY RecordedIs, Zenon DEF At
  <2>2. \/ Move(p, "refused", 0) \/ Move(p, "reading", 0)
        \/ Move(p, "migrate", n + 1)
    BY <1>1, <2>1, Zenon DEF Open, OpenReadOnly
  <2>. QED  BY <1>0, <1>1, <2>2, OwnMove DEF Open, OpenReadOnly
<1>2. ASSUME NEW p \in DOMAIN Openers, BeginMigration(p) PROVE At(n)'
  <2>1. CASE opener[p].next > Openers[p]
    <3>1. Openers[p] <= n
      BY <1>2, <2>1 DEF At, BeginMigration
    <3>. QED  BY <1>0, <1>2, <2>1, <3>1, OwnMove, Zenon DEF BeginMigration
  <2>2. CASE ~(opener[p].next > Openers[p])
    <3>1. staged = NoTx /\ staged' = [by |-> p, applied |-> applied, versions |-> versions]
      BY <1>2, <2>2, Zenon DEF BeginMigration
    <3>2. staged' \in Transaction
      BY <3>1 DEF At, Transaction
    <3>3. \A q \in DOMAIN Openers : opener[q].pc \notin InTransaction
      BY <3>1, Zenon DEF At, StagedBy, NoTx
    <3>4. StagedBy(p)'
      BY <1>2, <2>2, <3>1 DEF At, StagedBy, BeginMigration, Move
    <3>5. opener[p].next \in 1..(n + 1)
      BY <1>2, Zenon DEF At, BeginMigration
    <3>. QED  BY <1>0, <1>2, <2>2, <3>2, <3>3, <3>4, <3>5, OwnMove, Zenon DEF BeginMigration
  <2>. QED  BY <2>1, <2>2, Zenon
<1>3. ASSUME NEW p \in DOMAIN Openers, RunStatements(p) PROVE At(n)'
  <2>1. /\ opener[p].next \in 1..(n + 1)
        /\ \A q \in DOMAIN Openers \ {p} : opener[q].pc \notin InTransaction
    BY <1>3, Alone, Zenon DEF At, RunStatements
  <2>2. CASE Move(p, "failed", 0)
    BY <1>0, <1>3, <2>1, <2>2, OwnMove DEF RunStatements, Transaction
  <2>3. CASE Move(p, "record", opener[p].next)
    <3>1. opener'[p].pc = "record" /\ opener'[p].next = opener[p].next
      BY <1>0, <2>3, MoveOne, Zenon DEF At
    <3>2. ~Move(p, "failed", 0)
      BY <1>0, <3>1, MoveOne, Zenon DEF At
    <3>3. staged' = [staged EXCEPT !.applied = @ \cup {opener[p].next}]
      BY <1>3, <3>2, Zenon DEF RunStatements
    <3>4. StagedBy(p) /\ opener[p].pc = "statements"
      BY <1>3, Zenon DEF At, RunStatements
    <3>5. StagedBy(p)'
      BY <1>0, <1>3, <3>1, <3>3, <3>4, Zenon DEF StagedBy, RunStatements, Transaction
    <3>. QED  BY <1>0, <1>3, <2>1, <2>3, <3>5, OwnMove DEF RunStatements, Transaction
  <2>. QED  BY <1>3, <2>2, <2>3, Zenon DEF RunStatements
<1>4. ASSUME NEW p \in DOMAIN Openers, RecordVersion(p) PROVE At(n)'
  <2>1. /\ opener[p].next \in 1..(n + 1)
        /\ \A q \in DOMAIN Openers \ {p} : opener[q].pc \notin InTransaction
    BY <1>4, Alone, Zenon DEF At, RecordVersion
  <2>2. CASE Move(p, "failed", 0)
    BY <1>0, <1>4, <2>1, <2>2, OwnMove DEF RecordVersion, Transaction
  <2>3. CASE Move(p, "commit", opener[p].next)
    <3>1. opener'[p].pc = "commit" /\ opener'[p].next = opener[p].next
      BY <1>0, <2>3, MoveOne, Zenon DEF At
    <3>2. ~Move(p, "failed", 0)
      BY <1>0, <3>1, MoveOne, Zenon DEF At
    <3>3. /\ staged' = [staged EXCEPT !.versions = @ \cup {opener[p].next}]
          /\ opener[p].next \notin staged.versions
      BY <1>4, <3>2, Zenon DEF RecordVersion
    <3>4. StagedBy(p) /\ opener[p].pc = "record"
      BY <1>4, Zenon DEF At, RecordVersion
    <3>5. StagedBy(p)' /\ opener[p].next \notin versions
      BY <1>0, <1>4, <3>1, <3>3, <3>4, Zenon DEF StagedBy, RecordVersion, Transaction
    <3>. QED  BY <1>0, <1>4, <2>1, <2>3, <3>5, OwnMove DEF RecordVersion, Transaction
  <2>. QED  BY <1>4, <2>2, <2>3, Zenon DEF RecordVersion
<1>5. ASSUME NEW p \in DOMAIN Openers, CommitMigration(p) PROVE At(n + 1)'
  <2>0. opener[p].next \in 1..(n + 1) /\ opener[p].next \notin 1..n
    BY <1>5, Zenon DEF At, CommitMigration
  <2>1. StagedBy(p) /\ opener[p].next = n + 1
    BY <1>5, <2>0 DEF At, CommitMigration
  <2>2. applied' = 1..(n + 1) /\ versions' = 1..(n + 1)
    BY <1>5, <2>1 DEF At, CommitMigration, StagedBy
  <2>3. \A q \in DOMAIN Openers \ {p} : opener[q].pc \notin InTransaction
    BY <1>5, Alone, Zenon DEF CommitMigration
  <2>4. /\ opener' \in [DOMAIN Openers -> [pc : OpenerPcs, next : Nat]]
        /\ opener'[p].pc = "migrate" /\ opener'[p].next = n + 2
        /\ \A q \in DOMAIN Openers : q # p => opener'[q] = opener[q]
    BY <1>5, <2>1, MoveOne DEF At, CommitMigration
  <2>. QED  BY <1>0, <1>5, <2>2, <2>3, <2>4, SMTT(60) DEF At, CommitMigration
<1>6. ASSUME NEW p \in DOMAIN Openers, Die(p) PROVE At(n)'
  <2>1. staged' = staged \/ \A q \in DOMAIN Openers \ {p} : opener[q].pc \notin InTransaction
    BY <1>6, Zenon DEF At, StagedBy, Die
  <2>. QED  BY <1>0, <1>6, <2>1, OwnMove, Zenon DEF Die
<1>7. ASSUME UNCHANGED migrationVars PROVE At(n)'
  BY <1>7, Zenon DEF At, migrationVars, StagedBy
<1>8. At(n)' \/ At(n + 1)'
  BY <1>1, <1>2, <1>3, <1>4, <1>5, <1>6, <1>7, Zenon DEF MigrationsNext
<1>. QED  BY <1>8 DEF MigrationsInv

\* OpenMeansMigrated for any number of processes, of binaries of any age: a
\* connection that is open for writing finds every migration its binary knows.
THEOREM MigratedOnceOpen == MigrationsSpec => []OpenMeansMigrated
<1>1. MigrationsInit => MigrationsInv
  BY MigrationsAssumption
     DEF MigrationsInit, MigrationsInv, At, OpenerPcs, InTransaction,
         Transaction, NoTx
<1>2. MigrationsInv => OpenMeansMigrated
  BY MigrationsAssumption, RecordedIs DEF MigrationsInv, At, OpenMeansMigrated
<1>. QED
  BY <1>1, <1>2, NextMigrations, PTL DEF MigrationsSpec

-----------------------------------------------------------------------------
(* Admission.                                                              *)

\* Scaling keeps the order of the reserved sizes, rounding included.
LEMMA ScaledMonotone ==
  ASSUME NEW n \in Nat, NEW a \in Nat, NEW b \in Nat, a <= b
  PROVE  ScaledTo(n, a) \in Int /\ ScaledTo(n, b) \in Int /\ ScaledTo(n, a) <= ScaledTo(n, b)
<1>1. PICK d \in Nat : b = a + d
  <2>. WITNESS b - a \in Nat
  <2>. QED  OBVIOUS
<1>2. n * d \in Nat /\ n * a \in Nat /\ n * b = n * a + n * d
  BY <1>1
<1>3. 2 * n * a = 2 * (n * a) /\ 2 * n * b = 2 * (n * a) + 2 * (n * d)
  BY <1>2
<1>4. ASSUME NEW x \in Nat, NEW y \in Nat, x <= y PROVE x \div 1024 <= y \div 1024
  BY <1>4, SMT
<1>. QED  BY <1>2, <1>3, <1>4, SMT DEF ScaledTo, REFERENCE_BUDGET

\* A limit read from the same place is known, or it is not, in both.
LEMMA ComputeMonotone ==
  ASSUME NEW a \in Size, NEW b \in Size, a <= b, a = Absent <=> b = Absent, NEW threads \in Int
  PROVE  /\ ComputeAdmissionBudget(a, threads).chunk <= ComputeAdmissionBudget(b, threads).chunk
         /\ ComputeAdmissionBudget(a, threads).rows <= ComputeAdmissionBudget(b, threads).rows
<1>. DEFINE base == ThreadScaledChunk(threads)
<1>1. base \in Nat /\ base >= MIN_PARSE_CHUNK
  BY DEF ThreadScaledChunk, AtLeast, PARSE_CHUNK, CHUNK_FILES_PER_THREAD, MIN_PARSE_CHUNK
<1>. HIDE DEF base
<1>2. CASE a = Absent
  BY <1>1, <1>2, SMT DEF ComputeAdmissionBudget, STAGED_WRITE_ROWS, base
<1>3. CASE a # Absent
  <2>1. a \in Nat /\ b \in Nat
    BY <1>3, Zenon DEF Size
  <2>2. ASSUME NEW n \in Nat, NEW lo \in Nat, lo <= n
        PROVE  /\ Clamp(ScaledTo(n, a), lo, n) <= n
               /\ Clamp(ScaledTo(n, a), lo, n) <= Clamp(ScaledTo(n, b), lo, n)
    BY <2>1, <2>2, ScaledMonotone DEF Clamp, AtLeast, AtMost
  <2>. QED
    BY <1>1, <1>3, <2>1, <2>2, SMT
       DEF ComputeAdmissionBudget, REFERENCE_BUDGET, MIN_PARSE_CHUNK,
           MIN_STAGED_WRITE_ROWS, STAGED_WRITE_ROWS, base, Absent
<1>. QED  BY <1>2, <1>3, Zenon

\* LessMemoryAdmitsNoMore for any machines, resized in any order.
THEOREM NoMoreForLess == AdmissionSpec => LessMemoryAdmitsNoMore
<1>. DEFINE Inv == box \in Machines /\ admitted = BudgetOf(box)
<1>. USE MachinesAssumption
<1>1. AdmissionInit => Inv
  BY Zenon DEF AdmissionInit
<1>2. Inv /\ [AdmissionNext]_admissionVars => Inv'
  BY Zenon DEF AdmissionNext, Admit, admissionVars
<1>3. ASSUME Inv, Inv',
             Ceiling(box).source = Ceiling(box').source, Ceiling(box').size <= Ceiling(box).size,
             admitted'.threads = admitted.threads
      PROVE  admitted'.chunk <= admitted.chunk /\ admitted'.rows <= admitted.rows
  <2>1. ASSUME NEW m \in Machines
        PROVE  /\ Ceiling(m).size \in Size /\ WorkerThreads(m) \in Int
               /\ Ceiling(m).size = Absent <=> Ceiling(m).source = "unknown"
    <3>1. Ceiling(m).size \in Size
      BY Zenon DEF Ceiling
    <3>2. Ceiling(m).size = Absent <=> Ceiling(m).source = "unknown"
      <4>1. V1Unlimited \in Nat
        BY SMT DEF V1Unlimited
      <4>. QED  BY <4>1, SMT DEF Ceiling, Absent, Size
    <3>3. CpuThreads(m) \in Int
      BY DEF CpuThreads, QuotaThreads, AtLeast, AtMost, Size, Absent
    <3>4. WorkerThreads(m) \in Int
      BY <3>3 DEF WorkerThreads, Clamp, AtLeast, AtMost, Size, Absent
    <3>. QED  BY <3>1, <3>2, <3>4, Zenon
  <2>2. admitted.threads = WorkerThreads(box) /\ admitted'.threads = WorkerThreads(box')
    BY <1>3, Zenon DEF BudgetOf
  <2>. QED  BY <1>3, <2>1, <2>2, ComputeMonotone, Zenon DEF BudgetOf
<1>. QED
  BY <1>1, <1>2, <1>3, PTL DEF AdmissionSpec, LessMemoryAdmitsNoMore

-----------------------------------------------------------------------------
(* Notes.                                                                  *)

IsSeq(q) == q \in Seq({q[i] : i \in DOMAIN q})

DbFields == {"nodes", "notes", "judged", "seen"}
NoteFields == {"pin", "symbol", "attached", "tier", "hash", "stale", "expires"}
PinFields == {"symbol", "body", "tier", "at", "by", "acked", "excused"}

\* A note is the row of one of the pins.
RowOf(x, ps) ==
    /\ DOMAIN x = NoteFields
    /\ x.pin \in DOMAIN ps /\ x.tier = ps[x.pin].tier /\ x.expires = ps[x.pin].at + Ttl
Rows(notes, ps) == \A x \in notes : RowOf(x, ps) /\ \A y \in notes : x.pin = y.pin => x = y
Has(notes, n) == \E x \in notes : x.pin = n

\* Pins stay what they were, but for the word that they are pinned and what
\* excuses their loss.
Lasting(ps, qs) == \A n \in DOMAIN ps : n \in DOMAIN qs /\ qs[n].tier = ps[n].tier /\ qs[n].at = ps[n].at

\* The notes that are due, and that nothing excuses, are in graph.db; a running
\* pass has those that were pinned under the lock, and all that it has read.
StoreInv ==
    /\ clock \in Nat /\ IsSeq(pins) /\ IsSeq(disk) /\ path \in DOMAIN disk
    /\ \A n \in DOMAIN pins : DOMAIN pins[n] = PinFields /\ pins[n].at \in Nat
    /\ \A i \in DOMAIN disk : DOMAIN disk[i] = DbFields /\ Rows(disk[i].notes, pins)
    /\ \A t \in DOMAIN cache : DOMAIN cache[t] = DbFields /\ Rows(cache[t].notes, pins)
    /\ \A n \in DOMAIN pins : ~pins[n].excused /\ Due(n) => Has(disk[path].notes, n)
    /\ pass.pc = "notes" =>
         /\ Rows(pass.notes, pins)
         /\ \A n \in DOMAIN pins : pins[n].by = "cli" /\ ~pins[n].excused /\ Due(n) => Has(pass.notes, n)
    /\ pass.pc = "promote" =>
         /\ Rows(pass.notes, pins) /\ pass.read \subseteq DOMAIN pins
         /\ \A n \in DOMAIN pins :
              (n \in pass.read \/ pins[n].by = "cli") /\ ~pins[n].excused /\ Due(n) => Has(pass.notes, n)

\* A list with one more element.
LEMMA Appended ==
  ASSUME NEW q, IsSeq(q), NEW e
  PROVE  /\ Len(q) \in Nat /\ DOMAIN q = 1..Len(q) /\ Len(q) + 1 \notin DOMAIN q
         /\ IsSeq(Append(q, e)) /\ DOMAIN Append(q, e) = DOMAIN q \cup {Len(q) + 1} /\ Len(Append(q, e)) = Len(q) + 1
         /\ Append(q, e)[Len(q) + 1] = e /\ \A i \in DOMAIN q : Append(q, e)[i] = q[i]
<1>. DEFINE S == {q[i] : i \in DOMAIN q}
            n == Len(q)
<1>1. \A T : \A s \in Seq(T) : Len(s) \in Nat /\ DOMAIN s = 1..Len(s) /\ \A i \in 1..Len(s) : s[i] \in T
  OBVIOUS
<1>2. n \in Nat /\ DOMAIN q = 1..n /\ q \in Seq(S)
  BY <1>1, Zenon DEF IsSeq
<1>3. \A T : \A s \in Seq(T), x \in T : /\ Append(s, x) \in Seq(T) /\ Len(Append(s, x)) = Len(s) + 1
                                        /\ Append(s, x)[Len(s) + 1] = x /\ \A i \in 1..Len(s) : Append(s, x)[i] = s[i]
  OBVIOUS
<1>. DEFINE T == S \cup {e}
            a == Append(q, e)
<1>4. q \in Seq(T) /\ e \in T
  BY <1>2
<1>. HIDE DEF S, T, n, a
<1>5. a \in Seq(T) /\ Len(a) = n + 1 /\ a[n + 1] = e /\ \A i \in 1..n : a[i] = q[i]
  BY <1>3, <1>4 DEF a, n
<1>6. DOMAIN a = 1..n + 1
  BY <1>1, <1>5, Zenon
<1>7. 1..n + 1 = (1..n) \cup {n + 1} /\ n + 1 \notin 1..n
  BY <1>2
<1>8. a \in Seq({a[i] : i \in DOMAIN a})
  BY <1>5
<1>. QED  BY <1>2, <1>5, <1>6, <1>7, <1>8, Zenon DEF IsSeq, n, a

\* A list whose elements were replaced.
LEMMA Replaced ==
  ASSUME NEW q, IsSeq(q), NEW f, f = [i \in DOMAIN q |-> f[i]]
  PROVE  IsSeq(f) /\ DOMAIN f = DOMAIN q /\ Len(f) = Len(q)
<1>1. Len(q) \in Nat /\ DOMAIN q = 1..Len(q)
  BY Appended, Zenon
<1>2. DOMAIN f = 1..Len(q)
  BY <1>1, Zenon
<1>. QED  BY <1>1, <1>2 DEF IsSeq

\* Notes that belong to pins still do after more pins.
LEMMA CarryRows ==
  ASSUME NEW ps, NEW qs, Lasting(ps, qs), NEW notes, Rows(notes, ps)
  PROVE  Rows(notes, qs)
BY Zenon DEF Lasting, Rows, RowOf

\* A note is pinned in one of the databases.
LEMMA PinKeeps ==
  ASSUME StoreInv, NEW i \in DOMAIN disk, NEW s, NEW tier, NEW h, InsertNote(i, s, tier, h),
         NEW by, NEW excused, Pinned(s, tier, by, excused), ~excused => i = path,
         by = "cli" => pass.pc = "idle", UNCHANGED <<path, cache, pass, clock>>
  PROVE  StoreInv' /\ DOMAIN disk' = DOMAIN disk /\ \A j \in DOMAIN disk : disk'[j].nodes = disk[j].nodes
<1>. DEFINE new == Len(pins) + 1
            x == [pin |-> new, symbol |-> s, attached |-> TRUE, tier |-> tier, hash |-> h,
                  stale |-> FALSE, expires |-> clock + Ttl]
            p == [symbol |-> s, body |-> tree[s], tier |-> tier, at |-> clock,
                  by |-> by, acked |-> by = "cli", excused |-> excused]
<1>1. clock \in Nat /\ IsSeq(pins) /\ IsSeq(disk) /\ path \in DOMAIN disk
  BY Zenon DEF StoreInv
<1>2. pins' = Append(pins, p)
  BY Zenon DEF Pinned
<1>3. x.pin = new /\ x.tier = tier /\ x.expires = clock + Ttl /\ DOMAIN x = NoteFields
  BY Zenon DEF NoteFields
<1>4. p.tier = tier /\ p.at = clock /\ p.by = by /\ DOMAIN p = PinFields
  BY Zenon DEF PinFields
<1>5. p.excused = excused
  BY Zenon
<1>6. disk' = [disk EXCEPT ![i].notes = @ \cup {x}]
  BY Zenon DEF InsertNote
<1>. HIDE DEF p, x
<1>7. /\ IsSeq(pins') /\ DOMAIN pins' = DOMAIN pins \cup {new} /\ new \notin DOMAIN pins
      /\ pins'[new] = p /\ \A n \in DOMAIN pins : pins'[n] = pins[n]
  BY <1>1, <1>2, Appended
<1>. HIDE DEF new
<1>8. Lasting(pins, pins')
  BY <1>7, Zenon DEF Lasting
<1>9. \A j \in DOMAIN disk : DOMAIN disk[j] = DbFields /\ Rows(disk[j].notes, pins)
  BY Zenon DEF StoreInv
<1>10. /\ DOMAIN disk' = DOMAIN disk
       /\ \A j \in DOMAIN disk : disk'[j] = IF j = i THEN [disk[i] EXCEPT !.notes = @ \cup {x}] ELSE disk[j]
  BY <1>6, Zenon
<1>11. disk'[i] = [disk[i] EXCEPT !.notes = @ \cup {x}] /\ DOMAIN disk[i] = DbFields
  BY <1>9, <1>10, Zenon
<1>12. DOMAIN disk'[i] = DbFields /\ disk'[i].notes = disk[i].notes \cup {x} /\ disk'[i].nodes = disk[i].nodes
  BY <1>11, Zenon DEF DbFields
<1>13. \A j \in DOMAIN disk : DOMAIN disk'[j] = DbFields /\ disk'[j].nodes = disk[j].nodes
         /\ disk'[j].notes = IF j = i THEN disk[i].notes \cup {x} ELSE disk[j].notes
  BY <1>9, <1>10, <1>12, Zenon
<1>14. IsSeq(disk')
  <2>1. disk' = [j \in DOMAIN disk |-> disk'[j]]
    BY <1>6, Zenon
  <2>. QED  BY <1>1, <2>1, Replaced, Zenon
<1>15. Rows(disk[i].notes \cup {x}, pins')
  <2>1. Rows(disk[i].notes, pins') /\ \A y \in disk[i].notes : y.pin # new
    BY <1>7, <1>8, <1>9, CarryRows DEF Rows, RowOf
  <2>2. RowOf(x, pins')
    BY <1>3, <1>4, <1>7, Zenon DEF RowOf
  <2>. QED  BY <1>3, <2>1, <2>2, Zenon DEF Rows
<1>16. \A j \in DOMAIN disk : Rows(disk'[j].notes, pins')
  BY <1>8, <1>9, <1>13, <1>15, CarryRows, Zenon
<1>17. \A n \in DOMAIN pins' : DOMAIN pins'[n] = PinFields /\ pins'[n].at \in Nat
  BY <1>1, <1>4, <1>7, Zenon DEF StoreInv
<1>18. \A t \in DOMAIN cache : DOMAIN cache[t] = DbFields /\ Rows(cache[t].notes, pins')
  BY <1>8, CarryRows, Zenon DEF StoreInv
<1>19. \A n \in DOMAIN pins : (Due(n)' <=> Due(n)) /\ pins'[n] = pins[n]
  BY <1>7, Zenon DEF Due
<1>20. ASSUME NEW n \in DOMAIN pins', ~pins'[n].excused, Due(n)' PROVE Has(disk'[path].notes, n)
  <2>1. CASE n = new
    <3>1. i = path
      BY <1>5, <1>7, <1>20, <2>1, Zenon
    <3>. QED  BY <1>3, <1>12, <2>1, <3>1, Zenon DEF Has
  <2>2. CASE n \in DOMAIN pins
    <3>1. Has(disk[path].notes, n)
      BY <1>19, <1>20, <2>2, Zenon DEF StoreInv
    <3>. QED  BY <1>1, <1>13, <3>1, Zenon DEF Has
  <2>. QED  BY <1>7, <2>1, <2>2, Zenon
<1>21. pass.pc = "notes" =>
         /\ Rows(pass.notes, pins')
         /\ \A n \in DOMAIN pins' : pins'[n].by = "cli" /\ ~pins'[n].excused /\ Due(n)' => Has(pass.notes, n)
  BY <1>4, <1>7, <1>8, <1>19, CarryRows, Zenon DEF StoreInv
<1>22. pass.pc = "promote" =>
         /\ Rows(pass.notes, pins') /\ pass.read \subseteq DOMAIN pins'
         /\ \A n \in DOMAIN pins' :
              (n \in pass.read \/ pins'[n].by = "cli") /\ ~pins'[n].excused /\ Due(n)' => Has(pass.notes, n)
  BY <1>4, <1>7, <1>8, <1>19, CarryRows, Zenon DEF StoreInv
<1>23. UNCHANGED <<path, cache, pass, clock>>
  BY Zenon
<1>24. \A j \in DOMAIN disk' : DOMAIN disk'[j] = DbFields /\ Rows(disk'[j].notes, pins')
  BY <1>10, <1>13, <1>16, Zenon
<1>25. path \in DOMAIN disk'
  BY <1>1, <1>10, Zenon
<1>26. StoreInv'
  BY <1>1, <1>7, <1>14, <1>17, <1>18, <1>20, <1>21, <1>22, <1>23, <1>24, <1>25, Zenon DEF StoreInv
<1>. QED  BY <1>10, <1>13, <1>26, Zenon

\* Time passes, or nothing of the store moves.
LEMMA TimeKeeps ==
  ASSUME StoreInv, clock' \in Nat, clock <= clock', UNCHANGED <<disk, path, cache, pass>>,
         IsSeq(pins'), DOMAIN pins' = DOMAIN pins,
         \A n \in DOMAIN pins : /\ DOMAIN pins'[n] = PinFields /\ pins'[n].tier = pins[n].tier /\ pins'[n].at = pins[n].at
                                /\ pins'[n].by = pins[n].by /\ (pins'[n].excused <=> pins[n].excused)
  PROVE  StoreInv'
<1>1. Lasting(pins, pins')
  BY Zenon DEF Lasting
<1>2. \A n \in DOMAIN pins : pins[n].at \in Nat /\ clock \in Nat /\ Ttl \in Nat
  BY NoteAssumption, Zenon DEF StoreInv
<1>3. \A n \in DOMAIN pins : Due(n)' => Due(n)
  BY <1>2 DEF Due
<1>4. /\ \A i \in DOMAIN disk : DOMAIN disk[i] = DbFields /\ Rows(disk[i].notes, pins')
      /\ \A t \in DOMAIN cache : DOMAIN cache[t] = DbFields /\ Rows(cache[t].notes, pins')
  BY <1>1, CarryRows, Zenon DEF StoreInv
<1>5. \A n \in DOMAIN pins : ~pins'[n].excused /\ Due(n)' => Has(disk[path].notes, n)
  BY <1>3, Zenon DEF StoreInv
<1>6. pass.pc = "notes" =>
         /\ Rows(pass.notes, pins')
         /\ \A n \in DOMAIN pins : pins'[n].by = "cli" /\ ~pins'[n].excused /\ Due(n)' => Has(pass.notes, n)
  BY <1>1, <1>3, CarryRows, Zenon DEF StoreInv
<1>7. pass.pc = "promote" =>
         /\ Rows(pass.notes, pins') /\ pass.read \subseteq DOMAIN pins
         /\ \A n \in DOMAIN pins :
              (n \in pass.read \/ pins'[n].by = "cli") /\ ~pins'[n].excused /\ Due(n)' => Has(pass.notes, n)
  BY <1>1, <1>3, CarryRows, Zenon DEF StoreInv
<1>8. IsSeq(disk) /\ path \in DOMAIN disk
  BY Zenon DEF StoreInv
<1>. QED  BY <1>2, <1>4, <1>5, <1>6, <1>7, <1>8, Zenon DEF StoreInv

\* The pass, when it does not hold notes, is nothing to the store.
LEMMA PassKeeps ==
  ASSUME StoreInv, UNCHANGED <<disk, path, pins, clock>>, pass'.pc \notin {"notes", "promote"},
         \A t \in DOMAIN cache' : cache'[t] \in {cache[u] : u \in DOMAIN cache} \cup {disk[path]}
  PROVE  StoreInv'
<1>1. \A t \in DOMAIN cache' : DOMAIN cache'[t] = DbFields /\ Rows(cache'[t].notes, pins)
  BY DEF StoreInv
<1>2. \A n \in DOMAIN pins : Due(n)' <=> Due(n)
  BY Zenon DEF Due
<1>. QED  BY <1>1, <1>2, Zenon DEF StoreInv

\* Another database takes the name graph.db.
LEMMA InstallKeeps ==
  ASSUME StoreInv, NEW image, DOMAIN image = DbFields, Rows(image.notes, pins), NEW read, Install(image, read),
         \A n \in DOMAIN pins : n \in read /\ ~pins[n].excused /\ Due(n) => Has(image.notes, n),
         UNCHANGED <<cache, clock>>, pass'.pc \notin {"notes", "promote"}
  PROVE  /\ StoreInv' /\ path' = Len(disk) + 1 /\ path' \notin DOMAIN disk /\ DOMAIN disk' = DOMAIN disk \cup {path'}
         /\ disk'[path'] = image /\ \A i \in DOMAIN disk : disk'[i] = disk[i]
<1>1. clock \in Nat /\ IsSeq(pins) /\ IsSeq(disk)
  BY Zenon DEF StoreInv
<1>2. disk' = Append(disk, image) /\ path' = Len(disk) + 1
      /\ pins' = [n \in DOMAIN pins |-> IF n \in read THEN pins[n] ELSE [pins[n] EXCEPT !.excused = TRUE]]
  BY Zenon DEF Install
<1>3. /\ IsSeq(disk') /\ DOMAIN disk' = DOMAIN disk \cup {path'} /\ path' \notin DOMAIN disk
      /\ disk'[path'] = image /\ \A i \in DOMAIN disk : disk'[i] = disk[i]
  BY <1>1, <1>2, Appended
<1>4. IsSeq(pins') /\ DOMAIN pins' = DOMAIN pins
  <2>1. pins' = [n \in DOMAIN pins |-> pins'[n]]
    BY <1>2, Zenon
  <2>. QED  BY <1>1, <2>1, Replaced, Zenon
<1>5. ASSUME NEW n \in DOMAIN pins
      PROVE  /\ DOMAIN pins'[n] = PinFields /\ pins'[n].tier = pins[n].tier /\ pins'[n].at = pins[n].at
             /\ pins'[n].at \in Nat /\ (~pins'[n].excused => n \in read /\ ~pins[n].excused)
  <2>1. DOMAIN pins[n] = PinFields /\ pins[n].at \in Nat
    BY Zenon DEF StoreInv
  <2>2. CASE n \in read
    BY <1>2, <2>1, <2>2, Zenon
  <2>3. CASE n \notin read
    <3>1. pins'[n] = [pins[n] EXCEPT !.excused = TRUE]
      BY <1>2, <2>3, Zenon
    <3>. QED  BY <2>1, <3>1, Zenon DEF PinFields
  <2>. QED  BY <2>2, <2>3, Zenon
<1>6. Lasting(pins, pins')
  BY <1>4, <1>5, Zenon DEF Lasting
<1>7. \A i \in DOMAIN disk' : DOMAIN disk'[i] = DbFields /\ Rows(disk'[i].notes, pins')
  BY <1>3, <1>6, CarryRows, Zenon DEF StoreInv
<1>8. \A t \in DOMAIN cache : DOMAIN cache[t] = DbFields /\ Rows(cache[t].notes, pins')
  BY <1>6, CarryRows, Zenon DEF StoreInv
<1>9. \A n \in DOMAIN pins : ~pins'[n].excused /\ Due(n)' => Has(image.notes, n)
  BY <1>5, Zenon DEF Due
<1>10. path' \in DOMAIN disk'
  BY <1>3, Zenon
<1>11. StoreInv'
  BY <1>1, <1>3, <1>4, <1>5, <1>7, <1>8, <1>9, <1>10, Zenon DEF StoreInv
<1>. QED  BY <1>2, <1>3, <1>11, Zenon

\* A pass begins with the notes of graph.db.
LEMMA StartKeeps == ASSUME StoreInv, NEW kind, IndexStart(kind) PROVE StoreInv'
<1>1. pass' = [pc |-> "notes", kind |-> kind, parsed |-> tree, notes |-> disk[path].notes]
      /\ UNCHANGED <<disk, path, cache, clock, pins>>
  BY Zenon DEF IndexStart
<1>2. pass'.pc = "notes" /\ pass'.notes = disk[path].notes
  BY <1>1, Zenon
<1>3. \A n \in DOMAIN pins : Due(n)' <=> Due(n)
  BY <1>1, Zenon DEF Due
<1>. QED  BY <1>1, <1>2, <1>3, Zenon DEF StoreInv

\* It moves them to its symbols and drops the expired ones, which are not due.
LEMMA MoveKeeps == ASSUME StoreInv, IndexNotes PROVE StoreInv'
<1>. DEFINE old == IF pass.kind = "full" THEN disk[path].notes ELSE pass.notes
            moved == {Reattached(x, pass.parsed) : x \in old}
            now == moved \ Expired(moved, clock)
<1>1. pass.pc = "notes" /\ UNCHANGED <<disk, path, cache, clock, pins>>
      /\ pass' = [pc |-> "promote", parsed |-> pass.parsed, judged |-> tree, notes |-> now, read |-> {x.pin : x \in old}]
  BY Zenon DEF IndexNotes
<1>2. pass'.pc = "promote" /\ pass'.notes = now /\ pass'.read = {x.pin : x \in old}
  BY <1>1, Zenon
<1>3. /\ Rows(old, pins)
      /\ \A n \in DOMAIN pins : pins[n].by = "cli" /\ ~pins[n].excused /\ Due(n) => Has(old, n)
  BY <1>1, Zenon DEF StoreInv
<1>. HIDE DEF old
<1>4. ASSUME NEW x \in old
      PROVE  /\ DOMAIN Reattached(x, pass.parsed) = NoteFields /\ Reattached(x, pass.parsed).pin = x.pin
             /\ Reattached(x, pass.parsed).tier = x.tier /\ Reattached(x, pass.parsed).expires = x.expires
  <2>1. DOMAIN x = NoteFields
    BY <1>3, Zenon DEF Rows, RowOf
  <2>. QED  BY <2>1, Zenon DEF Reattached, NoteFields
<1>5. Rows(moved, pins)
  <2>1. ASSUME NEW y \in moved PROVE RowOf(y, pins)
    <3>1. PICK x \in old : y = Reattached(x, pass.parsed)
      BY Zenon
    <3>. QED  BY <1>3, <1>4, <3>1 DEF Rows, RowOf
  <2>2. ASSUME NEW y \in moved, NEW z \in moved, y.pin = z.pin PROVE y = z
    <3>1. PICK x \in old : y = Reattached(x, pass.parsed)
      BY Zenon
    <3>2. PICK w \in old : z = Reattached(w, pass.parsed)
      BY Zenon
    <3>3. x.pin = w.pin
      BY <1>4, <2>2, <3>1, <3>2, Zenon
    <3>. QED  BY <1>3, <3>1, <3>2, <3>3, Zenon DEF Rows
  <2>. QED  BY <2>1, <2>2, Zenon DEF Rows
<1>6. ASSUME NEW n \in DOMAIN pins, Has(old, n), Due(n) PROVE Has(now, n)
  <2>1. PICK x \in old : x.pin = n
    BY <1>6, Zenon DEF Has
  <2>. DEFINE y == Reattached(x, pass.parsed)
  <2>2. y \in moved /\ y.pin = n /\ y.tier = x.tier /\ y.expires = x.expires
    BY <1>4, <2>1, Zenon
  <2>. HIDE DEF y, moved
  <2>3. y.tier = pins[n].tier /\ y.expires = pins[n].at + Ttl /\ pins[n].at \in Nat /\ Ttl \in Nat /\ clock \in Nat
    BY <1>3, <2>1, <2>2, NoteAssumption, Zenon DEF Rows, RowOf, StoreInv
  <2>4. y \notin Expired(moved, clock)
    BY <1>6, <2>3 DEF Expired, Due
  <2>. QED  BY <2>2, <2>4, Zenon DEF Has
<1>. HIDE DEF moved
<1>7. Rows(now, pins)
  BY <1>5, Zenon DEF Rows
<1>8. {x.pin : x \in old} \subseteq DOMAIN pins
  BY <1>3, Zenon DEF Rows, RowOf
<1>9. \A n \in {x.pin : x \in old} : Has(old, n)
  BY Zenon DEF Has
<1>. HIDE DEF now
<1>10. \A n \in DOMAIN pins : (n \in pass'.read \/ pins[n].by = "cli") /\ ~pins[n].excused /\ Due(n) => Has(now, n)
  BY <1>2, <1>3, <1>6, <1>9, Zenon
<1>11. \A n \in DOMAIN pins : Due(n)' <=> Due(n)
  BY <1>1, Zenon DEF Due
<1>. QED  BY <1>1, <1>2, <1>7, <1>8, <1>10, <1>11, Zenon DEF StoreInv

\* A step of the command line.
LEMMA NextNote == ASSUME StoreInv, NoteNext PROVE StoreInv'
<1>a. clock \in Nat /\ path \in DOMAIN disk /\ IsSeq(pins) /\ NoPass.pc = "idle"
  BY Zenon DEF StoreInv, NoPass
<1>1. ASSUME NEW s \in Symbols, NEW tier \in Tiers, CliPin(s, tier) PROVE StoreInv'
  <2>1. PICK h \in SpanHashes(disk[path].nodes, s) : InsertNote(path, s, tier, h)
    BY <1>1, Zenon DEF CliPin
  <2>2. Pinned(s, tier, "cli", FALSE) /\ pass.pc = "idle" /\ UNCHANGED <<path, cache, pass, clock>>
    BY <1>1, <1>a, Zenon DEF CliPin
  <2>. QED  BY <1>a, <2>1, <2>2, PinKeeps, Zenon
<1>2. ASSUME NEW kind \in {"full", "incremental"}, IndexStart(kind) PROVE StoreInv'
  BY <1>2, StartKeeps, Zenon
<1>3. CASE IndexNotes
  BY <1>3, MoveKeeps, Zenon
<1>4. CASE IndexPromote
  <2>. DEFINE image == [nodes |-> pass.parsed, notes |-> pass.notes, judged |-> pass.judged, seen |-> pass.read]
              read == pass.read \cup {n \in DOMAIN pins : pins[n].by = "cli"}
  <2>1. Install(image, read) /\ pass.pc = "promote" /\ UNCHANGED <<cache, clock>> /\ pass'.pc = "finish"
    BY <1>4, Zenon DEF IndexPromote
  <2>2. DOMAIN image = DbFields /\ image.notes = pass.notes
    BY Zenon DEF DbFields
  <2>3. Rows(pass.notes, pins) /\ \A n \in DOMAIN pins : n \in read /\ ~pins[n].excused /\ Due(n) => Has(pass.notes, n)
    BY <2>1, Zenon DEF StoreInv
  <2>. HIDE DEF image, read
  <2>. QED  BY <2>1, <2>2, <2>3, InstallKeeps, Zenon
<1>5. CASE IndexFinish
  <2>1. UNCHANGED <<disk, path, pins, clock>> /\ pass' = NoPass
        /\ \A t \in DOMAIN cache' : cache'[t] \in {cache[u] : u \in DOMAIN cache} \cup {disk[path]}
    BY <1>5, Zenon DEF IndexFinish
  <2>. QED  BY <1>a, <2>1, PassKeeps, Zenon
<1>6. CASE Restore
  <2>1. pass' = NoPass /\ tree \in DOMAIN cache /\ UNCHANGED <<cache, clock>>
        /\ Install(cache[tree], {x.pin : x \in cache[tree].notes})
    BY <1>6, Zenon DEF Restore
  <2>2. DOMAIN cache[tree] = DbFields /\ Rows(cache[tree].notes, pins)
    BY <2>1, Zenon DEF StoreInv
  <2>3. \A n \in {x.pin : x \in cache[tree].notes} : Has(cache[tree].notes, n)
    BY Zenon DEF Has
  <2>. DEFINE read == {x.pin : x \in cache[tree].notes}
  <2>. HIDE DEF read
  <2>4. Install(cache[tree], read) /\ \A n \in read : Has(cache[tree].notes, n)
    BY <2>1, <2>3, Zenon DEF read
  <2>. QED  BY <1>a, <2>1, <2>2, <2>4, InstallKeeps, Zenon
<1>7. CASE IndexDies
  <2>1. UNCHANGED <<disk, path, pins, clock, cache>> /\ pass' = NoPass
    BY <1>7, Zenon DEF IndexDies
  <2>. QED  BY <1>a, <2>1, PassKeeps, Zenon
<1>8. CASE Commit \/ Tick
  <2>1. clock' \in Nat /\ clock <= clock' /\ UNCHANGED <<disk, path, cache, pass, pins>>
    BY <1>8, <1>a DEF Commit, Tick
  <2>2. \A n \in DOMAIN pins : DOMAIN pins[n] = PinFields
    BY Zenon DEF StoreInv
  <2>. QED  BY <1>a, <2>1, <2>2, TimeKeeps, Zenon
<1>. QED  BY <1>1, <1>2, <1>3, <1>4, <1>5, <1>6, <1>7, <1>8, Zenon DEF NoteNext

ServerFields == {"pc", "inode", "seen", "request", "raced", "checked", "from", "pin"}

\* The server has one of the database files open.
ListInv == StoreInv /\ DOMAIN server = ServerFields /\ server.inode \in DOMAIN disk

\* Database files stay, and the symbols in them.
LEMMA FilesStay ==
  ASSUME StoreInv, NoteNext
  PROVE  DOMAIN disk \subseteq DOMAIN disk' /\ \A i \in DOMAIN disk : disk'[i].nodes = disk[i].nodes
<1>1. IsSeq(disk) /\ \A i \in DOMAIN disk : DOMAIN disk[i] = DbFields
  BY Zenon DEF StoreInv
<1>2. ASSUME NEW image, disk' = Append(disk, image)
      PROVE  DOMAIN disk \subseteq DOMAIN disk' /\ \A i \in DOMAIN disk : disk'[i].nodes = disk[i].nodes
  BY <1>1, <1>2, Appended
<1>3. ASSUME NEW i, NEW x, disk' = [disk EXCEPT ![i].notes = @ \cup x]
      PROVE  DOMAIN disk \subseteq DOMAIN disk' /\ \A j \in DOMAIN disk : disk'[j].nodes = disk[j].nodes
  BY <1>1, <1>3, Zenon DEF DbFields
<1>4. ASSUME NEW s, NEW tier, CliPin(s, tier)
      PROVE  DOMAIN disk \subseteq DOMAIN disk' /\ \A j \in DOMAIN disk : disk'[j].nodes = disk[j].nodes
  BY <1>3, <1>4, Zenon DEF CliPin, InsertNote
<1>5. ASSUME IndexPromote \/ Restore PROVE \E image : disk' = Append(disk, image)
  BY <1>5, Zenon DEF IndexPromote, Restore, Install
<1>6. ASSUME \/ \E kind \in {"full", "incremental"} : IndexStart(kind)
             \/ IndexNotes \/ IndexFinish \/ IndexDies \/ Commit \/ Tick
      PROVE  disk' = disk
  BY <1>6, Zenon DEF IndexStart, IndexNotes, IndexFinish, IndexDies, Commit, Tick
<1>7. \/ \E s \in Symbols, tier \in Tiers : CliPin(s, tier)
      \/ IndexPromote \/ Restore
      \/ disk' = disk
  BY <1>6, Zenon DEF NoteNext
<1>. QED  BY <1>2, <1>4, <1>5, <1>7, Zenon

\* A step of the server that leaves the store alone.
LEMMA StoreAlone == ASSUME StoreInv, UNCHANGED noteVars PROVE StoreInv'
<1>1. UNCHANGED <<disk, path, cache, pass, pins, clock>>
  BY Zenon DEF noteVars
<1>2. clock \in Nat /\ IsSeq(pins) /\ \A n \in DOMAIN pins : DOMAIN pins[n] = PinFields
  BY Zenon DEF StoreInv
<1>. QED  BY <1>1, <1>2, TimeKeeps

\* An agent pins a note, in graph.db or in what was.
LEMMA AgentPins ==
  ASSUME ListInv, NEW r, PinNote(r)
  PROVE  StoreInv' /\ DOMAIN disk' = DOMAIN disk /\ \A i \in DOMAIN disk : disk'[i].nodes = disk[i].nodes
<1>. DEFINE excused == server.inode # path
<1>1. PICK h \in SpanHashes(disk[server.inode].nodes, r.symbol) : InsertNote(server.inode, r.symbol, r.tier, h)
  BY Zenon DEF PinNote
<1>2. Pinned(r.symbol, r.tier, "agent", excused) /\ UNCHANGED <<path, cache, pass, clock>>
  BY Zenon DEF PinNote
<1>3. ~excused => server.inode = path
  BY Zenon
<1>. HIDE DEF excused
<1>. QED  BY <1>1, <1>2, <1>3, PinKeeps, Zenon DEF ListInv

\* Its client hears of it.
LEMMA WordKeeps == ASSUME StoreInv, WriteAnswer PROVE StoreInv'
<1>1. UNCHANGED <<disk, path, cache, pass, clock>>
      /\ pins' = IF server.pin = 0 THEN pins ELSE [pins EXCEPT ![server.pin].acked = TRUE]
  BY Zenon DEF WriteAnswer
<1>2. clock \in Nat /\ IsSeq(pins) /\ \A n \in DOMAIN pins : DOMAIN pins[n] = PinFields
  BY Zenon DEF StoreInv
<1>3. IsSeq(pins') /\ DOMAIN pins' = DOMAIN pins
  <2>1. CASE pins' = pins
    BY <1>2, <2>1, Zenon
  <2>2. CASE pins' = [pins EXCEPT ![server.pin].acked = TRUE]
    <3>1. pins' = [n \in DOMAIN pins |-> pins'[n]]
      BY <2>2, Zenon
    <3>. QED  BY <1>2, <3>1, Replaced, Zenon
  <2>. QED  BY <1>1, <2>1, <2>2, Zenon
<1>4. ASSUME NEW n \in DOMAIN pins
      PROVE  /\ DOMAIN pins'[n] = PinFields /\ pins'[n].tier = pins[n].tier /\ pins'[n].at = pins[n].at
             /\ pins'[n].by = pins[n].by /\ (pins'[n].excused <=> pins[n].excused)
  <2>1. pins'[n] = pins[n] \/ pins'[n] = [pins[n] EXCEPT !.acked = TRUE]
    BY <1>1, Zenon
  <2>. QED  BY <1>2, <2>1, Zenon DEF PinFields
<1>. QED  BY <1>1, <1>2, <1>3, <1>4, TimeKeeps

\* No pass, pin, restore, death or message loses a note or lists one twice.
LEMMA NextListed == ListInv /\ [ServeNext]_serveVars => ListInv'
<1>. SUFFICES ASSUME ListInv, [ServeNext]_serveVars PROVE ListInv'
  BY Zenon
<1>a. StoreInv /\ DOMAIN server = ServerFields /\ server.inode \in DOMAIN disk /\ path \in DOMAIN disk
      /\ 1 \in DOMAIN disk
  <2>1. IsSeq(disk) /\ path \in DOMAIN disk
    BY Zenon DEF ListInv, StoreInv
  <2>2. 1 \in DOMAIN disk
    BY <2>1, Appended
  <2>. QED  BY <2>1, <2>2, Zenon DEF ListInv
<1>b. DOMAIN Off = ServerFields /\ Off.inode = 1
  BY Zenon DEF Off, ServerFields
<1>c. \A a, k : Reply(a, k) => DOMAIN server' = ServerFields /\ server'.inode = server.inode
  BY <1>a, Zenon DEF Reply, ServerFields
<1>1. CASE NoteStep
  <2>1. NoteNext /\ server' = server
    BY <1>1, Zenon DEF NoteStep
  <2>. QED  BY <1>a, <2>1, NextNote, FilesStay, Zenon DEF ListInv
<1>2. CASE ServerOpen \/ ServerOpened \/ (\E due \in BOOLEAN : MaybeReload(due)) \/ Reopen \/ ReopenFails \/ Restat
           \/ ClientFails
  <2>1. UNCHANGED noteVars
    BY <1>2, Zenon DEF ServerOpen, ServerOpened, MaybeReload, Reopen, ReopenFails, Restat, ClientFails
  <2>2. disk' = disk /\ StoreInv'
    BY <1>a, <2>1, StoreAlone, Zenon DEF noteVars
  <2>3. DOMAIN server' = ServerFields /\ server'.inode \in {server.inode, path, 1}
    BY <1>2, <1>a, <1>b, Zenon DEF ServerOpen, ServerOpened, MaybeReload, Reopen, ReopenFails, Restat, ClientFails, ServerFields
  <2>. QED  BY <1>a, <2>2, <2>3, Zenon DEF ListInv
<1>3. ASSUME NEW r, Receive(r) PROVE ListInv'
  <2>1. UNCHANGED noteVars
    BY <1>3, Zenon DEF Receive
  <2>2. disk' = disk /\ StoreInv'
    BY <1>a, <2>1, StoreAlone, Zenon DEF noteVars
  <2>3. server' = server \/ server' = [server EXCEPT !.pc = "message", !.request = r, !.pin = 0]
    BY <1>3, Zenon DEF Receive
  <2>4. DOMAIN server' = ServerFields /\ server'.inode = server.inode
    BY <1>a, <2>3, Zenon DEF ServerFields
  <2>. QED  BY <1>a, <2>2, <2>4, Zenon DEF ListInv
<1>4. ASSUME HandleOther \/ HandleCall PROVE ListInv'
  <2>1. \E a, k : Reply(a, k)
    BY <1>4, Zenon DEF HandleOther, HandleCall, PinNote
  <2>2. UNCHANGED noteVars \/ \E r : PinNote(r)
    BY <1>4, Zenon DEF HandleOther, HandleCall
  <2>3. DOMAIN server' = ServerFields /\ server'.inode = server.inode
    BY <1>c, <2>1, Zenon
  <2>4. StoreInv' /\ DOMAIN disk' = DOMAIN disk
    <3>1. CASE UNCHANGED noteVars
      BY <1>a, <3>1, StoreAlone, Zenon DEF noteVars
    <3>2. ASSUME NEW r, PinNote(r) PROVE StoreInv' /\ DOMAIN disk' = DOMAIN disk
      BY <3>2, AgentPins, Zenon
    <3>. QED  BY <2>2, <3>1, <3>2, Zenon
  <2>. QED  BY <1>a, <2>3, <2>4, Zenon DEF ListInv
<1>5. CASE WriteAnswer
  <2>1. disk' = disk /\ StoreInv'
    BY <1>5, <1>a, WordKeeps, Zenon DEF WriteAnswer
  <2>2. DOMAIN server' = ServerFields /\ server'.inode = server.inode
    BY <1>5, <1>a, Zenon DEF WriteAnswer, ServerFields
  <2>. QED  BY <1>a, <2>1, <2>2, Zenon DEF ListInv
<1>6. CASE UNCHANGED serveVars
  <2>1. UNCHANGED noteVars /\ server' = server /\ disk' = disk
    BY <1>6, Zenon DEF serveVars, serverVars, noteVars
  <2>. QED  BY <1>a, <2>1, StoreAlone, Zenon DEF ListInv
<1>. QED  BY <1>1, <1>2, <1>3, <1>4, <1>5, <1>6, Zenon DEF ServeNext, ServerStep

\* At first there are no notes.
LEMMA FirstStore == ServeInit => ListInv
<1>. SUFFICES ASSUME ServeInit PROVE ListInv
  BY Zenon
<1>. DEFINE image == [nodes |-> tree, notes |-> {}, judged |-> tree, seen |-> {}]
<1>1. /\ disk = <<image>> /\ path = 1 /\ cache = [t \in {tree} |-> disk[1]] /\ pass = NoPass /\ clock = 0
      /\ pins = <<>> /\ server = Off
  BY Zenon DEF ServeInit, NoteInit
<1>2. DOMAIN image = DbFields /\ image.notes = {}
  BY Zenon DEF DbFields
<1>. HIDE DEF image
<1>3. \A e : DOMAIN <<e>> = {1} /\ <<e>>[1] = e /\ <<e>> \in Seq({e})
  OBVIOUS
<1>4. DOMAIN disk = {1} /\ disk[1] = image /\ IsSeq(disk)
  <2>1. DOMAIN disk = {1} /\ disk[1] = image /\ disk \in Seq({image})
    BY <1>1, <1>3, Zenon
  <2>2. {disk[i] : i \in DOMAIN disk} = {image}
    BY <2>1, Zenon
  <2>. QED  BY <2>1, <2>2, Zenon DEF IsSeq
<1>5. \A S : \A q \in Seq(S) : Len(q) = 0 => DOMAIN q = {}
  OBVIOUS
<1>6. DOMAIN pins = {} /\ IsSeq(pins)
  <2>1. \A S : <<>> \in Seq(S) /\ Len(<<>>) = 0
    OBVIOUS
  <2>. QED  BY <1>1, <1>5, <2>1, Zenon DEF IsSeq
<1>7. DOMAIN server = ServerFields /\ server.inode = 1
  BY <1>1, Zenon DEF Off, ServerFields
<1>8. pass.pc = "idle"
  BY <1>1, Zenon DEF NoPass
<1>9. Rows({}, pins)
  BY Zenon DEF Rows
<1>. QED  BY <1>1, <1>2, <1>4, <1>6, <1>7, <1>8, <1>9, Zenon DEF ListInv, StoreInv

\* `weave note list` shows every note until its day is over and no other, for any
\* symbols, notes and number of passes, agents' notes included.
THEOREM ListedAlwaysUntilExpired == ServeSpec => []ListedUntilExpired
<1>1. ListInv => ListedUntilExpired
  <2>. SUFFICES ASSUME ListInv PROVE ListedUntilExpired
    BY Zenon
  <2>1. Rows(disk[path].notes, pins)
        /\ \A n \in DOMAIN pins : ~pins[n].excused /\ Due(n) => Has(disk[path].notes, n)
    BY Zenon DEF ListInv, StoreInv
  <2>2. \A n \in DOMAIN pins : pins[n].at + Ttl \in Int /\ clock \in Nat
    BY NoteAssumption DEF ListInv, StoreInv
  <2>3. \A x \in disk[path].notes : x.pin \in DOMAIN pins /\ (x \in Listed <=> Due(x.pin))
    BY <2>1, <2>2, Zenon DEF Rows, RowOf, Listed, Alive, Due
  <2>4. Listed \subseteq disk[path].notes
    BY Zenon DEF Listed, Alive
  <2>. QED  BY <2>1, <2>3, <2>4 DEF ListedUntilExpired, Has, Rows
<1>. QED  BY <1>1, FirstStore, NextListed, PTL DEF ServeSpec

-----------------------------------------------------------------------------
(* Fresh answers.                                                          *)

TimesOK ==
    /\ IsSeq(mtime) /\ DOMAIN mtime = DOMAIN disk /\ \A i \in DOMAIN mtime : mtime[i] \in Nat
    /\ path = Len(disk) /\ server.seen \in Nat /\ \E i \in DOMAIN mtime : server.seen <= mtime[i]

\* A saved snapshot has the symbols of its commit, and graph.db those of the
\* recorded one, or of the pass that is about to record it.
CommitsOK ==
    /\ \A t \in DOMAIN cache : cache[t].nodes = t
    /\ pass.pc = "finish" => disk[path].nodes = pass.parsed
    /\ ~cut /\ pass.pc # "finish" => disk[path].nodes = last

\* The server has graph.db open while the time is the one it remembers; having
\* looked, what it has open is at least as new as what there was when it looked.
LookedOK ==
    /\ server.pc \notin {"off", "started", "restat"} /\ ~server.raced /\ mtime[path] = server.seen
         => server.inode = path
    /\ server.pc = "reopen" => server.from <= path
    /\ server.pc = "restat" => server.from <= server.inode /\ server.inode <= path
    /\ server.pc = "handle" /\ server.checked /\ ~server.raced => server.from <= server.inode /\ server.inode <= path
    /\ server.from \in Nat
AnswerOK == (answer.kind \in {"tool", "not found"} => answer.inode \in DOMAIN disk) /\ FreshAnswersAreFresh

FreshInv == ListInv /\ TimesOK /\ CommitsOK /\ LookedOK /\ AnswerOK

\* A finite set of numbers has a greatest.
LEMMA HasGreatest ==
  ASSUME NEW S \in SUBSET Nat, IsFiniteSet(S), S # {}
  PROVE  \E t \in S : \A u \in S : u <= t
<1>. SUFFICES ASSUME \A t \in S : \E u \in S : u > t PROVE FALSE
  OBVIOUS
<1>. DEFINE C == {T \in FiniteSubsetsOf(S) : T # {} /\ \A t \in T : \E u \in T : u > t}
<1>1. S \in C
  BY Zenon DEF FiniteSubsetsOf
<1>2. PICK T \in C : \A U \in C : ~(<<U, T>> \in StrictSubsetOrdering(S))
  BY <1>1, FS_StrictSubsetOrderingWellFounded, WFMin, Zenon
<1>3. T \in SUBSET S /\ T \in SUBSET Nat /\ IsFiniteSet(T) /\ T # {} /\ \A t \in T : \E u \in T : u > t
  BY Zenon DEF FiniteSubsetsOf
<1>4. PICK t \in T : TRUE
  BY <1>3, Zenon
<1>. DEFINE U == T \ {t}
<1>5. IsFiniteSet(U) /\ U \in FiniteSubsetsOf(S)
  BY <1>3, FS_RemoveElement, Zenon DEF FiniteSubsetsOf
<1>6. PICK u \in T : u > t
  BY <1>3, Zenon
<1>7. \A k \in U : \E l \in U : l > k
  BY <1>3, <1>4, <1>6
<1>8. U \in C
  <2>1. u # t
    BY <1>3, <1>4, <1>6
  <2>. QED  BY <1>5, <1>6, <1>7, <2>1, Zenon
<1>9. <<U, T>> \in StrictSubsetOrdering(S)
  BY <1>3, <1>4, Zenon DEF StrictSubsetOrdering
<1>. QED  BY <1>2, <1>8, <1>9, Zenon

\* Some file has the latest time.
LEMMA LatestIs ==
  ASSUME TimesOK
  PROVE  Latest \in Nat /\ \A i \in DOMAIN mtime : mtime[i] <= Latest
<1>. DEFINE n == Len(mtime)
            S == {mtime[i] : i \in DOMAIN mtime}
<1>1. n \in Nat /\ DOMAIN mtime = 1..n /\ DOMAIN mtime # {} /\ \A i \in 1..n : mtime[i] \in Nat
  BY Appended, Zenon DEF TimesOK
<1>2. IsFiniteSet(S) /\ S # {} /\ S \in SUBSET Nat
  <2>1. mtime \in [1..n -> S] /\ \A x \in S : \E i \in 1..n : mtime[i] = x
    BY <1>1, SMTT(60) DEF TimesOK, IsSeq
  <2>2. mtime \in Surjection(1..n, S)
    BY <2>1, Zenon DEF Surjection
  <2>3. IsFiniteSet(S)
    BY <1>1, <2>2, FS_Interval, FS_Surjection
  <2>. QED  BY <1>1, <2>3, Zenon
<1>. HIDE DEF S
<1>3. \E t \in S : \A u \in S : u <= t
  BY <1>2, HasGreatest, Zenon
<1>4. PICK t \in S : \A i \in DOMAIN mtime : mtime[i] <= t
  BY <1>3, Zenon DEF S
<1>5. Latest \in S /\ \A i \in DOMAIN mtime : mtime[i] <= Latest
  BY <1>4, Zenon DEF Latest, S
<1>. QED  BY <1>2, <1>5, Zenon

\* How a step of the command line moves the times: whenever graph.db changes, its
\* time is later than any the server remembers.
LEMMA TimesMove ==
  ASSUME FreshInv, NoteNext, UNCHANGED server
  PROVE  /\ TimesOK' /\ path <= path' /\ path \in Nat /\ path' \in Nat
         /\ \/ path' = path /\ mtime'[path'] = mtime[path]
            \/ mtime'[path'] # server.seen
<1>1. IsSeq(disk) /\ path \in DOMAIN disk /\ TimesOK
  BY Zenon DEF FreshInv, ListInv, StoreInv
<1>2. Latest \in Nat /\ \A i \in DOMAIN mtime : mtime[i] <= Latest
  BY <1>1, LatestIs, Zenon
<1>3. server.seen \in Nat /\ server.seen <= Latest /\ server'.seen = server.seen
  BY <1>1, <1>2 DEF TimesOK
<1>4. Latest + 1 \in Nat /\ Latest + 1 # server.seen /\ server.seen <= Latest + 1
  BY <1>2, <1>3
<1>5. /\ Len(disk) \in Nat /\ DOMAIN disk = 1..Len(disk) /\ path = Len(disk) /\ DOMAIN mtime = DOMAIN disk
      /\ Len(mtime) \in Nat /\ DOMAIN mtime = 1..Len(mtime) /\ IsSeq(mtime) /\ \A i \in DOMAIN mtime : mtime[i] \in Nat
  BY <1>1, Appended, Zenon DEF TimesOK
<1>6. Len(mtime) = Len(disk)
  BY <1>5
<1>7. ASSUME NEW s, NEW tier, CliPin(s, tier)
      PROVE  TimesOK' /\ path' = path /\ mtime'[path'] # server.seen
  <2>1. mtime' = [mtime EXCEPT ![path] = Latest + 1] /\ path' = path
        /\ \E h : InsertNote(path, s, tier, h)
    BY <1>7, Zenon DEF CliPin
  <2>2. disk' = [i \in DOMAIN disk |-> disk'[i]] /\ mtime' = [i \in DOMAIN mtime |-> mtime'[i]]
    BY <2>1, Zenon DEF InsertNote
  <2>3. DOMAIN disk' = DOMAIN disk /\ Len(disk') = Len(disk) /\ IsSeq(mtime') /\ DOMAIN mtime' = DOMAIN mtime
    BY <1>1, <1>5, <2>2, Replaced, Zenon
  <2>4. mtime'[path] = Latest + 1 /\ \A i \in DOMAIN mtime : i # path => mtime'[i] = mtime[i]
    BY <1>1, <1>5, <2>1, Zenon
  <2>5. TimesOK'
    BY <1>1, <1>3, <1>4, <1>5, <2>1, <2>3, <2>4, Zenon DEF TimesOK
  <2>. QED  BY <1>4, <2>1, <2>4, <2>5, Zenon
<1>8. ASSUME NEW image, NEW read, Install(image, read)
      PROVE  TimesOK' /\ path' = Len(disk) + 1 /\ mtime'[path'] # server.seen
  <2>1. mtime' = Append(mtime, Latest + 1) /\ path' = Len(disk) + 1 /\ disk' = Append(disk, image)
    BY <1>8, Zenon DEF Install
  <2>2. /\ IsSeq(mtime') /\ DOMAIN mtime' = DOMAIN mtime \cup {Len(mtime) + 1}
        /\ mtime'[Len(mtime) + 1] = Latest + 1 /\ \A i \in DOMAIN mtime : mtime'[i] = mtime[i]
    BY <1>5, <2>1, Appended
  <2>3. IsSeq(disk') /\ DOMAIN disk' = DOMAIN disk \cup {Len(disk) + 1}
    BY <1>1, <2>1, Appended, Zenon
  <2>4. Len(disk') = Len(disk) + 1
    BY <1>1, <2>1, Appended, Zenon
  <2>5. \A i \in DOMAIN mtime' : mtime'[i] \in Nat
    BY <1>4, <1>5, <2>2, Zenon
  <2>6. TimesOK'
    BY <1>3, <1>4, <1>5, <1>6, <2>1, <2>2, <2>3, <2>4, <2>5, Zenon DEF TimesOK
  <2>. QED  BY <1>4, <1>6, <2>1, <2>2, <2>6, Zenon
<1>9. ASSUME \/ \E kind \in {"full", "incremental"} : IndexStart(kind)
             \/ IndexNotes \/ IndexFinish \/ IndexDies \/ Commit \/ Tick
      PROVE  TimesOK' /\ path' = path /\ mtime'[path'] = mtime[path]
  <2>1. UNCHANGED <<disk, path, mtime>>
    BY <1>9, Zenon DEF IndexStart, IndexNotes, IndexFinish, IndexDies, Commit, Tick
  <2>. QED  BY <1>1, <2>1, Zenon DEF TimesOK
<1>10. ASSUME IndexPromote \/ Restore PROVE \E image, read : Install(image, read)
  BY <1>10, Zenon DEF IndexPromote, Restore
<1>11. \/ \E s \in Symbols, tier \in Tiers : CliPin(s, tier)
       \/ \E image, read : Install(image, read)
       \/ TimesOK' /\ path' = path /\ mtime'[path'] = mtime[path]
  BY <1>9, <1>10, Zenon DEF NoteNext
<1>. QED  BY <1>5, <1>7, <1>8, <1>11

\* And which symbols graph.db has then.
LEMMA CommitsMove == ASSUME FreshInv, NoteStep PROVE CommitsOK'
<1>1. NoteNext /\ cut' = (cut \/ (pass.pc = "finish" /\ pass' = NoPass /\ last' # pass.parsed)) /\ NoPass.pc = "idle"
  BY Zenon DEF NoteStep, NoPass
<1>2. IsSeq(disk) /\ path \in DOMAIN disk /\ CommitsOK /\ StoreInv
  BY Zenon DEF FreshInv, ListInv, StoreInv
<1>3. \A i \in DOMAIN disk : disk'[i].nodes = disk[i].nodes
  BY <1>1, <1>2, FilesStay, Zenon
<1>4. ASSUME \/ \E s \in Symbols, tier \in Tiers : CliPin(s, tier)
             \/ \E kind \in {"full", "incremental"} : IndexStart(kind)
             \/ IndexNotes \/ Commit \/ Tick
      PROVE  CommitsOK'
  <2>1. UNCHANGED <<path, cache, last>> /\ (pass' = pass \/ (pass.pc # "finish" /\ pass'.pc # "finish"))
    <3>1. ASSUME NEW s, NEW tier, CliPin(s, tier) PROVE UNCHANGED <<path, cache, last, pass>>
      BY <3>1, Zenon DEF CliPin
    <3>2. ASSUME NEW kind, IndexStart(kind)
          PROVE  UNCHANGED <<path, cache, last>> /\ pass.pc # "finish" /\ pass'.pc # "finish"
      BY <3>2, <1>1, Zenon DEF IndexStart
    <3>3. ASSUME IndexNotes PROVE UNCHANGED <<path, cache, last>> /\ pass.pc # "finish" /\ pass'.pc # "finish"
      BY <3>3, Zenon DEF IndexNotes
    <3>4. ASSUME Commit \/ Tick PROVE UNCHANGED <<path, cache, last, pass>>
      BY <3>4, Zenon DEF Commit, Tick
    <3>. QED  BY <1>4, <3>1, <3>2, <3>3, <3>4, Zenon
  <2>2. ~cut' => ~cut
    BY <1>1, Zenon
  <2>. QED  BY <1>2, <1>3, <2>1, <2>2, Zenon DEF CommitsOK
<1>5. CASE IndexPromote
  <2>1. \E notes, judged, seen, read : Install([nodes |-> pass.parsed, notes |-> notes, judged |-> judged, seen |-> seen], read)
    BY <1>5, Zenon DEF IndexPromote
  <2>2. \E notes, judged, seen : disk' = Append(disk, [nodes |-> pass.parsed, notes |-> notes, judged |-> judged, seen |-> seen])
        /\ path' = Len(disk) + 1
    BY <2>1, Zenon DEF Install
  <2>3. disk'[path'].nodes = pass.parsed
    BY <1>2, <2>2, Appended
  <2>4. pass'.pc = "finish" /\ pass'.parsed = pass.parsed /\ cache' = cache
    BY <1>5, Zenon DEF IndexPromote
  <2>. QED  BY <1>2, <2>3, <2>4, Zenon DEF CommitsOK
<1>6. CASE IndexFinish
  <2>1. pass.pc = "finish" /\ last' = pass.parsed /\ UNCHANGED <<disk, path>> /\ pass'.pc = "idle"
        /\ cache' = [t \in DOMAIN cache \cup {pass.parsed} |-> IF t = pass.parsed THEN disk[path] ELSE cache[t]]
    BY <1>6, <1>1, Zenon DEF IndexFinish
  <2>. QED  BY <1>2, <2>1, Zenon DEF CommitsOK
<1>7. CASE Restore
  <2>1. last' = tree /\ tree \in DOMAIN cache /\ cache' = cache /\ pass'.pc = "idle"
        /\ disk' = Append(disk, cache[tree]) /\ path' = Len(disk) + 1
    BY <1>7, <1>1, Zenon DEF Restore, Install
  <2>2. disk'[path'] = cache[tree]
    BY <1>2, <2>1, Appended, Zenon
  <2>. QED  BY <1>2, <2>1, <2>2, Zenon DEF CommitsOK
<1>8. CASE IndexDies
  <2>1. UNCHANGED <<disk, path, cache, last>> /\ pass' = NoPass
    BY <1>8, Zenon DEF IndexDies
  <2>2. ~cut' => ~cut /\ (pass.pc = "finish" => last = pass.parsed)
    BY <1>1, <2>1, Zenon
  <2>. QED  BY <1>1, <1>2, <2>1, <2>2, Zenon DEF CommitsOK
<1>. QED  BY <1>1, <1>4, <1>5, <1>6, <1>7, <1>8, Zenon DEF NoteNext

\* What a tool says of the freshness of its answer is true.
LEMMA ResultIsFresh ==
  ASSUME FreshInv, server.pc = "handle", NEW kind
  PROVE  /\ Result(kind).kind = kind /\ Result(kind).inode = server.inode /\ Result(kind).tree = tree
         /\ Result(kind).fresh /\ Result(kind).quiet => disk[server.inode].nodes = tree
<1>. DEFINE fresh == CheckFreshness
            quiet == server.checked /\ ~server.raced /\ path = server.from /\ ~cut /\ pass.pc # "finish"
            as == GuardOf(TokenOf(server.request))
            bearer == server.request.bearer
            made == [kind |-> kind, as |-> as, bearer |-> bearer, inode |-> server.inode,
                     fresh |-> fresh, tree |-> tree, quiet |-> quiet]
<1>1. Result(kind) = made
  BY Zenon DEF Result
<1>2. ASSUME fresh, quiet PROVE disk[server.inode].nodes = tree
  <2>1. last = tree /\ server.checked /\ ~server.raced /\ path = server.from /\ ~cut /\ pass.pc # "finish"
    BY <1>2, Zenon DEF CheckFreshness
  <2>2. path \in Nat /\ server.inode \in Nat
    <3>1. IsSeq(disk) /\ path \in DOMAIN disk /\ server.inode \in DOMAIN disk
      BY Zenon DEF FreshInv, ListInv, StoreInv
    <3>2. DOMAIN disk = 1..Len(disk) /\ Len(disk) \in Nat
      BY <3>1, Appended, Zenon
    <3>. QED  BY <3>1, <3>2
  <2>3. server.from <= server.inode /\ server.inode <= path
    BY <2>1, Zenon DEF FreshInv, LookedOK
  <2>4. server.inode = path
    BY <2>1, <2>2, <2>3
  <2>. QED  BY <2>1, <2>4, Zenon DEF FreshInv, CommitsOK
<1>. HIDE DEF fresh, quiet, as, bearer
<1>3. made.kind = kind /\ made.inode = server.inode /\ made.tree = tree /\ made.fresh = fresh /\ made.quiet = quiet
  BY Zenon
<1>. HIDE DEF made
<1>. QED  BY <1>1, <1>2, <1>3, Zenon

\* The server looks at graph.db, or opens it.
LEMMA ServerLooks ==
  ASSUME FreshInv,
         ServerOpen \/ ServerOpened \/ (\E due \in BOOLEAN : MaybeReload(due)) \/ Reopen \/ ReopenFails \/ Restat
  PROVE  /\ LookedOK' /\ UNCHANGED <<noteVars, answer, cut>>
         /\ server'.seen \in {server.seen, 0, mtime[path]}
<1>1. DOMAIN server = ServerFields /\ server.seen \in Nat /\ path \in Nat /\ server.inode \in Nat
  <2>1. IsSeq(disk) /\ path \in DOMAIN disk /\ server.inode \in DOMAIN disk /\ DOMAIN server = ServerFields
    BY Zenon DEF FreshInv, ListInv, StoreInv
  <2>2. DOMAIN disk = 1..Len(disk) /\ Len(disk) \in Nat
    BY <2>1, Appended, Zenon
  <2>. QED  BY <2>1, <2>2 DEF FreshInv, TimesOK
<1>2. UNCHANGED <<noteVars, answer, cut>>
  BY Zenon DEF ServerOpen, ServerOpened, MaybeReload, Reopen, ReopenFails, Restat
<1>3. path' = path /\ mtime' = mtime
  BY <1>2, Zenon DEF noteVars
<1>4. CASE ServerOpen
  <2>1. server' = [Off EXCEPT !.pc = "started", !.inode = path]
    BY <1>4, Zenon DEF ServerOpen
  <2>2. server'.pc = "started" /\ server'.from = 0 /\ server'.seen = 0
    BY <2>1, Zenon DEF Off
  <2>. QED  BY <1>2, <2>2 DEF LookedOK
<1>5. CASE ServerOpened
  <2>. DEFINE raced == path # server.inode
  <2>1. server' = [server EXCEPT !.pc = "idle", !.seen = mtime[path], !.raced = raced]
    BY <1>5, Zenon DEF ServerOpened
  <2>2. ~raced => server.inode = path
    BY Zenon
  <2>. HIDE DEF raced
  <2>3. server'.pc = "idle" /\ server'.from = server.from /\ server'.raced = raced /\ server'.inode = server.inode
        /\ server'.seen = mtime[path]
    BY <1>1, <2>1, Zenon DEF ServerFields
  <2>. QED  BY <1>2, <1>3, <2>2, <2>3, Zenon DEF FreshInv, LookedOK
<1>6. ASSUME NEW due \in BOOLEAN, MaybeReload(due)
      PROVE  LookedOK' /\ server'.seen = server.seen
  <2>1. server' = [server EXCEPT !.pc = IF due /\ mtime[path] # server.seen THEN "reopen" ELSE "handle",
                                 !.checked = due, !.from = path]
        /\ server.pc = "message"
    BY <1>6, Zenon DEF MaybeReload
  <2>2. /\ server'.pc = IF due /\ mtime[path] # server.seen THEN "reopen" ELSE "handle"
        /\ server'.checked = due /\ server'.from = path
        /\ server'.inode = server.inode /\ server'.raced = server.raced /\ server'.seen = server.seen
    BY <1>1, <2>1, Zenon DEF ServerFields
  <2>3. ~server.raced /\ mtime[path] = server.seen => server.inode = path
    BY <2>1, Zenon DEF FreshInv, LookedOK
  <2>4. server'.pc = "handle" /\ server'.checked => mtime[path] = server.seen
    BY <2>2, Zenon
  <2>5. server'.pc \in {"reopen", "handle"}
    BY <2>2, Zenon
  <2>6. path <= path
    BY <1>1
  <2>. QED  BY <1>1, <1>3, <2>2, <2>3, <2>4, <2>5, <2>6, Zenon DEF LookedOK
<1>7. CASE Reopen
  <2>1. server' = [server EXCEPT !.pc = "restat", !.inode = path] /\ server.pc = "reopen"
    BY <1>7, Zenon DEF Reopen
  <2>2. server'.pc = "restat" /\ server'.inode = path /\ server'.from = server.from /\ server'.seen = server.seen
    BY <1>1, <2>1, Zenon DEF ServerFields
  <2>3. server.from <= path /\ server.from \in Nat
    BY <2>1, Zenon DEF FreshInv, LookedOK
  <2>. QED  BY <1>1, <1>2, <1>3, <2>2, <2>3 DEF LookedOK
<1>8. CASE ReopenFails
  <2>1. server' = [server EXCEPT !.pc = "handle", !.checked = FALSE] /\ server.pc = "reopen"
    BY <1>8, Zenon DEF ReopenFails
  <2>2. /\ server'.pc = "handle" /\ server'.checked = FALSE /\ server'.from = server.from
        /\ server'.inode = server.inode /\ server'.raced = server.raced /\ server'.seen = server.seen
    BY <1>1, <2>1, Zenon DEF ServerFields
  <2>. QED  BY <1>2, <1>3, <2>1, <2>2, Zenon DEF FreshInv, LookedOK
<1>9. CASE Restat
  <2>. DEFINE raced == path # server.inode
  <2>1. server' = [server EXCEPT !.pc = "handle", !.seen = mtime[path], !.raced = raced] /\ server.pc = "restat"
    BY <1>9, Zenon DEF Restat
  <2>2. ~raced => server.inode = path
    BY Zenon
  <2>. HIDE DEF raced
  <2>3. server'.pc = "handle" /\ server'.from = server.from /\ server'.raced = raced /\ server'.inode = server.inode
        /\ server'.seen = mtime[path]
    BY <1>1, <2>1, Zenon DEF ServerFields
  <2>. QED  BY <1>2, <1>3, <2>1, <2>2, <2>3, Zenon DEF FreshInv, LookedOK
<1>. QED  BY <1>2, <1>4, <1>5, <1>6, <1>7, <1>8, <1>9, Zenon

\* An answer that is none of a tool's.
LEMMA OtherAnswers ==
  ASSUME AnswerOK, DOMAIN disk' = DOMAIN disk, \A i \in DOMAIN disk : disk'[i].nodes = disk[i].nodes,
         answer' = answer \/ answer'.kind \notin {"tool", "not found"}
  PROVE  AnswerOK'
BY Zenon DEF AnswerOK, FreshAnswersAreFresh

\* Handling a message: the server has nothing remembered after it.
LEMMA HandleKeeps ==
  ASSUME FreshInv, HandleOther \/ HandleCall
  PROVE  LookedOK' /\ AnswerOK' /\ CommitsOK' /\ TimesOK'
<1>1. DOMAIN server = ServerFields /\ server.inode \in DOMAIN disk /\ server.pc = "handle"
      /\ StoreInv /\ ListInv /\ AnswerOK /\ IsSeq(disk) /\ path \in DOMAIN disk
  BY Zenon DEF FreshInv, ListInv, StoreInv, HandleOther, HandleCall
<1>2. \E a, k : Reply(a, k)
  BY Zenon DEF HandleOther, HandleCall, PinNote
<1>3. PICK a, k : Reply(a, k)
  BY <1>2, Zenon
<1>4. server' = [server EXCEPT !.pc = "write", !.pin = k, !.request = NoRequest, !.from = 0, !.checked = FALSE]
      /\ answer' = a /\ cut' = cut
  BY <1>3, Zenon DEF Reply
<1>5. /\ server'.pc = "write" /\ server'.from = 0 /\ server'.seen = server.seen
      /\ server'.inode = server.inode /\ server'.raced = server.raced
  BY <1>1, <1>4, Zenon DEF ServerFields
<1>6. UNCHANGED noteVars \/ \E r : PinNote(r)
  BY Zenon DEF HandleOther, HandleCall
<1>7. /\ UNCHANGED <<path, mtime, cache, last, pass>>
      /\ DOMAIN disk' = DOMAIN disk /\ Len(disk') = Len(disk) /\ \A i \in DOMAIN disk : disk'[i].nodes = disk[i].nodes
  <2>1. CASE UNCHANGED noteVars
    BY <2>1, Zenon DEF noteVars
  <2>2. ASSUME NEW r, PinNote(r)
        PROVE  /\ UNCHANGED <<path, mtime, cache, last, pass>>
               /\ DOMAIN disk' = DOMAIN disk /\ Len(disk') = Len(disk)
               /\ \A i \in DOMAIN disk : disk'[i].nodes = disk[i].nodes
    <3>1. UNCHANGED <<path, mtime, cache, last, pass>>
      BY <2>2, Zenon DEF PinNote
    <3>2. StoreInv' /\ DOMAIN disk' = DOMAIN disk /\ \A i \in DOMAIN disk : disk'[i].nodes = disk[i].nodes
      BY <1>1, <2>2, AgentPins, Zenon
    <3>3. disk' = [i \in DOMAIN disk |-> disk'[i]]
      BY <2>2, Zenon DEF PinNote, InsertNote
    <3>4. Len(disk') = Len(disk)
      BY <1>1, <3>3, Replaced, Zenon
    <3>. QED  BY <3>1, <3>2, <3>4, Zenon
  <2>. QED  BY <1>6, <2>1, <2>2, Zenon
<1>8. LookedOK'
  BY <1>1, <1>5, <1>7 DEF FreshInv, LookedOK
<1>9. CommitsOK'
  BY <1>1, <1>4, <1>7, Zenon DEF FreshInv, CommitsOK
<1>10. TimesOK'
  BY <1>5, <1>7, Zenon DEF FreshInv, TimesOK
<1>11. answer'.kind \notin {"tool", "not found"} \/ \E kind : answer' = Result(kind)
  <2>1. CASE HandleOther
    <3>1. answer'.kind \in {"-32700", "-32602", "-32601", "ok"}
      BY <2>1, Zenon DEF HandleOther, Reply
    <3>. QED  BY <3>1, Zenon
  <2>2. CASE HandleCall
    <3>1. answer' = [kind |-> "-32000"] \/ \E kind : answer' = Result(kind)
      BY <2>2, Zenon DEF HandleCall, PinNote, Reply
    <3>2. ASSUME answer' = [kind |-> "-32000"] PROVE answer'.kind \notin {"tool", "not found"}
      BY <3>2, Zenon
    <3>. QED  BY <3>1, <3>2, Zenon
  <2>. QED  BY <2>1, <2>2, Zenon
<1>12. AnswerOK'
  <2>1. CASE answer'.kind \notin {"tool", "not found"}
    BY <1>1, <1>7, <2>1, OtherAnswers, Zenon
  <2>2. ASSUME NEW kind, answer' = Result(kind) PROVE AnswerOK'
    <3>1. /\ answer'.inode = server.inode /\ answer'.tree = tree
          /\ answer'.fresh /\ answer'.quiet => disk[server.inode].nodes = tree
      BY <1>1, <2>2, ResultIsFresh, Zenon
    <3>. QED  BY <1>1, <1>7, <3>1, Zenon DEF AnswerOK, FreshAnswersAreFresh
  <2>. QED  BY <1>11, <2>1, <2>2, Zenon
<1>. QED  BY <1>8, <1>9, <1>10, <1>12, Zenon

\* No step makes an answer that says fresh out of date.
LEMMA NextFresh == FreshInv /\ [ServeNext]_serveVars => FreshInv'
<1>. SUFFICES ASSUME FreshInv, [ServeNext]_serveVars PROVE FreshInv'
  BY Zenon
<1>a. ListInv' /\ ListInv /\ StoreInv /\ AnswerOK
  BY NextListed, Zenon DEF FreshInv, ListInv
<1>b. DOMAIN server = ServerFields /\ path \in DOMAIN mtime /\ path \in DOMAIN disk
  BY Zenon DEF FreshInv, ListInv, StoreInv, TimesOK
<1>c. DOMAIN NoAnswer = {"kind"} /\ NoAnswer.kind = "none" /\ Off.pc = "off" /\ Off.seen = 0 /\ Off.from = 0
  BY Zenon DEF NoAnswer, Off
<1>d. \A i \in DOMAIN mtime : mtime[i] \in Nat /\ 0 <= mtime[i] /\ mtime[i] <= mtime[i]
  BY DEF FreshInv, TimesOK
<1>1. CASE NoteStep
  <2>1. NoteNext /\ server' = server /\ answer' = answer
    BY <1>1, Zenon DEF NoteStep
  <2>2. /\ TimesOK' /\ path <= path' /\ path \in Nat /\ path' \in Nat
        /\ \/ path' = path /\ mtime'[path'] = mtime[path]
           \/ mtime'[path'] # server.seen
    BY <2>1, TimesMove, Zenon
  <2>3. DOMAIN disk \subseteq DOMAIN disk' /\ \A i \in DOMAIN disk : disk'[i].nodes = disk[i].nodes
    BY <1>a, <2>1, FilesStay, Zenon
  <2>4. CommitsOK'
    BY <1>1, CommitsMove, Zenon
  <2>5. AnswerOK'
    BY <1>a, <2>1, <2>3, Zenon DEF AnswerOK, FreshAnswersAreFresh
  <2>6. server.from \in Nat /\ server.inode \in Nat
    <3>1. IsSeq(disk) /\ server.inode \in DOMAIN disk
      BY Zenon DEF FreshInv, ListInv, StoreInv
    <3>2. DOMAIN disk = 1..Len(disk) /\ Len(disk) \in Nat
      BY <3>1, Appended, Zenon
    <3>. QED  BY <3>1, <3>2 DEF FreshInv, LookedOK
  <2>7. \A m \in Nat : m <= path => m <= path'
    BY <2>2
  <2>8. LookedOK'
    BY <2>1, <2>2, <2>6, <2>7, Zenon DEF FreshInv, LookedOK
  <2>. QED  BY <1>a, <2>2, <2>4, <2>5, <2>8, Zenon DEF FreshInv
<1>2. CASE ServerOpen \/ ServerOpened \/ (\E due \in BOOLEAN : MaybeReload(due)) \/ Reopen \/ ReopenFails \/ Restat
  <2>1. LookedOK' /\ UNCHANGED <<noteVars, answer, cut>> /\ server'.seen \in {server.seen, 0, mtime[path]}
    BY <1>2, ServerLooks, Zenon
  <2>2. UNCHANGED <<disk, path, mtime, cache, last, pass, cut, answer>>
    BY <2>1, Zenon DEF noteVars
  <2>3. TimesOK'
    BY <1>b, <1>d, <2>1, <2>2 DEF FreshInv, TimesOK
  <2>4. CommitsOK' /\ AnswerOK'
    BY <1>a, <2>2, OtherAnswers, Zenon DEF FreshInv, CommitsOK
  <2>. QED  BY <1>a, <2>1, <2>3, <2>4, Zenon DEF FreshInv
<1>3. ASSUME NEW r, Receive(r) PROVE FreshInv'
  <2>1. UNCHANGED <<disk, path, mtime, cache, last, pass, cut>> /\ server.pc = "idle"
    BY <1>3, Zenon DEF Receive, noteVars
  <2>2. \/ server' = [server EXCEPT !.pc = "message", !.request = r, !.pin = 0] /\ answer' = answer
        \/ server' = server /\ \E why \in {"401", "413", "ok"} : answer' = [kind |-> why]
    BY <1>3, Zenon DEF Receive
  <2>3. /\ server'.pc \in {"idle", "message"} /\ server'.from = server.from /\ server'.seen = server.seen
        /\ server'.inode = server.inode /\ server'.raced = server.raced
    BY <1>b, <2>1, <2>2, Zenon DEF ServerFields
  <2>4. answer' = answer \/ answer'.kind \notin {"tool", "not found"}
    <3>1. ASSUME NEW why \in {"401", "413", "ok"}, answer' = [kind |-> why]
          PROVE  answer'.kind \notin {"tool", "not found"}
      BY <3>1, Zenon
    <3>. QED  BY <2>2, <3>1, Zenon
  <2>5. LookedOK' /\ TimesOK' /\ CommitsOK'
    BY <2>1, <2>3, Zenon DEF FreshInv, LookedOK, TimesOK, CommitsOK
  <2>. QED  BY <1>a, <2>1, <2>4, <2>5, OtherAnswers, Zenon DEF FreshInv
<1>4. CASE HandleOther \/ HandleCall
  BY <1>a, <1>4, HandleKeeps, Zenon DEF FreshInv
<1>5. CASE WriteAnswer
  <2>1. UNCHANGED <<disk, path, mtime, cache, last, pass, cut>> /\ server.pc = "write" /\ answer' = NoAnswer
        /\ server' = [server EXCEPT !.pc = "idle", !.pin = 0]
    BY <1>5, Zenon DEF WriteAnswer
  <2>2. /\ server'.pc = "idle" /\ server'.from = server.from /\ server'.seen = server.seen
        /\ server'.inode = server.inode /\ server'.raced = server.raced
    BY <1>b, <2>1, Zenon DEF ServerFields
  <2>3. LookedOK' /\ TimesOK' /\ CommitsOK'
    BY <2>1, <2>2, Zenon DEF FreshInv, LookedOK, TimesOK, CommitsOK
  <2>. QED  BY <1>a, <1>c, <2>1, <2>3, OtherAnswers, Zenon DEF FreshInv
<1>6. CASE ClientFails
  <2>1. UNCHANGED <<disk, path, mtime, cache, last, pass, cut>> /\ server' = Off /\ answer' = NoAnswer
    BY <1>6, Zenon DEF ClientFails, noteVars
  <2>2. LookedOK' /\ TimesOK' /\ CommitsOK'
    <3>1. server'.pc = "off" /\ server'.seen = 0 /\ server'.from = 0
      BY <1>c, <2>1, Zenon
    <3>2. LookedOK'
      BY <3>1 DEF LookedOK
    <3>3. \E i \in DOMAIN mtime : 0 <= mtime[i]
      BY <1>b, <1>d, Zenon
    <3>6. 0 \in Nat
      BY Zenon
    <3>4. TimesOK'
      BY <2>1, <3>1, <3>3, <3>6, Zenon DEF FreshInv, TimesOK
    <3>5. CommitsOK'
      BY <2>1, Zenon DEF FreshInv, CommitsOK
    <3>. QED  BY <3>2, <3>4, <3>5, Zenon
  <2>. QED  BY <1>a, <1>c, <2>1, <2>2, OtherAnswers, Zenon DEF FreshInv
<1>7. CASE UNCHANGED serveVars
  <2>1. UNCHANGED <<disk, path, mtime, cache, last, pass, cut, server, answer>>
    BY <1>7, Zenon DEF serveVars, serverVars, noteVars
  <2>2. LookedOK' /\ TimesOK' /\ CommitsOK'
    BY <2>1, Zenon DEF FreshInv, LookedOK, TimesOK, CommitsOK
  <2>. QED  BY <1>a, <2>1, <2>2, OtherAnswers, Zenon DEF FreshInv
<1>. QED  BY <1>1, <1>2, <1>3, <1>4, <1>5, <1>6, <1>7, Zenon DEF ServeNext, ServerStep

\* A tool that calls the index fresh answers from the symbols of the current commit,
\* whatever index runs, notes, deaths and reloads interleave with its message.
THEOREM FreshMeansFresh == ServeSpec => []FreshAnswersAreFresh
<1>1. ServeInit => FreshInv
  <2>. SUFFICES ASSUME ServeInit PROVE FreshInv
    BY Zenon
  <2>1. /\ disk = <<[nodes |-> tree, notes |-> {}, judged |-> tree, seen |-> {}]>> /\ path = 1 /\ mtime = <<1>>
        /\ cache = [t \in {tree} |-> disk[1]] /\ last = tree /\ server = Off /\ answer = NoAnswer
    BY Zenon DEF ServeInit, NoteInit
  <2>2. disk[1].nodes = tree /\ Len(disk) = 1 /\ DOMAIN disk = {1}
    BY <2>1
  <2>3. DOMAIN mtime = {1} /\ mtime[1] = 1 /\ IsSeq(mtime)
    <3>1. mtime \in Seq({1}) /\ DOMAIN mtime = {1} /\ mtime[1] = 1
      BY <2>1
    <3>2. {mtime[i] : i \in DOMAIN mtime} = {1}
      BY <3>1, Zenon
    <3>. QED  BY <3>1, <3>2, Zenon DEF IsSeq
  <2>4. server.seen = 0 /\ server.pc = "off" /\ server.from = 0 /\ answer.kind = "none"
    BY <2>1, Zenon DEF Off, NoAnswer
  <2>5. pass.pc = "idle"
    BY Zenon DEF ServeInit, NoteInit, NoPass
  <2>6. TimesOK
    BY <2>1, <2>2, <2>3, <2>4 DEF TimesOK
  <2>7. CommitsOK /\ LookedOK /\ AnswerOK
    BY <2>1, <2>2, <2>4, <2>5 DEF CommitsOK, LookedOK, AnswerOK, FreshAnswersAreFresh
  <2>. QED  BY <2>6, <2>7, FirstStore, Zenon DEF FreshInv
<1>2. FreshInv => FreshAnswersAreFresh
  BY Zenon DEF FreshInv, AnswerOK
<1>. QED  BY <1>1, <1>2, NextFresh, PTL DEF ServeSpec

-----------------------------------------------------------------------------
(* The derived rows.                                                       *)

Key(n) == <<n.path, Symbol(n), n.kind>>
IsNode(n) == n = [id |-> n.id, path |-> n.path, name |-> n.name, section |-> n.section, kind |-> n.kind, text |-> n.text]
IsDb(d) == d = [shape |-> d.shape, nodes |-> d.nodes, edges |-> d.edges, fts |-> d.fts, vec |-> d.vec]

\* Rows of a table: finitely many, each with a number of its own.
Numbered(nodes) ==
    /\ IsFiniteSet(nodes)
    /\ \A n \in nodes : IsNode(n) /\ n.id \in Nat
    /\ \A m, n \in nodes : m.id = n.id => m = n

\* Each full-text row is that of a node, and each node has one, under its name.
Twinned(nodes, fts) ==
    /\ \A r, s \in fts : r.id = s.id => r = s
    /\ \A r \in fts : \E n \in nodes : n.id = r.id
    /\ \A n \in nodes : \E r \in fts : r.id = n.id /\ r.name = Symbol(n)

\* The bodies of code outside some paths are the texts they were indexed with.
Filled(nodes, fts, paths) ==
    \A n \in nodes, r \in fts : r.id = n.id /\ n.kind = "code" /\ n.path \notin paths => r.body = Chunk(n)

\* What an upsert is given: finitely many rows, no two for one symbol.
IsBatch(batch) ==
    /\ IsFiniteSet(batch)
    /\ \A x \in batch : IsNode(x)
    /\ \A x, y \in batch : Key(x) = Key(y) => x = y

TreeOK ==
    /\ DOMAIN codeFiles = DOMAIN CodeFiles /\ DOMAIN noteFiles = DOMAIN NoteFiles
    /\ \A p \in DOMAIN CodeFiles : codeFiles[p] \in CodeFiles[p]
    /\ \A p \in DOMAIN NoteFiles : noteFiles[p] \in NoteFiles[p]

\* The values of a function on a finite set are finitely many.
LEMMA FiniteRange ==
  ASSUME NEW S, IsFiniteSet(S), NEW f, f = [x \in S |-> f[x]]
  PROVE  IsFiniteSet({f[x] : x \in S})
<1>. DEFINE T == {f[x] : x \in S}
<1>1. f \in [S -> T]
  BY Zenon
<1>2. f \in Surjection(S, T)
  BY <1>1, Zenon DEF Surjection
<1>. HIDE DEF T
<1>. QED
  BY <1>2, FS_Surjection, Zenon DEF T

\* The highest id is a number that none exceeds.
LEMMA TopIs ==
  ASSUME NEW nodes, Numbered(nodes)
  PROVE  Top(nodes) \in Nat /\ \A n \in nodes : n.id <= Top(nodes)
<1>. DEFINE f == [n \in nodes |-> n.id]
            S == Ids(nodes) \cup {0}
<1>1. IsFiniteSet({f[n] : n \in nodes})
  <2>1. IsFiniteSet(nodes) /\ f = [n \in nodes |-> f[n]]
    BY Zenon DEF Numbered
  <2>. HIDE DEF f
  <2>. QED  BY <2>1, FiniteRange, Zenon
<1>2. {f[n] : n \in nodes} = Ids(nodes)
  BY Zenon DEF Ids
<1>3. IsFiniteSet(S) /\ S \in SUBSET Nat /\ S # {}
  <2>1. Ids(nodes) \subseteq Nat
    BY Zenon DEF Ids, Numbered
  <2>2. IsFiniteSet(S)
    BY <1>1, <1>2, FS_AddElement, Zenon
  <2>. QED  BY <2>1, <2>2
<1>. HIDE DEF f, S
<1>4. PICK t \in S : \A u \in S : u <= t
  BY <1>3, HasGreatest, Zenon
<1>5. Top(nodes) \in S /\ \A j \in Ids(nodes) : j <= Top(nodes)
  BY <1>4, Zenon DEF Top, S
<1>. QED  BY <1>3, <1>5, Zenon DEF Ids

\* New rows can be numbered, and no two get one number.
LEMMA NumbersDiffer ==
  ASSUME NEW rows, IsFiniteSet(rows)
  PROVE  /\ \A x \in rows : Numbers(rows)[x] \in Nat /\ Numbers(rows)[x] >= 1
         /\ \A x, y \in rows : Numbers(rows)[x] = Numbers(rows)[y] => x = y
<1>. DEFINE k == Cardinality(rows)
            D(f) == \A x, y \in rows : f[x] = f[y] => x = y
<1>1. k \in Nat /\ ExistsBijection(1..k, rows)
  BY FS_CardinalityType, Zenon
<1>2. PICK g : g \in Bijection(1..k, rows)
  BY <1>1, Zenon DEF ExistsBijection
<1>3. /\ g \in [1..k -> rows]
      /\ \A x \in rows : \E i \in 1..k : g[i] = x
  BY <1>2, Zenon DEF Bijection, Injection, Surjection
<1>. DEFINE h == [x \in rows |-> CHOOSE i \in 1..k : g[i] = x]
<1>4. \A x \in rows : h[x] \in 1..k /\ g[h[x]] = x
  BY <1>3, Zenon
<1>5. h \in [rows -> 1..k] /\ D(h)
  BY <1>4, Zenon
<1>. HIDE DEF h
<1>6. Numbers(rows) \in [rows -> 1..k] /\ D(Numbers(rows))
  BY <1>5, Zenon DEF Numbers
<1>. QED  BY <1>1, <1>6

-----------------------------------------------------------------------------
(* An upsert, taken apart.                                                 *)

Old(nodes, x, reuse) == {n \in nodes : n.path = x.path /\ Symbol(n) = Symbol(x) /\ n.kind = x.kind /\ (reuse \/ n.text = x.text)}
Hit(nodes, batch, reuse) == UNION {{[x EXCEPT !.id = n.id] : n \in Old(nodes, x, reuse)} : x \in batch}
Missed(nodes, batch, reuse) == {x \in batch : Old(nodes, x, reuse) = {}}
Made(nodes, missed) == {[x EXCEPT !.id = Top(nodes) + Numbers(missed)[x]] : x \in missed}
Written(nodes, batch, reuse) == Hit(nodes, batch, reuse) \cup Made(nodes, Missed(nodes, batch, reuse))
Blank(new) == {TextRow(n, <<>>) : n \in new}

\* Replacing columns of a database.
LEMMA WithColumn ==
  ASSUME NEW d, IsDb(d), NEW rows
  PROVE  /\ [d EXCEPT !.nodes = rows] = [shape |-> d.shape, nodes |-> rows, edges |-> d.edges, fts |-> d.fts, vec |-> d.vec]
         /\ [d EXCEPT !.fts = rows] = [shape |-> d.shape, nodes |-> d.nodes, edges |-> d.edges, fts |-> rows, vec |-> d.vec]
         /\ [d EXCEPT !.edges = rows] = [shape |-> d.shape, nodes |-> d.nodes, edges |-> rows, fts |-> d.fts, vec |-> d.vec]
         /\ [d EXCEPT !.vec = rows] = [shape |-> d.shape, nodes |-> d.nodes, edges |-> d.edges, fts |-> d.fts, vec |-> rows]
         /\ [d EXCEPT !.shape = rows] = [shape |-> rows, nodes |-> d.nodes, edges |-> d.edges, fts |-> d.fts, vec |-> d.vec]
<1>1. PICK a, b, c, f, v : d = [shape |-> a, nodes |-> b, edges |-> c, fts |-> f, vec |-> v]
  BY Zenon DEF IsDb
<1>2. d.shape = a /\ d.nodes = b /\ d.edges = c /\ d.fts = f /\ d.vec = v
  BY <1>1, Zenon
<1>3. [d EXCEPT !.nodes = rows] = [shape |-> a, nodes |-> rows, edges |-> c, fts |-> f, vec |-> v]
  BY <1>1
<1>4. [d EXCEPT !.fts = rows] = [shape |-> a, nodes |-> b, edges |-> c, fts |-> rows, vec |-> v]
  BY <1>1
<1>5. [d EXCEPT !.edges = rows] = [shape |-> a, nodes |-> b, edges |-> rows, fts |-> f, vec |-> v]
  BY <1>1
<1>6. [d EXCEPT !.vec = rows] = [shape |-> a, nodes |-> b, edges |-> c, fts |-> f, vec |-> rows]
  BY <1>1
<1>7. [d EXCEPT !.shape = rows] = [shape |-> rows, nodes |-> b, edges |-> c, fts |-> f, vec |-> v]
  BY <1>1
<1>. QED  BY <1>2, <1>3, <1>4, <1>5, <1>6, <1>7, Zenon

PutRows(d, ns, fs) == [d EXCEPT !.nodes = ns, !.fts = fs]

\* Replacing the nodes and their full-text rows.
LEMMA WithRows ==
  ASSUME NEW d, NEW ns, NEW fs, IsDb(d)
  PROVE  IsDb(PutRows(d, ns, fs)) /\ PutRows(d, ns, fs).nodes = ns /\ PutRows(d, ns, fs).fts = fs
<1>. DEFINE e == [d EXCEPT !.nodes = ns]
            g == PutRows(d, ns, fs)
<1>1. g = [e EXCEPT !.fts = fs]
  BY Zenon DEF PutRows
<1>2. e = [shape |-> d.shape, nodes |-> ns, edges |-> d.edges, fts |-> d.fts, vec |-> d.vec]
  BY WithColumn, Zenon
<1>. HIDE DEF e, g
<1>3. IsDb(e) /\ e.shape = d.shape /\ e.nodes = ns /\ e.edges = d.edges /\ e.vec = d.vec
  BY <1>2, Zenon DEF IsDb
<1>4. [e EXCEPT !.fts = fs] = [shape |-> e.shape, nodes |-> e.nodes, edges |-> e.edges, fts |-> fs, vec |-> e.vec]
  BY <1>3, WithColumn, Zenon
<1>5. IsDb(g) /\ g.nodes = e.nodes /\ g.fts = fs
  BY <1>1, <1>4, Zenon DEF IsDb
<1>. QED  BY <1>3, <1>5, Zenon DEF g

\* An upsert writes these rows, and blank full-text rows for them.
LEMMA UpsertIs ==
  ASSUME NEW d, IsDb(d), NEW batch, NEW reuse
  PROVE  /\ IsDb(Upsert(d, batch, reuse))
         /\ Upsert(d, batch, reuse).nodes = Replace(d.nodes, Written(d.nodes, batch, reuse))
         /\ Upsert(d, batch, reuse).fts = Replace(d.fts, Blank(Written(d.nodes, batch, reuse)))
<1>. DEFINE new == Written(d.nodes, batch, reuse)
            rows == Replace(d.nodes, new)
            texts == Replace(d.fts, Blank(new))
            e == Upsert(d, batch, reuse)
<1>1. e = PutRows(d, rows, texts)
  BY Zenon DEF PutRows, Upsert, Written, Hit, Missed, Made, Old, Blank
<1>. HIDE DEF rows, texts, e
<1>2. IsDb(PutRows(d, rows, texts)) /\ PutRows(d, rows, texts).nodes = rows /\ PutRows(d, rows, texts).fts = texts
  BY WithRows
<1>3. IsDb(e) /\ e.nodes = rows /\ e.fts = texts
  BY <1>1, <1>2, Zenon
<1>. QED  BY <1>3, Zenon DEF rows, texts, e

\* A row with the number it is stored under.
Stamped(x, i) == [x EXCEPT !.id = i]

\* A row that is given a number keeps its key.
LEMMA StampedIs ==
  ASSUME NEW x, IsNode(x), NEW i
  PROVE  /\ IsNode(Stamped(x, i)) /\ Stamped(x, i).id = i
         /\ Key(Stamped(x, i)) = Key(x) /\ Stamped(x, i).path = x.path /\ Stamped(x, i).kind = x.kind
<1>1. Stamped(x, i) = [id |-> i, path |-> x.path, name |-> x.name, section |-> x.section, kind |-> x.kind, text |-> x.text]
  BY DEF Stamped, IsNode
<1>. QED  BY <1>1 DEF IsNode, Key, Symbol

\* Written rows have numbers of their own, and paths and kinds of the batch.
LEMMA WrittenIs ==
  ASSUME NEW nodes, Numbered(nodes), NEW batch, IsBatch(batch), NEW reuse
  PROVE  /\ Numbered(Written(nodes, batch, reuse))
         /\ \A n \in Written(nodes, batch, reuse) : \E x \in batch : n.path = x.path /\ n.kind = x.kind
<1>. DEFINE missed == Missed(nodes, batch, reuse)
            hit == Hit(nodes, batch, reuse)
            made == Made(nodes, missed)
            top == Top(nodes)
            num == Numbers(missed)
            Like(n, x) == IsNode(n) /\ Key(n) = Key(x) /\ n.path = x.path /\ n.kind = x.kind
<1>1. top \in Nat /\ \A n \in nodes : n.id \in Nat /\ n.id <= top
  BY TopIs, Zenon DEF Numbered
<1>2. missed \subseteq batch /\ IsFiniteSet(missed)
  <2>1. missed \in SUBSET batch
    BY Zenon DEF Missed
  <2>. QED  BY <2>1, FS_Subset, Zenon DEF IsBatch
<1>3. /\ \A x \in missed : num[x] \in Nat /\ num[x] >= 1
      /\ \A x, y \in missed : num[x] = num[y] => x = y
  BY <1>2, NumbersDiffer, Zenon
<1>4. ASSUME NEW n \in hit
      PROVE  \E x \in batch : \E o \in nodes : n = Stamped(x, o.id) /\ n.id = o.id /\ Key(o) = Key(x) /\ Like(n, x)
  <2>1. PICK x \in batch : \E o \in Old(nodes, x, reuse) : n = Stamped(x, o.id)
    BY Zenon DEF Hit, Stamped
  <2>2. PICK o \in Old(nodes, x, reuse) : n = Stamped(x, o.id)
    BY <2>1, Zenon
  <2>3. o \in nodes /\ Key(o) = Key(x)
    BY Zenon DEF Old, Key
  <2>4. n.id = o.id /\ Like(n, x)
    BY <2>2, StampedIs, Zenon DEF IsBatch
  <2>. QED  BY <2>2, <2>3, <2>4, Zenon
<1>5. ASSUME NEW n \in made
      PROVE  \E x \in missed : n = Stamped(x, top + num[x]) /\ n.id = top + num[x] /\ Like(n, x)
  <2>1. PICK x \in missed : n = Stamped(x, top + num[x])
    BY Zenon DEF Made, Stamped
  <2>2. IsNode(x)
    BY <1>2, Zenon DEF IsBatch
  <2>3. n.id = top + num[x] /\ Like(n, x)
    BY <2>1, <2>2, StampedIs, Zenon
  <2>. QED  BY <2>1, <2>3, Zenon
<1>6. ASSUME NEW n \in made PROVE n.id \in Nat /\ n.id > top
  BY <1>1, <1>3, <1>5
<1>7. ASSUME NEW n \in hit PROVE n.id \in Nat /\ n.id <= top
  BY <1>1, <1>4, Zenon
<1>8. IsFiniteSet(hit)
  <2>. DEFINE P == batch \X nodes
              f == [p \in P |-> Stamped(p[1], p[2].id)]
              T == {f[p] : p \in P}
  <2>1. IsFiniteSet(P)
    BY FS_Product, Zenon DEF IsBatch, Numbered
  <2>2. IsFiniteSet(T)
    <3>1. f = [p \in P |-> f[p]]
      BY Zenon
    <3>. HIDE DEF f, P
    <3>. QED  BY <2>1, <3>1, FiniteRange, Zenon
  <2>3. ASSUME NEW n \in hit PROVE n \in T
    <3>1. PICK x \in batch : \E o \in nodes : n = Stamped(x, o.id)
      BY <1>4, Zenon
    <3>2. PICK o \in nodes : n = Stamped(x, o.id)
      BY <3>1, Zenon
    <3>3. <<x, o>> \in P /\ f[<<x, o>>] = Stamped(x, o.id)
      BY Zenon
    <3>. QED  BY <3>2, <3>3, Zenon
  <2>. HIDE DEF T, hit
  <2>4. hit \in SUBSET T
    BY <2>3, Zenon
  <2>. QED  BY <2>2, <2>4, FS_Subset, Zenon
<1>9. IsFiniteSet(made)
  <2>. DEFINE f == [x \in missed |-> Stamped(x, top + num[x])]
  <2>1. made = {f[x] : x \in missed}
    BY Zenon DEF Made, Stamped
  <2>2. f = [x \in missed |-> f[x]]
    BY Zenon
  <2>. HIDE DEF f, made, missed
  <2>. QED  BY <1>2, <2>1, <2>2, FiniteRange, Zenon
<1>. HIDE DEF missed, hit, made, top, num
<1>10. ASSUME NEW m \in hit, NEW n \in hit, m.id = n.id PROVE m = n
  <2>1. PICK x \in batch, o \in nodes : m = Stamped(x, o.id) /\ m.id = o.id /\ Key(o) = Key(x)
    BY <1>4, Zenon
  <2>2. PICK y \in batch, q \in nodes : n = Stamped(y, q.id) /\ n.id = q.id /\ Key(q) = Key(y)
    BY <1>4, Zenon
  <2>3. o = q
    BY <1>10, <2>1, <2>2, Zenon DEF Numbered
  <2>4. x = y
    BY <2>1, <2>2, <2>3, Zenon DEF IsBatch
  <2>. QED  BY <2>1, <2>2, <2>3, <2>4, Zenon
<1>11. ASSUME NEW m \in made, NEW n \in made, m.id = n.id PROVE m = n
  <2>1. PICK x \in missed : m = Stamped(x, top + num[x]) /\ m.id = top + num[x]
    BY <1>5, Zenon
  <2>2. PICK y \in missed : n = Stamped(y, top + num[y]) /\ n.id = top + num[y]
    BY <1>5, Zenon
  <2>3. num[x] \in Nat /\ num[y] \in Nat /\ top + num[x] = top + num[y]
    BY <1>3, <1>11, <2>1, <2>2, Zenon
  <2>4. num[x] = num[y]
    BY <1>1, <2>3
  <2>. QED  BY <1>3, <2>1, <2>2, <2>4, Zenon
<1>12. ASSUME NEW m \in hit, NEW n \in made PROVE m.id # n.id
  <2>1. m.id \in Nat /\ m.id <= top /\ n.id \in Nat /\ n.id > top
    BY <1>6, <1>7, Zenon
  <2>. QED  BY <1>1, <2>1
<1>. DEFINE new == hit \cup made
<1>13. IsFiniteSet(new)
  BY <1>8, <1>9, FS_Union, Zenon
<1>14. ASSUME NEW n \in new PROVE n.id \in Nat /\ \E x \in batch : Like(n, x)
  BY <1>2, <1>4, <1>5, <1>6, <1>7, Zenon
<1>15. ASSUME NEW m \in new, NEW n \in new, m.id = n.id PROVE m = n
  BY <1>10, <1>11, <1>12, <1>15, Zenon
<1>16. Numbered(new)
  BY <1>13, <1>14, <1>15, Zenon DEF Numbered
<1>17. Written(nodes, batch, reuse) = new
  BY Zenon DEF Written, hit, made, missed
<1>. HIDE DEF new
<1>. QED  BY <1>14, <1>16, <1>17, Zenon

-----------------------------------------------------------------------------
(* What the parts of a pass keep.                                          *)

\* Replaced rows are numbered as the old and the new ones are.
LEMMA ReplaceNumbered ==
  ASSUME NEW nodes, Numbered(nodes), NEW new, Numbered(new)
  PROVE  Numbered(Replace(nodes, new))
<1>. DEFINE kept == Without(nodes, Ids(new))
<1>1. kept \in SUBSET nodes /\ \A m \in kept, n \in new : m.id # n.id
  BY Zenon DEF Without, Ids
<1>2. IsFiniteSet(kept)
  BY <1>1, FS_Subset, Zenon DEF Numbered
<1>. HIDE DEF kept
<1>3. IsFiniteSet(kept \cup new)
  BY <1>2, FS_Union, Zenon DEF Numbered
<1>4. Numbered(kept \cup new)
  BY <1>1, <1>3, Zenon DEF Numbered
<1>. QED  BY <1>4, Zenon DEF Replace, kept

\* The rows and full-text rows after a replacement.
LEMMA ReplaceIs ==
  ASSUME NEW nodes, NEW fts, NEW new, NEW texts, Ids(texts) = Ids(new)
  PROVE  /\ \A n : n \in Replace(nodes, new) <=> n \in new \/ (n \in nodes /\ n.id \notin Ids(new))
         /\ \A r : r \in Replace(fts, texts) <=> r \in texts \/ (r \in fts /\ r.id \notin Ids(new))
         /\ \A n \in new : n.id \in Ids(new)
         /\ \A r \in texts : r.id \in Ids(new)
BY Zenon DEF Replace, Without, Ids

\* Full-text rows made for nodes are twins of theirs.
LEMMA TextsTwinned ==
  ASSUME NEW new, Numbered(new), NEW texts,
         \A r \in texts : \E n \in new : r.id = n.id /\ r.name = Symbol(n),
         \A r, s \in texts : r.id = s.id => r = s,
         \A n \in new : \E r \in texts : r.id = n.id
  PROVE  Twinned(new, texts) /\ Ids(texts) = Ids(new)
<1>1. ASSUME NEW n \in new PROVE \E r \in texts : r.id = n.id /\ r.name = Symbol(n)
  <2>1. PICK r \in texts : r.id = n.id
    BY Zenon
  <2>2. PICK m \in new : r.id = m.id /\ r.name = Symbol(m)
    BY Zenon
  <2>3. m = n
    BY <2>1, <2>2, Zenon DEF Numbered
  <2>. QED  BY <2>1, <2>2, <2>3, Zenon
<1>2. \A r \in texts : \E n \in new : n.id = r.id
  BY Zenon
<1>3. Twinned(new, texts)
  BY <1>1, <1>2, Zenon DEF Twinned
<1>4. Ids(texts) = Ids(new)
  <2>1. ASSUME NEW r \in texts PROVE r.id \in Ids(new)
    BY <1>2, Zenon DEF Ids
  <2>2. ASSUME NEW n \in new PROVE n.id \in Ids(texts)
    BY <1>1, Zenon DEF Ids
  <2>. QED  BY <2>1, <2>2, Zenon DEF Ids
<1>. QED  BY <1>3, <1>4, Zenon

\* Rows replaced together with their full-text rows stay twins.
LEMMA ReplaceTwinned ==
  ASSUME NEW nodes, NEW fts, Twinned(nodes, fts), NEW new, NEW texts, Twinned(new, texts), Ids(texts) = Ids(new)
  PROVE  Twinned(Replace(nodes, new), Replace(fts, texts))
<1>. DEFINE ns == Replace(nodes, new)
            fs == Replace(fts, texts)
<1>1. /\ \A n : n \in ns <=> n \in new \/ (n \in nodes /\ n.id \notin Ids(new))
      /\ \A r : r \in fs <=> r \in texts \/ (r \in fts /\ r.id \notin Ids(new))
      /\ \A n \in new : n.id \in Ids(new)
      /\ \A r \in texts : r.id \in Ids(new)
  BY ReplaceIs, Zenon
<1>. HIDE DEF ns, fs
<1>2. ASSUME NEW r \in fs, NEW s \in fs, r.id = s.id PROVE r = s
  BY <1>1, <1>2, Zenon DEF Twinned
<1>3. ASSUME NEW r \in fs PROVE \E n \in ns : n.id = r.id
  BY <1>1, Zenon DEF Twinned
<1>4. ASSUME NEW n \in ns PROVE \E r \in fs : r.id = n.id /\ r.name = Symbol(n)
  BY <1>1, Zenon DEF Twinned
<1>5. Twinned(ns, fs)
  BY <1>2, <1>3, <1>4, Zenon DEF Twinned
<1>. QED  BY <1>5, Zenon DEF ns, fs

\* An upsert keeps nodes numbered and twinned, and the bodies of code that is
\* not in the batch.
LEMMA UpsertKeeps ==
  ASSUME NEW d, IsDb(d), Numbered(d.nodes), NEW batch, IsBatch(batch), NEW reuse
  PROVE  LET e == Upsert(d, batch, reuse)
         IN /\ IsDb(e) /\ Numbered(e.nodes)
            /\ Twinned(d.nodes, d.fts) => Twinned(e.nodes, e.fts)
            /\ \A paths : /\ Filled(d.nodes, d.fts, paths)
                          /\ \A x \in batch : x.kind = "code" => x.path \in paths
                          => Filled(e.nodes, e.fts, paths)
<1>. DEFINE e == Upsert(d, batch, reuse)
            new == Written(d.nodes, batch, reuse)
            texts == Blank(new)
<1>1. IsDb(e) /\ e.nodes = Replace(d.nodes, new) /\ e.fts = Replace(d.fts, texts)
  BY UpsertIs, Zenon
<1>2. Numbered(new) /\ \A n \in new : \E x \in batch : n.path = x.path /\ n.kind = x.kind
  BY WrittenIs
<1>. HIDE DEF e, new
<1>3. Twinned(new, texts) /\ Ids(texts) = Ids(new)
  <2>1. ASSUME NEW n \in new PROVE TextRow(n, <<>>).id = n.id /\ TextRow(n, <<>>).name = Symbol(n)
    BY Zenon DEF TextRow
  <2>2. \A r \in texts : \E n \in new : r = TextRow(n, <<>>)
    BY Zenon DEF Blank
  <2>3. \A n \in new : TextRow(n, <<>>) \in texts
    BY Zenon DEF Blank
  <2>. HIDE DEF texts
  <2>4. \A r \in texts : \E n \in new : r.id = n.id /\ r.name = Symbol(n)
    BY <2>1, <2>2, Zenon
  <2>5. ASSUME NEW r \in texts, NEW s \in texts, r.id = s.id PROVE r = s
    <3>1. PICK m \in new : r = TextRow(m, <<>>)
      BY <2>2, Zenon
    <3>2. PICK n \in new : s = TextRow(n, <<>>)
      BY <2>2, Zenon
    <3>3. m = n
      BY <1>2, <2>1, <2>5, <3>1, <3>2, Zenon DEF Numbered
    <3>. QED  BY <3>1, <3>2, <3>3, Zenon
  <2>6. \A n \in new : \E r \in texts : r.id = n.id
    BY <2>1, <2>3, Zenon
  <2>. QED  BY <1>2, <2>4, <2>5, <2>6, TextsTwinned, Zenon
<1>. HIDE DEF texts
<1>4. Numbered(e.nodes)
  BY <1>1, <1>2, ReplaceNumbered, Zenon
<1>5. Twinned(d.nodes, d.fts) => Twinned(e.nodes, e.fts)
  BY <1>1, <1>3, ReplaceTwinned, Zenon
<1>6. ASSUME NEW paths, Filled(d.nodes, d.fts, paths), \A x \in batch : x.kind = "code" => x.path \in paths
      PROVE  Filled(e.nodes, e.fts, paths)
  <2>. SUFFICES ASSUME NEW n \in e.nodes, NEW r \in e.fts, r.id = n.id, n.kind = "code", n.path \notin paths
                PROVE  r.body = Chunk(n)
    BY Zenon DEF Filled
  <2>1. n \notin new
    BY <1>2, <1>6, Zenon
  <2>2. n \in d.nodes /\ r \in d.fts
    <3>1. /\ n \in new \/ (n \in d.nodes /\ n.id \notin Ids(new))
          /\ r \in texts \/ (r \in d.fts /\ r.id \notin Ids(new))
          /\ \A t \in texts : t.id \in Ids(new)
      BY <1>1, <1>3, ReplaceIs
    <3>. QED  BY <2>1, <3>1, Zenon
  <2>. QED  BY <1>6, <2>2, Zenon DEF Filled
<1>. QED  BY <1>1, <1>4, <1>5, <1>6, Zenon DEF e

\* A database as a pass has it: with twins, and bodies but for some paths, where
\* these are due.
Indexed(d, tw, fl, paths) ==
    /\ IsDb(d) /\ Numbered(d.nodes)
    /\ tw => Twinned(d.nodes, d.fts)
    /\ fl => Filled(d.nodes, d.fts, paths)

\* An upsert keeps it, when it changes code of these paths only.
LEMMA UpsertIndexed ==
  ASSUME NEW d, NEW tw, NEW fl, NEW paths, Indexed(d, tw, fl, paths),
         NEW batch, IsBatch(batch), \A x \in batch : x.kind = "code" => x.path \in paths, NEW reuse
  PROVE  Indexed(Upsert(d, batch, reuse), tw, fl, paths)
<1>1. IsDb(d) /\ Numbered(d.nodes) /\ (tw => Twinned(d.nodes, d.fts)) /\ (fl => Filled(d.nodes, d.fts, paths))
  BY Zenon DEF Indexed
<1>. DEFINE e == Upsert(d, batch, reuse)
<1>2. /\ IsDb(e) /\ Numbered(e.nodes)
      /\ Twinned(d.nodes, d.fts) => Twinned(e.nodes, e.fts)
      /\ Filled(d.nodes, d.fts, paths) => Filled(e.nodes, e.fts, paths)
  BY <1>1, UpsertKeeps, Zenon
<1>. HIDE DEF e
<1>3. Indexed(e, tw, fl, paths)
  BY <1>1, <1>2, Zenon DEF Indexed
<1>. QED  BY <1>3, Zenon DEF e

\* Nodes are deleted together with their full-text rows.
LEMMA PurgeIndexed ==
  ASSUME NEW d, NEW tw, NEW fl, NEW paths, Indexed(d, tw, fl, paths), NEW gone, gone \subseteq d.nodes
  PROVE  Indexed(Purge(d, gone), tw, fl, paths)
<1>. DEFINE e == Purge(d, gone)
            ns == d.nodes \ gone
            fs == Without(d.fts, Ids(gone))
<1>1. IsDb(d) /\ Numbered(d.nodes) /\ (tw => Twinned(d.nodes, d.fts)) /\ (fl => Filled(d.nodes, d.fts, paths))
  BY Zenon DEF Indexed
<1>2. e = PutRows(d, ns, fs)
  BY Zenon DEF Purge, PutRows
<1>3. ns \in SUBSET d.nodes /\ fs \in SUBSET d.fts /\ \A r \in d.fts : r \in fs <=> r.id \notin Ids(gone)
  BY Zenon DEF Without
<1>4. \A n \in ns : n \in d.nodes /\ n.id \notin Ids(gone)
  BY <1>1, Zenon DEF Numbered, Ids
<1>5. \A n \in d.nodes : n.id \notin Ids(gone) => n \in ns
  BY Zenon DEF Ids
<1>. HIDE DEF e, ns, fs
<1>6. IsDb(e) /\ e.nodes = ns /\ e.fts = fs
  BY <1>1, <1>2, WithRows
<1>7. IsFiniteSet(ns)
  BY <1>1, <1>3, FS_Subset, Zenon DEF Numbered
<1>8. Numbered(ns)
  BY <1>1, <1>3, <1>7, Zenon DEF Numbered
<1>9. ASSUME Twinned(d.nodes, d.fts) PROVE Twinned(ns, fs)
  <2>1. ASSUME NEW r \in fs PROVE \E n \in ns : n.id = r.id
    <3>1. r \in d.fts /\ r.id \notin Ids(gone)
      BY <1>3, Zenon
    <3>2. PICK n \in d.nodes : n.id = r.id
      BY <1>9, <3>1, Zenon DEF Twinned
    <3>. QED  BY <1>5, <3>1, <3>2, Zenon
  <2>2. ASSUME NEW n \in ns PROVE \E r \in fs : r.id = n.id /\ r.name = Symbol(n)
    <3>1. PICK r \in d.fts : r.id = n.id /\ r.name = Symbol(n)
      BY <1>4, <1>9, Zenon DEF Twinned
    <3>. QED  BY <1>3, <1>4, <3>1, Zenon
  <2>. QED  BY <1>3, <1>9, <2>1, <2>2, Zenon DEF Twinned
<1>10. ASSUME Filled(d.nodes, d.fts, paths) PROVE Filled(ns, fs, paths)
  BY <1>3, <1>10, Zenon DEF Filled
<1>11. Indexed(e, tw, fl, paths)
  BY <1>1, <1>6, <1>8, <1>9, <1>10, Zenon DEF Indexed
<1>. QED  BY <1>11, Zenon DEF e

\* Filling in the text of some paths leaves only what is excluded.
LEMMA FillIndexed ==
  ASSUME NEW d, NEW tw, NEW fl, NEW wide, NEW paths, NEW rest, Indexed(d, tw, fl, wide),
         exclude \subseteq rest, wide \subseteq rest \cup paths
  PROVE  Indexed(FillText(d, paths), tw, fl, rest)
<1>. DEFINE e == FillText(d, paths)
            sel == {m \in d.nodes : m.path \in paths \ exclude /\ m.id \in Ids(d.fts)}
            texts == {TextRow(n, Chunk(n)) : n \in sel}
            fs == Replace(d.fts, texts)
<1>1. IsDb(d) /\ Numbered(d.nodes) /\ (tw => Twinned(d.nodes, d.fts)) /\ (fl => Filled(d.nodes, d.fts, wide))
  BY Zenon DEF Indexed
<1>2. e = [shape |-> d.shape, nodes |-> d.nodes, edges |-> d.edges, fts |-> fs, vec |-> d.vec]
  <2>1. e = [d EXCEPT !.fts = fs]
    BY Zenon DEF FillText
  <2>. HIDE DEF fs, e
  <2>. QED  BY <1>1, <2>1, WithColumn, Zenon
<1>3. sel \in SUBSET d.nodes
  BY Zenon
<1>4. ASSUME NEW n \in sel
      PROVE  TextRow(n, Chunk(n)).id = n.id /\ TextRow(n, Chunk(n)).name = Symbol(n) /\ TextRow(n, Chunk(n)).body = Chunk(n)
  BY Zenon DEF TextRow
<1>5. (\A r \in texts : \E n \in sel : r = TextRow(n, Chunk(n))) /\ \A n \in sel : TextRow(n, Chunk(n)) \in texts
  BY Zenon
<1>6. ASSUME NEW n \in d.nodes, NEW r \in d.fts, r.id = n.id, n.path \in paths, n.path \notin rest PROVE n \in sel
  BY <1>6, Zenon DEF Ids
<1>. HIDE DEF e, fs, sel, texts
<1>7. IsDb(e) /\ e.nodes = d.nodes /\ e.fts = fs
  BY <1>2, Zenon DEF IsDb
<1>8. IsFiniteSet(sel)
  BY <1>1, <1>3, FS_Subset, Zenon DEF Numbered
<1>9. Numbered(sel)
  BY <1>1, <1>3, <1>8, Zenon DEF Numbered
<1>10. \A r \in texts : \E n \in sel : r.id = n.id /\ r.name = Symbol(n) /\ r.body = Chunk(n)
  BY <1>4, <1>5, Zenon
<1>11. Twinned(sel, texts) /\ Ids(texts) = Ids(sel)
  <2>1. \A r \in texts : \E n \in sel : r.id = n.id /\ r.name = Symbol(n)
    BY <1>10, Zenon
  <2>2. ASSUME NEW r \in texts, NEW s \in texts, r.id = s.id PROVE r = s
    <3>1. PICK m \in sel : r = TextRow(m, Chunk(m))
      BY <1>5, Zenon
    <3>2. PICK n \in sel : s = TextRow(n, Chunk(n))
      BY <1>5, Zenon
    <3>3. m = n
      BY <1>4, <1>9, <2>2, <3>1, <3>2, Zenon DEF Numbered
    <3>. QED  BY <3>1, <3>2, <3>3, Zenon
  <2>3. \A n \in sel : \E r \in texts : r.id = n.id
    BY <1>4, <1>5, Zenon
  <2>. QED  BY <1>9, <2>1, <2>2, <2>3, TextsTwinned, Zenon
<1>12. Replace(d.nodes, sel) = d.nodes
  <2>1. ASSUME NEW n \in d.nodes, n \notin sel PROVE n.id \notin Ids(sel)
    BY <1>1, <1>3, <2>1, Zenon DEF Numbered, Ids
  <2>. QED  BY <1>3, <2>1, Zenon DEF Replace, Without
<1>13. ASSUME Twinned(d.nodes, d.fts) PROVE Twinned(d.nodes, fs)
  <2>1. Twinned(Replace(d.nodes, sel), Replace(d.fts, texts))
    BY <1>11, <1>13, ReplaceTwinned, Zenon
  <2>. QED  BY <1>12, <2>1, Zenon DEF fs
<1>14. ASSUME Filled(d.nodes, d.fts, wide) PROVE Filled(d.nodes, fs, rest)
  <2>. SUFFICES ASSUME NEW n \in d.nodes, NEW r \in fs, r.id = n.id, n.kind = "code", n.path \notin rest
                PROVE  r.body = Chunk(n)
    BY Zenon DEF Filled
  <2>1. r \in texts \/ (r \in d.fts /\ r.id \notin Ids(texts))
    BY Zenon DEF fs, Replace, Without
  <2>2. CASE r \in texts
    <3>1. PICK m \in sel : r.id = m.id /\ r.body = Chunk(m)
      BY <1>10, <2>2, Zenon
    <3>2. m = n
      BY <1>1, <1>3, <3>1, Zenon DEF Numbered
    <3>. QED  BY <3>1, <3>2, Zenon
  <2>3. CASE r \in d.fts /\ r.id \notin Ids(texts)
    <3>1. n \notin sel
      BY <1>11, <2>3, Zenon DEF Ids
    <3>2. n.path \notin wide
      BY <1>6, <2>3, <3>1, Zenon
    <3>. QED  BY <1>14, <2>3, <3>2, Zenon DEF Filled
  <2>. QED  BY <2>1, <2>2, <2>3, Zenon
<1>15. Indexed(e, tw, fl, rest)
  BY <1>1, <1>7, <1>13, <1>14, Zenon DEF Indexed
<1>. QED  BY <1>15, Zenon DEF e

\* Fewer bodies may be asked for.
LEMMA MoreIndexed ==
  ASSUME NEW d, NEW tw, NEW fl, NEW paths, Indexed(d, tw, fl, paths), NEW more, paths \subseteq more
  PROVE  Indexed(d, tw, fl, more)
<1>1. Filled(d.nodes, d.fts, paths) => Filled(d.nodes, d.fts, more)
  BY Zenon DEF Filled
<1>. QED  BY <1>1, Zenon DEF Indexed

\* The embedding rows do not matter.
LEMMA VecIndexed ==
  ASSUME NEW d, NEW tw, NEW fl, NEW paths, Indexed(d, tw, fl, paths), NEW rows
  PROVE  Indexed([d EXCEPT !.vec = rows], tw, fl, paths)
<1>. DEFINE e == [d EXCEPT !.vec = rows]
<1>1. e = [shape |-> d.shape, nodes |-> d.nodes, edges |-> d.edges, fts |-> d.fts, vec |-> rows]
  BY WithColumn, Zenon DEF Indexed
<1>. HIDE DEF e
<1>2. IsDb(e) /\ e.nodes = d.nodes /\ e.fts = d.fts
  BY <1>1, Zenon DEF IsDb
<1>3. Indexed(e, tw, fl, paths)
  BY <1>2, Zenon DEF Indexed
<1>. QED  BY <1>3, Zenon DEF e

\* The edges do not matter.
LEMMA EdgesIndexed ==
  ASSUME NEW d, NEW tw, NEW fl, NEW paths, Indexed(d, tw, fl, paths), NEW rows
  PROVE  Indexed([d EXCEPT !.edges = rows], tw, fl, paths)
<1>. DEFINE e == [d EXCEPT !.edges = rows]
<1>1. e = [shape |-> d.shape, nodes |-> d.nodes, edges |-> rows, fts |-> d.fts, vec |-> d.vec]
  BY WithColumn, Zenon DEF Indexed
<1>. HIDE DEF e
<1>2. IsDb(e) /\ e.nodes = d.nodes /\ e.fts = d.fts
  BY <1>1, Zenon DEF IsDb
<1>3. Indexed(e, tw, fl, paths)
  BY <1>2, Zenon DEF Indexed
<1>. QED  BY <1>3, Zenon DEF e

\* The shape of the full-text table does not matter.
LEMMA ShapeIndexed ==
  ASSUME NEW d, NEW tw, NEW fl, NEW paths, Indexed(d, tw, fl, paths), NEW shape
  PROVE  Indexed([d EXCEPT !.shape = shape], tw, fl, paths)
<1>. DEFINE e == [d EXCEPT !.shape = shape]
<1>1. e = [shape |-> shape, nodes |-> d.nodes, edges |-> d.edges, fts |-> d.fts, vec |-> d.vec]
  BY WithColumn, Zenon DEF Indexed
<1>. HIDE DEF e
<1>2. IsDb(e) /\ e.nodes = d.nodes /\ e.fts = d.fts
  BY <1>1, Zenon DEF IsDb
<1>3. Indexed(e, tw, fl, paths)
  BY <1>2, Zenon DEF Indexed
<1>. QED  BY <1>3, Zenon DEF e

-----------------------------------------------------------------------------
(* What a pass upserts.                                                    *)

\* Finitely many finite sets have a finite union.
LEMMA FiniteFamily ==
  ASSUME NEW S, IsFiniteSet(S), NEW F, F = [x \in S |-> F[x]], \A x \in S : IsFiniteSet(F[x])
  PROVE  IsFiniteSet(UNION {F[x] : x \in S})
<1>. DEFINE T == {F[x] : x \in S}
<1>1. IsFiniteSet(T)
  BY FiniteRange, Zenon
<1>2. \A U \in T : IsFiniteSet(U)
  BY Zenon
<1>. HIDE DEF T
<1>3. IsFiniteSet(UNION T)
  BY <1>1, <1>2, FS_UNION, Zenon
<1>. QED  BY <1>3, Zenon DEF T

\* A node before it has a number.
LEMMA NodeIsNode == ASSUME NEW p, NEW name, NEW kind, NEW text PROVE IsNode(Node(p, name, kind, text))
BY Zenon DEF Node, IsNode

\* Its key has no section.
LEMMA NodeKey ==
  ASSUME NEW p, NEW name, NEW kind, NEW text
  PROVE  Key(Node(p, name, kind, text)) = <<p, <<name, "">>, kind>>
BY Zenon DEF Node, Key, Symbol

\* Its path is the one it was made for.
LEMMA NodePath == ASSUME NEW p, NEW name, NEW kind, NEW text PROVE Node(p, name, kind, text).path = p
BY Zenon DEF Node

\* Its kind is the one it was made with.
LEMMA NodeKind == ASSUME NEW p, NEW name, NEW kind, NEW text PROVE Node(p, name, kind, text).kind = kind
BY Zenon DEF Node

\* The symbols of a code file are finitely many, no two of one name.
LEMMA CodeBatch ==
  ASSUME TreeOK, NEW paths
  PROVE  IsBatch(CodeNodes(paths)) /\ \A x \in CodeNodes(paths) : x.path \in paths
<1>. DEFINE S == paths \cap DOMAIN codeFiles
            F == [p \in S |-> {Node(p, s, "code", codeFiles[p][s]) : s \in DOMAIN codeFiles[p]}]
<1>1. IsFiniteSet(S)
  <2>1. IsFiniteSet(DOMAIN codeFiles)
    BY DerivedAssumption, Zenon DEF TreeOK
  <2>2. S \in SUBSET DOMAIN codeFiles
    BY Zenon
  <2>. HIDE DEF S
  <2>. QED  BY <2>1, <2>2, FS_Subset, Zenon
<1>2. CodeNodes(paths) = UNION {F[p] : p \in S}
  BY Zenon DEF CodeNodes
<1>3. ASSUME NEW p \in S PROVE IsFiniteSet(F[p])
  <2>. DEFINE D == DOMAIN codeFiles[p]
              f == [s \in D |-> Node(p, s, "code", codeFiles[p][s])]
  <2>1. IsFiniteSet(D)
    BY DerivedAssumption, Zenon DEF TreeOK
  <2>2. F[p] = {f[s] : s \in D}
    BY Zenon
  <2>3. f = [s \in D |-> f[s]]
    BY Zenon
  <2>. HIDE DEF f, D, F
  <2>4. IsFiniteSet({f[s] : s \in D})
    BY <2>1, <2>3, FiniteRange, Zenon
  <2>. QED  BY <2>2, <2>4, Zenon
<1>4. ASSUME NEW x \in CodeNodes(paths)
      PROVE  \E p \in S : \E s \in DOMAIN codeFiles[p] : x = Node(p, s, "code", codeFiles[p][s])
  BY Zenon DEF CodeNodes
<1>5. F = [p \in S |-> F[p]] /\ S \subseteq paths
  BY Zenon
<1>. HIDE DEF S, F
<1>6. IsFiniteSet(CodeNodes(paths))
  <2>1. \A p \in S : IsFiniteSet(F[p])
    BY <1>3, Zenon
  <2>2. F = [p \in S |-> F[p]]
    BY <1>5, Zenon
  <2>3. IsFiniteSet(UNION {F[p] : p \in S})
    BY <1>1, <2>1, <2>2, FiniteFamily
  <2>. QED  BY <1>2, <2>3, Zenon
<1>7. ASSUME NEW x \in CodeNodes(paths) PROVE IsNode(x) /\ x.path \in paths
  <2>1. PICK p \in S : \E s \in DOMAIN codeFiles[p] : x = Node(p, s, "code", codeFiles[p][s])
    BY <1>4, Zenon
  <2>2. PICK t, s : x = Node(p, s, "code", t)
    BY <2>1, Zenon
  <2>3. IsNode(x)
    BY <2>2, NodeIsNode, Zenon
  <2>4. x.path = p
    BY <2>2, NodePath, Zenon
  <2>. QED  BY <1>5, <2>3, <2>4, Zenon
<1>8. ASSUME NEW x \in CodeNodes(paths), NEW y \in CodeNodes(paths), Key(x) = Key(y) PROVE x = y
  <2>1. PICK p \in S : \E s \in DOMAIN codeFiles[p] : x = Node(p, s, "code", codeFiles[p][s])
    BY <1>4, Zenon
  <2>2. PICK s \in DOMAIN codeFiles[p] : x = Node(p, s, "code", codeFiles[p][s])
    BY <2>1, Zenon
  <2>3. PICK q \in S : \E t \in DOMAIN codeFiles[q] : y = Node(q, t, "code", codeFiles[q][t])
    BY <1>4, Zenon
  <2>4. PICK t \in DOMAIN codeFiles[q] : y = Node(q, t, "code", codeFiles[q][t])
    BY <2>3, Zenon
  <2>5. Key(x) = <<p, <<s, "">>, "code">> /\ Key(y) = <<q, <<t, "">>, "code">>
    BY <2>2, <2>4, NodeKey, Zenon
  <2>6. <<p, <<s, "">>, "code">> = <<q, <<t, "">>, "code">>
    BY <1>8, <2>5, Zenon
  <2>7. p = q /\ s = t
    BY <2>6, Zenon
  <2>. QED  BY <2>2, <2>4, <2>7, Zenon
<1>. QED  BY <1>6, <1>7, <1>8, Zenon DEF IsBatch

\* The batch of UpsertDocNodes.
DocNodes(paths) ==
    {Node(p, StemOf[p], "doc_note", 0) : p \in NotesIn(paths)} \cup
    UNION {{Node(TopicPath, t, "doc_topic", 0) : t \in noteFiles[p].tags} : p \in NotesIn(paths)}

\* Nodes of distinct notes and topics, none of them code.
LEMMA DocBatch ==
  ASSUME TreeOK, NEW paths
  PROVE  IsBatch(DocNodes(paths)) /\ \A x \in DocNodes(paths) : x.kind # "code"
<1>. DEFINE S == NotesIn(paths)
            f == [p \in S |-> Node(p, StemOf[p], "doc_note", 0)]
            F == [p \in S |-> {Node(TopicPath, t, "doc_topic", 0) : t \in noteFiles[p].tags}]
            A == {f[p] : p \in S}
            B == UNION {F[p] : p \in S}
<1>1. IsFiniteSet(S)
  <2>1. IsFiniteSet(DOMAIN noteFiles)
    BY DerivedAssumption, Zenon DEF TreeOK
  <2>2. S \in SUBSET DOMAIN noteFiles
    BY Zenon DEF NotesIn
  <2>. HIDE DEF S
  <2>. QED  BY <2>1, <2>2, FS_Subset, Zenon
<1>2. DocNodes(paths) = A \cup B
  BY Zenon DEF DocNodes
<1>3. ASSUME NEW p \in S PROVE IsFiniteSet(F[p])
  <2>. DEFINE D == noteFiles[p].tags
              g == [t \in D |-> Node(TopicPath, t, "doc_topic", 0)]
  <2>1. IsFiniteSet(D)
    BY DerivedAssumption, Zenon DEF TreeOK, NotesIn
  <2>2. F[p] = {g[t] : t \in D}
    BY Zenon
  <2>3. g = [t \in D |-> g[t]]
    BY Zenon
  <2>. HIDE DEF g, D, F
  <2>4. IsFiniteSet({g[t] : t \in D})
    BY <2>1, <2>3, FiniteRange, Zenon
  <2>. QED  BY <2>2, <2>4, Zenon
<1>4. (\A x \in A : \E p : x = Node(p, StemOf[p], "doc_note", 0)) /\ \A x \in B : \E t : x = Node(TopicPath, t, "doc_topic", 0)
  BY Zenon
<1>5. F = [p \in S |-> F[p]] /\ f = [p \in S |-> f[p]]
  BY Zenon
<1>. HIDE DEF S, F, f
<1>6. IsFiniteSet(A) /\ IsFiniteSet(B)
  <2>1. IsFiniteSet(A)
    BY <1>1, <1>5, FiniteRange, Zenon
  <2>2. \A p \in S : IsFiniteSet(F[p])
    BY <1>3, Zenon
  <2>3. F = [p \in S |-> F[p]]
    BY <1>5, Zenon
  <2>4. IsFiniteSet(B)
    BY <1>1, <2>2, <2>3, FiniteFamily DEF B
  <2>. QED  BY <2>1, <2>4, Zenon
<1>. HIDE DEF A, B
<1>7. IsFiniteSet(A \cup B)
  BY <1>6, FS_Union, Zenon
<1>8. ASSUME NEW x \in A \cup B
      PROVE  \E p, s, k : k \in {"doc_note", "doc_topic"} /\ x = Node(p, s, k, 0)
  <2>1. CASE x \in A
    BY <1>4, <2>1
  <2>2. CASE x \in B
    BY <1>4, <2>2, Zenon
  <2>. QED  BY <2>1, <2>2, Zenon
<1>9. ASSUME NEW x \in A \cup B
      PROVE  /\ IsNode(x) /\ x.kind # "code"
             /\ \E p, s, k : x = Node(p, s, k, 0) /\ Key(x) = <<p, <<s, "">>, k>>
  <2>1. PICK p, s, k : k \in {"doc_note", "doc_topic"} /\ x = Node(p, s, k, 0)
    BY <1>8, Zenon
  <2>2. IsNode(x)
    BY <2>1, NodeIsNode, Zenon
  <2>3. x.kind = k
    <3>1. x = Node(p, s, k, 0)
      BY <2>1, Zenon
    <3>2. Node(p, s, k, 0).kind = k
      BY NodeKind
    <3>. QED  BY <3>1, <3>2, Zenon
  <2>4. Key(x) = <<p, <<s, "">>, k>>
    BY <2>1, NodeKey, Zenon
  <2>5. k # "code"
    BY <2>1, Zenon
  <2>. QED  BY <2>1, <2>2, <2>3, <2>4, <2>5, Zenon
<1>10. ASSUME NEW x \in A \cup B, NEW y \in A \cup B, Key(x) = Key(y) PROVE x = y
  <2>2. PICK p, s, k : x = Node(p, s, k, 0) /\ Key(x) = <<p, <<s, "">>, k>>
    BY <1>9, Zenon
  <2>3. PICK q, t, l : y = Node(q, t, l, 0) /\ Key(y) = <<q, <<t, "">>, l>>
    BY <1>9, Zenon
  <2>4. <<p, <<s, "">>, k>> = <<q, <<t, "">>, l>>
    BY <1>10, <2>2, <2>3, Zenon
  <2>5. p = q /\ s = t /\ k = l
    BY <2>4, Zenon
  <2>. QED  BY <2>2, <2>3, <2>5, Zenon
<1>11. IsBatch(A \cup B)
  BY <1>7, <1>9, <1>10, Zenon DEF IsBatch
<1>. QED  BY <1>2, <1>9, <1>11, Zenon

\* A section before it has a number: its path, name and section are those asked for.
LEMMA SectionIs ==
  ASSUME NEW p, NEW section
  PROVE  IsNode(Section(p, section)) /\ Section(p, section).kind = "doc_section"
<1>1. Section(p, section) = [id |-> 0, path |-> p, name |-> StemOf[p], section |-> section, kind |-> "doc_section", text |-> 0]
  <2>. DEFINE n == Node(p, StemOf[p], "doc_section", 0)
  <2>1. n = [id |-> 0, path |-> p, name |-> StemOf[p], section |-> "", kind |-> "doc_section", text |-> 0]
    BY Zenon DEF Node
  <2>2. Section(p, section) = [n EXCEPT !.section = section]
    BY Zenon DEF Section
  <2>. HIDE DEF n
  <2>. QED  BY <2>1, <2>2, Zenon
<1>. QED  BY <1>1 DEF IsNode

\* Sections with one key are one.
LEMMA SectionKey ==
  ASSUME NEW p, NEW section, NEW q, NEW other, Key(Section(p, section)) = Key(Section(q, other))
  PROVE  Section(p, section) = Section(q, other)
<1>1. ASSUME NEW a, NEW b PROVE Key(Section(a, b)) = <<a, <<StemOf[a], b>>, "doc_section">>
  <2>. DEFINE n == Node(a, StemOf[a], "doc_section", 0)
              m == [n EXCEPT !.section = b]
  <2>1. n = [id |-> 0, path |-> a, name |-> StemOf[a], section |-> "", kind |-> "doc_section", text |-> 0]
    BY Zenon DEF Node
  <2>. HIDE DEF n
  <2>2. m.path = a /\ m.name = StemOf[a] /\ m.section = b /\ m.kind = "doc_section"
    BY <2>1, Zenon
  <2>3. Section(a, b) = m
    BY Zenon DEF Section, n
  <2>. HIDE DEF m
  <2>. QED  BY <2>2, <2>3, Zenon DEF Key, Symbol
<1>2. <<p, <<StemOf[p], section>>, "doc_section">> = <<q, <<StemOf[q], other>>, "doc_section">>
  BY <1>1, Zenon
<1>3. p = q /\ section = other
  BY <1>2, Zenon
<1>. QED  BY <1>3, Zenon

\* The links between finitely many notes are finitely many.
LEMMA LinksFinite ==
  ASSUME TreeOK, NEW d, IsFiniteSet(d.nodes)
  PROVE  IsFiniteSet(DocLinks(d))
<1>. DEFINE S == DocNotes(d)
            P(n) == {x \in noteFiles[n.path].links \X (S \ {n}) : x[2].name = x[1].target}
            F == [n \in S |-> {[from |-> n, to |-> x[2], section |-> x[1].section] : x \in P(n)}]
<1>1. IsFiniteSet(S) /\ \A n \in S : n.path \in DOMAIN NoteFiles
  <2>1. S \in SUBSET d.nodes
    BY Zenon DEF DocNotes
  <2>2. \A n \in S : n.path \in DOMAIN NoteFiles
    BY Zenon DEF DocNotes, NotesIn, TreeOK
  <2>. HIDE DEF S
  <2>. QED  BY <2>1, <2>2, FS_Subset, Zenon
<1>2. ASSUME NEW n \in S PROVE IsFiniteSet(P(n))
  <2>. DEFINE L == noteFiles[n.path].links
              O == S \ {n}
  <2>1. IsFiniteSet(L)
    BY <1>1, DerivedAssumption, Zenon DEF TreeOK
  <2>2. IsFiniteSet(O)
    BY <1>1, FS_RemoveElement, Zenon
  <2>3. P(n) \in SUBSET (L \X O)
    BY Zenon
  <2>. HIDE DEF L, O, P
  <2>4. IsFiniteSet(L \X O)
    BY <2>1, <2>2, FS_Product, Zenon
  <2>. QED  BY <2>3, <2>4, FS_Subset, Zenon
<1>3. ASSUME NEW n \in S PROVE IsFiniteSet(F[n])
  <2>. DEFINE D == P(n)
              f == [x \in D |-> [from |-> n, to |-> x[2], section |-> x[1].section]]
  <2>1. F[n] = {f[x] : x \in D}
    BY Zenon
  <2>2. f = [x \in D |-> f[x]]
    BY Zenon
  <2>3. IsFiniteSet(D)
    BY <1>2, Zenon
  <2>. HIDE DEF f, D, F
  <2>4. IsFiniteSet({f[x] : x \in D})
    BY <2>2, <2>3, FiniteRange, Zenon
  <2>. QED  BY <2>1, <2>4, Zenon
<1>4. DocLinks(d) = UNION {F[n] : n \in S}
  <2>. DEFINE G(n) == {[from |-> n, to |-> x[2], section |-> x[1].section] : x \in P(n)}
  <2>1. DocLinks(d) = UNION {G(n) : n \in S}
    BY Zenon DEF DocLinks
  <2>2. \A n \in S : F[n] = G(n)
    BY Zenon
  <2>. HIDE DEF F, G, S
  <2>3. {F[n] : n \in S} = {G(n) : n \in S}
    BY <2>2, Zenon
  <2>. QED  BY <2>1, <2>3, Zenon
<1>5. F = [n \in S |-> F[n]]
  BY Zenon
<1>. HIDE DEF F, S
<1>6. IsFiniteSet(UNION {F[n] : n \in S})
  BY <1>1, <1>3, <1>5, FiniteFamily
<1>. QED  BY <1>4, <1>6, Zenon

\* Distinct sections, none of them code.
LEMMA SectionBatch ==
  ASSUME NEW links, IsFiniteSet(links)
  PROVE  IsBatch(Sections(links)) /\ \A x \in Sections(links) : x.kind # "code"
<1>. DEFINE D == Narrow(links)
            f == [l \in D |-> Section(l.to.path, l.section)]
<1>1. IsFiniteSet(D)
  <2>1. D \in SUBSET links
    BY Zenon DEF Narrow
  <2>. HIDE DEF D
  <2>. QED  BY <2>1, FS_Subset, Zenon
<1>2. Sections(links) = {f[l] : l \in D}
  BY Zenon DEF Sections
<1>3. f = [l \in D |-> f[l]]
  BY Zenon
<1>4. ASSUME NEW x \in Sections(links) PROVE \E p, s : x = Section(p, s)
  BY Zenon DEF Sections
<1>. HIDE DEF D, f
<1>5. IsFiniteSet({f[l] : l \in D})
  BY <1>1, <1>3, FiniteRange, Zenon
<1>6. ASSUME NEW x \in Sections(links) PROVE IsNode(x) /\ x.kind # "code"
  <2>1. PICK p, s : x = Section(p, s)
    BY <1>4, Zenon
  <2>2. IsNode(x) /\ x.kind = "doc_section"
    BY <2>1, SectionIs, Zenon
  <2>. QED  BY <2>2, Zenon
<1>7. ASSUME NEW x \in Sections(links), NEW y \in Sections(links), Key(x) = Key(y) PROVE x = y
  <2>1. PICK p, s : x = Section(p, s)
    BY <1>4, Zenon
  <2>2. PICK q, t : y = Section(q, t)
    BY <1>4, Zenon
  <2>3. Key(Section(p, s)) = Key(Section(q, t))
    BY <1>7, <2>1, <2>2, Zenon
  <2>4. Section(p, s) = Section(q, t)
    BY <2>3, SectionKey
  <2>. QED  BY <2>1, <2>2, <2>4, Zenon
<1>. QED  BY <1>2, <1>5, <1>6, <1>7, Zenon DEF IsBatch

-----------------------------------------------------------------------------
(* Passes, and everything else.                                            *)

\* Notes, topics, sections and edges leave the rows of code alone.
LEMMA DocsIndexed ==
  ASSUME TreeOK, NEW d, NEW tw, NEW fl, NEW paths, Indexed(d, tw, fl, paths), NEW some
  PROVE  Indexed(SweepTopics(UpsertDocEdges(UpsertDocNodes(d, some))), tw, fl, paths)
<1>. DEFINE a == UpsertDocNodes(d, some)
            b == Upsert(a, Sections(DocLinks(a)), TRUE)
            c == UpsertDocEdges(a)
<1>1. Indexed(a, tw, fl, paths)
  <2>1. a = Upsert(d, DocNodes(some), TRUE)
    BY Zenon DEF UpsertDocNodes, DocNodes
  <2>2. IsBatch(DocNodes(some)) /\ \A x \in DocNodes(some) : x.kind = "code" => x.path \in paths
    BY DocBatch, Zenon
  <2>3. Indexed(Upsert(d, DocNodes(some), TRUE), tw, fl, paths)
    BY <2>2, UpsertIndexed, Zenon
  <2>. QED  BY <2>1, <2>3, Zenon
<1>. HIDE DEF a
<1>2. Indexed(b, tw, fl, paths)
  <2>1. IsFiniteSet(a.nodes)
    BY <1>1, Zenon DEF Indexed, Numbered
  <2>2. IsFiniteSet(DocLinks(a))
    BY <2>1, LinksFinite, Zenon
  <2>3. IsBatch(Sections(DocLinks(a))) /\ \A x \in Sections(DocLinks(a)) : x.kind = "code" => x.path \in paths
    BY <2>2, SectionBatch, Zenon
  <2>. QED  BY <1>1, <2>3, UpsertIndexed, Zenon
<1>3. PICK rows : c = [b EXCEPT !.edges = rows]
  BY Zenon DEF UpsertDocEdges
<1>. HIDE DEF b, c
<1>4. Indexed([b EXCEPT !.edges = rows], tw, fl, paths)
  BY <1>2, EdgesIndexed, Zenon
<1>5. Indexed(c, tw, fl, paths)
  BY <1>3, <1>4, Zenon
<1>. DEFINE gone == {n \in c.nodes : n.kind = "doc_topic" /\ \A e \in c.edges : e.to # n.id}
<1>6. SweepTopics(c) = Purge(c, gone) /\ gone \subseteq c.nodes
  BY Zenon DEF SweepTopics
<1>. HIDE DEF gone
<1>7. Indexed(Purge(c, gone), tw, fl, paths)
  BY <1>5, <1>6, PurgeIndexed, Zenon
<1>. QED  BY <1>6, <1>7, Zenon DEF a, c

\* Embedding leaves the other rows alone.
LEMMA EmbedIndexed ==
  ASSUME NEW d, NEW tw, NEW fl, NEW paths, Indexed(d, tw, fl, paths), NEW some
  PROVE  Indexed(EmbedRows(d, some), tw, fl, paths) /\ Indexed(PurgeVectors(d, some), tw, fl, paths)
<1>1. PICK rows : EmbedRows(d, some) = [d EXCEPT !.vec = rows]
  BY Zenon DEF EmbedRows
<1>2. PICK rest : PurgeVectors(d, some) = [d EXCEPT !.vec = rest]
  BY Zenon DEF PurgeVectors
<1>3. Indexed([d EXCEPT !.vec = rows], tw, fl, paths) /\ Indexed([d EXCEPT !.vec = rest], tw, fl, paths)
  BY VecIndexed, Zenon
<1>. QED  BY <1>1, <1>2, <1>3, Zenon

\* A full pass makes every row anew.
LEMMA FullPassIndexed ==
  ASSUME TreeOK, exclude \subseteq once
  PROVE  Indexed(FullPass, TRUE, TRUE, once)
<1>. DEFINE a == Upsert(EmptyDb, CodeNodes(Files), FALSE)
            b == SweepTopics(UpsertDocEdges(UpsertDocNodes(a, Files)))
            all == Files \cup {TopicPath}
            c == EmbedRows(b, all)
<1>1. Indexed(EmptyDb, TRUE, TRUE, Files)
  <2>1. IsDb(EmptyDb) /\ EmptyDb.nodes = {} /\ EmptyDb.fts = {}
    BY Zenon DEF EmptyDb, IsDb
  <2>. QED  BY <2>1, FS_EmptySet, Zenon DEF Indexed, Numbered, Twinned, Filled
<1>2. Indexed(a, TRUE, TRUE, Files)
  <2>1. IsBatch(CodeNodes(Files)) /\ \A x \in CodeNodes(Files) : x.kind = "code" => x.path \in Files
    BY CodeBatch, Zenon
  <2>. QED  BY <1>1, <2>1, UpsertIndexed, Zenon
<1>. HIDE DEF a
<1>3. Indexed(b, TRUE, TRUE, Files)
  BY <1>2, DocsIndexed, Zenon
<1>. HIDE DEF b
<1>4. Indexed(c, TRUE, TRUE, Files)
  BY <1>3, EmbedIndexed, Zenon
<1>5. Files \subseteq once \cup all
  BY Zenon
<1>6. FullPass = FillText(c, all)
  BY Zenon DEF FullPass, a, b
<1>. HIDE DEF c, all
<1>7. Indexed(FillText(c, all), TRUE, TRUE, once)
  BY <1>4, <1>5, FillIndexed, Zenon
<1>. QED  BY <1>6, <1>7, Zenon

\* An incremental pass keeps what there is, and fills in what it changed.
LEMMA IncrementalIndexed ==
  ASSUME TreeOK, exclude \subseteq once, NEW tw, NEW fl, Indexed(db, tw, fl, once), NEW reuse
  PROVE  Indexed(IncrementalPass(reuse), tw, fl, once)
<1>. DEFINE touched == Ids({n \in db.nodes : n.path \in changed})
            d0 == [db EXCEPT !.edges = {e \in @ : e.from \notin touched /\ e.to \notin touched}]
            d1 == PurgeVectors(d0, changed)
            d2 == Upsert(d1, CodeNodes(changed), reuse)
            gone == {n \in d2.nodes : n.path \in changed /\ [n EXCEPT !.id = 0] \notin CodeNodes(changed)}
            d3 == Purge(d2, gone)
            d4 == EmbedRows(d3, changed)
            d5 == FillText(d4, changed)
            wide == once \cup changed
<1>1. Indexed(d0, tw, fl, once)
  <2>1. PICK rows : d0 = [db EXCEPT !.edges = rows]
    BY Zenon
  <2>. HIDE DEF d0
  <2>2. Indexed([db EXCEPT !.edges = rows], tw, fl, once)
    BY EdgesIndexed, Zenon
  <2>. QED  BY <2>1, <2>2, Zenon
<1>. HIDE DEF d0
<1>2. Indexed(d1, tw, fl, once)
  BY <1>1, EmbedIndexed, Zenon
<1>. HIDE DEF d1
<1>3. Indexed(d1, tw, fl, wide)
  BY <1>2, MoreIndexed, Zenon
<1>4. Indexed(d2, tw, fl, wide)
  <2>1. IsBatch(CodeNodes(changed)) /\ \A x \in CodeNodes(changed) : x.kind = "code" => x.path \in wide
    BY CodeBatch, Zenon
  <2>. HIDE DEF wide
  <2>. QED  BY <1>3, <2>1, UpsertIndexed, Zenon
<1>. HIDE DEF d2
<1>5. gone \subseteq d2.nodes
  BY Zenon
<1>6. wide \subseteq once \cup changed
  BY Zenon
<1>7. IncrementalPass(reuse) = SweepTopics(UpsertDocEdges(UpsertDocNodes(d5, changed)))
  BY Zenon DEF IncrementalPass, d0, d1, d2
<1>. HIDE DEF gone, wide
<1>8. Indexed(d3, tw, fl, wide)
  BY <1>4, <1>5, PurgeIndexed, Zenon
<1>. HIDE DEF d3
<1>9. Indexed(d4, tw, fl, wide)
  BY <1>8, EmbedIndexed, Zenon
<1>. HIDE DEF d4
<1>10. Indexed(d5, tw, fl, once)
  BY <1>6, <1>9, FillIndexed, Zenon
<1>. HIDE DEF d5
<1>11. Indexed(SweepTopics(UpsertDocEdges(UpsertDocNodes(d5, changed))), tw, fl, once)
  BY <1>10, DocsIndexed, Zenon
<1>. QED  BY <1>7, <1>11, Zenon

\* What is due of the database: twins unless an upgrade was cut short, bodies unless
\* the table was upgraded at all.
NamesDue == opening = "no" /\ "names" \notin lost
BodiesDue == opening = "no" /\ lost = {}
DerivedInv == TreeOK /\ exclude \subseteq once /\ Indexed(db, NamesDue, BodiesDue, once)

\* There is no row before the first pass.
LEMMA DerivedStart == DerivedInit => DerivedInv
<1>. SUFFICES ASSUME DerivedInit PROVE DerivedInv
  BY Zenon
<1>1. TreeOK /\ exclude \subseteq once
  BY Zenon DEF DerivedInit, TreeOK
<1>2. db = [EmptyDb EXCEPT !.shape = "absent"]
  BY Zenon DEF DerivedInit
<1>3. Indexed(EmptyDb, NamesDue, BodiesDue, once)
  <2>1. IsDb(EmptyDb) /\ EmptyDb.nodes = {} /\ EmptyDb.fts = {}
    BY Zenon DEF EmptyDb, IsDb
  <2>. QED  BY <2>1, FS_EmptySet, Zenon DEF Indexed, Numbered, Twinned, Filled
<1>4. Indexed([EmptyDb EXCEPT !.shape = "absent"], NamesDue, BodiesDue, once)
  BY <1>3, ShapeIndexed, Zenon
<1>. QED  BY <1>1, <1>2, <1>4, Zenon DEF DerivedInv

\* A pass leaves what is due.
LEMMA IndexStep == ASSUME DerivedInv, Index PROVE Indexed(db', NamesDue', BodiesDue', once)
<1>1. TreeOK /\ exclude \subseteq once /\ Indexed(db, NamesDue, BodiesDue, once)
  BY Zenon DEF DerivedInv
<1>2. Indexed(FullPass, TRUE, TRUE, once)
  BY <1>1, FullPassIndexed, Zenon
<1>3. Indexed(FullPass, NamesDue', BodiesDue', once)
  BY <1>2, Zenon DEF Indexed
<1>4. CASE db' = FullPass
  BY <1>3, <1>4, Zenon
<1>5. CASE db' = [FullPass EXCEPT !.shape = "old"]
  <2>1. Indexed([FullPass EXCEPT !.shape = "old"], NamesDue', BodiesDue', once)
    BY <1>3, ShapeIndexed, Zenon
  <2>. QED  BY <1>5, <2>1, Zenon
<1>6. CASE UNCHANGED lost /\ \E reuse \in BOOLEAN : db' = IncrementalPass(reuse)
  <2>1. PICK reuse \in BOOLEAN : db' = IncrementalPass(reuse)
    BY <1>6, Zenon
  <2>2. opening' = opening /\ lost' = lost
    BY <1>6, Zenon DEF Index
  <2>3. NamesDue' = NamesDue /\ BodiesDue' = BodiesDue
    BY <2>2, Zenon DEF NamesDue, BodiesDue
  <2>4. Indexed(IncrementalPass(reuse), NamesDue, BodiesDue, once)
    BY <1>1, IncrementalIndexed, Zenon
  <2>. QED  BY <2>1, <2>3, <2>4, Zenon
<1>. QED  BY <1>4, <1>5, <1>6, Zenon DEF Index

\* The table is dropped and made again; the nodes stay.
LEMMA OpenStep ==
  ASSUME DerivedInv, OpenDrop \/ OpenCreate \/ OpenFill \/ OpenDies \/ OpenMissing
  PROVE  Indexed(db', NamesDue', BodiesDue', once)
<1>1. Indexed(db, NamesDue, BodiesDue, once) /\ IsDb(db) /\ Numbered(db.nodes)
  BY Zenon DEF DerivedInv, Indexed
<1>2. Indexed(db, FALSE, FALSE, once)
  BY <1>1, Zenon DEF Indexed
<1>3. CASE OpenDrop
  <2>1. db' = [db EXCEPT !.shape = "none", !.fts = {}] /\ opening' = "create"
    BY <1>3, Zenon DEF OpenDrop
  <2>. DEFINE e == [db EXCEPT !.shape = "none"]
  <2>2. db' = [e EXCEPT !.fts = {}]
    BY <2>1, Zenon
  <2>3. Indexed(e, FALSE, FALSE, once)
    BY <1>2, ShapeIndexed, Zenon
  <2>4. e = [shape |-> "none", nodes |-> db.nodes, edges |-> db.edges, fts |-> db.fts, vec |-> db.vec]
    BY <1>1, WithColumn, Zenon
  <2>. HIDE DEF e
  <2>5. IsDb(e)
    BY <2>3, Zenon DEF Indexed
  <2>6. [e EXCEPT !.fts = {}] = [shape |-> e.shape, nodes |-> e.nodes, edges |-> e.edges, fts |-> {}, vec |-> e.vec]
    BY <2>5, WithColumn, Zenon
  <2>7. e.nodes = db.nodes
    BY <2>4, Zenon
  <2>. DEFINE g == db'
  <2>8. g = [shape |-> e.shape, nodes |-> e.nodes, edges |-> e.edges, fts |-> {}, vec |-> e.vec]
    BY <2>2, <2>6, Zenon
  <2>. HIDE DEF g
  <2>9. IsDb(g) /\ g.nodes = e.nodes
    BY <2>8, Zenon DEF IsDb
  <2>10. ~NamesDue' /\ ~BodiesDue'
    BY <2>1, Zenon DEF NamesDue, BodiesDue
  <2>11. Indexed(g, NamesDue', BodiesDue', once)
    BY <1>1, <2>7, <2>9, <2>10, Zenon DEF Indexed
  <2>. QED  BY <2>11, Zenon DEF g
<1>4. CASE OpenCreate
  <2>1. db' = [db EXCEPT !.shape = "new"] /\ opening' = "fill"
    BY <1>4, Zenon DEF OpenCreate
  <2>2. ~NamesDue' /\ ~BodiesDue'
    BY <2>1, Zenon DEF NamesDue, BodiesDue
  <2>3. Indexed([db EXCEPT !.shape = "new"], FALSE, FALSE, once)
    BY <1>2, ShapeIndexed, Zenon
  <2>4. Indexed(db', FALSE, FALSE, once)
    BY <2>1, <2>3, Zenon
  <2>. QED  BY <2>2, <2>4, Zenon DEF Indexed
<1>5. CASE OpenFill
  <2>. DEFINE texts == {TextRow(n, <<>>) : n \in db.nodes}
              g == db'
  <2>1. g = [db EXCEPT !.fts = texts] /\ "bodies" \in lost'
    BY <1>5, Zenon DEF OpenFill
  <2>2. ASSUME NEW n \in db.nodes PROVE TextRow(n, <<>>).id = n.id /\ TextRow(n, <<>>).name = Symbol(n)
    BY Zenon DEF TextRow
  <2>3. (\A r \in texts : \E n \in db.nodes : r = TextRow(n, <<>>)) /\ \A n \in db.nodes : TextRow(n, <<>>) \in texts
    BY Zenon
  <2>. HIDE DEF texts, g
  <2>4. g = [shape |-> db.shape, nodes |-> db.nodes, edges |-> db.edges, fts |-> texts, vec |-> db.vec]
    BY <1>1, <2>1, WithColumn, Zenon
  <2>5. IsDb(g) /\ g.nodes = db.nodes /\ g.fts = texts
    BY <2>4, Zenon DEF IsDb
  <2>6. \A r \in texts : \E n \in db.nodes : r.id = n.id /\ r.name = Symbol(n)
    BY <2>2, <2>3, Zenon
  <2>7. ASSUME NEW r \in texts, NEW s \in texts, r.id = s.id PROVE r = s
    <3>1. PICK m \in db.nodes : r = TextRow(m, <<>>)
      BY <2>3, Zenon
    <3>2. PICK n \in db.nodes : s = TextRow(n, <<>>)
      BY <2>3, Zenon
    <3>3. m = n
      BY <1>1, <2>2, <2>7, <3>1, <3>2, Zenon DEF Numbered
    <3>. QED  BY <3>1, <3>2, <3>3, Zenon
  <2>8. \A n \in db.nodes : \E r \in texts : r.id = n.id
    BY <2>2, <2>3, Zenon
  <2>9. Twinned(db.nodes, texts)
    BY <1>1, <2>6, <2>7, <2>8, TextsTwinned, Zenon
  <2>10. ~BodiesDue'
    BY <2>1, Zenon DEF BodiesDue
  <2>11. Indexed(g, NamesDue', BodiesDue', once)
    BY <1>1, <2>5, <2>9, <2>10, Zenon DEF Indexed
  <2>. QED  BY <2>11, Zenon DEF g
<1>6. CASE OpenDies
  <2>1. db' = db /\ "names" \in lost'
    BY <1>6, Zenon DEF OpenDies
  <2>2. ~NamesDue' /\ ~BodiesDue'
    BY <2>1, Zenon DEF NamesDue, BodiesDue
  <2>. QED  BY <1>2, <2>1, <2>2, Zenon DEF Indexed
<1>7. CASE OpenMissing
  <2>1. db' = [db EXCEPT !.shape = "new"] /\ opening' = opening /\ lost' = lost
    BY <1>7, Zenon DEF OpenMissing
  <2>2. NamesDue' = NamesDue /\ BodiesDue' = BodiesDue
    BY <2>1, Zenon DEF NamesDue, BodiesDue
  <2>3. Indexed([db EXCEPT !.shape = "new"], NamesDue, BodiesDue, once)
    BY <1>1, ShapeIndexed, Zenon
  <2>. QED  BY <2>1, <2>2, <2>3, Zenon
<1>. QED  BY <1>3, <1>4, <1>5, <1>6, <1>7, Zenon

\* Every step keeps the rows of nodes and full text together.
LEMMA DerivedKept == ASSUME DerivedInv, [DerivedNext]_derivedVars PROVE DerivedInv'
<1>0. TreeOK /\ exclude \subseteq once /\ Indexed(db, NamesDue, BodiesDue, once)
  BY Zenon DEF DerivedInv
<1>1. CASE Index \/ OpenDrop \/ OpenCreate \/ OpenFill \/ OpenDies \/ OpenMissing
  <2>1. Indexed(db', NamesDue', BodiesDue', once)
    BY <1>1, IndexStep, OpenStep, Zenon
  <2>2. codeFiles' = codeFiles /\ noteFiles' = noteFiles /\ exclude' = exclude /\ once' = once
    BY <1>1, Zenon DEF Index, OpenDrop, OpenCreate, OpenFill, OpenDies, OpenMissing
  <2>. QED  BY <1>0, <2>1, <2>2, Zenon DEF DerivedInv, TreeOK
<1>2. CASE Edit
  <2>1. db' = db /\ exclude' = exclude /\ once' = once /\ opening' = opening /\ lost' = lost
    BY <1>2, Zenon DEF Edit
  <2>2. NamesDue' = NamesDue /\ BodiesDue' = BodiesDue
    BY <2>1, Zenon DEF NamesDue, BodiesDue
  <2>3. TreeOK'
    <3>1. CASE \E p \in DOMAIN CodeFiles : \E c \in CodeFiles[p] : codeFiles' = [codeFiles EXCEPT ![p] = c] /\ UNCHANGED noteFiles
      BY <1>0, <3>1, Zenon DEF TreeOK
    <3>2. CASE \E p \in DOMAIN NoteFiles : \E c \in NoteFiles[p] : noteFiles' = [noteFiles EXCEPT ![p] = c] /\ UNCHANGED codeFiles
      BY <1>0, <3>2, Zenon DEF TreeOK
    <3>. QED  BY <1>2, <3>1, <3>2, Zenon DEF Edit
  <2>. QED  BY <1>0, <2>1, <2>2, <2>3, Zenon DEF DerivedInv
<1>3. CASE SnapshotForPush \/ UNCHANGED derivedVars
  <2>1. /\ db' = db /\ exclude' = exclude /\ once' = once /\ opening' = opening /\ lost' = lost
        /\ codeFiles' = codeFiles /\ noteFiles' = noteFiles
    BY <1>3, Zenon DEF SnapshotForPush, derivedVars
  <2>2. NamesDue' = NamesDue /\ BodiesDue' = BodiesDue
    BY <2>1, Zenon DEF NamesDue, BodiesDue
  <2>. QED  BY <1>0, <2>1, <2>2, Zenon DEF DerivedInv, TreeOK
<1>4. ASSUME NEW paths, SetExclude(paths) PROVE DerivedInv'
  <2>1. /\ db' = db /\ exclude' = paths /\ once' = once \cup paths /\ opening' = opening /\ lost' = lost
        /\ codeFiles' = codeFiles /\ noteFiles' = noteFiles
    BY <1>4, Zenon DEF SetExclude
  <2>2. NamesDue' = NamesDue /\ BodiesDue' = BodiesDue
    BY <2>1, Zenon DEF NamesDue, BodiesDue
  <2>3. Indexed(db, NamesDue, BodiesDue, once')
    BY <1>0, <2>1, MoreIndexed, Zenon
  <2>. QED  BY <1>0, <2>1, <2>2, <2>3, Zenon DEF DerivedInv, TreeOK
<1>. QED  BY <1>1, <1>2, <1>3, <1>4, Zenon DEF DerivedNext

\* Twins are equally many, and have names and bodies in common.
LEMMA TwinsMatch == DerivedInv => RowsMatchNodes
<1>. SUFFICES ASSUME DerivedInv, opening = "no", "names" \notin lost
              PROVE  /\ Cardinality(db.fts) = Cardinality(db.nodes)
                     /\ \A n \in db.nodes : \E r \in db.fts :
                          /\ r.id = n.id /\ r.name = Symbol(n)
                          /\ n.kind = "code" /\ lost = {} /\ n.path \notin once => r.body = Chunk(n)
  BY Zenon DEF RowsMatchNodes
<1>1. Numbered(db.nodes) /\ Twinned(db.nodes, db.fts) /\ (lost = {} => Filled(db.nodes, db.fts, once))
  BY Zenon DEF DerivedInv, Indexed, NamesDue, BodiesDue
<1>. DEFINE N == db.nodes
            T == db.fts
            f == [n \in N |-> CHOOSE r \in T : r.id = n.id]
<1>2. \A n \in N : f[n] \in T /\ f[n].id = n.id
  BY <1>1, Zenon DEF Twinned
<1>3. f \in [N -> T]
  BY <1>2, Zenon
<1>. HIDE DEF f
<1>4. ASSUME NEW m \in N, NEW n \in N, f[m] = f[n] PROVE m = n
  <2>1. m.id = n.id
    BY <1>2, <1>4, Zenon
  <2>. QED  BY <1>1, <2>1, Zenon DEF Numbered
<1>5. ASSUME NEW r \in T PROVE \E n \in N : f[n] = r
  <2>1. PICK n \in N : n.id = r.id
    BY <1>1, Zenon DEF Twinned
  <2>2. f[n] \in T /\ f[n].id = r.id
    BY <1>2, <2>1, Zenon
  <2>3. f[n] = r
    BY <1>1, <2>2, Zenon DEF Twinned
  <2>. QED  BY <2>3, Zenon
<1>6. ExistsBijection(N, T)
  <2>. HIDE DEF N, T
  <2>1. f \in Injection(N, T)
    <3>1. DOMAIN f = N
      BY <1>3, Zenon
    <3>. QED  BY <1>3, <1>4, <3>1, Zenon DEF Injection, IsInjective
  <2>2. f \in Surjection(N, T)
    BY <1>3, <1>5, Zenon DEF Surjection
  <2>. QED  BY <2>1, <2>2, Zenon DEF ExistsBijection, Bijection
<1>7. Cardinality(T) = Cardinality(N)
  BY <1>1, <1>6, FS_Bijection, Zenon DEF Numbered
<1>8. ASSUME NEW n \in N
      PROVE  \E r \in T : /\ r.id = n.id /\ r.name = Symbol(n)
                          /\ n.kind = "code" /\ lost = {} /\ n.path \notin once => r.body = Chunk(n)
  BY <1>1, Zenon DEF Twinned, Filled
<1>. QED  BY <1>7, <1>8, Zenon

\* In any workspace, whatever is edited, excluded, indexed in full or in part, pushed
\* and upgraded, the full-text rows are those of the nodes, with the bodies of code
\* as it was indexed, but for an upgrade that was cut short.
THEOREM RowsAlwaysMatch == DerivedSpec => []RowsMatchNodes
<1>1. DerivedInit => DerivedInv
  BY DerivedStart, Zenon
<1>2. DerivedInv /\ [DerivedNext]_derivedVars => DerivedInv'
  BY DerivedKept, Zenon
<1>3. DerivedInv => RowsMatchNodes
  BY TwinsMatch, Zenon
<1>. QED  BY <1>1, <1>2, <1>3, PTL DEF DerivedSpec
=============================================================================
